---------------------------- MODULE IfacesFileProofs ---------------------------
(***************************************************************************)
(* Proofs about the calls of ifaces_file_delete_ifaces, for any files: the *)
(* scan of prepare_lines, which looks at each line once and remembers one  *)
(* interface, comments out the lines that Doomed names, and no kill or     *)
(* failure leaves a file in between but the one that is being written.     *)
(***************************************************************************)
EXTENDS IfacesFile, SequenceTheorems, TLAPS

(* The file is scanned up to line n.                                       *)
Scanned ==
    at \in {"lines", "open", "write"} =>
        /\ path \notin todo
        /\ n \in 1 .. Len(given[path]) + 1
        /\ off = {k \in 1 .. n - 1 : Doomed(given[path], k)}
        /\ at = "lines" => (inside # Nobody <=> InStanza(given[path], n))
        /\ at # "lines" => n = Len(given[path]) + 1
        /\ at # "write" => files[path] = given[path]

(* The files of this call that the loop is done with are rewritten.        *)
Progress ==
    /\ at # "idle" =>
          /\ ended = "none"
          /\ \A p \in todo : files[p] = given[p]
          /\ \A p \in Included(given) \ todo :
                (at # "next" /\ p = path) \/ files[p] = Rewritten(given[p])
    /\ \A p \in Path :
          \/ files[p] \in {given[p], Rewritten(given[p])}
          \/ at \in {"idle", "write"} /\ p = path /\ files[p] = <<>>
    /\ ended = "ok" =>
          \A p \in Included(given) : files[p] = Rewritten(given[p])

IfacesInv == IfacesTypeOK /\ Scanned /\ Progress

-----------------------------------------------------------------------------

LEMMA RewrittenType ==
    ASSUME NEW s \in Seq(Line)
    PROVE  Rewritten(s) \in Seq(Line)
  <1>1. Comment \in Line
    BY DEF Comment, Line, Words
  <1>2. DOMAIN s = 1 .. Len(s) /\ Len(s) \in Nat
    BY LenProperties
  <1>3. \A k \in DOMAIN s : s[k] \in Line
    BY <1>2, ElementOfSeq
  <1>4. Rewritten(s) \in [1 .. Len(s) -> Line]
    BY <1>1, <1>2, <1>3 DEF Rewritten
  <1> QED
    BY <1>2, <1>4

(* A file of which no line goes is left alone.                             *)
LEMMA RewrittenSame ==
    ASSUME NEW s \in Seq(Line), \A k \in 1 .. Len(s) : ~Doomed(s, k)
    PROVE  Rewritten(s) = s
  <1>1. DOMAIN s = 1 .. Len(s) /\ s = [k \in DOMAIN s |-> s[k]]
    BY LenProperties
  <1>2. Rewritten(s) = [k \in DOMAIN s |-> s[k]]
    BY <1>1 DEF Rewritten
  <1> QED
    BY <1>1, <1>2

(* Whether the next line is in a deleted stanza, from this one.            *)
LEMMA StanzaStep ==
    ASSUME NEW s \in Seq(Line), NEW k \in 1 .. Len(s)
    PROVE  InStanza(s, k + 1) <=>
              \/ s[k].word = "iface" /\ s[k].name \notin Skipped
              \/ InStanza(s, k) /\ ~Ends(s[k])
  <1>0. Len(s) \in Nat /\ k \in Nat
    BY LenProperties
  <1>1. ASSUME InStanza(s, k + 1)
        PROVE  \/ s[k].word = "iface" /\ s[k].name \notin Skipped
               \/ InStanza(s, k) /\ ~Ends(s[k])
    <2>1. PICK j \in 1 .. k : /\ s[j].word = "iface"
                              /\ s[j].name \notin Skipped
                              /\ \A m \in j + 1 .. k : ~Ends(s[m])
      BY <1>0, <1>1 DEF InStanza
    <2>2. CASE j = k
      BY <2>1, <2>2
    <2>3. CASE j # k
      <3>1. j \in 1 .. k - 1 /\ k \in j + 1 .. k
        BY <1>0, <2>1, <2>3
      <3>2. \A m \in j + 1 .. k - 1 : ~Ends(s[m])
        BY <1>0, <2>1, <3>1
      <3> QED
        BY <2>1, <3>1, <3>2 DEF InStanza
    <2> QED
      BY <2>2, <2>3
  <1>2. ASSUME s[k].word = "iface", s[k].name \notin Skipped
        PROVE  InStanza(s, k + 1)
    BY <1>0, <1>2 DEF InStanza
  <1>3. ASSUME InStanza(s, k), ~Ends(s[k])
        PROVE  InStanza(s, k + 1)
    <2>1. PICK j \in 1 .. k - 1 : /\ s[j].word = "iface"
                                  /\ s[j].name \notin Skipped
                                  /\ \A m \in j + 1 .. k - 1 : ~Ends(s[m])
      BY <1>3 DEF InStanza
    <2>2. \A m \in j + 1 .. (k + 1) - 1 : ~Ends(s[m])
      BY <1>0, <1>3, <2>1
    <2>3. j \in 1 .. (k + 1) - 1
      BY <1>0, <2>1
    <2> QED
      BY <2>1, <2>2, <2>3 DEF InStanza
  <1> QED
    BY <1>1, <1>2, <1>3

LEMMA NoStanzaAtFirst == \A s : ~InStanza(s, 1)
  BY DEF InStanza

-----------------------------------------------------------------------------

LEMMA IfacesInitInv == IfacesInit => IfacesInv
  BY IfacesAssumption
     DEF IfacesInit, IfacesInv, IfacesTypeOK, Scanned, Progress

LEMMA DeleteInv == IfacesInv /\ Delete => IfacesInv'
  BY IfacesAssumption
     DEF Delete, IfacesInv, IfacesTypeOK, Scanned, Progress, Included

LEMMA NextFileInv == ASSUME IfacesInv, NEW p \in Path, NextFile(p) PROVE IfacesInv'
  <1>1. Len(given[p]) \in Nat /\ given[p] \in Seq(Line)
    BY LenProperties DEF IfacesInv, IfacesTypeOK
  <1>2. IfacesTypeOK'
    BY DEF IfacesInv, IfacesTypeOK, NextFile
  <1>3. Scanned'
    BY <1>1, NoStanzaAtFirst
       DEF IfacesInv, IfacesTypeOK, Scanned, Progress, NextFile
  <1>4. Progress'
    BY DEF IfacesInv, IfacesTypeOK, Progress, NextFile, Included
  <1> QED
    BY <1>2, <1>3, <1>4 DEF IfacesInv

(* A line: it suffices that it is marked as Doomed says, and the next one  *)
(* found in a stanza or not as InStanza says.                              *)
LEMMA AdvanceInv ==
    ASSUME IfacesInv, NEW comments \in BOOLEAN, NEW stanza \in Iface \cup {Nobody},
           at = "lines", n \in DOMAIN given[path],
           Advance(comments, stanza), removed' \subseteq Iface,
           comments <=> Doomed(given[path], n),
           stanza # Nobody <=> InStanza(given[path], n + 1)
    PROVE  IfacesInv'
  <1> DEFINE s == given[path]
  <1>1. s \in Seq(Line) /\ Len(s) \in Nat /\ n \in 1 .. Len(s)
    BY LenProperties DEF IfacesInv, IfacesTypeOK
  <1>2. UNCHANGED <<files, at, given, todo, path, ended>>
    BY DEF Advance
  <1>3. n' = n + 1 /\ inside' = stanza
    BY DEF Advance
  <1>4. off' = {k \in 1 .. n : Doomed(s, k)}
    <2>1. off = {k \in 1 .. n - 1 : Doomed(s, k)}
      BY DEF IfacesInv, Scanned
    <2>2. CASE comments
      <3>1. off' = off \cup {n} /\ Doomed(s, n)
        BY <2>2 DEF Advance
      <3> QED
        BY <1>1, <2>1, <3>1
    <2>3. CASE ~comments
      <3>1. off' = off /\ ~Doomed(s, n)
        BY <2>3 DEF Advance
      <3> QED
        BY <1>1, <2>1, <3>1
    <2> QED
      BY <2>2, <2>3
  <1>5. IfacesTypeOK'
    BY <1>1, <1>2, <1>3, <1>4 DEF IfacesInv, IfacesTypeOK
  <1>6. Scanned'
    <2>1. n' \in 1 .. Len(s) + 1 /\ n' - 1 = n
      BY <1>1, <1>3
    <2> QED
      BY <1>2, <1>3, <1>4, <2>1 DEF IfacesInv, Scanned
  <1>7. Progress'
    BY <1>2 DEF IfacesInv, Progress, Included
  <1> QED
    BY <1>5, <1>6, <1>7 DEF IfacesInv

LEMMA LineInv ==
    ASSUME IfacesInv, \/ KeepComment \/ KeepDirective \/ KeepIface
                 \/ DeleteIface \/ DeleteAuto \/ OtherLine
    PROVE  IfacesInv'
  <1> DEFINE s == given[path]
  <1>1. at = "lines" /\ n \in DOMAIN s /\ line = s[n]
    BY DEF KeepComment, KeepDirective, KeepIface, DeleteIface, DeleteAuto,
           OtherLine, AtLine, line
  <1>2. s \in Seq(Line) /\ n \in 1 .. Len(s) /\ s[n] \in Line
    BY <1>1, LenProperties, ElementOfSeq DEF IfacesInv, IfacesTypeOK
  <1>3. InStanza(s, n + 1) <=> \/ s[n].word = "iface" /\ s[n].name \notin Skipped
                               \/ InStanza(s, n) /\ ~Ends(s[n])
    BY <1>2, StanzaStep
  <1>4. inside # Nobody <=> InStanza(s, n)
    BY <1>1 DEF IfacesInv, Scanned
  <1>5. inside \in Iface \cup {Nobody} /\ removed \subseteq Iface
    BY DEF IfacesInv, IfacesTypeOK
  <1>6. Nobody \in Iface \cup {Nobody} /\ Nobody \notin Iface
    BY IfacesAssumption
  <1>7. CASE KeepComment
    <2>1. s[n].word = "comment" /\ Advance(FALSE, inside) /\ removed' = removed
      BY <1>1, <1>7 DEF KeepComment, AtLine
    <2>2. ~Doomed(s, n) /\ ~Ends(s[n])
      BY <2>1 DEF Doomed, Ends
    <2> QED
      BY <1>1, <1>3, <1>4, <1>5, <2>1, <2>2, AdvanceInv
  <1>8. CASE KeepDirective
    <2>1. s[n].word = "source" /\ Advance(FALSE, Nobody) /\ removed' = removed
      BY <1>1, <1>8 DEF KeepDirective, AtLine
    <2>2. ~Doomed(s, n) /\ Ends(s[n])
      BY <2>1 DEF Doomed, Ends
    <2> QED
      BY <1>1, <1>3, <1>5, <1>6, <2>1, <2>2, AdvanceInv
  <1>9. CASE KeepIface
    <2>1. /\ s[n].word \in {"iface", "odd"} /\ s[n].name \in Skipped
          /\ Advance(FALSE, Nobody) /\ removed' = removed
      BY <1>1, <1>9 DEF KeepIface, AtLine
    <2>2. ~Doomed(s, n) /\ Ends(s[n])
      BY <2>1 DEF Doomed, Ends
    <2> QED
      BY <1>1, <1>3, <1>5, <1>6, <2>1, <2>2, AdvanceInv
  <1>10. CASE DeleteIface
    <2>1. /\ s[n].word = "iface" /\ s[n].name \notin Skipped
          /\ Advance(TRUE, s[n].name) /\ removed' = removed \cup {s[n].name}
      BY <1>1, <1>10 DEF DeleteIface, AtLine
    <2>2. s[n].name \in Iface
      BY <1>2, <2>1 DEF Line, Words
    <2>3. Doomed(s, n)
      BY <2>1 DEF Doomed
    <2> QED
      BY <1>1, <1>3, <1>5, <1>6, <2>1, <2>2, <2>3, AdvanceInv
  <1>11. CASE DeleteAuto
    <2>1. /\ s[n].word = "auto" /\ s[n].name \notin Skipped
          /\ Advance(TRUE, Nobody)
          /\ removed' = removed \cup ({s[n].name} \ {Nobody})
      BY <1>1, <1>11 DEF DeleteAuto, AtLine
    <2>2. s[n].name \in Iface \cup {Nobody}
      BY <1>2, <2>1 DEF Line, Words
    <2>3. Doomed(s, n) /\ Ends(s[n])
      BY <2>1 DEF Doomed, Ends
    <2>4. removed' \subseteq Iface
      BY <1>5, <2>1, <2>2
    <2> QED
      BY <1>1, <1>3, <1>6, <2>1, <2>3, <2>4, AdvanceInv
  <1>12. CASE OtherLine
    <2>1. /\ s[n].word \in {"option", "auto"}
          /\ s[n].word = "auto" => s[n].name \in Skipped
          /\ Advance(inside # Nobody, inside) /\ removed' = removed
      BY <1>1, <1>12 DEF OtherLine, AtLine
    <2>2. Doomed(s, n) <=> InStanza(s, n)
      BY <2>1 DEF Doomed
    <2>3. ~Ends(s[n])
      BY <2>1 DEF Ends
    <2>4. (inside # Nobody) \in BOOLEAN
      OBVIOUS
    <2> QED
      BY <1>1, <1>3, <1>4, <1>5, <2>1, <2>2, <2>3, <2>4, AdvanceInv
  <1> QED
    BY <1>7, <1>8, <1>9, <1>10, <1>11, <1>12

(* What is written is what Rewritten says.                                 *)
LEMMA PreparedIsRewritten ==
    ASSUME IfacesInv, at \in {"lines", "open", "write"}, n = Len(given[path]) + 1
    PROVE  Prepared = Rewritten(given[path])
  <1>1. given[path] \in Seq(Line)
    BY DEF IfacesInv, IfacesTypeOK
  <1>2. DOMAIN given[path] = 1 .. Len(given[path]) /\ Len(given[path]) \in Nat
    BY <1>1, LenProperties
  <1>3. off = {k \in 1 .. Len(given[path]) : Doomed(given[path], k)}
    BY <1>2 DEF IfacesInv, Scanned
  <1> QED
    BY <1>2, <1>3 DEF Prepared, Rewritten

LEMMA FileDoneInv == IfacesInv /\ FileDone => IfacesInv'
  <1> SUFFICES ASSUME IfacesInv, FileDone PROVE IfacesInv'
    OBVIOUS
  <1>1. given[path] \in Seq(Line) /\ path \in Path
    BY DEF IfacesInv, IfacesTypeOK
  <1>2. DOMAIN given[path] = 1 .. Len(given[path]) /\ Len(given[path]) \in Nat
    BY <1>1, LenProperties
  <1>3. n = Len(given[path]) + 1
    BY <1>2 DEF IfacesInv, Scanned, FileDone
  <1>4. off = {} => Rewritten(given[path]) = given[path]
    BY <1>1, <1>2, <1>3, RewrittenSame DEF IfacesInv, Scanned, FileDone
  <1>5. IfacesTypeOK'
    BY DEF IfacesInv, IfacesTypeOK, FileDone
  <1>6. Scanned'
    BY <1>3 DEF IfacesInv, Scanned, FileDone
  <1>7. Progress'
    BY <1>4 DEF IfacesInv, Scanned, Progress, FileDone, Included
  <1> QED
    BY <1>5, <1>6, <1>7 DEF IfacesInv

LEMMA OpenInv == IfacesInv /\ OpenFile => IfacesInv'
  <1> SUFFICES ASSUME IfacesInv, OpenFile PROVE IfacesInv'
    OBVIOUS
  <1>1. <<>> \in Seq(Line)
    BY EmptySeq
  <1>2. IfacesTypeOK'
    BY <1>1 DEF IfacesInv, IfacesTypeOK, OpenFile
  <1>3. Scanned'
    BY DEF IfacesInv, Scanned, OpenFile
  <1>4. Progress'
    BY DEF IfacesInv, IfacesTypeOK, Scanned, Progress, OpenFile, Included
  <1> QED
    BY <1>2, <1>3, <1>4 DEF IfacesInv

LEMMA IfacesWriteInv == IfacesInv /\ WriteFile => IfacesInv'
  <1> SUFFICES ASSUME IfacesInv, WriteFile PROVE IfacesInv'
    OBVIOUS
  <1>1. Prepared = Rewritten(given[path])
    BY PreparedIsRewritten DEF IfacesInv, Scanned, WriteFile
  <1>2. Prepared \in Seq(Line)
    BY <1>1, RewrittenType DEF IfacesInv, IfacesTypeOK
  <1>3. IfacesTypeOK'
    BY <1>2 DEF IfacesInv, IfacesTypeOK, WriteFile
  <1>4. Scanned'
    BY DEF Scanned, WriteFile
  <1>5. Progress'
    BY <1>1 DEF IfacesInv, IfacesTypeOK, Scanned, Progress, WriteFile, Included
  <1> QED
    BY <1>3, <1>4, <1>5 DEF IfacesInv

(* The ways in which a call ends.                                          *)
LEMMA EndInv ==
    ASSUME IfacesInv, AllFiles \/ DeleteKilled \/ Unrecognised \/ DumpFails
    PROVE  IfacesInv'
  <1> USE DEF IfacesInv, IfacesTypeOK, Stop
  <1>1. at' = "idle" /\ given' = given /\ path' = path
    BY DEF AllFiles, DeleteKilled, Unrecognised, DumpFails
  <1>2. Scanned'
    BY <1>1 DEF Scanned
  <1>3. CASE AllFiles
    BY <1>2, <1>3 DEF AllFiles, Progress, Included
  <1>4. CASE DeleteKilled \/ Unrecognised
    BY <1>2, <1>4 DEF DeleteKilled, Unrecognised, Progress, Included
  <1>5. CASE DumpFails
    <2>1. CASE files' = files
      BY <1>2, <1>5, <2>1 DEF DumpFails, Progress, Included
    <2>2. CASE at = "write" /\ files' = [files EXCEPT ![path] = Prepared]
      <3>1. Prepared = Rewritten(given[path])
        BY <2>2, PreparedIsRewritten DEF Scanned
      <3>2. Prepared \in Seq(Line)
        BY <3>1, RewrittenType
      <3> QED
        BY <1>2, <1>5, <2>2, <3>1, <3>2
           DEF DumpFails, Progress, Scanned, Included
    <2> QED
      BY <1>5, <2>1, <2>2 DEF DumpFails
  <1> QED
    BY <1>3, <1>4, <1>5

LEMMA IfacesNextInv == IfacesInv /\ [RewriteNext]_rewriteVars => IfacesInv'
  <1> SUFFICES ASSUME IfacesInv, [RewriteNext]_rewriteVars PROVE IfacesInv'
    OBVIOUS
  <1>1. CASE UNCHANGED rewriteVars
    BY <1>1 DEF rewriteVars, IfacesInv, IfacesTypeOK, Scanned, Progress, Included
  <1>2. CASE RewriteNext
    BY <1>2, DeleteInv, NextFileInv, LineInv, FileDoneInv, OpenInv, IfacesWriteInv,
       EndInv DEF RewriteNext, DeleteStep
  <1> QED
    BY <1>1, <1>2

LEMMA IfacesInvariance == IfacesSpec => []IfacesInv
  BY IfacesInitInv, IfacesNextInv, PTL DEF IfacesSpec

(* At any time, kills and failures of any call included, every file is as  *)
(* the call found it or rewritten as Doomed says, but for the one that is  *)
(* being written; a success has rewritten all.                             *)
THEOREM RewriteIsExact == IfacesSpec => []RewriteExact
  <1>1. IfacesInv => RewriteExact
    BY DEF IfacesInv, Progress, RewriteExact
  <1> QED
    BY <1>1, IfacesInvariance, PTL

(* After a success, the check that decides on the migration finds only the *)
(* skipped interfaces, whatever the files were.                            *)
THEOREM NothingLeftDeclared == IfacesSpec => []NothingDeclared
  <1>1. IfacesInv => NothingDeclared
    <2> SUFFICES ASSUME IfacesInv, ended = "ok",
                        NEW f \in Declared(files), f \notin Skipped
                 PROVE  FALSE
      BY DEF NothingDeclared
    <2>1. \A p \in Included(given) : files[p] = Rewritten(given[p])
      BY DEF IfacesInv, Progress
    <2>2. Main \in Path /\ Main \in Included(given)
      BY IfacesAssumption DEF Included
    <2>3. PICK p \in Included(files) : \E k \in DOMAIN files[p] :
              files[p][k].word \in {"iface", "auto"} /\ files[p][k].name = f
      BY DEF Declared
    <2>4. PICK k \in DOMAIN files[p] :
              files[p][k].word \in {"iface", "auto"} /\ files[p][k].name = f
      BY <2>3
    <2>5. p \in Included(given)
      <3>1. CASE p = Main
        BY <2>2, <3>1
      <3>2. CASE p # Main
        <4>1. PICK j \in DOMAIN files[Main] : files[Main][j].word = "source"
          BY <3>2, <2>3 DEF Included
        <4>2. files[Main] = Rewritten(given[Main])
          BY <2>1, <2>2
        <4>3. j \in DOMAIN given[Main] /\ given[Main][j].word = "source"
          BY <4>1, <4>2 DEF Rewritten, Comment
        <4> QED
          BY <2>3, <4>3 DEF Included
      <3> QED
        BY <3>1, <3>2
    <2>6. files[p] = Rewritten(given[p])
      BY <2>1, <2>5
    <2>7. k \in DOMAIN given[p] /\ ~Doomed(given[p], k)
          /\ files[p][k] = given[p][k]
      BY <2>4, <2>6 DEF Rewritten, Comment
    <2> QED
      BY <2>4, <2>7 DEF Doomed
  <1> QED
    BY <1>1, IfacesInvariance, PTL

-----------------------------------------------------------------------------
(* What removed_ifaces has of the lines that the scan has passed.          *)

Passed(p) == {k \in DOMAIN given[p] : at = "lines" /\ p = path => k < n}

Collected ==
    /\ at = "idle" => todo = {}
    /\ at # "idle" \/ ended = "ok" =>
          \A p \in Included(given) \ todo : \A k \in Passed(p) :
             given[p][k].word \in {"iface", "auto"}
                 /\ given[p][k].name \in Iface \ Skipped
               => given[p][k].name \in removed

LEMMA CollectedStep ==
    ASSUME IfacesInv, Collected, [RewriteNext]_rewriteVars
    PROVE  Collected'
  <1>1. CASE UNCHANGED rewriteVars
    BY <1>1 DEF rewriteVars, Collected, Passed, Included
  <1>2. CASE Delete
    BY <1>2 DEF Delete, Collected, Passed, Included
  <1>3. ASSUME NEW p \in Path, NextFile(p)
        PROVE  Collected'
    <2>1. DOMAIN given[p] = 1 .. Len(given[p])
      BY LenProperties DEF IfacesInv, IfacesTypeOK
    <2>2. /\ at = "next" /\ at' = "lines" /\ given' = given /\ path' = p
          /\ n' = 1 /\ todo' = todo \ {p} /\ removed' = removed
      BY <1>3 DEF NextFile
    <2>3. \A q : q # p => Passed(q)' = Passed(q)
      BY <2>2 DEF Passed
    <2>4. Passed(p)' = {}
      BY <2>1, <2>2 DEF Passed
    <2>5. Included(given)' = Included(given)
      BY <2>2 DEF Included
    <2> QED
      BY <2>2, <2>3, <2>4, <2>5 DEF Collected
  <1>4. CASE \/ KeepComment \/ KeepDirective \/ KeepIface
             \/ DeleteIface \/ DeleteAuto \/ OtherLine
    <2>1. /\ at = "lines" /\ at' = at /\ given' = given /\ path' = path
          /\ todo' = todo /\ n' = n + 1 /\ n \in Nat
          /\ n \in DOMAIN given[path] /\ removed \subseteq removed'
      BY <1>4 DEF KeepComment, KeepDirective, KeepIface, DeleteIface,
                  DeleteAuto, OtherLine, AtLine, Advance, IfacesInv,
                  IfacesTypeOK
    <2>2. line.word \in {"iface", "auto"} /\ line.name \in Iface \ Skipped
            => line.name \in removed'
      BY <1>4, IfacesAssumption
         DEF KeepComment, KeepDirective, KeepIface, DeleteIface, DeleteAuto,
             OtherLine, AtLine, line
    <2>3. DOMAIN given[path] = 1 .. Len(given[path])
      BY LenProperties DEF IfacesInv, IfacesTypeOK
    <2>4. \A q : q # path => Passed(q)' = Passed(q)
      BY <2>1 DEF Passed
    <2>5. \A k \in Passed(path)' : k \in Passed(path) \/ k = n
      BY <2>1, <2>3 DEF Passed
    <2>6. Included(given)' = Included(given)
      BY <2>1 DEF Included
    <2> QED
      BY <2>1, <2>2, <2>4, <2>5, <2>6 DEF Collected, line
  <1>5. CASE FileDone
    <2>1. DOMAIN given[path] = 1 .. Len(given[path]) /\ Len(given[path]) \in Nat
      BY LenProperties DEF IfacesInv, IfacesTypeOK
    <2>2. n = Len(given[path]) + 1
      BY <1>5, <2>1 DEF FileDone, IfacesInv, Scanned
    <2>3. \A q : Passed(q)' \subseteq Passed(q)
      BY <1>5, <2>1, <2>2 DEF FileDone, Passed
    <2> QED
      BY <1>5, <2>3 DEF FileDone, Collected, Included
  <1>6. CASE OpenFile \/ WriteFile
    BY <1>6 DEF OpenFile, WriteFile, Collected, Passed, Included
  <1>7. CASE AllFiles \/ DumpFails \/ Unrecognised \/ DeleteKilled
    BY <1>7 DEF AllFiles, DumpFails, Unrecognised, DeleteKilled, Stop,
                Collected, Passed, Included
  <1> QED
    BY <1>1, <1>2, <1>3, <1>4, <1>5, <1>6, <1>7 DEF RewriteNext, DeleteStep

LEMMA CollectedInvariance == IfacesSpec => [](IfacesInv /\ Collected)
  <1>1. IfacesInit => Collected
    BY DEF IfacesInit, Collected
  <1> QED
    BY <1>1, CollectedStep, IfacesInvariance, PTL DEF IfacesSpec

(* A success has collected every interface that it found declared, so that *)
(* the role's migration looks for all of them.                             *)
LEMMA DeclaredCollected ==
    ASSUME IfacesInv, Collected, at = "idle", ended = "ok",
           NEW f \in Declared(given) \ Skipped
    PROVE  f \in removed
  BY DEF Collected, Declared, Passed
================================================================================

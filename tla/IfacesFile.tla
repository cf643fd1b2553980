------------------------------- MODULE IfacesFile -------------------------------
(***************************************************************************)
(* The interfaces files of ifupdown, and the modules that read and rewrite *)
(* them: ifaces_file_get_ifaces (Declared, Broken) and, line by line,      *)
(* ifaces_file_delete_ifaces, which comments out every interface but the   *)
(* skipped ones.  A line is its first word and the interface it names.     *)
(* Words:                                                                  *)
(*   "iface"    a stanza of an interface, of four words as the code asks   *)
(*   "odd"      a line that starts with iface and has not four words       *)
(*   "auto"     auto or allow-hotplug                                      *)
(*   "source"   source or source-directory (the scan treats mapping alike)   *)
(*   "comment"  a comment or an empty line                                 *)
(*   "option"   anything else                                              *)
(* The note that is written above a deleted stanza is left out, and so is  *)
(* the `changed' flag, which the role does not read.  Files end with a     *)
(* newline, and nobody else writes them during a call.                     *)
(***************************************************************************)
EXTENDS Naturals, Sequences

CONSTANTS
    Path,       \* the files
    Main,       \* the one that the modules are given
    Iface,      \* the interfaces
    Skipped,    \* skip_interfaces
    Nobody,     \* the interface of a line that names none
    Found       \* the files that the first call may find

Words == {"iface", "odd", "auto", "source", "comment", "option"}

Line ==
    [word : {"iface"}, name : Iface]
        \cup [word : Words \ {"iface"}, name : Iface \cup {Nobody}]

ASSUME IfacesAssumption ==
    /\ Main \in Path
    /\ Skipped \subseteq Iface
    /\ Nobody \notin Iface
    /\ Found \subseteq [Path -> Seq(Line)]

Comment == [word |-> "comment", name |-> Nobody]

(* ifaces_file_utils_read_interfaces_file: a source line names every file. *)
Included(fs) ==
    {p \in Path : p = Main \/ \E k \in DOMAIN fs[Main] :
                                 fs[Main][k].word = "source"}

(* parse_interfaces_file over every file: the keys of `interfaces' ...     *)
Declared(fs) ==
    {f \in Iface : \E p \in Included(fs) : \E k \in DOMAIN fs[p] :
                      fs[p][k].word \in {"iface", "auto"} /\ fs[p][k].name = f}

(* ... or an error.                                                        *)
Broken(fs) ==
    \E p \in Included(fs) : \E k \in DOMAIN fs[p] : fs[p][k].word = "odd"

VARIABLES
    files,      \* the lines of each file
    at,         \* "idle", or the statement of main(): "next" file, "lines"
                \* of one, "open" and "write" of dump_lines
    given,      \* files_content: what was read when the call began
    todo,       \* the files that the loop has yet to see
    path,       \* file_path
    n,          \* the line that prepare_lines is at
    off,        \* the lines of this file to comment out, by number
    inside,     \* iface_to_delete
    removed,    \* the keys of removed_ifaces, over all files
    ended       \* how the last call ended, "none" while it is under way

rewriteVars == <<files, at, given, todo, path, n, off, inside, removed, ended>>

(* The module exits, and what it held is gone.                             *)
Stop(r) ==
    /\ at' = "idle"
    /\ ended' = r
    /\ todo' = {}
    /\ n' = 1
    /\ off' = {}
    /\ inside' = Nobody

IfacesInit ==
    /\ files \in Found
    /\ at = "idle"
    /\ given = files
    /\ todo = {}
    /\ path = Main
    /\ n = 1
    /\ off = {}
    /\ inside = Nobody
    /\ removed = {}
    /\ ended = "none"

Delete ==
    /\ at = "idle"
    /\ at' = "next"
    /\ given' = files
    /\ todo' = Included(files)
    /\ removed' = {}
    /\ ended' = "none"
    /\ UNCHANGED <<files, path, n, off, inside>>

(* Mutant: a file is read again whenever it is named *)
Mutant_ReadsAgain(p) ==
    /\ at = "next"
    /\ p \in todo
    /\ todo' = todo
    /\ path' = p
    /\ n' = 1
    /\ off' = {}
    /\ inside' = Nobody
    /\ at' = "lines"
    /\ UNCHANGED <<files, given, removed, ended>>

(* The files are a dictionary filled from a set: their order is open.      *)
NextFile(p) ==
    /\ at = "next"
    /\ p \in todo
    /\ todo' = todo \ {p}
    /\ path' = p
    /\ n' = 1
    /\ off' = {}
    /\ inside' = Nobody
    /\ at' = "lines"
    /\ UNCHANGED <<files, given, removed, ended>>

AtLine(words) ==
    /\ at = "lines"
    /\ n \in DOMAIN given[path]
    /\ given[path][n].word \in words

line == given[path][n]

(* The line is kept or commented out, and it ends a stanza or not.         *)
Advance(comments, stanza) ==
    /\ n' = n + 1
    /\ off' = IF comments THEN off \cup {n} ELSE off
    /\ inside' = stanza
    /\ UNCHANGED <<files, at, given, todo, path, ended>>

KeepComment ==
    /\ AtLine({"comment"})
    /\ Advance(FALSE, inside)
    /\ UNCHANGED removed

(* Mutant: a directive does not end the stanza of a deleted interface *)
Mutant_StaysInside ==
    /\ AtLine({"source"})
    /\ Advance(FALSE, inside)
    /\ UNCHANGED removed

KeepDirective ==
    /\ AtLine({"source"})
    /\ Advance(FALSE, Nobody)
    /\ UNCHANGED removed

KeepIface ==
    /\ AtLine({"iface", "odd"})
    /\ line.name \in Skipped
    /\ Advance(FALSE, Nobody)
    /\ UNCHANGED removed

DeleteIface ==
    /\ AtLine({"iface"})
    /\ line.name \notin Skipped
    /\ Advance(TRUE, line.name)
    /\ removed' = removed \cup {line.name}

Unrecognised ==
    /\ AtLine({"odd"})
    /\ line.name \notin Skipped
    /\ Stop("failed")
    /\ UNCHANGED <<files, given, path, removed>>

(* Mutant: only stanzas are deleted *)
Mutant_KeepsAuto ==
    /\ AtLine({"auto"})
    /\ line.name \notin Skipped
    /\ Advance(FALSE, Nobody)
    /\ removed' = removed \cup ({line.name} \ {Nobody})

DeleteAuto ==
    /\ AtLine({"auto"})
    /\ line.name \notin Skipped
    /\ Advance(TRUE, Nobody)
    /\ removed' = removed \cup ({line.name} \ {Nobody})

(* The auto line of a skipped interface comes here too: it neither ends a  *)
(* stanza nor is safe inside one.                                          *)
OtherLine ==
    /\ AtLine({"option", "auto"})
    /\ line.word = "auto" => line.name \in Skipped
    /\ Advance(inside # Nobody, inside)
    /\ UNCHANGED removed

Prepared == [k \in DOMAIN given[path] |->
                IF k \in off THEN Comment ELSE given[path][k]]

FileDone ==
    /\ at = "lines"
    /\ n \notin DOMAIN given[path]
    /\ at' = IF off = {} THEN "next" ELSE "open"
    /\ UNCHANGED <<files, given, todo, path, n, off, inside, removed, ended>>

(* dump_lines; it may also fail in stat, open, write or chown. *)
OpenFile ==
    /\ at = "open"
    /\ files' = [files EXCEPT ![path] = <<>>]
    /\ at' = "write"
    /\ UNCHANGED <<given, todo, path, n, off, inside, removed, ended>>

WriteFile ==
    /\ at = "write"
    /\ files' = [files EXCEPT ![path] = Prepared]
    /\ at' = "next"
    /\ UNCHANGED <<given, todo, path, n, off, inside, removed, ended>>

DumpFails ==
    /\ at \in {"open", "write"}
    /\ \/ files' = files
       \/ at = "write" /\ files' = [files EXCEPT ![path] = Prepared]
    /\ Stop("failed")
    /\ UNCHANGED <<given, path, removed>>

AllFiles ==
    /\ at = "next"
    /\ todo = {}
    /\ Stop("ok")
    /\ UNCHANGED <<files, given, path, removed>>

DeleteKilled ==
    /\ at # "idle"
    /\ Stop("killed")
    /\ UNCHANGED <<files, given, path, removed>>

DeleteStep ==
    \/ \E p \in Path : NextFile(p)
    \/ KeepComment \/ KeepDirective \/ KeepIface
    \/ DeleteIface \/ DeleteAuto \/ OtherLine
    \/ FileDone \/ OpenFile \/ WriteFile \/ DumpFails \/ AllFiles

RewriteNext == Delete \/ DeleteStep \/ Unrecognised \/ DeleteKilled

IfacesSpec == IfacesInit /\ [][RewriteNext]_rewriteVars

-----------------------------------------------------------------------------

IfacesTypeOK ==
    /\ files \in [Path -> Seq(Line)]
    /\ given \in [Path -> Seq(Line)]
    /\ at \in {"idle", "next", "lines", "open", "write"}
    /\ todo \subseteq Path
    /\ path \in Path
    /\ n \in Nat \ {0}
    /\ off \subseteq Nat
    /\ inside \in Iface \cup {Nobody}
    /\ removed \subseteq Iface
    /\ ended \in {"none", "ok", "failed", "killed"}

(* What prepare_lines should do to a line, with no scan: the stanzas and   *)
(* auto lines of the other interfaces go, and what follows a stanza that   *)
(* goes, up to a line that ends it.                                        *)
Ends(l) ==
    \/ l.word \in {"iface", "odd", "source"}
    \/ l.word = "auto" /\ l.name \notin Skipped

InStanza(s, k) ==
    \E j \in 1 .. k - 1 :
        /\ s[j].word = "iface"
        /\ s[j].name \notin Skipped
        /\ \A m \in j + 1 .. k - 1 : ~Ends(s[m])

Doomed(s, k) ==
    \/ s[k].word \in {"iface", "auto"} /\ s[k].name \notin Skipped
    \/ s[k].word \in {"option", "auto"} /\ InStanza(s, k)

Rewritten(s) ==
    [k \in DOMAIN s |-> IF Doomed(s, k) THEN Comment ELSE s[k]]

(* At any time, kills and failures included, each file is as it was, or    *)
(* rewritten line by line as Doomed says, but for the one that is being    *)
(* written, which may be empty; a call that succeeds has rewritten all.    *)
(* The auto line of a skipped interface is spared unless it follows the    *)
(* stanza of a deleted one (ifaces_file_delete_ifaces.py:85-103).          *)
RewriteExact ==
    /\ \A p \in Path : \/ files[p] \in {given[p], Rewritten(given[p])}
                       \/ p = path /\ files[p] = <<>>
    /\ ended = "ok" =>
          \A p \in Included(given) : files[p] = Rewritten(given[p])

(* After a call that succeeds, the check that decides on the migration     *)
(* (ifaces_file_get_ifaces) finds only skipped interfaces: what the two    *)
(* modules take for a declaration agrees.                                  *)
NothingDeclared == ended = "ok" => Declared(files) \subseteq Skipped
================================================================================

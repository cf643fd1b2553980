----------------------------- MODULE ScriptRunProofs ---------------------------
(***************************************************************************)
(* Proofs about the calls of the script module, for pipes of any capacity  *)
(* and any number of lines: what the readers keep and log.                 *)
(***************************************************************************)
EXTENDS ScriptRun, TLAPS

(* The part of the type invariant that the proof needs.                    *)
Typed ==
    /\ mode \in Mode
    /\ bad \in [Stream -> Nat]
    /\ ends \subseteq Pipe
    /\ open \subseteq Pipe
    /\ process \in [Process -> {"none", "running", "ended"}]
    /\ written \in [Stream -> Nat]
    /\ taken \in [Stream -> Nat]
    /\ output \in [Stream -> Nat]
    /\ logged \in [Stream -> Nat]
    /\ reader \in [Stream -> {"read", "log", "done", "dead"}]

(* The command that ended writes nothing, and all begins with Popen.       *)
Writers ==
    /\ wants # "none" => Running("script")
    /\ at = "popen" => ends = Pipe

(* The log of a stream and its output are never further apart than the     *)
(* line that the reader is logging.                                        *)
Logs(p) ==
    /\ reader[p] = "read" /\ mode # "unlogged" => logged[p] = output[p]
    /\ reader[p] = "log" => mode # "unlogged" /\ logged[p] = output[p] - 1

Done(p) ==
    reader[p] = "done" =>
        /\ p \notin ends
        /\ \A q \in Process : ~Running(q)
        /\ output[p] = written[p]
        /\ mode # "unlogged" => logged[p] = written[p]

Dead(p) ==
    reader[p] = "dead" =>
        \/ bad[p] \in 1 .. taken[p]
        \/ mode # "unlogged" /\ p \notin open /\ logged[p] = output[p] - 1

Joined == at = "gone" => \A p \in Pipe : reader[p] \in {"done", "dead"}

IInv ==
    /\ Typed
    /\ Writers
    /\ \A p \in Pipe : Logs(p) /\ Done(p) /\ Dead(p)
    /\ Joined

LEMMA PipesAreStreams == Pipe \subseteq Stream /\ "none" \notin Pipe
  BY DEF Pipe, PipesOf, Stream

LEMMA InitInv == ScriptInit => IInv
  BY ScriptAssumption, PipesAreStreams
     DEF ScriptInit, IInv, Typed, Writers, Logs, Done, Dead, Joined, Running,
         Process, Mode

LEMMA ProcessInv ==
    ASSUME IInv, \/ \E p \in Pipe : Intend(p) \/ BackgroundPuts(p)
                 \/ Put \/ PipeBreaks \/ ScriptEnds \/ Fork \/ BackgroundEnds
    PROVE  IInv'
  <1> USE PipesAreStreams
      DEF settings, mainVars, readerVars, Pipe, Process, Running
  <1>1. ASSUME NEW p \in Pipe, Intend(p)
        PROVE  IInv'
    BY <1>1 DEF Intend, IInv, Typed, Writers, Logs, Done, Dead, Joined
  <1>2. ASSUME NEW p \in Pipe, BackgroundPuts(p)
        PROVE  IInv'
    BY <1>2 DEF BackgroundPuts, IInv, Typed, Writers, Logs, Done, Dead, Joined
  <1>3. CASE Put
    BY <1>3 DEF Put, IInv, Typed, Writers, Logs, Done, Dead, Joined
  <1>4. CASE PipeBreaks
    BY <1>4 DEF PipeBreaks, IInv, Typed, Writers, Logs, Done, Dead, Joined
  <1>5. CASE ScriptEnds
    BY <1>5 DEF ScriptEnds, IInv, Typed, Writers, Logs, Done, Dead, Joined
  <1>6. CASE Fork
    BY <1>6 DEF Fork, IInv, Typed, Writers, Logs, Done, Dead, Joined
  <1>7. CASE BackgroundEnds
    BY <1>7 DEF BackgroundEnds, IInv, Typed, Writers, Logs, Done, Dead, Joined
  <1> QED
    BY <1>1, <1>2, <1>3, <1>4, <1>5, <1>6, <1>7

LEMMA ReaderInv == ASSUME IInv, NEW p \in Pipe, ReaderStep(p) PROVE IInv'
  <1> USE PipesAreStreams
      DEF settings, mainVars, processVars, Pipe, Process, Running
  <1>1. CASE Fill(p)
    <2>1. PICK k \in taken[p] + 1 .. written[p] :
              /\ taken' = [taken EXCEPT ![p] = k]
              /\ reader' = IF bad[p] \in taken[p] + 1 .. k
                             THEN [reader EXCEPT ![p] = "dead"]
                             ELSE reader
      BY <1>1 DEF Fill
    <2>2. taken[p] \in Nat /\ written[p] \in Nat /\ k \in Nat /\ k > taken[p]
      BY DEF IInv, Typed
    <2>3. Typed' /\ Writers' /\ Joined'
      BY <1>1, <2>1, <2>2 DEF Fill, IInv, Typed, Writers, Joined
    <2>4. ASSUME NEW s \in Pipe
          PROVE  (Logs(s) /\ Done(s) /\ Dead(s))'
      <3>1. CASE s = p
        BY <1>1, <2>1, <2>2, <3>1 DEF Fill, IInv, Typed, Logs, Done, Dead
      <3>2. CASE s # p
        BY <1>1, <2>1, <3>2 DEF Fill, IInv, Typed, Logs, Done, Dead
      <3> QED
        BY <3>1, <3>2
    <2>5. Pipe' = Pipe
      BY <1>1 DEF Fill
    <2> QED
      BY <2>3, <2>4, <2>5 DEF IInv
  <1>2. CASE Append(p)
    BY <1>2 DEF Append, IInv, Typed, Writers, Logs, Done, Dead, Joined
  <1>3. CASE Log(p)
    BY <1>3 DEF Log, IInv, Typed, Writers, Logs, Done, Dead, Joined
  <1>4. CASE EndOfFile(p)
    BY <1>4 DEF EndOfFile, IInv, Typed, Writers, Logs, Done, Dead, Joined
  <1> QED
    BY <1>1, <1>2, <1>3, <1>4 DEF ReaderStep

LEMMA MainInv == ASSUME IInv, MainStep PROVE IInv'
  <1> USE PipesAreStreams
      DEF settings, processVars, readerVars, Pipe, Process, Running
  <1>1. CASE Popen
    BY <1>1 DEF Popen, IInv, Typed, Writers, Logs, Done, Dead, Joined
  <1>2. CASE PopenFails \/ Wait \/ TakeErr \/ PrintResult
    BY <1>2 DEF PopenFails, Wait, TakeErr, PrintResult, IInv, Typed, Writers,
                Logs, Done, Dead, Joined
  <1>3. CASE Terminate
    BY <1>3 DEF Terminate, IInv, Typed, Writers, Logs, Done, Dead, Joined
  <1>4. CASE ClosePipe
    BY <1>4 DEF ClosePipe, IInv, Typed, Writers, Logs, Done, Dead, Joined
  <1>5. CASE CloseFile
    BY <1>5 DEF CloseFile, IInv, Typed, Writers, Logs, Done, Dead, Joined
  <1>6. CASE Join
    BY <1>6 DEF Join, IInv, Typed, Writers, Logs, Done, Dead, Joined
  <1> QED
    BY <1>1, <1>2, <1>3, <1>4, <1>5, <1>6 DEF MainStep

LEMMA NextInv == IInv /\ [ScriptNext]_scriptVars => IInv'
  <1> SUFFICES ASSUME IInv, [ScriptNext]_scriptVars PROVE IInv'
    OBVIOUS
  <1>1. CASE UNCHANGED scriptVars
    BY <1>1 DEF scriptVars, settings, mainVars, processVars, readerVars, IInv,
                Typed, Writers, Logs, Done, Dead, Joined, Pipe, Running
  <1>2. CASE ScriptNext
    BY <1>2, ProcessInv, ReaderInv, MainInv DEF ScriptNext
  <1> QED
    BY <1>1, <1>2

LEMMA Invariance == ScriptSpec => []IInv
  BY InitInv, NextInv, PTL DEF ScriptSpec

(* A reader dies of nothing but a line that does not decode or a log that  *)
(* was closed, and one that lives has kept and logged everything by the    *)
(* time the module is gone.                                                *)
THEOREM LogsAreWhole == ScriptSpec => []LogsWhole
  <1>1. IInv => LogsWhole
    <2> SUFFICES ASSUME IInv PROVE LogsWhole
      OBVIOUS
    <2>1. ASSUME at = "gone", NEW p \in Pipe, reader[p] # "dead"
          PROVE  /\ output[p] = written[p]
                 /\ mode # "unlogged" => logged[p] = written[p]
      BY <2>1 DEF IInv, Joined, Done
    <2> QED
      BY <2>1 DEF IInv, Dead, LogsWhole
  <1> QED
    BY <1>1, Invariance, PTL

-----------------------------------------------------------------------------
(* The type invariant.  That no pipe gets more lines than MaxLines needs   *)
(* that a line which the command is writing still has room below it,       *)
(* whatever the background writes meanwhile.                               *)
Scalars ==
    /\ at \in {"popen", "wait", "err", "terminate", "close", "files", "print",
               "join", "gone"}
    /\ result \in {"none", "ok", "failed", "timed out", "error"}
    /\ printed \in BOOLEAN
    /\ rc \in {"none", "zero", "other"}
    /\ wants \in Pipe \cup {"none"}
    /\ reported \in [Stream -> Nat]
    /\ wants # "none" => written[wants] < MaxLines[wants]

Counts(s) ==
    /\ reported[s] \in 0 .. output[s]
    /\ logged[s] \in 0 .. output[s]
    /\ output[s] \in 0 .. taken[s]
    /\ taken[s] \in 0 .. written[s]
    /\ written[s] \in 0 .. MaxLines[s]
    /\ written[s] - taken[s] <= Capacity

TypeInv == Typed /\ Scalars /\ \A s \in Stream : Counts(s)

LEMMA TypesHold == TypeInv => ScriptTypeOK
  BY DEF TypeInv, Typed, Scalars, Counts, ScriptTypeOK

LEMMA Numbers ==
    ASSUME Typed, Scalars, NEW s \in Stream
    PROVE  /\ Capacity \in Nat /\ Capacity > 0 /\ MaxLines[s] \in Nat
           /\ reported[s] \in Nat /\ logged[s] \in Nat /\ output[s] \in Nat
           /\ taken[s] \in Nat /\ written[s] \in Nat
  <1>1. Capacity \in Nat /\ Capacity > 0 /\ MaxLines[s] \in Nat
    BY ScriptAssumption
  <1>2. /\ reported[s] \in Nat /\ logged[s] \in Nat /\ output[s] \in Nat
        /\ taken[s] \in Nat /\ written[s] \in Nat
    BY DEF Typed, Scalars
  <1> QED
    BY <1>1, <1>2

LEMMA InitTypes == ScriptInit => TypeInv
  <1> SUFFICES ASSUME ScriptInit PROVE TypeInv
    OBVIOUS
  <1>1. Typed
    BY InitInv DEF IInv
  <1>2. Scalars
    BY DEF ScriptInit, Scalars
  <1>3. ASSUME NEW s \in Stream PROVE Counts(s)
    <2>1. /\ reported[s] = 0 /\ logged[s] = 0 /\ output[s] = 0
          /\ taken[s] = 0 /\ written[s] = 0
      BY DEF ScriptInit
    <2>2. Capacity \in Nat /\ MaxLines[s] \in Nat
      BY ScriptAssumption
    <2> QED
      BY <2>1, <2>2 DEF Counts
  <1> QED
    BY <1>1, <1>2, <1>3 DEF TypeInv

(* The steps that leave the counters alone *)
LEMMA CountersKept ==
    ASSUME TypeInv, UNCHANGED <<reported, written, taken, output, logged>>,
           Typed', Scalars'
    PROVE  TypeInv'
  BY DEF TypeInv, Counts

LEMMA ProcessTypes ==
    ASSUME TypeInv, Typed',
           \/ \E p \in Pipe : Intend(p) \/ BackgroundPuts(p)
           \/ Put \/ PipeBreaks \/ ScriptEnds \/ Fork \/ BackgroundEnds
    PROVE  TypeInv'
  <1> USE PipesAreStreams
      DEF settings, mainVars, readerVars, Pipe
  <1>1. ASSUME NEW p \in Pipe, Intend(p)
        PROVE  TypeInv'
    BY <1>1, CountersKept DEF Intend, TypeInv, Scalars
  <1>2. ASSUME NEW p \in Pipe, BackgroundPuts(p)
        PROVE  TypeInv'
    <2>1. /\ written' = [written EXCEPT ![p] = @ + 1]
          /\ written[p] - taken[p] < Capacity
          /\ written[p] < (IF wants = p THEN MaxLines[p] - 1 ELSE MaxLines[p])
          /\ UNCHANGED <<at, result, printed, rc, wants, reported, mode, taken, output, logged>>
      BY <1>2 DEF BackgroundPuts, Room
    <2>2. written[p] \in Nat /\ MaxLines[p] \in Nat /\ taken[p] \in Nat /\ Capacity \in Nat
      BY Numbers DEF TypeInv
    <2>3. Scalars'
      <3>1. wants' # "none" => written'[wants'] < MaxLines[wants']
        <4>1. CASE wants = p
          <5>1. written'[p] = written[p] + 1 /\ written[p] < MaxLines[p] - 1
            BY <2>1, <4>1 DEF TypeInv, Typed
          <5> QED
            BY <2>1, <2>2, <4>1, <5>1
        <4>2. CASE wants # p
          BY <2>1, <4>2 DEF TypeInv, Typed, Scalars
        <4> QED
          BY <4>1, <4>2
      <3> QED
        BY <2>1, <3>1 DEF TypeInv, Scalars
    <2>4. ASSUME NEW s \in Stream PROVE Counts(s)'
      BY <2>1, <2>2 DEF TypeInv, Typed, Counts
    <2> QED
      BY <2>3, <2>4 DEF TypeInv
  <1>3. CASE Put
    <2>1. /\ wants \in Pipe /\ wants # "none"
          /\ written' = [written EXCEPT ![wants] = @ + 1]
          /\ written[wants] - taken[wants] < Capacity
          /\ wants' = "none"
          /\ UNCHANGED <<at, result, printed, rc, reported, mode, taken, output, logged>>
      BY <1>3 DEF Put, Room
    <2>2. /\ written[wants] \in Nat /\ MaxLines[wants] \in Nat /\ taken[wants] \in Nat
          /\ Capacity \in Nat /\ written[wants] < MaxLines[wants]
      BY <2>1, Numbers DEF TypeInv, Scalars
    <2>3. Scalars'
      BY <2>1 DEF TypeInv, Scalars
    <2>4. ASSUME NEW s \in Stream PROVE Counts(s)'
      BY <2>1, <2>2 DEF TypeInv, Typed, Counts
    <2> QED
      BY <2>3, <2>4 DEF TypeInv
  <1>4. CASE PipeBreaks \/ ScriptEnds
    BY <1>4, CountersKept DEF PipeBreaks, ScriptEnds, TypeInv, Scalars
  <1>5. CASE Fork \/ BackgroundEnds
    <2>1. Scalars' /\ UNCHANGED <<reported, written, taken, output, logged>>
      BY <1>5 DEF Fork, BackgroundEnds, TypeInv, Scalars
    <2> QED
      BY <2>1, CountersKept
  <1> QED
    BY <1>1, <1>2, <1>3, <1>4, <1>5

LEMMA ReaderTypes ==
    ASSUME TypeInv, Typed', NEW p \in Pipe, ReaderStep(p)
    PROVE  TypeInv'
  <1> USE PipesAreStreams
      DEF settings, mainVars, processVars, Pipe
  <1>1. /\ UNCHANGED <<at, result, printed, rc, wants, reported, mode, written>>
        /\ Scalars'
    BY DEF ReaderStep, Fill, Append, Log, EndOfFile, TypeInv, Scalars
  <1>2. /\ Capacity \in Nat
        /\ output[p] \in Nat /\ taken[p] \in Nat /\ written[p] \in Nat /\ logged[p] \in Nat
    BY Numbers DEF TypeInv
  <1>3. ASSUME NEW s \in Stream PROVE Counts(s)'
    <2>1. Counts(s) /\ Counts(p)
      BY DEF TypeInv
    <2>2. CASE Fill(p)
      <3>1. PICK n \in taken[p] + 1 .. written[p] : taken' = [taken EXCEPT ![p] = n]
        BY <2>2 DEF Fill
      <3>2. n \in Nat /\ taken[p] < n /\ n <= written[p] /\ UNCHANGED <<output, logged>>
        BY <1>2, <2>2, <3>1 DEF Fill
      <3> QED
        BY <1>1, <1>2, <2>1, <3>1, <3>2 DEF TypeInv, Typed, Counts
    <2>3. CASE Append(p)
      <3>1. /\ output[p] < taken[p] /\ output' = [output EXCEPT ![p] = @ + 1]
            /\ UNCHANGED <<taken, logged>>
        BY <2>3 DEF Append
      <3> QED
        BY <1>1, <1>2, <2>1, <3>1 DEF TypeInv, Typed, Counts
    <2>4. CASE Log(p)
      <3>1. /\ logged' \in {logged, [logged EXCEPT ![p] = output[p]]}
            /\ UNCHANGED <<taken, output>>
        BY <2>4 DEF Log
      <3> QED
        BY <1>1, <1>2, <2>1, <3>1 DEF TypeInv, Typed, Counts
    <2>5. CASE EndOfFile(p)
      BY <1>1, <2>1, <2>5 DEF EndOfFile, Counts
    <2> QED
      BY <2>2, <2>3, <2>4, <2>5 DEF ReaderStep
  <1> QED
    BY <1>1, <1>3 DEF TypeInv

LEMMA MainTypes ==
    ASSUME TypeInv, Typed', MainStep
    PROVE  TypeInv'
  <1> USE DEF settings, processVars, readerVars, Pipe
  <1>1. CASE Popen \/ PopenFails \/ PrintResult \/ Join
    BY <1>1, CountersKept DEF Popen, PopenFails, PrintResult, Join, TypeInv, Scalars
  <1>2. CASE Wait \/ TakeErr
    <2>1. /\ \E t \in Stream : reported' = [reported EXCEPT ![t] = output[t]]
          /\ UNCHANGED <<mode, rc, printed, wants, written, taken, output, logged>>
          /\ result' \in {result, "ok", "failed", "timed out"}
          /\ at' \in {"err", "terminate"}
      BY <1>2 DEF Wait, TakeErr, Stream
    <2>2. PICK t \in Stream : reported' = [reported EXCEPT ![t] = output[t]]
      BY <2>1
    <2>3. output[t] \in Nat
      BY Numbers DEF TypeInv
    <2>4. Scalars'
      BY <2>1, <2>2, <2>3 DEF TypeInv, Scalars
    <2>5. ASSUME NEW s \in Stream PROVE Counts(s)'
      <3>1. Counts(s)
        BY DEF TypeInv
      <3>2. CASE s = t
        <4>1. reported'[s] = output[s]
          BY <2>2, <3>2 DEF TypeInv, Scalars
        <4>2. reported'[s] \in 0 .. output[s]
          BY <2>3, <3>2, <4>1
        <4> QED
          BY <2>1, <3>1, <4>2 DEF Counts
      <3>3. CASE s # t
        <4>1. reported'[s] = reported[s]
          BY <2>2, <3>3 DEF TypeInv, Scalars
        <4> QED
          BY <2>1, <3>1, <4>1 DEF Counts
      <3> QED
        BY <3>2, <3>3
    <2> QED
      BY <2>4, <2>5 DEF TypeInv
  <1>3. CASE Terminate
    BY <1>3, CountersKept DEF Terminate, TypeInv, Scalars
  <1>4. CASE ClosePipe \/ CloseFile
    BY <1>4, CountersKept DEF ClosePipe, CloseFile, TypeInv, Scalars
  <1> QED
    BY <1>1, <1>2, <1>3, <1>4 DEF MainStep

LEMMA NextTypes == IInv /\ TypeInv /\ [ScriptNext]_scriptVars => TypeInv'
  <1> SUFFICES ASSUME IInv, TypeInv, [ScriptNext]_scriptVars PROVE TypeInv'
    OBVIOUS
  <1>1. Typed'
    BY NextInv DEF IInv
  <1>2. CASE UNCHANGED scriptVars
    BY <1>1, <1>2, CountersKept
       DEF scriptVars, settings, mainVars, processVars, readerVars, TypeInv, Scalars, Pipe
  <1>3. CASE ScriptNext
    BY <1>1, <1>3, ProcessTypes, ReaderTypes, MainTypes DEF ScriptNext
  <1> QED
    BY <1>2, <1>3

(* Neither pipe nor reader nor result ever runs ahead of what was written, *)
(* and no pipe holds more than its capacity.                               *)
THEOREM ScriptTyped == ScriptSpec => []ScriptTypeOK
  BY TypesHold, InitTypes, NextTypes, Invariance, PTL DEF ScriptSpec
================================================================================

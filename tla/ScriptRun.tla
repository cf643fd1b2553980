-------------------------------- MODULE ScriptRun ------------------------------
(***************************************************************************)
(* A call of the `script' module: the main thread, which starts the        *)
(* command and waits for it, the reader thread of each pipe, the command   *)
(* and a process that it may leave in the background, over the pipes that  *)
(* they share.  A line of a pipe is its number: what was written, taken    *)
(* off the pipe, appended to `output' and logged are counters.             *)
(***************************************************************************)
EXTENDS Naturals

CONSTANTS
    Capacity,   \* the lines that a pipe holds
    MaxLines,   \* bound: the lines written to each pipe
    Bad         \* the lines of each stream that may not decode

Stream == {"out", "err"}

ASSUME ScriptAssumption ==
    /\ Capacity \in Nat \ {0}
    /\ MaxLines \in [Stream -> Nat]
    /\ Bad \subseteq [Stream -> Nat]

Process == {"script", "background"}

(* How the logs are asked for: no log_path, log_combine, or neither.       *)
Mode == {"unlogged", "combined", "split"}

VARIABLES
    mode,       \* as above
    limited,    \* a timeout is given
    bad,        \* the line of each stream that does not decode, or 0
    endless,    \* the command does not end by itself
    deaf,       \* the command ignores SIGTERM
    at,         \* the statement of the main thread
    ends,       \* the pipes of which it holds the write end
    open,       \* the pipes of which the log file is open
    result,     \* what _run_capture_command returns
    reported,   \* the lines it returns, from each pipe
    printed,    \* the result is printed
    process,    \* "none", "running" or "ended", for each
    rc,         \* whether the command ended with 0
    wants,      \* the pipe that the command is writing to
    written, taken, output, logged,
    reader      \* "read", "log", "done", or "dead" of an exception

settings == <<mode, limited, bad, endless, deaf>>
mainVars == <<at, ends, open, result, reported, printed>>
processVars == <<process, rc, wants, written>>
readerVars == <<taken, output, logged, reader>>
scriptVars == <<settings, mainVars, processVars, readerVars>>

(* Without a log of its own, stderr goes to the pipe of stdout.            *)
PipesOf(m) == IF m = "split" THEN Stream ELSE {"out"}
Pipe == PipesOf(mode)

ScriptInit ==
    /\ mode \in Mode
    /\ limited \in BOOLEAN
    /\ bad \in Bad
    /\ \A s \in Stream \ Pipe : bad[s] = 0
    /\ endless \in BOOLEAN
    /\ deaf \in BOOLEAN
    /\ at = "popen"
    /\ ends = Pipe
    /\ open = IF mode = "unlogged" THEN {} ELSE Pipe
    /\ result = "none"
    /\ reported = [s \in Stream |-> 0]
    /\ printed = FALSE
    /\ process = [q \in Process |-> "none"]
    /\ rc = "none"
    /\ wants = "none"
    /\ written = [s \in Stream |-> 0]
    /\ taken = [s \in Stream |-> 0]
    /\ output = [s \in Stream |-> 0]
    /\ logged = [s \in Stream |-> 0]
    /\ reader = [s \in Stream |-> IF s \in Pipe THEN "read" ELSE "done"]

-----------------------------------------------------------------------------
(* The processes.                                                          *)

Running(q) == process[q] = "running"

Room(p) == written[p] - taken[p] < Capacity

(* The command sets out to write a line, and waits until there is room.    *)
Intend(p) ==
    /\ Running("script")
    /\ wants = "none"
    /\ written[p] < MaxLines[p]
    /\ wants' = p
    /\ UNCHANGED <<settings, mainVars, readerVars, process, rc, written>>

Put ==
    /\ wants \in Pipe
    /\ Room(wants)
    /\ written' = [written EXCEPT ![wants] = @ + 1]
    /\ wants' = "none"
    /\ UNCHANGED <<settings, mainVars, readerVars, process, rc>>

(* A reader that died keeps its end of the pipe open as long as the main   *)
(* thread refers to it, that is until _run_capture_command returns; then   *)
(* the command gets a SIGPIPE, or EPIPE and gives up.                      *)
Broken(p) == reader[p] = "dead" /\ at \notin {"wait", "err", "terminate"}

PipeBreaks ==
    /\ wants \in Pipe
    /\ Broken(wants)
    /\ wants' = "none"
    /\ process' = [process EXCEPT !["script"] = "ended"]
    /\ rc' = "other"
    /\ UNCHANGED <<settings, mainVars, readerVars, written>>

ScriptEnds ==
    /\ Running("script")
    /\ wants = "none"
    /\ ~endless
    /\ process' = [process EXCEPT !["script"] = "ended"]
    /\ rc' \in {"zero", "other"}
    /\ UNCHANGED <<settings, mainVars, readerVars, wants, written>>

(* The background: it may write, and may end or not.                       *)
Fork ==
    /\ Running("script")
    /\ wants = "none"
    /\ process["background"] = "none"
    /\ process' = [process EXCEPT !["background"] = "running"]
    /\ UNCHANGED <<settings, mainVars, readerVars, rc, wants, written>>

BackgroundPuts(p) ==
    /\ Running("background")
    /\ Room(p)
    /\ written[p] < (IF wants = p THEN MaxLines[p] - 1 ELSE MaxLines[p])
    /\ written' = [written EXCEPT ![p] = @ + 1]
    /\ UNCHANGED <<settings, mainVars, readerVars, process, rc, wants>>

BackgroundEnds ==
    /\ Running("background")
    /\ process' = [process EXCEPT !["background"] = "ended"]
    /\ UNCHANGED <<settings, mainVars, readerVars, rc, wants, written>>

-----------------------------------------------------------------------------
(* The reader threads: _LogPipe.run.                                       *)

(* Mutant: stderr is read when stdout has ended *)
Mutant_InTurn(p) ==
    /\ reader[p] = "read"
    /\ p = "err" => reader["out"] = "done"
    /\ output[p] = taken[p]
    /\ \E k \in taken[p] + 1 .. written[p] :
          /\ taken' = [taken EXCEPT ![p] = k]
          /\ reader' = IF bad[p] \in taken[p] + 1 .. k
                         THEN [reader EXCEPT ![p] = "dead"]
                         ELSE reader
    /\ UNCHANGED <<settings, mainVars, processVars, output, logged>>

(* readline fills its buffer with any of what the pipe holds, and decodes  *)
(* all of it: a bad line takes the lines before it along.                  *)
Fill(p) ==
    /\ reader[p] = "read"
    /\ output[p] = taken[p]
    /\ \E k \in taken[p] + 1 .. written[p] :
          /\ taken' = [taken EXCEPT ![p] = k]
          /\ reader' = IF bad[p] \in taken[p] + 1 .. k
                         THEN [reader EXCEPT ![p] = "dead"]
                         ELSE reader
    /\ UNCHANGED <<settings, mainVars, processVars, output, logged>>

(* Mutant: the loop does not stop at the end of the file *)
Mutant_PastTheEnd(p) ==
    /\ reader[p] = "read"
    /\ output' = [output EXCEPT ![p] = @ + 1]
    /\ reader' = [reader EXCEPT ![p] = IF mode = "unlogged" THEN "read"
                                                           ELSE "log"]
    /\ UNCHANGED <<settings, mainVars, processVars, taken, logged>>

Append(p) ==
    /\ reader[p] = "read"
    /\ output[p] < taken[p]
    /\ output' = [output EXCEPT ![p] = @ + 1]
    /\ reader' = [reader EXCEPT ![p] = IF mode = "unlogged" THEN "read"
                                                           ELSE "log"]
    /\ UNCHANGED <<settings, mainVars, processVars, taken, logged>>

(* A write to a closed file raises ValueError.                             *)
Log(p) ==
    /\ reader[p] = "log"
    /\ IF p \in open
         THEN /\ logged' = [logged EXCEPT ![p] = output[p]]
              /\ reader' = [reader EXCEPT ![p] = "read"]
         ELSE /\ reader' = [reader EXCEPT ![p] = "dead"]
              /\ UNCHANGED logged
    /\ UNCHANGED <<settings, mainVars, processVars, taken, output>>

(* The end of file: every write end is closed.  Every process that runs    *)
(* has inherited them.                                                     *)
EndOfFile(p) ==
    /\ reader[p] = "read"
    /\ output[p] = taken[p]
    /\ taken[p] = written[p]
    /\ p \notin ends
    /\ \A q \in Process : ~Running(q)
    /\ reader' = [reader EXCEPT ![p] = "done"]
    /\ UNCHANGED <<settings, mainVars, processVars, taken, output, logged>>

ReaderStep(p) == Fill(p) \/ Append(p) \/ Log(p) \/ EndOfFile(p)

-----------------------------------------------------------------------------
(* The main thread.                                                        *)

Popen ==
    /\ at = "popen"
    /\ at' = "wait"
    /\ process' = [process EXCEPT !["script"] = "running"]
    /\ UNCHANGED <<settings, readerVars, ends, open, result, reported,
                   printed, rc, wants, written>>

(* OSError: there is no process to terminate.                              *)
PopenFails ==
    /\ at = "popen"
    /\ result' = "error"
    /\ at' = "close"
    /\ UNCHANGED <<settings, processVars, readerVars, ends, open, reported,
                   printed>>

(* Mutant: the readers are joined before their output is taken *)
Mutant_JoinsFirst ==
    /\ at = "wait"
    /\ \A p \in Pipe : reader[p] \in {"done", "dead"}
    /\ \/ process["script"] = "ended" /\ result' = IF rc = "zero" THEN "ok"
                                                             ELSE "failed"
       \/ limited /\ result' = "timed out"
    /\ reported' = [reported EXCEPT !["out"] = output["out"]]
    /\ at' = "err"
    /\ UNCHANGED <<settings, processVars, readerVars, ends, open, printed>>

(* process.wait returns or runs into its timeout, and stdout's output is   *)
(* taken as it is; stderr's is taken in a step of its own.                 *)
Wait ==
    /\ at = "wait"
    /\ \/ process["script"] = "ended" /\ result' = IF rc = "zero" THEN "ok"
                                                             ELSE "failed"
       \/ limited /\ result' = "timed out"
    /\ reported' = [reported EXCEPT !["out"] = output["out"]]
    /\ at' = "err"
    /\ UNCHANGED <<settings, processVars, readerVars, ends, open, printed>>

TakeErr ==
    /\ at = "err"
    /\ reported' = [reported EXCEPT !["err"] = output["err"]]
    /\ at' = "terminate"
    /\ UNCHANGED <<settings, processVars, readerVars, ends, open, result,
                   printed>>

(* finally: a SIGTERM, for the command only, and nobody waits for it.      *)
Terminate ==
    /\ at = "terminate"
    /\ at' = "close"
    /\ IF Running("script") /\ ~deaf
         THEN /\ process' = [process EXCEPT !["script"] = "ended"]
              /\ wants' = "none"
              /\ rc' = "other"
         ELSE UNCHANGED <<process, wants, rc>>
    /\ UNCHANGED <<settings, readerVars, ends, open, result, reported,
                   printed, written>>

(* Mutant: the pipe of stderr is not closed *)
Mutant_ClosesOut ==
    /\ at = "close"
    /\ ends' = ends \ {"out"}
    /\ at' = IF result = "ok" THEN "files" ELSE "print"
    /\ UNCHANGED <<settings, processVars, readerVars, open, result, reported,
                   printed>>

(* The write ends of the pipes, stderr's first.                            *)
ClosePipe ==
    /\ at = "close"
    /\ ends' = IF "err" \in ends THEN ends \ {"err"} ELSE {}
    /\ at' = IF ends' # {} THEN "close"
             ELSE IF result = "ok" THEN "files" ELSE "print"
    /\ UNCHANGED <<settings, processVars, readerVars, open, result, reported,
                   printed>>

(* exit_json is called behind the `with' of the files, fail_json inside.   *)
PrintResult ==
    /\ at = "print"
    /\ printed' = TRUE
    /\ at' = IF result = "ok" THEN "join" ELSE "files"
    /\ UNCHANGED <<settings, processVars, readerVars, ends, open, result,
                   reported>>

CloseFile ==
    /\ at = "files"
    /\ open' = IF "err" \in open THEN open \ {"err"} ELSE {}
    /\ at' = IF open' # {} THEN "files"
             ELSE IF result = "ok" THEN "print" ELSE "join"
    /\ UNCHANGED <<settings, processVars, readerVars, ends, result, reported,
                   printed>>

(* Mutant: the reader threads are daemons *)
Mutant_Leaves ==
    /\ at = "join"
    /\ at' = "gone"
    /\ UNCHANGED <<settings, processVars, readerVars, ends, open, result,
                   reported, printed>>

(* The interpreter waits for its threads, which are no daemons.            *)
Join ==
    /\ at = "join"
    /\ \A p \in Pipe : reader[p] \in {"done", "dead"}
    /\ at' = "gone"
    /\ UNCHANGED <<settings, processVars, readerVars, ends, open, result,
                   reported, printed>>

MainStep ==
    \/ Popen \/ PopenFails \/ Wait \/ TakeErr \/ Terminate
    \/ ClosePipe \/ PrintResult \/ CloseFile \/ Join

ScriptNext ==
    \/ MainStep
    \/ \E p \in Pipe : ReaderStep(p) \/ Intend(p) \/ BackgroundPuts(p)
    \/ Put \/ PipeBreaks \/ ScriptEnds
    \/ Fork \/ BackgroundEnds

(* Threads and processes are scheduled, the time runs out, a write that    *)
(* finds room is done, and a command that ends by itself does so at some   *)
(* time.  Nothing is assumed of the background.                            *)
ScriptFairness ==
    /\ WF_scriptVars(MainStep)
    /\ \A p \in Stream : WF_scriptVars(p \in Pipe /\ ReaderStep(p))
    /\ WF_scriptVars(Put \/ PipeBreaks)
    /\ WF_scriptVars(ScriptEnds)

ScriptSpec == ScriptInit /\ [][ScriptNext]_scriptVars
FairScriptSpec == ScriptSpec /\ ScriptFairness

-----------------------------------------------------------------------------

ScriptTypeOK ==
    /\ at \in {"popen", "wait", "err", "terminate", "close", "files", "print",
               "join", "gone"}
    /\ ends \subseteq Pipe
    /\ open \subseteq Pipe
    /\ result \in {"none", "ok", "failed", "timed out", "error"}
    /\ printed \in BOOLEAN
    /\ process \in [Process -> {"none", "running", "ended"}]
    /\ rc \in {"none", "zero", "other"}
    /\ wants \in Pipe \cup {"none"}
    /\ reader \in [Stream -> {"read", "log", "done", "dead"}]
    /\ \A s \in Stream : /\ reported[s] \in 0 .. output[s]
                         /\ logged[s] \in 0 .. output[s]
                         /\ output[s] \in 0 .. taken[s]
                         /\ taken[s] \in 0 .. written[s]
                         /\ written[s] \in 0 .. MaxLines[s]
                         /\ written[s] - taken[s] <= Capacity

(* A reader dies only of a line that does not decode, or of a log that the *)
(* main thread closed; and when the module has ended, every reader that    *)
(* did not die has kept and logged all that was ever written, by the       *)
(* background too (script.py:42-47, :32, :223-256).                        *)
LogsWhole ==
    /\ \A p \in Pipe : reader[p] = "dead" =>
          \/ bad[p] \in 1 .. taken[p]
          \/ mode # "unlogged" /\ p \notin open /\ logged[p] = output[p] - 1
    /\ at = "gone" => \A p \in Pipe : reader[p] # "dead" =>
          /\ output[p] = written[p]
          /\ mode # "unlogged" => logged[p] = written[p]

(* The module ends if the processes that hold its pipes do: it lets go of  *)
(* them itself, and the readers outlive any failure (script.py:49-56).     *)
ModuleEnds ==
    <>[](\A q \in Process : ~Running(q)) => <>(at = "gone")

(* With a timeout, the result is printed even if the command ignores the   *)
(* signal, blocks on its pipe, or leaves a process behind that holds it:   *)
(* only the end of the module has to wait (script.py:86-111).              *)
TimeLimitReports == limited ~> printed

(* The command never waits for a reader in vain: it comes to its end if it *)
(* has one and all its lines decode, and otherwise a timeout ends it       *)
(* unless it ignores the signal (script.py:42-47, :70-72, :109-111).       *)
ScriptUnblocked ==
    (/\ Running("script")
     /\ \/ ~endless /\ \A p \in Pipe : bad[p] = 0
        \/ limited /\ ~deaf)
        ~> ~Running("script")
================================================================================

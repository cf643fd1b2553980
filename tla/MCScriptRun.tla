------------------------------- MODULE MCScriptRun -----------------------------
EXTENDS ScriptRun

(* Three lines of stdout: one that its reader dies of, one that fills the  *)
(* pipe and one that has to wait; two of stderr.                           *)
MCMaxLines == [out |-> 3, err |-> 2]

(* All lines decode, or the first one of stdout does not.                  *)
MCBad == {[out |-> k, err |-> 0] : k \in {0, 1}}
================================================================================

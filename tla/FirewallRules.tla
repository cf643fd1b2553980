----------------------------- MODULE FirewallRules -----------------------------
(***************************************************************************)
(* What nftables_apply promises, whatever its steps: the kernel enforces a *)
(* whole rule set or none, only ever changes to rules that the next boot   *)
(* would enforce too, and a call that succeeds has stored its rules.  A    *)
(* call that fails may enforce what was stored before it, or leave things  *)
(* as they are.  A success does not promise that the rules are enforced:   *)
(* rules that are found stored are taken to be enforced.                   *)
(***************************************************************************)
CONSTANTS
    Rules,      \* the rule sets
    None        \* no rules

VARIABLES
    asked,      \* the rules of the call under way, or of one that succeeded
    former,     \* what was stored when the call under way looked
    stored,     \* what a boot would enforce
    enforced,   \* what the kernel enforces
    outcome     \* of the last call, "none" while it is under way

promiseVars == <<asked, former, stored, enforced, outcome>>

Init ==
    /\ asked = None
    /\ former = None
    /\ stored \in Rules \cup {None}
    /\ enforced \in {stored, None}
    /\ outcome = "ok"

Ask ==
    /\ outcome # "none"
    /\ asked' \in Rules
    /\ former' = None
    /\ outcome' = "none"
    /\ UNCHANGED <<stored, enforced>>

Look ==
    /\ outcome = "none"
    /\ former' = stored
    /\ UNCHANGED <<asked, stored, enforced, outcome>>

Store ==
    /\ outcome = "none"
    /\ stored' \in {asked, former, None}
    /\ UNCHANGED <<asked, former, enforced, outcome>>

Succeed ==
    /\ outcome = "none"
    /\ stored = asked
    /\ \/ enforced' = stored /\ outcome' \in {"ok", "changed"}
       \/ enforced' = enforced /\ outcome' = "ok"
    /\ former' = None
    /\ UNCHANGED <<asked, stored>>

Fail ==
    /\ outcome = "none"
    /\ outcome' = "failed"
    /\ \/ enforced' = enforced
       \/ enforced' = stored /\ stored = former
    /\ asked' = None
    /\ former' = None
    /\ UNCHANGED stored

Die ==
    /\ outcome = "none"
    /\ outcome' = "killed"
    /\ asked' = None
    /\ former' = None
    /\ UNCHANGED <<stored, enforced>>

Boot ==
    /\ enforced' = stored
    /\ outcome' = IF outcome = "none" THEN "killed" ELSE outcome
    /\ former' = None
    /\ asked' = IF outcome \in {"ok", "changed"} THEN asked ELSE None
    /\ UNCHANGED stored

Next == Ask \/ Look \/ Store \/ Succeed \/ Fail \/ Die \/ Boot

Spec == Init /\ [][Next]_promiseVars
================================================================================

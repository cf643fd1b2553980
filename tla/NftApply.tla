-------------------------------- MODULE NftApply --------------------------------
(***************************************************************************)
(* The module nftables_apply: it validates a rule set, writes it to a file *)
(* that the nftables service loads at boot, and loads it into the kernel.  *)
(* When writing or loading fails over an existing file, the former content *)
(* is written and loaded again, and the call fails.  A call may die between *)
(* any two steps, and the host may reboot at any time.                     *)
(*                                                                         *)
(* External: `nft -f' is atomic, and starts with a flush of the former     *)
(* rules; a file that a death has left truncated changes nothing when it   *)
(* is loaded.                                                              *)
(***************************************************************************)
CONSTANTS
    Rules,      \* the rule sets, as the text of a file
    Accepted,   \* those that `nft -c' accepts
    Torn,       \* the content of a file that was truncated and not written
    None        \* no file, no rules, nothing read

ASSUME NftAssumption ==
    /\ Accepted \subseteq Rules
    /\ Torn \notin Rules
    /\ None \notin Rules
    /\ Torn # None

VARIABLES
    file,       \* target_config_file
    kernel,     \* the rule set that the kernel enforces
    step,       \* the statement of main() or __write_apply_rules_content
    config,     \* the candidate rules of the last call
    saved,      \* current_rules_content
    restoring,  \* __write_apply_rules_content runs in the except branch
    result,     \* how the last call ended, "none" while it is under way
    agreed      \* history: when the call began there was no file, or the
                \* kernel enforced what the file says

nftVars == <<file, kernel, step, config, saved, restoring, result, agreed>>

Contents == Rules \cup {Torn, None}

(* What a boot makes of the file. *)
Loaded(content) == IF content \in Rules THEN content ELSE None

NftInit ==
    /\ file \in Rules \cup {None}
    /\ kernel \in {file, None}
    /\ step = "idle"
    /\ config = None
    /\ saved = None
    /\ restoring = FALSE
    /\ result = "ok"
    /\ agreed = FALSE

(* Mutant: nothing is reset *)
Mutant_KeepsBranch(r) ==
    /\ step' = "idle"
    /\ restoring' = restoring
    /\ result' = r
    /\ saved' = None
    /\ config' = IF r \in {"ok", "changed"} THEN config ELSE None
    /\ UNCHANGED agreed

(* The module exits, and what it held is gone; the rules that it was asked *)
(* for are remembered if it succeeds.                                      *)
NftEnd(r) ==
    /\ step' = "idle"
    /\ restoring' = FALSE
    /\ result' = r
    /\ saved' = None
    /\ config' = IF r \in {"ok", "changed"} THEN config ELSE None
    /\ UNCHANGED agreed

Call(c) ==
    /\ step = "idle"
    /\ step' = "validate"
    /\ config' = c
    /\ result' = "none"
    /\ agreed' = (file \in {kernel, None})
    /\ UNCHANGED <<file, kernel, saved, restoring>>

(* `nft -c' over a temporary copy; it may also fail for reasons of its own. *)
Validated ==
    /\ step = "validate"
    /\ config \in Accepted
    /\ step' = "compare"
    /\ UNCHANGED <<file, kernel, config, saved, restoring, result, agreed>>

Rejected ==
    /\ step = "validate"
    /\ NftEnd("failed")
    /\ UNCHANGED <<file, kernel>>

Absent ==
    /\ step = "compare"
    /\ file = None
    /\ step' = "open"
    /\ UNCHANGED <<file, kernel, config, saved, restoring, result, agreed>>

(* Mutant: a file that is there is left alone *)
Mutant_KeepsExisting ==
    /\ step = "compare"
    /\ file # None
    /\ NftEnd("ok")
    /\ UNCHANGED <<file, kernel>>

Same ==
    /\ step = "compare"
    /\ file = config
    /\ NftEnd("ok")
    /\ UNCHANGED <<file, kernel>>

Differs ==
    /\ step = "compare"
    /\ file \notin {config, None}
    /\ saved' = file
    /\ step' = "open"
    /\ UNCHANGED <<file, kernel, config, restoring, result, agreed>>

(* The argument of __write_apply_rules_content. *)
content == IF restoring THEN saved ELSE config

Open ==
    /\ step = "open"
    /\ file' = Torn
    /\ step' = "write"
    /\ UNCHANGED <<kernel, config, saved, restoring, result, agreed>>

Write ==
    /\ step = "write"
    /\ file' = content
    /\ step' = "load"
    /\ UNCHANGED <<kernel, config, saved, restoring, result, agreed>>

(* The outcome of a load: `changed' is set only for a file that was there. *)
LoadResult ==
    IF restoring THEN "failed" ELSE IF saved = None THEN "ok" ELSE "changed"

(* Mutant: a file that did not exist is not loaded *)
Mutant_LoadsDiffering ==
    /\ step = "load"
    /\ kernel' = IF saved = None THEN kernel ELSE content
    /\ NftEnd(LoadResult)
    /\ UNCHANGED file

(* Mutant: the roll-back loads the candidate again *)
Mutant_ReloadsCandidate ==
    /\ step = "load"
    /\ kernel' = config
    /\ NftEnd(LoadResult)
    /\ UNCHANGED file

Load ==
    /\ step = "load"
    /\ kernel' = IF content = Torn THEN kernel ELSE content
    /\ NftEnd(LoadResult)
    /\ UNCHANGED file

(* stat, open, write, chown or `nft -f' fails. *)
StepFails ==
    /\ step \in {"open", "write", "load"}
    /\ IF restoring \/ saved = None
         THEN NftEnd("failed")
         ELSE /\ restoring' = TRUE
              /\ step' = "open"
              /\ UNCHANGED <<config, saved, result, agreed>>
    /\ UNCHANGED <<file, kernel>>

NftKill ==
    /\ step # "idle"
    /\ NftEnd("killed")
    /\ UNCHANGED <<file, kernel>>

(* The nftables service, which the role enables, loads the file at boot.   *)
NftReboot ==
    /\ kernel' = Loaded(file)
    /\ NftEnd(IF step = "idle" THEN result ELSE "killed")
    /\ UNCHANGED file

NftStep ==
    \/ Validated \/ Rejected
    \/ Absent \/ Same \/ Differs
    \/ Open \/ Write \/ Load \/ StepFails

NftNext == (\E c \in Rules : Call(c)) \/ NftStep \/ NftKill \/ NftReboot

NftSpec == NftInit /\ [][NftNext]_nftVars

-----------------------------------------------------------------------------

(* The variables range over what the code can hold, and say at which      *)
(* statements each of them has a meaning.                                  *)
NftTypeOK ==
    /\ file \in Contents
    /\ kernel \in Rules \cup {None}
    /\ step \in {"idle", "validate", "compare", "open", "write", "load"}
    /\ config \in Rules \cup {None}
    /\ saved \in Contents
    /\ restoring \in BOOLEAN
    /\ result \in {"none", "ok", "changed", "failed", "killed"}
    /\ agreed \in BOOLEAN
    /\ step # "idle" <=> result = "none"
    /\ step # "idle" => config \in Rules
    /\ restoring => step \in {"open", "write", "load"} /\ saved # None

(* A call that began with the kernel enforcing the file, or with no file,  *)
(* and succeeded has its rules in the file and in the kernel.  A success   *)
(* says no more than that: a file that a failed or killed call has written *)
(* but not loaded is found equal by the next call, which loads nothing     *)
(* (nftables_apply.py:93).                                                 *)
SuccessEnforced ==
    agreed /\ result \in {"ok", "changed"} => file = config /\ kernel = config

(* A call that began with the kernel enforcing the file and fails leaves   *)
(* the kernel's rules as they were, whichever of its steps failed, those   *)
(* of the roll-back included.                                              *)
FailureKeepsRules ==
    [][agreed /\ result = "none" /\ result' = "failed"
         => kernel' = kernel]_nftVars

(* The refinement: the module keeps the promise of FirewallRules.          *)
Promise == INSTANCE FirewallRules WITH
    asked <- config,
    former <- Loaded(saved),
    stored <- Loaded(file),
    enforced <- kernel,
    outcome <- result
Promised == Promise!Spec
================================================================================

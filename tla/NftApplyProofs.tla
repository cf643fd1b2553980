----------------------------- MODULE NftApplyProofs -----------------------------
(***************************************************************************)
(* Proofs about the calls of nftables_apply, for any rule sets.            *)
(***************************************************************************)
EXTENDS NftApply, TLAPS

(* What holds between two steps: where each statement finds the file and   *)
(* the kernel.                                                             *)
Reading ==
    /\ step \in {"idle", "validate", "compare"} => saved = None
    /\ step \in {"validate", "compare"} /\ agreed => file \in {kernel, None}

RollBack == saved # None /\ agreed => kernel = saved

Loading == step = "load" => file = content

Remembered == agreed /\ result \in {"ok", "changed"} => config \in Rules

NftInv ==
    /\ NftTypeOK
    /\ Reading
    /\ RollBack
    /\ Loading
    /\ Remembered
    /\ SuccessEnforced

LEMMA NftInitInv == NftInit => NftInv
  BY NftAssumption
     DEF NftInit, NftInv, NftTypeOK, Contents, Reading, RollBack, Loading,
         Remembered, SuccessEnforced

LEMMA NftCallInv == ASSUME NftInv, NEW c \in Rules, Call(c) PROVE NftInv'
  BY NftAssumption
     DEF Call, NftInv, NftTypeOK, Contents, Reading, RollBack, Loading,
         Remembered, SuccessEnforced

(* The steps that only read, and those that end the call.                  *)
LEMMA NftReadInv ==
    ASSUME NftInv, Validated \/ Rejected \/ Absent \/ Same \/ Differs
    PROVE  NftInv'
  <1> USE NftAssumption
      DEF NftInv, NftTypeOK, Contents, Reading, RollBack, Loading, Remembered,
          SuccessEnforced
  <1>1. CASE Validated
    BY <1>1 DEF Validated
  <1>2. CASE Rejected
    BY <1>2 DEF Rejected, NftEnd
  <1>3. CASE Absent
    BY <1>3 DEF Absent
  <1>4. CASE Same
    BY <1>4 DEF Same, NftEnd
  <1>5. CASE Differs
    BY <1>5 DEF Differs
  <1> QED
    BY <1>1, <1>2, <1>3, <1>4, <1>5

LEMMA NftWriteInv ==
    ASSUME NftInv, Open \/ Write \/ Load \/ StepFails
    PROVE  NftInv'
  <1> USE NftAssumption
      DEF NftInv, NftTypeOK, Contents, Reading, RollBack, Loading, Remembered,
          SuccessEnforced
  <1>1. CASE Open
    BY <1>1 DEF Open
  <1>2. CASE Write
    BY <1>2 DEF Write, content
  <1>3. CASE Load
    BY <1>3 DEF Load, LoadResult, NftEnd, content
  <1>4. CASE StepFails
    BY <1>4 DEF StepFails, NftEnd, content
  <1> QED
    BY <1>1, <1>2, <1>3, <1>4

LEMMA NftKillInv == ASSUME NftInv, NftKill \/ NftReboot PROVE NftInv'
  <1> USE NftAssumption
      DEF NftInv, NftTypeOK, Contents, Reading, RollBack, Loading, Remembered,
          SuccessEnforced
  <1>1. CASE NftKill
    BY <1>1 DEF NftKill, NftEnd
  <1>2. CASE NftReboot
    BY <1>2 DEF NftReboot, NftEnd, Loaded
  <1> QED
    BY <1>1, <1>2

LEMMA NftNextInv == NftInv /\ [NftNext]_nftVars => NftInv'
  <1> SUFFICES ASSUME NftInv, [NftNext]_nftVars PROVE NftInv'
    OBVIOUS
  <1>1. CASE UNCHANGED nftVars
    BY <1>1 DEF nftVars, NftInv, NftTypeOK, Reading, RollBack, Loading,
                Remembered, SuccessEnforced, content
  <1>2. CASE NftNext
    BY <1>2, NftCallInv, NftReadInv, NftWriteInv, NftKillInv DEF NftNext, NftStep
  <1> QED
    BY <1>1, <1>2

LEMMA NftInvariance == NftSpec => []NftInv
  BY NftInitInv, NftNextInv, PTL DEF NftSpec

(* A call that succeeds has its rules in the file, whatever it found: what *)
(* a call that repeats it compares with.                                   *)
Stored == result \in {"ok", "changed"} /\ config \in Rules => file = config

LEMMA StoredStep == ASSUME NftInv, Stored, [NftNext]_nftVars PROVE Stored'
  <1> USE NftAssumption DEF Stored
  <1>1. CASE UNCHANGED nftVars
    BY <1>1 DEF nftVars
  <1>2. CASE \E c \in Rules : Call(c)
    BY <1>2 DEF Call
  <1>3. CASE Validated \/ Rejected \/ Absent \/ Same \/ Differs
    BY <1>3 DEF Validated, Rejected, Absent, Same, Differs, NftEnd, NftInv,
                NftTypeOK
  <1>4. CASE Open \/ Write \/ StepFails
    BY <1>4 DEF Open, Write, StepFails, NftEnd, NftInv, NftTypeOK
  <1>5. CASE Load
    BY <1>5 DEF Load, LoadResult, NftEnd, NftInv, Loading, content
  <1>6. CASE NftKill \/ NftReboot
    BY <1>6 DEF NftKill, NftReboot, NftEnd
  <1> QED
    BY <1>1, <1>2, <1>3, <1>4, <1>5, <1>6 DEF NftNext, NftStep

LEMMA StoredInvariance == NftSpec => [](NftInv /\ Stored)
  <1>1. NftInit => Stored
    BY NftAssumption DEF NftInit, Stored
  <1> QED
    BY <1>1, StoredStep, NftInvariance, PTL DEF NftSpec

(* A call that began with the kernel enforcing the file and succeeded has  *)
(* its rules in both, whatever happened before it and between its steps.   *)
THEOREM SuccessIsEnforced == NftSpec => []SuccessEnforced
  <1>1. NftInv => SuccessEnforced
    BY DEF NftInv
  <1> QED
    BY <1>1, NftInvariance, PTL

(* A call that began so and fails leaves the kernel's rules as they were.  *)
THEOREM FailureIsHarmless == NftSpec => FailureKeepsRules
  <1> DEFINE Keeps ==
        agreed /\ result = "none" /\ result' = "failed" => kernel' = kernel
  <1>1. NftInv /\ [NftNext]_nftVars => Keeps
    <2> SUFFICES ASSUME NftInv, [NftNext]_nftVars, agreed, result = "none",
                        result' = "failed"
                 PROVE  kernel' = kernel
      OBVIOUS
    <2>1. CASE Load
      BY <2>1 DEF Load, LoadResult, NftEnd, content, NftInv, NftTypeOK, RollBack
    <2>2. CASE NftReboot
      BY <2>2 DEF NftReboot, NftEnd, NftInv, NftTypeOK
    <2>3. CASE \E c \in Rules : Call(c)
      BY <2>3 DEF Call
    <2> QED
      BY <2>1, <2>2, <2>3
         DEF NftNext, NftStep, nftVars, Validated, Rejected, Absent, Same,
             Differs, Open, Write, StepFails, NftKill
  <1>2. NftInv /\ [NftNext]_nftVars => [Keeps]_nftVars
    BY <1>1
  <1> QED
    BY <1>2, NftInvariance, PTL DEF NftSpec, FailureKeepsRules

LEMMA PromisedInit == NftInit => Promise!Init
  BY NftAssumption DEF NftInit, Promise!Init, Loaded

LEMMA PromisedStep ==
    ASSUME NftInv, [NftNext]_nftVars
    PROVE  [Promise!Next]_Promise!promiseVars
  <1> USE NftAssumption DEF NftInv, NftTypeOK, Contents
  <1>1. CASE UNCHANGED nftVars
    BY <1>1 DEF nftVars, Promise!promiseVars, Loaded
  <1>2. ASSUME NEW c \in Rules, Call(c)
        PROVE  Promise!Ask
    BY <1>2 DEF Call, Promise!Ask, Loaded, Reading
  <1>3. CASE Validated \/ Absent
    BY <1>3 DEF Validated, Absent, Promise!promiseVars, Loaded
  <1>4. CASE Rejected
    <2>1. Promise!Fail
      BY <1>4 DEF Rejected, NftEnd, Promise!Fail, Loaded
    <2> QED
      BY <2>1 DEF Promise!Next
  <1>5. CASE Same
    <2>1. Promise!Succeed
      BY <1>5 DEF Same, NftEnd, Promise!Succeed, Loaded
    <2> QED
      BY <2>1 DEF Promise!Next
  <1>6. CASE Differs
    <2>1. Promise!Look
      BY <1>6 DEF Differs, Promise!Look, Loaded
    <2> QED
      BY <2>1 DEF Promise!Next
  <1>7. CASE Open \/ Write
    <2>1. Promise!Store
      BY <1>7 DEF Open, Write, content, Promise!Store, Loaded
    <2> QED
      BY <2>1 DEF Promise!Next
  <1>8. CASE Load
    <2>1. CASE restoring
      <3>1. Promise!Fail
        BY <1>8, <2>1
           DEF Load, LoadResult, NftEnd, content, Promise!Fail, Loaded, Loading
      <3> QED
        BY <3>1 DEF Promise!Next
    <2>2. CASE ~restoring
      <3>1. Promise!Succeed
        BY <1>8, <2>2
           DEF Load, LoadResult, NftEnd, content, Promise!Succeed, Loaded,
               Loading
      <3> QED
        BY <3>1 DEF Promise!Next
    <2> QED
      BY <2>1, <2>2
  <1>9. CASE StepFails
    <2>1. CASE restoring \/ saved = None
      <3>1. Promise!Fail
        BY <1>9, <2>1 DEF StepFails, NftEnd, Promise!Fail, Loaded
      <3> QED
        BY <3>1 DEF Promise!Next
    <2>2. CASE ~(restoring \/ saved = None)
      BY <1>9, <2>2 DEF StepFails, Promise!promiseVars, Loaded
    <2> QED
      BY <2>1, <2>2
  <1>10. CASE NftKill
    <2>1. Promise!Die
      BY <1>10 DEF NftKill, NftEnd, Promise!Die, Loaded
    <2> QED
      BY <2>1 DEF Promise!Next
  <1>11. CASE NftReboot
    <2>1. Promise!Boot
      BY <1>11 DEF NftReboot, NftEnd, Promise!Boot, Loaded
    <2> QED
      BY <2>1 DEF Promise!Next
  <1> QED
    BY <1>1, <1>2, <1>3, <1>4, <1>5, <1>6, <1>7, <1>8, <1>9, <1>10, <1>11
       DEF NftNext, NftStep, Promise!Next

(* The module implements FirewallRules: the kernel never enforces rules    *)
(* that the next boot would not, and a success has stored its rules.       *)
THEOREM PromiseKept == NftSpec => Promised
  <1>1. NftInv /\ [NftNext]_nftVars => [Promise!Next]_Promise!promiseVars
    BY PromisedStep
  <1> QED
    BY PromisedInit, <1>1, NftInvariance, PTL
       DEF NftSpec, Promised, Promise!Spec
================================================================================

---------------------------- MODULE NmSessionProofs ----------------------------
(***************************************************************************)
(* Runs of nmcli_apply, for every plan, every initial content of           *)
(* NetworkManager and any number of runs, failures and kills.              *)
(*                                                                         *)
(*   TypeCorrect, SessionSafe   the state is well typed, and a run never   *)
(*                              deletes what it has configured    (IInv)   *)
(*   DependentsSpared           nor what a configuration that depends on   *)
(*                              the current one will take over             *)
(*   BystandersSafe             connections that have nothing to do with   *)
(*                              the plan are left alone                    *)
(*   ChangesReported            a run that reports no change has made none *)
(*                                                           (ReportInv)   *)
(*   AdoptedGoFirst             adopted slaves are activated before their  *)
(*                              main connection             (AdoptedInv)   *)
(*   AppliedInFull              every configuration has a connection of    *)
(*                              its own that carries it       (MarksInv)   *)
(*   EmptyMainsGo               a main whose slaves are deleted goes too   *)
(*                                                             (Cleared)   *)
(*   StatesAsAsked              connections are in the state asked for,    *)
(*                              with the settings written                  *)
(*                                        (ChangedRestarted, AsAsked)      *)
(*   RaisesNever                the addressing can be built   (AllSound)   *)
(*   NothingLeftToDo            a run over what is as the plan wants it    *)
(*                              changes nothing             (Unchanging)   *)
(*   WhatIsLeftIsWanted,        what a run leaves is as its plan wants it, *)
(*   RepetitionIsIdle           so repeating it does nothing  (Resting)    *)
(*                                                                         *)
(* Each is proved from the inductive invariant named with it.              *)
(***************************************************************************)
EXTENDS NmSession, NmTargetProofs, FiniteSetTheorems

(* The steps at which a configuration is being applied *)
Working == {"delete", "validate", "main", "slave", "enforce", "command", "poll"}

(* The steps at which its main connection has been configured *)
Configured == {"slave", "enforce", "command", "poll"}

Enforcing == {"enforce", "command", "poll"}

(* The inductive invariant.  What makes SessionKept inductive is that      *)
(* everything still to be deleted comes from the delete list of the        *)
(* configuration being applied, which spares the session; and that a       *)
(* result joins the session only after each of its connections was found   *)
(* alive by __enforce_connection_state.                                    *)
DeletesPlanned ==
    pc = "delete" => todel \subseteq DeleteList(snap, plan, cfg, session)

EnforcedLive ==
    pc \in Enforcing =>
        /\ k \in Nat \ {0}
        /\ \A n \in DOMAIN ToEnforce : n < k => ToEnforce[n].uuid \in live

CurLive ==
    pc \in {"command", "poll"} => k \in DOMAIN ToEnforce /\ Cur.uuid \in live

Shape ==
    /\ TypeOK
    /\ IsFiniteSet(live)
    /\ pc \in Working => i \in DOMAIN plan
    /\ pc \in Configured => res.main \in Result

IInv ==
    /\ Shape
    /\ DeletesPlanned
    /\ session \subseteq live
    /\ EnforcedLive
    /\ CurLive

-----------------------------------------------------------------------------
(* The profiles that the builders describe are profiles. *)
LEMMA BlankType == \A type \in Types : Blank(type) \in Prof
BY DEF Blank, Prof

LEMMA CommonArgsType ==
    ASSUME NEW c \in MainCfg \cup SlaveCfg, NEW p \in Prof
    PROVE  CommonArgs(c, p) \in Prof /\ CommonArgs(c, p).ip = p.ip
<1>1. c.name \in Name /\ c.iface \in Iface \cup {None}
  BY DEF MainCfg, SlaveCfg
<1>2. QED
  BY <1>1 DEF CommonArgs, Prof

LEMMA VlanArgsType ==
    ASSUME NEW c \in MainCfg \cup SlaveCfg, NEW p \in Prof
    PROVE  VlanArgs(c, p) \in Prof
<1>1. /\ c.parent \in Iface \cup {None}
      /\ c.vid \in VlanId \cup {None}
  BY DEF MainCfg, SlaveCfg
<1>2. QED
  BY <1>1 DEF VlanArgs, Prof

LEMMA WantMainType ==
    ASSUME NEW c \in MainCfg, NEW p \in Prof, Usable(c.ip, p.ip)
    PROVE  WantMain(c, p) \in Prof
<1>1. c.ip \in IpConfig \cup {None} /\ p.ip \in IpSetting \cup {None}
  BY DEF MainCfg, Prof
<1>2. Built(c.ip, p.ip) \in IpSetting
  BY <1>1, BuiltAsDescribed, DescribedType
<1>3. [CommonArgs(c, p) EXCEPT !.ip = Built(c.ip, p.ip)] \in Prof
  BY <1>2, CommonArgsType DEF Prof
<1>4. QED
  BY <1>3, CommonArgsType, VlanArgsType DEF WantMain

LEMMA WantSlaveType ==
    ASSUME NEW c \in SlaveCfg, NEW p \in Prof, NEW m \in Uuid
    PROVE  WantSlave(c, p, m) \in Prof
<1>1. [CommonArgs(c, p) EXCEPT !.master = m] \in Prof
  BY CommonArgsType DEF Prof
<1>2. QED
  BY <1>1, VlanArgsType DEF WantSlave

(* A new connection's arguments are always usable. *)
LEMMA NewUsable ==
    ASSUME NEW c \in MainCfg, NEW type
    PROVE  Usable(c.ip, Blank(type).ip)
<1>1. c.ip \in IpConfig \cup {None} /\ Blank(type).ip = None
  BY DEF MainCfg, Blank
<1>2. QED
  BY <1>1, UnusableExactly

LEMMA ModifiedType ==
    ASSUME NEW p \in Prof, NEW q \in Prof, NEW want \in Prof
    PROVE  Modified(p, q, want) \in Prof
<1>1. Merged(p.ip, q.ip, want.ip) \in IpSetting \cup {None}
  <2>1. CASE p.ip = None \/ q.ip = None \/ want.ip = None
    BY <2>1 DEF Merged, Prof
  <2>2. CASE ~(p.ip = None \/ q.ip = None \/ want.ip = None)
    <3>1. p.ip \in IpSetting /\ want.ip \in IpSetting
      BY <2>2 DEF Prof
    <3>2. QED
      BY <2>2, <3>1 DEF Merged, IpSetting
  <2>3. QED
    BY <2>1, <2>2
<1>2. QED
  BY <1>1 DEF Modified, Prof

(* While a configuration is applied, it is one of the plan's. *)
LEMMA CfgType ==
    ASSUME Shape, pc \in Working
    PROVE  cfg \in MainCfg /\ cfg.slaves \in Seq(SlaveCfg)
<1>1. plan \in Seq(MainCfg) /\ i \in DOMAIN plan
  <2>1. plan # <<>>
    BY DEF Shape
  <2>2. QED
    BY <2>1, SessionAssumption DEF Shape, TypeOK
<1>2. plan[i] \in MainCfg
  BY <1>1
<1>3. QED
  BY <1>2 DEF cfg, MainCfg

LEMMA BlankState ==
    /\ NoSnap \in Snapshot
    /\ NoResult \in MainResult
    /\ Gone \in Prof
<1>1. Gone \in Prof
  BY BlankType DEF Gone, Types
<1>2. QED
  BY <1>1 DEF NoSnap, Snapshot, NoResult, MainResult

(* The end of a run, however it ends *)
LEMMA EndShape ==
    ASSUME Shape, NEW how \in Outcomes, End(how)
    PROVE  Shape'
<1>1. settled' \in BOOLEAN
  BY DEF End
<1>2. TypeOK'
  <2>1. \/ UNCHANGED <<plan, snap, results>>
        \/ plan' = <<>> /\ snap' = NoSnap /\ results' = <<>>
    BY DEF End
  <2>2. /\ plan' \in Plans \cup {<<>>}
        /\ snap' \in Snapshot
        /\ results' \in Seq(MainResult)
    <3>1. CASE UNCHANGED <<plan, snap, results>>
      BY <3>1 DEF Shape, TypeOK
    <3>2. CASE plan' = <<>> /\ snap' = NoSnap /\ results' = <<>>
      <4>1. <<>> \in Seq(MainResult)
        OBVIOUS
      <4>2. QED
        BY <3>2, <4>1, BlankState
    <3>3. QED
      BY <2>1, <3>1, <3>2
  <2>3. /\ pc' \in Steps
        /\ outcome' \in Outcomes
        /\ i' \in Nat \ {0}
        /\ todel' \subseteq Uuid
        /\ res' \in MainResult
        /\ k' \in Nat
        /\ remaining' \in 0..PollMax
    BY BlankState, SessionAssumption DEF End, Steps
  <2>4. UNCHANGED <<live, prof, active, stale, flips>>
    BY DEF End
  <2>5. QED
    BY <1>1, <2>2, <2>3, <2>4 DEF Shape, TypeOK
<1>3. IsFiniteSet(live)'
  BY DEF End, Shape
<1>4. QED
  BY <1>2, <1>3 DEF End, Shape, Working, Configured

LEMMA EndInv ==
    ASSUME IInv, NEW how \in Outcomes, End(how)
    PROVE  IInv'
<1>1. Shape'
  BY EndShape DEF IInv
<1>2. session' \subseteq live'
  <2>1. results' = results \/ results' = <<>>
    BY DEF End
  <2>2. QED
    BY <2>1 DEF IInv, End, session, Range
<1>3. QED
  BY <1>1, <1>2 DEF IInv, End, DeletesPlanned, EnforcedLive, CurLive, Enforcing

-----------------------------------------------------------------------------
(* Init, and a run that begins *)
LEMMA InitInv == Init => IInv
<1> SUFFICES ASSUME Init PROVE IInv
  OBVIOUS
<1>1. PICK st \in Stores :
        /\ live = DOMAIN st.prof
        /\ prof = [u \in Uuid |-> IF u \in DOMAIN st.prof THEN st.prof[u] ELSE Gone]
        /\ active = st.active
  BY DEF Init
<1>2. /\ live \subseteq Uuid
      /\ IsFiniteSet(live)
      /\ prof \in [Uuid -> Prof]
      /\ active \subseteq live
  BY <1>1, BlankState, SessionAssumption
<1>3. <<>> \in Seq(MainResult)
  OBVIOUS
<1>4. TypeOK
  <2>1. /\ stale \subseteq active
        /\ plan \in Plans \cup {<<>>}
        /\ snap \in Snapshot
        /\ i \in Nat \ {0}
        /\ pc \in Steps
        /\ todel \subseteq Uuid
        /\ res \in MainResult
        /\ k \in Nat
    BY BlankState DEF Init, Steps
  <2>2. /\ remaining \in 0..PollMax
        /\ outcome \in Outcomes
        /\ flips \in 0..FlipMax
    BY SessionAssumption DEF Init, Outcomes
  <2>3. settled \in BOOLEAN
    BY Zenon DEF Init
  <2>4. results \in Seq(MainResult)
    BY <1>3 DEF Init
  <2>5. QED
    BY <1>2, <2>1, <2>2, <2>3, <2>4 DEF TypeOK
<1>5. session = {}
  BY DEF Init, session, Range
<1>6. QED
  BY <1>2, <1>4, <1>5
     DEF Init, IInv, Shape, Working, Configured, DeletesPlanned, EnforcedLive,
         CurLive, Enforcing

LEMMA StartInv ==
    ASSUME IInv, NEW p \in Plans, Start(p)
    PROVE  IInv'
<1>1. snap' \in Snapshot
  <2>1. PICK order \in [1..Cardinality(live) -> live] :
          snap' = [order |-> order, prof |-> prof, active |-> active]
    BY DEF Start
  <2>2. Cardinality(live) \in Nat
    BY FS_CardinalityType DEF IInv, Shape
  <2>3. order \in Seq(Uuid)
    BY <2>2 DEF IInv, Shape, TypeOK
  <2>4. QED
    BY <2>1, <2>3 DEF IInv, Shape, TypeOK, Snapshot
<1>2. settled' \in BOOLEAN
  BY DEF Start
<1>3. results' = <<>> /\ results' \in Seq(MainResult)
  BY DEF Start
<1>4. TypeOK'
  BY <1>1, <1>2, <1>3, SessionAssumption
     DEF Start, IInv, Shape, TypeOK, Steps, Outcomes, nmVars
<1>5. session' = {}
  BY <1>3 DEF session, Range
<1>6. QED
  BY <1>4, <1>5
     DEF Start, IInv, Shape, Working, Configured, DeletesPlanned, EnforcedLive,
         CurLive, Enforcing, nmVars

-----------------------------------------------------------------------------
(* Deletions *)
LEMMA ChooseTargetInv ==
    ASSUME IInv, ChooseTarget
    PROVE  IInv'
<1>1. snap.order \in Seq(Uuid)
  BY DEF IInv, Shape, TypeOK, Snapshot
<1>2. todel' \subseteq Uuid
  BY <1>1, DeleteListSpares, TargetsListed DEF ChooseTarget
<1>3. plan \in Seq(MainCfg)
  <2>1. <<>> \in Seq(MainCfg)
    OBVIOUS
  <2>2. QED
    BY <2>1, SessionAssumption DEF IInv, Shape, TypeOK
<1>4. i \in DOMAIN plan
  BY <1>3 DEF ChooseTarget, IInv, Shape, TypeOK
<1>5. res' \in MainResult
  <2>1. (todel' # {}) \in BOOLEAN
    OBVIOUS
  <2>2. QED
    BY <2>1, BlankState DEF ChooseTarget, MainResult
<1>6. TypeOK'
  BY <1>2, <1>5 DEF ChooseTarget, IInv, Shape, TypeOK, Steps, nmVars
<1>7. session' = session
  BY DEF ChooseTarget, session
<1>8. DeletesPlanned'
  BY <1>7 DEF ChooseTarget, DeletesPlanned, cfg
<1>9. QED
  BY <1>4, <1>6, <1>7, <1>8
     DEF ChooseTarget, IInv, Shape, Working, Configured, EnforcedLive, CurLive,
         Enforcing, nmVars

LEMMA DeleteInv ==
    ASSUME IInv, NEW u \in Uuid, Delete(u)
    PROVE  IInv'
<1>1. snap.order \in Seq(Uuid)
  BY DEF IInv, Shape, TypeOK, Snapshot
<1>2. session' = session
  BY DEF Delete, session
<1>3. u \notin session
  BY <1>1, DeleteListSpares DEF Delete, IInv, DeletesPlanned, Preserved
<1>4. IsFiniteSet(live')
  BY FS_RemoveElement DEF Delete, IInv, Shape
<1>5. prof' \in [Uuid -> Prof]
  BY BlankState DEF Delete, IInv, Shape, TypeOK
<1>6. TypeOK'
  BY <1>5 DEF Delete, IInv, Shape, TypeOK
<1>7. DeletesPlanned'
  BY <1>2 DEF Delete, IInv, DeletesPlanned, cfg
<1>8. QED
  BY <1>2, <1>3, <1>4, <1>6, <1>7
     DEF Delete, IInv, Shape, Working, Configured, EnforcedLive, CurLive, Enforcing

LEMMA StepOnInv ==
    ASSUME IInv, DeletesDone \/ Validate
    PROVE  IInv'
<1>1. UNCHANGED <<nmVars, runVars, flips>> /\ pc \in Working /\ pc' \in {"validate", "main"}
  BY DEF DeletesDone, Validate, Working
<1>2. session' = session
  BY <1>1 DEF runVars, session
<1>3. TypeOK'
  BY <1>1 DEF nmVars, runVars, IInv, Shape, TypeOK, Steps
<1>4. QED
  BY <1>1, <1>2, <1>3
     DEF nmVars, runVars, IInv, Shape, Working, Configured, DeletesPlanned,
         EnforcedLive, CurLive, Enforcing

-----------------------------------------------------------------------------
(* Creating and modifying connections *)
LEMMA AddConnShape ==
    ASSUME Shape, NEW u, NEW p \in Prof, AddConn(u, p)
    PROVE  /\ live' = live \cup {u}
           /\ u \in Uuid
           /\ IsFiniteSet(live')
           /\ live' \subseteq Uuid
           /\ prof' \in [Uuid -> Prof]
           /\ active' \subseteq live'
           /\ stale' \subseteq active'
<1>1. IsFiniteSet(live \cup {u})
  BY FS_AddElement DEF Shape
<1>2. QED
  BY <1>1 DEF AddConn, Shape, TypeOK

LEMMA ModifyConnShape ==
    ASSUME Shape, NEW u \in Listed(snap), NEW c, NEW want \in Prof,
           ModifyConn(u, c, want)
    PROVE  /\ live' = live
           /\ u \in Uuid \cap live
           /\ prof' \in [Uuid -> Prof]
           /\ active' \subseteq live'
           /\ stale' \subseteq active'
<1>1. snap \in Snapshot /\ u \in Uuid
  BY DEF Shape, TypeOK, ModifyConn
<1>2. snap.prof[u] \in Prof /\ prof[u] \in Prof
  BY <1>1 DEF Shape, TypeOK, Snapshot
<1>3. Modified(prof[u], snap.prof[u], want) \in Prof
  BY <1>2, ModifiedType
<1>4. prof' \in [Uuid -> Prof]
  BY <1>1, <1>3 DEF ModifyConn, Shape, TypeOK
<1>5. QED
  BY <1>1, <1>4 DEF ModifyConn, Shape, TypeOK

(* After any of the three, the main connection has its result. *)
LEMMA MainDoneInv ==
    ASSUME IInv, pc = "main", NEW u \in Uuid, NEW changed \in BOOLEAN,
           MainDone(u, changed),
           live \subseteq live', IsFiniteSet(live'), live' \subseteq Uuid,
           prof' \in [Uuid -> Prof], active' \subseteq live', stale' \subseteq active'
    PROVE  IInv'
<1>1. [uuid |-> u, changed |-> changed, n |-> 0] \in Result
  BY DEF Result
<1>2. res' \in MainResult /\ res'.main \in Result
  BY <1>1 DEF MainDone, IInv, Shape, TypeOK, MainResult
<1>3. TypeOK'
  BY <1>2 DEF MainDone, IInv, Shape, TypeOK, Steps
<1>4. session' = session
  BY DEF MainDone, session
<1>5. QED
  BY <1>2, <1>3, <1>4
     DEF MainDone, IInv, Shape, Working, Configured, DeletesPlanned,
         EnforcedLive, CurLive, Enforcing

LEMMA MainInv ==
    ASSUME IInv, (\E u \in Uuid : AddMain(u)) \/ ModifyMain \/ KeepMain
    PROVE  IInv'
<1>1. Shape /\ cfg \in MainCfg /\ snap \in Snapshot /\ snap.order \in Seq(Uuid) /\ pc = "main"
  <2>1. Shape /\ pc = "main"
    BY DEF IInv, AddMain, ModifyMain, KeepMain
  <2>2. QED
    BY <2>1, CfgType DEF Working, Shape, TypeOK, Snapshot
<1> DEFINE t == MainTarget(snap, cfg)
<1>2. t # None => t \in Listed(snap) /\ t \in Uuid /\ snap.prof[t] \in Prof
  BY <1>1, TargetsListed DEF Snapshot
<1>3. ASSUME NEW u \in Uuid, AddMain(u) PROVE IInv'
  <2>1. cfg.type \in Types
    BY <1>1 DEF MainCfg
  <2>2. WantMain(cfg, Blank(cfg.type)) \in Prof
    BY <1>1, <2>1, BlankType, NewUsable, WantMainType
  <2>3. AddConn(u, WantMain(cfg, Blank(cfg.type))) /\ MainDone(u, TRUE)
    BY <1>3 DEF AddMain
  <2>4. QED
    BY <1>1, <2>2, <2>3, AddConnShape, MainDoneInv
<1>4. CASE ModifyMain
  <2>1. /\ t # None
        /\ Usable(cfg.ip, snap.prof[t].ip)
        /\ ModifyConn(t, cfg, WantMain(cfg, snap.prof[t]))
        /\ MainDone(t, TRUE)
    BY <1>4 DEF ModifyMain
  <2>2. WantMain(cfg, snap.prof[t]) \in Prof
    BY <1>1, <1>2, <2>1, WantMainType
  <2>3. live' = live /\ IsFiniteSet(live) /\ live \subseteq Uuid
    BY <2>1 DEF ModifyConn, IInv, Shape, TypeOK
  <2>4. QED
    BY <1>1, <1>2, <2>1, <2>2, <2>3, ModifyConnShape, MainDoneInv
<1>5. CASE KeepMain
  <2>1. t # None /\ MainDone(t, FALSE) /\ UNCHANGED nmVars
    BY <1>5 DEF KeepMain
  <2>2. QED
    BY <1>1, <1>2, <2>1, MainDoneInv DEF nmVars, IInv, Shape, TypeOK
<1>6. QED
  BY <1>3, <1>4, <1>5

(* update_slave replaces a result or adds one. *)
LEMMA WithSlaveType ==
    ASSUME NEW slaves \in Seq(Result), NEW e \in Result
    PROVE  WithSlave(slaves, e) \in Seq(Result)
<1>1. CASE \E n \in DOMAIN slaves : slaves[n].uuid = e.uuid
  <2> DEFINE f == [n \in DOMAIN slaves |->
                     IF slaves[n].uuid = e.uuid THEN e ELSE slaves[n]]
  <2>1. f \in Seq(Result)
    <3>1. Len(slaves) \in Nat /\ DOMAIN slaves = 1..Len(slaves)
      OBVIOUS
    <3>2. f \in [1..Len(slaves) -> Result]
      BY <3>1
    <3>3. QED
      BY <3>1, <3>2
  <2>2. QED
    BY <1>1, <2>1 DEF WithSlave
<1>2. CASE ~\E n \in DOMAIN slaves : slaves[n].uuid = e.uuid
  <2>1. Append(slaves, e) \in Seq(Result)
    OBVIOUS
  <2>2. QED
    BY <1>2, <2>1 DEF WithSlave
<1>3. QED
  BY <1>1, <1>2

LEMMA SlaveDoneInv ==
    ASSUME IInv, AtSlave, NEW u \in Uuid, NEW changed \in BOOLEAN,
           SlaveDone(u, changed),
           live \subseteq live', IsFiniteSet(live'), live' \subseteq Uuid,
           prof' \in [Uuid -> Prof], active' \subseteq live', stale' \subseteq active'
    PROVE  IInv'
<1> DEFINE e == [uuid |-> u, changed |-> changed, n |-> k]
<1>1. e \in Result
  BY DEF Result, IInv, Shape, TypeOK
<1>2. WithSlave(res.slaves, e) \in Seq(Result)
  <2>1. res.slaves \in Seq(Result)
    BY DEF IInv, Shape, TypeOK, MainResult
  <2>2. QED
    BY <1>1, <2>1, WithSlaveType
<1>3. res' = [res EXCEPT !.slaves = WithSlave(res.slaves, e)]
  BY DEF SlaveDone
<1> HIDE DEF e
<1>4. res' \in MainResult /\ res'.main = res.main
  BY <1>2, <1>3 DEF IInv, Shape, TypeOK, MainResult
<1>5. TypeOK'
  BY <1>4 DEF SlaveDone, IInv, Shape, TypeOK, Steps
<1>6. session' = session
  BY DEF SlaveDone, session
<1>7. QED
  BY <1>4, <1>5, <1>6
     DEF SlaveDone, AtSlave, IInv, Shape, Working, Configured, DeletesPlanned,
         EnforcedLive, CurLive, Enforcing

LEMMA SlaveInv ==
    ASSUME IInv, (\E u \in Uuid : AddSlave(u)) \/ ModifySlave \/ KeepSlave
    PROVE  IInv'
<1>1. Shape /\ AtSlave /\ pc = "slave"
  BY DEF IInv, AddSlave, ModifySlave, KeepSlave, AtSlave
<1> DEFINE c == cfg.slaves[k]
           t == SlaveTarget(snap, c)
<1>2. c \in SlaveCfg /\ res.main.uuid \in Uuid /\ snap \in Snapshot /\ snap.order \in Seq(Uuid)
  <2>1. cfg.slaves \in Seq(SlaveCfg)
    BY <1>1, CfgType DEF Working
  <2>2. res.main.uuid \in Uuid
    BY <1>1 DEF Shape, Configured, Result
  <2>3. QED
    BY <1>1, <2>1, <2>2 DEF AtSlave, Shape, TypeOK, Snapshot
<1>3. t # None => t \in Listed(snap) /\ t \in Uuid /\ snap.prof[t] \in Prof
  BY <1>2, TargetsListed DEF Snapshot
<1>4. ASSUME NEW u \in Uuid, AddSlave(u) PROVE IInv'
  <2>1. c.type \in Types
    BY <1>2 DEF SlaveCfg, Types
  <2>2. WantSlave(c, Blank(c.type), res.main.uuid) \in Prof
    BY <1>2, <2>1, BlankType, WantSlaveType
  <2>3. AddConn(u, WantSlave(c, Blank(c.type), res.main.uuid)) /\ SlaveDone(u, TRUE)
    BY <1>4 DEF AddSlave
  <2>4. QED
    BY <1>1, <2>2, <2>3, AddConnShape, SlaveDoneInv
<1>5. CASE ModifySlave
  <2>1. /\ t # None
        /\ ModifyConn(t, c, WantSlave(c, snap.prof[t], res.main.uuid))
        /\ SlaveDone(t, TRUE)
    BY <1>5 DEF ModifySlave
  <2>2. WantSlave(c, snap.prof[t], res.main.uuid) \in Prof
    BY <1>2, <1>3, <2>1, WantSlaveType
  <2>3. live' = live /\ IsFiniteSet(live) /\ live \subseteq Uuid
    BY <2>1 DEF ModifyConn, IInv, Shape, TypeOK
  <2>4. QED
    BY <1>1, <1>3, <2>1, <2>2, <2>3, ModifyConnShape, SlaveDoneInv
<1>6. CASE KeepSlave
  <2>1. t # None /\ SlaveDone(t, FALSE) /\ UNCHANGED nmVars
    BY <1>6 DEF KeepSlave
  <2>2. QED
    BY <1>1, <1>3, <2>1, SlaveDoneInv DEF nmVars, IInv, Shape, TypeOK
<1>7. QED
  BY <1>4, <1>5, <1>6

-----------------------------------------------------------------------------
(* Enforcing the states.  Nothing is deleted from here on, so a connection *)
(* that was found alive stays so.                                          *)
LEMMA SlavesDoneInv ==
    ASSUME IInv, SlavesDone
    PROVE  IInv'
<1>1. session' = session
  BY DEF SlavesDone, session
<1>2. TypeOK'
  BY DEF SlavesDone, IInv, Shape, TypeOK, Steps, nmVars
<1>3. EnforcedLive'
  <2>1. \A n \in DOMAIN ToEnforce' : n \in Nat /\ n >= 1
    <3>1. ToEnforce' \in Seq(Result)
      BY DEF SlavesDone, IInv, Shape, TypeOK, MainResult, Configured, ToEnforce
    <3>2. QED
      BY <3>1
  <2>2. QED
    BY <2>1 DEF SlavesDone, EnforcedLive
<1>4. QED
  BY <1>1, <1>2, <1>3
     DEF SlavesDone, IInv, Shape, Working, Configured, DeletesPlanned, CurLive,
         Enforcing, nmVars

(* The results to enforce, while they are enforced *)
LEMMA ToEnforceType ==
    ASSUME Shape, pc \in Configured
    PROVE  /\ ToEnforce \in Seq(Result)
           /\ Len(ToEnforce) = Len(res.slaves) + 1
           /\ Len(res.slaves) \in Nat
BY DEF Shape, TypeOK, MainResult, ToEnforce

LEMMA EnforceInv ==
    ASSUME IInv, EnforceSkip \/ EnforceNeeded
    PROVE  IInv'
<1>1. /\ UNCHANGED <<nmVars, plan, snap, i, todel, res, remaining, results,
                     outcome, flips, settled>>
      /\ pc = "enforce" /\ Cur.uuid \in live /\ k \in DOMAIN ToEnforce
      /\ \/ pc' = "enforce" /\ k' = k + 1
         \/ pc' = "command" /\ k' = k
  BY DEF EnforceSkip, EnforceNeeded, AtEnforce, runVars
<1>2. ToEnforce' = ToEnforce /\ session' = session
  BY <1>1 DEF ToEnforce, session
<1>3. TypeOK'
  BY <1>1 DEF IInv, Shape, TypeOK, Steps, nmVars
<1>4. EnforcedLive'
  <2>1. k \in Nat \ {0} /\ k' \in Nat \ {0}
    BY <1>1 DEF IInv, EnforcedLive, Enforcing
  <2>2. ASSUME NEW n \in DOMAIN ToEnforce, n < k' PROVE ToEnforce[n].uuid \in live
    <3>1. n \in Nat
      BY ToEnforceType, <1>1 DEF IInv, Configured
    <3>2. n < k \/ n = k
      BY <1>1, <2>1, <2>2, <3>1
    <3>3. QED
      BY <1>1, <3>2 DEF IInv, EnforcedLive, Enforcing, Cur
  <2>3. QED
    BY <1>1, <1>2, <2>1, <2>2 DEF EnforcedLive, nmVars
<1>5. CurLive'
  BY <1>1, <1>2 DEF CurLive, Cur, nmVars
<1>6. QED
  BY <1>1, <1>2, <1>3, <1>4, <1>5
     DEF IInv, Shape, Working, Configured, DeletesPlanned, Enforcing, nmVars

LEMMA CommandInv ==
    ASSUME IInv, CommandUp \/ CommandDown \/ PollWait
    PROVE  IInv'
<1>1. /\ UNCHANGED <<live, prof, plan, snap, i, todel, res, k, results,
                     outcome, flips, settled>>
      /\ pc \in {"command", "poll"} /\ pc' = "poll"
  BY DEF CommandUp, CommandDown, PollWait, nmVars
<1>2. active' \subseteq live /\ stale' \subseteq active'
  <2>1. CASE CommandUp
    BY <2>1 DEF CommandUp, IInv, Shape, TypeOK, CurLive
  <2>2. CASE CommandDown
    BY <2>2 DEF CommandDown, IInv, Shape, TypeOK
  <2>3. CASE PollWait
    BY <2>3 DEF PollWait, IInv, Shape, TypeOK, nmVars
  <2>4. QED
    BY <2>1, <2>2, <2>3
<1>3. remaining' \in 0..PollMax
  <2>1. CASE CommandUp \/ CommandDown
    BY <2>1, SessionAssumption DEF CommandUp, CommandDown
  <2>2. CASE PollWait
    BY <2>2, SessionAssumption DEF PollWait, IInv, Shape, TypeOK
  <2>3. QED
    BY <2>1, <2>2
<1>4. ToEnforce' = ToEnforce /\ session' = session
  BY <1>1 DEF ToEnforce, session
<1>5. TypeOK'
  BY <1>1, <1>2, <1>3 DEF IInv, Shape, TypeOK, Steps
<1>6. QED
  BY <1>1, <1>4, <1>5
     DEF IInv, Shape, Working, Configured, DeletesPlanned, EnforcedLive, CurLive,
         Cur, Enforcing

LEMMA PollReachedInv ==
    ASSUME IInv, PollReached
    PROVE  IInv'
<1>1. /\ UNCHANGED <<live, prof, active, stale, plan, snap, i, todel, remaining,
                     results, outcome, flips, settled>>
      /\ pc = "poll" /\ pc' = "enforce" /\ k' = k + 1
      /\ res' = IF k \in DOMAIN res.slaves
                  THEN [res EXCEPT !.slaves[k].changed = TRUE]
                  ELSE [res EXCEPT !.main.changed = TRUE]
  BY DEF PollReached, nmVars
<1>2. Shape /\ res \in MainResult /\ res.main \in Result /\ res.slaves \in Seq(Result)
  BY <1>1 DEF IInv, Shape, TypeOK, Configured, MainResult
<1>3. /\ res' \in MainResult
      /\ res'.main \in Result
      /\ res'.slaves \in Seq(Result)
      /\ Len(res'.slaves) = Len(res.slaves)
      /\ \A n \in DOMAIN res.slaves : res'.slaves[n].uuid = res.slaves[n].uuid
      /\ res'.main.uuid = res.main.uuid
  <2>1. CASE k \in DOMAIN res.slaves
    <3> DEFINE sl == [res.slaves EXCEPT ![k] = [@ EXCEPT !.changed = TRUE]]
    <3>1. res.slaves[k] \in Result
      BY <1>2, <2>1
    <3>2. /\ [res.slaves[k] EXCEPT !.changed = TRUE] \in Result
          /\ [res.slaves[k] EXCEPT !.changed = TRUE].uuid = res.slaves[k].uuid
      BY <3>1 DEF Result
    <3>3. /\ sl \in Seq(Result)
          /\ Len(sl) = Len(res.slaves)
          /\ \A n \in DOMAIN res.slaves : sl[n].uuid = res.slaves[n].uuid
      BY <1>2, <2>1, <3>2
    <3>4. res' = [res EXCEPT !.slaves = sl]
      BY <1>1, <2>1
    <3> HIDE DEF sl
    <3>5. QED
      BY <1>2, <3>3, <3>4 DEF MainResult
  <2>2. CASE k \notin DOMAIN res.slaves
    <3>1. /\ [res.main EXCEPT !.changed = TRUE] \in Result
          /\ [res.main EXCEPT !.changed = TRUE].uuid = res.main.uuid
      BY <1>2 DEF Result
    <3>2. res' = [res EXCEPT !.main = [res.main EXCEPT !.changed = TRUE]]
      BY <1>1, <2>2
    <3>3. QED
      BY <1>2, <3>1, <3>2 DEF MainResult
  <2>3. QED
    BY <2>1, <2>2
<1>4. /\ DOMAIN ToEnforce' = DOMAIN ToEnforce
      /\ DOMAIN ToEnforce \subseteq Nat
      /\ \A n \in DOMAIN ToEnforce : ToEnforce'[n].uuid = ToEnforce[n].uuid
  BY <1>2, <1>3 DEF ToEnforce
<1>5. session' = session
  BY <1>1 DEF session
<1>6. TypeOK'
  BY <1>1, <1>3 DEF IInv, Shape, TypeOK, Steps
<1>7. EnforcedLive'
  <2>1. k \in Nat \ {0} /\ k' \in Nat \ {0} /\ k' = k + 1
    BY <1>1 DEF IInv, EnforcedLive, Enforcing
  <2>2. ASSUME NEW n \in DOMAIN ToEnforce, n < k' PROVE ToEnforce[n].uuid \in live
    <3>1. n < k \/ n = k
      BY <1>4, <2>1, <2>2
    <3>2. QED
      BY <1>1, <3>1 DEF IInv, EnforcedLive, CurLive, Enforcing, Cur
  <2>3. QED
    BY <1>1, <1>4, <2>1, <2>2 DEF EnforcedLive
<1>8. QED
  BY <1>1, <1>3, <1>5, <1>6, <1>7
     DEF IInv, Shape, Working, Configured, DeletesPlanned, CurLive

(* A result joins the session. *)
LEMMA ConnDoneInv ==
    ASSUME IInv, ConnDone
    PROVE  IInv'
<1>1. /\ UNCHANGED <<live, prof, active, stale, plan, snap, todel, outcome, flips,
                     settled>>
      /\ pc = "enforce" /\ pc' = "target" /\ k > Len(ToEnforce)
      /\ results' = Append(results, res) /\ res' = NoResult
      /\ i' = i + 1 /\ k' = 0 /\ remaining' = 0
  BY DEF ConnDone, nmVars
<1>2. results \in Seq(MainResult) /\ res \in MainResult
  BY DEF IInv, Shape, TypeOK
<1>3. UuidsOf(res) \subseteq live
  <2>1. /\ ToEnforce \in Seq(Result)
        /\ Len(ToEnforce) = Len(res.slaves) + 1
        /\ Len(res.slaves) \in Nat
    BY <1>1, ToEnforceType DEF IInv, Configured
  <2>2. \A n \in DOMAIN ToEnforce : ToEnforce[n].uuid \in live
    <3>1. k \in Nat
      BY DEF IInv, Shape, TypeOK
    <3>2. \A n \in DOMAIN ToEnforce : n < k
      BY <1>1, <2>1, <3>1
    <3>3. QED
      BY <1>1, <3>2 DEF IInv, EnforcedLive, Enforcing
  <2>3. res.slaves \in Seq(Result)
    BY <1>2 DEF MainResult
  <2>4. \A n \in DOMAIN res.slaves :
          n \in DOMAIN ToEnforce /\ ToEnforce[n] = res.slaves[n]
    BY <2>1, <2>3 DEF ToEnforce
  <2>5. Len(ToEnforce) \in DOMAIN ToEnforce /\ ToEnforce[Len(ToEnforce)] = res.main
    BY <2>1, <2>3 DEF ToEnforce
  <2>6. \A e \in Entries(res) : e.uuid \in live
    BY <2>2, <2>4, <2>5 DEF Entries, Range
  <2>7. QED
    BY <2>6 DEF UuidsOf
<1>4. session' \subseteq live
  <2>1. Range(results') \subseteq Range(results) \cup {res}
    BY <1>1, <1>2 DEF Range
  <2>2. session' \subseteq session \cup UuidsOf(res)
    BY <2>1 DEF session
  <2>3. QED
    BY <1>3, <2>2 DEF IInv
<1>5. TypeOK'
  <2>1. results' \in Seq(MainResult)
    BY <1>1, <1>2
  <2>2. QED
    BY <1>1, <2>1, BlankState, SessionAssumption DEF IInv, Shape, TypeOK, Steps
<1>6. QED
  BY <1>1, <1>4, <1>5
     DEF IInv, Shape, Working, Configured, DeletesPlanned, EnforcedLive, CurLive,
         Enforcing

-----------------------------------------------------------------------------
(* The steps that end a run, and those of NetworkManager *)
LEMMA EndingInv ==
    ASSUME IInv,
           DeleteFails \/ ValidateFails \/ MainRaises \/ MainFails \/ SlaveFails \/ EnforceMissing
             \/ CommandFails \/ PollTimeout \/ RunDone \/ Kill
    PROVE  IInv'
<1>1. End("ok") \/ End("failed") \/ End("raised") \/ End("killed")
  BY DEF DeleteFails, ValidateFails, MainRaises, MainFails, SlaveFails, EnforceMissing,
         CommandFails, PollTimeout, RunDone, Kill
<1>2. {"ok", "failed", "raised", "killed"} \subseteq Outcomes
  BY DEF Outcomes
<1>3. QED
  BY <1>1, <1>2, EndInv

(* The invariant speaks of no more than these variables and of TypeOK. *)
LEMMA FrameInv ==
    ASSUME IInv, TypeOK',
           UNCHANGED <<live, plan, snap, i, pc, todel, res, k, results>>
    PROVE  IInv'
<1>1. session' = session /\ ToEnforce' = ToEnforce
  BY DEF session, ToEnforce
<1>2. Shape'
  BY DEF IInv, Shape, Working, Configured
<1>3. DeletesPlanned'
  <2>1. cfg' = cfg
    BY DEF cfg
  <2>2. QED
    BY <1>1, <2>1 DEF IInv, DeletesPlanned
<1>4. EnforcedLive'
  BY <1>1 DEF IInv, EnforcedLive, Enforcing
<1>5. CurLive'
  BY <1>1 DEF IInv, CurLive, Cur
<1>6. QED
  BY <1>1, <1>2, <1>3, <1>4, <1>5 DEF IInv

LEMMA NmInv ==
    ASSUME IInv, NmNext
    PROVE  IInv'
<1>1. PICK u \in Uuid : NmUp(u) \/ NmDown(u)
  BY DEF NmNext
<1>2. UNCHANGED <<live, prof, runVars, pc>> /\ flips' = flips + 1 /\ flips < FlipMax
  BY <1>1 DEF NmUp, NmDown, AtRead
<1>3. active' \subseteq live /\ stale' \subseteq active'
  BY <1>1 DEF NmUp, NmDown, IInv, Shape, TypeOK
<1>4. TypeOK'
  BY <1>2, <1>3, SessionAssumption DEF runVars, IInv, Shape, TypeOK
<1>5. QED
  BY <1>2, <1>4, FrameInv DEF runVars

LEMMA StutterInv ==
    ASSUME IInv, UNCHANGED vars
    PROVE  IInv'
<1>1. TypeOK'
  BY DEF vars, IInv, Shape, TypeOK
<1>2. QED
  BY <1>1, FrameInv DEF vars

LEMMA NextInv ==
    ASSUME IInv, [Next]_vars
    PROVE  IInv'
<1>1. ASSUME NEW p \in Plans, Start(p) PROVE IInv'
  BY <1>1, StartInv
<1>2. CASE RunNext
  BY <1>2, ChooseTargetInv, DeleteInv, StepOnInv, MainInv, SlaveInv, SlavesDoneInv,
     EnforceInv, CommandInv, PollReachedInv, ConnDoneInv, EndingInv
     DEF RunNext
<1>3. CASE Kill
  BY <1>3, EndingInv
<1>4. CASE NmNext
  BY <1>4, NmInv
<1>5. CASE UNCHANGED vars
  BY <1>5, StutterInv
<1>6. QED
  BY <1>1, <1>2, <1>3, <1>4, <1>5 DEF Next

LEMMA Invariance == Spec => []IInv
<1>1. Init => IInv
  BY InitInv
<1>2. IInv /\ [Next]_vars => IInv'
  BY NextInv
<1>3. QED
  BY <1>1, <1>2, PTL DEF Spec

-----------------------------------------------------------------------------
(* The state is well typed: what is active exists, what runs on old        *)
(* settings is active, and the polls stay within their budget.             *)
THEOREM TypeCorrect == Spec => []TypeOK
<1>1. IInv => TypeOK
  BY DEF IInv, Shape
<1>2. QED
  BY <1>1, Invariance, PTL

(* A connection that the run has configured exists until the run ends, for *)
(* every plan (its ordering is not used), every initial content of         *)
(* NetworkManager and every failure: build_delete_conn_list "preserves the *)
(* already configured ones", and a result joins the session only with      *)
(* connections that were found alive.                                      *)
THEOREM SessionSafe == Spec => []SessionKept
<1>1. IInv => SessionKept
  BY DEF IInv, SessionKept
<1>2. QED
  BY <1>1, Invariance, PTL
-----------------------------------------------------------------------------
(* The connections that the later configurations depending on c's          *)
(* interface will take over are preserved: none of them sits on that       *)
(* interface, since one configuration only may.                            *)
LEMMA DependentsPreserved ==
    ASSUME NEW s, NEW p \in Seq(MainCfg), UniqueIfaces(p), NEW S,
           NEW m \in DOMAIN p, NEW n \in DOMAIN p, m # n,
           p[m].iface # None, p[m].iface \in DependsOn(p[n])
    PROVE  TargetUuids(s, p[n]) \subseteq Preserved(s, p, p[m], S)
<1> DEFINE c == p[m]
           d == p[n]
<1>1. c \in MainCfg /\ d \in MainCfg /\ d.slaves \in Seq(SlaveCfg) /\ d \in Range(p)
  <2>1. c \in MainCfg /\ d \in MainCfg
    OBVIOUS
  <2>2. QED
    BY <2>1 DEF MainCfg, Range
<1>2. <<m, 0>> \in Places(p) /\ <<n, 0>> \in Places(p)
  BY DEF Places
<1>3. d.iface # c.iface
  <2>1. CfgAt(p, <<m, 0>>) = c /\ CfgAt(p, <<n, 0>>) = d
    BY DEF CfgAt
  <2>2. <<m, 0>> # <<n, 0>>
    OBVIOUS
  <2> HIDE DEF c, d
  <2>3. QED
    BY <1>2, <2>1, <2>2 DEF UniqueIfaces, c
<1>4. ASSUME NEW e \in SlavesOf(d) PROVE e.iface # c.iface
  <2>1. PICK j \in DOMAIN d.slaves : e = d.slaves[j]
    BY <1>4 DEF SlavesOf, Range
  <2>2. j # 0 /\ <<n, j>> \in Places(p)
    BY <1>1, <2>1 DEF Places
  <2>3. CfgAt(p, <<m, 0>>) = c /\ CfgAt(p, <<n, j>>) = e
    BY <2>1, <2>2 DEF CfgAt
  <2> HIDE DEF d
  <2>4. QED
    BY <1>2, <2>2, <2>3 DEF UniqueIfaces, c
<1> HIDE DEF c, d
<1>5. SUFFICES ASSUME NEW t \in TargetUuids(s, d), t # None, t # MainTarget(s, c)
               PROVE  t \in ChildrenUuids(s, p, c)
  <2>1. None \notin TargetUuids(s, d)
    BY DEF TargetUuids, SlaveTargets
  <2>2. MainTarget(s, c) # None => MainTarget(s, c) \in TargetUuids(s, c)
    BY DEF TargetUuids
  <2>3. TargetUuids(s, c) \cup ChildrenUuids(s, p, c) \subseteq Preserved(s, p, c, S)
    BY DEF Preserved
  <2>4. QED
    BY <2>1, <2>2, <2>3 DEF c, d
<1> DEFINE children == {e \in Range(p) : c.iface \in DependsOn(e)}
           candidates == {<<MainTarget(s, e), e.iface>> : e \in children}
             \cup UNION {{<<SlaveTarget(s, f), f.iface>> : f \in SlavesOf(e)} : e \in children}
<1>6. ASSUME NEW x \in candidates, x[1] = t, x[2] # c.iface
      PROVE  t \in ChildrenUuids(s, p, c)
  <2>1. c.iface # None
    BY DEF c
  <2>2. QED
    BY <1>5, <1>6, <2>1 DEF ChildrenUuids
<1>7. d \in children
  BY <1>1 DEF c, d
<1>8. CASE t = MainTarget(s, d)
  <2>1. <<t, d.iface>> \in candidates
    BY <1>7, <1>8
  <2>2. QED
    BY <1>3, <1>6, <2>1
<1>9. CASE t \in SlaveTargets(s, d)
  <2>1. PICK e \in SlavesOf(d) : t = SlaveTarget(s, e)
    BY <1>9 DEF SlaveTargets
  <2>2. <<t, e.iface>> \in candidates
    BY <1>7, <2>1
  <2>3. QED
    BY <1>4, <1>6, <2>2
<1>10. QED
  BY <1>5, <1>8, <1>9 DEF TargetUuids

(* No run deletes the connection that a later configuration of its plan    *)
(* will take over, when that one depends on the interface of the current   *)
(* one.  Those that share an interface with it in any other way are not    *)
(* protected, which is how two VLANs on one parent lose each other's.      *)
THEOREM DependentsSpared == Spec => []DependentsKept
<1>1. ASSUME IInv PROVE DependentsKept
  <2>1. SUFFICES ASSUME pc = "delete", NEW n \in (i + 1)..Len(plan),
                        cfg.iface # None, cfg.iface \in DependsOn(plan[n])
                 PROVE  TargetUuids(snap, plan[n]) \cap todel = {}
    BY DEF DependentsKept
  <2>2. /\ i \in DOMAIN plan /\ plan \in Plans /\ plan \in Seq(MainCfg)
        /\ UniqueIfaces(plan) /\ snap.order \in Seq(Uuid)
    <3>1. Shape /\ i \in DOMAIN plan
      BY <1>1, <2>1 DEF IInv, Shape, Working
    <3>2. plan # <<>>
      BY <3>1
    <3>3. QED
      BY <3>1, <3>2, SessionAssumption DEF Shape, TypeOK, Snapshot, ParsedPlan
  <2>3. n \in DOMAIN plan /\ n # i
    BY <2>2
  <2>4. TargetUuids(snap, plan[n]) \subseteq Preserved(snap, plan, cfg, session)
    BY <2>1, <2>2, <2>3, DependentsPreserved DEF cfg
  <2>5. todel \subseteq Listed(snap) \ Preserved(snap, plan, cfg, session)
    BY <1>1, <2>1, <2>2, DeleteListSpares DEF IInv, DeletesPlanned
  <2>6. QED
    BY <2>4, <2>5
<1>2. QED
  BY <1>1, Invariance, PTL

-----------------------------------------------------------------------------
(* What a bystander is not *)
LEMMA BystanderApart ==
    ASSUME Shape, pc \in Working, NEW u, Bystander(u)
    PROVE  /\ u \in Listed(snap)
           /\ u # MainTarget(snap, cfg)
           /\ \A n \in DOMAIN cfg.slaves : u # SlaveTarget(snap, cfg.slaves[n])
           /\ u \notin DeleteList(snap, plan, cfg, session)
<1>1. snap.order \in Seq(Uuid)
  BY DEF Shape, TypeOK, Snapshot
<1>2. Listed(snap) \subseteq Uuid /\ u \in Listed(snap) /\ u # None
  BY <1>1, TargetsListed, UuidAssumption DEF Bystander
<1>3. cfg \in Range(plan) /\ cfg.slaves \in Seq(SlaveCfg)
  BY CfgType DEF Shape, cfg, Range
<1> DEFINE used == (UNION {{CfgAt(plan, m).iface, CfgAt(plan, m).parent} :
                              m \in Places(plan)}) \ {None}
<1>4. \A n \in {0} \cup DOMAIN cfg.slaves :
        /\ <<i, n>> \in Places(plan)
        /\ CfgAt(plan, <<i, n>>) = IF n = 0 THEN cfg ELSE cfg.slaves[n]
  <2>1. SUFFICES ASSUME NEW n \in {0} \cup DOMAIN cfg.slaves
                 PROVE  <<i, n>> \in Places(plan)
    BY DEF CfgAt, cfg
  <2>2. i \in DOMAIN plan /\ n \in {0} \cup DOMAIN plan[i].slaves
    BY DEF Shape, cfg
  <2>3. <<i, n>> \in {<<i, j>> : j \in {0} \cup DOMAIN plan[i].slaves}
    BY <2>2
  <2>4. QED
    BY <2>2, <2>3 DEF Places
<1>5. \A n \in DOMAIN cfg.slaves : n # 0
  BY <1>3
<1>6. snap.prof[u].iface \notin used /\ snap.prof[u].parent \notin used
  BY DEF Bystander
<1>7. snap.prof[u].id # cfg.name
  BY <1>4 DEF Bystander
<1>8. \A n \in DOMAIN cfg.slaves : snap.prof[u].id # cfg.slaves[n].name
  BY <1>4, <1>5 DEF Bystander
<1>9. \A m \in Places(plan) : OwnRelated(CfgAt(plan, m)) \subseteq used
  <2>1. SUFFICES ASSUME NEW m \in Places(plan), NEW f \in OwnRelated(CfgAt(plan, m))
                 PROVE  f \in used
    BY DEF OwnRelated
  <2>2. f \in {CfgAt(plan, m).iface, CfgAt(plan, m).parent} /\ f # None
    BY DEF OwnRelated
  <2>3. QED
    BY <2>2
<1>10. /\ OwnRelated(cfg) \subseteq used
       /\ \A n \in DOMAIN cfg.slaves : OwnRelated(cfg.slaves[n]) \subseteq used
  <2>1. CfgAt(plan, <<i, 0>>) = cfg /\ <<i, 0>> \in Places(plan)
    BY <1>4
  <2>2. \A n \in DOMAIN cfg.slaves :
          CfgAt(plan, <<i, n>>) = cfg.slaves[n] /\ <<i, n>> \in Places(plan)
    BY <1>4, <1>5
  <2>3. OwnRelated(cfg) \subseteq used
    BY <1>9, <2>1
  <2>4. QED
    BY <1>9, <2>2, <2>3
<1>11. RelatedIfaces(cfg) \subseteq used
  BY <1>10 DEF RelatedIfaces, SlavesOf, Range
<1>12. u # MainTarget(snap, cfg)
  <2>1. SUFFICES ASSUME u = MainTarget(snap, cfg) PROVE FALSE
    OBVIOUS
  <2>2. \/ snap.prof[u].id = cfg.name
        \/ cfg.iface # None /\ snap.prof[u].iface = cfg.iface
    BY <1>1, <1>2, <2>1, MainTargetFits
  <2>3. cfg.iface # None => cfg.iface \in used
    BY <1>10 DEF OwnRelated
  <2>4. QED
    BY <1>6, <1>7, <2>2, <2>3
<1>13. \A n \in DOMAIN cfg.slaves : u # SlaveTarget(snap, cfg.slaves[n])
  <2>1. SUFFICES ASSUME NEW n \in DOMAIN cfg.slaves,
                        u = SlaveTarget(snap, cfg.slaves[n])
                 PROVE  FALSE
    OBVIOUS
  <2>2. \/ snap.prof[u].id = cfg.slaves[n].name
        \/ /\ cfg.slaves[n].iface # None
           /\ snap.prof[u].iface = cfg.slaves[n].iface
    BY <1>1, <1>2, <2>1, SlaveTargetFits
  <2>3. cfg.slaves[n].iface # None => cfg.slaves[n].iface \in used
    BY <1>10 DEF OwnRelated
  <2>4. QED
    BY <1>6, <1>8, <2>2, <2>3
<1>14. u \notin DeleteList(snap, plan, cfg, session)
  <2>1. SUFFICES ASSUME u \in DeleteList(snap, plan, cfg, session) PROVE FALSE
    OBVIOUS
  <2>2. \/ \E x \in SlaveTargets(snap, cfg) :
              /\ snap.prof[x].iface # None
              /\ snap.prof[u].iface = snap.prof[x].iface
        \/ \E x \in Listed(snap) : IsMainOf(snap, x, u) \/ IsMainOf(snap, u, x)
    BY <1>1, <1>6, <1>7, <1>11, <2>1, DeleteListRelated
  <2>3. SlaveTargets(snap, cfg) \subseteq Taken
    BY <1>3 DEF Taken, TargetUuids
  <2>4. QED
    BY <2>2, <2>3 DEF Bystander
<1>15. QED
  BY <1>2, <1>12, <1>13, <1>14

(* A run leaves alone, at every step, the connections that have nothing to *)
(* do with its plan: it deletes only what DeleteListRelated allows, and    *)
(* rewrites only its targets, which carry a name or an interface of the    *)
(* plan.                                                                   *)
THEOREM BystandersSafe == Spec => BystandersUntouched
<1> DEFINE Safe(u) == pc # "idle" /\ Bystander(u) /\ u \in live
                        => u \in live' /\ prof'[u] = prof[u]
<1>1. ASSUME IInv, Next, NEW u \in Uuid PROVE Safe(u)
  <2>1. SUFFICES ASSUME pc # "idle", Bystander(u), u \in live
                 PROVE  u \in live' /\ prof'[u] = prof[u]
    OBVIOUS
  <2>2. CASE UNCHANGED <<live, prof>>
    BY <2>1, <2>2
  <2>3. ASSUME NEW w \in Uuid, Delete(w) PROVE u \in live' /\ prof'[u] = prof[u]
    <3>1. u # w
      BY <1>1, <2>1, <2>3, BystanderApart
         DEF Delete, IInv, DeletesPlanned, Working
    <3>2. QED
      BY <1>1, <2>1, <2>3, <3>1 DEF Delete, IInv, Shape, TypeOK
  <2>4. ASSUME NEW w, NEW p, AddConn(w, p) PROVE u \in live' /\ prof'[u] = prof[u]
    BY <1>1, <2>1, <2>4 DEF AddConn, Seen, Bystander, IInv, Shape, TypeOK
  <2>5. ASSUME NEW w, u # w, NEW c, NEW want, ModifyConn(w, c, want)
        PROVE  u \in live' /\ prof'[u] = prof[u]
    BY <1>1, <2>1, <2>5 DEF ModifyConn, IInv, Shape, TypeOK
  <2>6. CASE ModifyMain
    BY <1>1, <2>1, <2>5, <2>6, BystanderApart DEF ModifyMain, IInv, Working
  <2>7. CASE ModifySlave
    BY <1>1, <2>1, <2>5, <2>7, BystanderApart DEF ModifySlave, AtSlave, IInv, Working
  <2>8. \/ UNCHANGED <<live, prof>>
        \/ \E w \in Uuid : Delete(w)
        \/ \E w \in Uuid : AddMain(w) \/ AddSlave(w)
        \/ ModifyMain
        \/ ModifySlave
    <3>1. CASE RunNext
      BY <3>1 DEF RunNext, ChooseTarget, DeleteFails, DeletesDone, Validate,
         ValidateFails, KeepMain, KeepSlave, MainRaises, MainFails, SlaveFails, SlavesDone,
         EnforceMissing, EnforceSkip, EnforceNeeded, CommandUp, CommandDown,
         CommandFails, PollReached, PollWait, PollTimeout, ConnDone, RunDone, End,
         nmVars
    <3>2. CASE Kill \/ NmNext
      BY <3>2 DEF Kill, End, NmNext, NmUp, NmDown
    <3>3. QED
      BY <1>1, <2>1, <3>1, <3>2 DEF Next, Start
  <2>9. QED
    BY <2>2, <2>3, <2>4, <2>6, <2>7, <2>8 DEF AddMain, AddSlave
<1>2. ASSUME IInv, [Next]_vars
      PROVE  [\A u \in Uuid : Safe(u)]_vars
  BY <1>1, <1>2
<1>3. QED
  BY <1>2, Invariance, PTL DEF Spec, BystandersUntouched

-----------------------------------------------------------------------------
(* What a run reports.  A result starts empty, and takes a place for each  *)
(* slave: no slave overwrites the result of another when no two of them    *)
(* took over the same connection.                                          *)
FreshResult ==
    /\ pc \in {"idle", "target"} => res = NoResult
    /\ pc \in {"delete", "validate", "main"} => res.main = None /\ res.slaves = <<>>
    /\ pc = "delete" /\ ~res.deleted => todel = {}

SlaveTraced(e) ==
    \/ e.uuid \notin Listed(snap)
    \/ /\ e.n \in DOMAIN cfg.slaves
       /\ e.n < k
       /\ e.uuid = SlaveTarget(snap, cfg.slaves[e.n])

SlavesTraced ==
    pc = "slave" => \A n \in DOMAIN res.slaves : SlaveTraced(res.slaves[n])

(* As long as nothing is reported, nothing has changed; between a command  *)
(* and the end of its polls the change is on its way into the report.      *)
Quiet ==
    /\ pc # "idle" \/ outcome = "ok"
    /\ ~Shared
    /\ ~RunChanged
    /\ ~ResultChanged(res)
    => /\ live = Listed(snap)
       /\ prof = snap.prof
       /\ flips = 0 /\ pc # "poll" => active = snap.active

ReportInv == FreshResult /\ SlavesTraced /\ Quiet

LEMMA NothingInNoResult == ~ResultChanged(NoResult)
BY DEF ResultChanged, Entries, NoResult, Range

LEMMA SharedSame ==
    ASSUME UNCHANGED <<plan, snap>>
    PROVE  Shared' <=> Shared
BY DEF Shared, TargetAt

(* A step that changes no connection and forgets no change *)
LEMMA QuietKept ==
    ASSUME Quiet,
           UNCHANGED <<live, prof, plan, snap, results>>,
           pc' # "idle" \/ outcome' = "ok" => pc # "idle" \/ outcome = "ok",
           Shared \/ (ResultChanged(res) => ResultChanged(res)'),
           flips' = 0 /\ pc' # "poll" /\ ~ResultChanged(res)'
               => flips = 0 /\ pc # "poll" /\ active' = active
    PROVE  Quiet'
<1>1. (Shared' <=> Shared) /\ (RunChanged' <=> RunChanged)
  BY SharedSame DEF RunChanged
<1>2. QED
  BY <1>1 DEF Quiet

LEMMA EndReport ==
    ASSUME ReportInv, NEW how \in Outcomes, End(how),
           how = "ok" => pc = "target"
    PROVE  ReportInv'
<1>1. FreshResult' /\ SlavesTraced'
  BY DEF End, FreshResult, SlavesTraced
<1>2. CASE how # "ok"
  BY <1>1, <1>2 DEF End, ReportInv, Quiet
<1>3. CASE how = "ok"
  <2>1. UNCHANGED <<live, prof, active, plan, snap, results, res, flips>>
    BY <1>3 DEF End, ReportInv, FreshResult
  <2>2. pc = "target" /\ pc' = "idle"
    BY <1>3 DEF End
  <2>3. Quiet'
    BY <2>1, <2>2, QuietKept DEF ReportInv, ResultChanged, Entries
  <2>4. QED
    BY <1>1, <2>3 DEF ReportInv
<1>4. QED
  BY <1>2, <1>3

LEMMA StartListed ==
    ASSUME IInv, NEW p, Start(p)
    PROVE  Listed(snap') = live /\ snap'.prof = prof /\ snap'.active = active
<1>1. PICK order \in [1..Cardinality(live) -> live] :
        /\ IsInjective(order)
        /\ snap' = [order |-> order, prof |-> prof, active |-> active]
  BY DEF Start
<1> DEFINE places == 1..Cardinality(live)
<1>2. IsFiniteSet(live) /\ Cardinality(live) \in Nat
  BY FS_CardinalityType DEF IInv, Shape
<1>3. Cardinality(places) = Cardinality(live)
  BY <1>2, FS_Interval
<1>4. order \in Injection(places, live)
  BY <1>1 DEF Injection
<1>5. order \in Surjection(places, live)
  BY <1>2, <1>3, <1>4, FS_Injection
<1>6. Listed(snap') = live
  BY <1>1, <1>5 DEF Listed, Range, Surjection
<1>7. QED
  BY <1>1, <1>6

LEMMA StartReport ==
    ASSUME IInv, ReportInv, NEW p \in Plans, Start(p)
    PROVE  ReportInv'
<1>1. Listed(snap') = live /\ snap'.prof = prof /\ snap'.active = active
  BY StartListed
<1>2. UNCHANGED <<live, prof, active, res>> /\ pc = "idle" /\ pc' = "target"
  BY DEF Start, nmVars
<1>3. FreshResult' /\ SlavesTraced'
  BY <1>2 DEF ReportInv, FreshResult, SlavesTraced
<1>4. Quiet'
  BY <1>1, <1>2 DEF Quiet
<1>5. QED
  BY <1>3, <1>4 DEF ReportInv

(* Deletions are reported before the first of them. *)
LEMMA DeletingReport ==
    ASSUME ReportInv, ChooseTarget \/ (\E u \in Uuid : Delete(u)) \/ DeletesDone \/ Validate
    PROVE  ReportInv'
<1>1. CASE ChooseTarget
  <2>1. /\ UNCHANGED <<live, prof, active, plan, snap, results, outcome, flips>>
        /\ pc = "target" /\ pc' = "delete"
        /\ res' = [NoResult EXCEPT !.deleted = (todel' # {})]
    BY <1>1 DEF ChooseTarget, nmVars
  <2>2. FreshResult' /\ SlavesTraced'
    BY <2>1 DEF FreshResult, SlavesTraced, NoResult
  <2>3. ~ResultChanged(res)
    BY <2>1, NothingInNoResult DEF ReportInv, FreshResult
  <2>4. Quiet'
    BY <2>1, <2>3, QuietKept DEF ReportInv
  <2>5. QED
    BY <2>2, <2>4 DEF ReportInv
<1>2. ASSUME NEW u \in Uuid, Delete(u) PROVE ReportInv'
  <2>1. res.deleted /\ res' = res /\ pc = "delete" /\ pc' = "delete"
    BY <1>2 DEF Delete, ReportInv, FreshResult
  <2>2. FreshResult' /\ SlavesTraced'
    BY <2>1 DEF ReportInv, FreshResult, SlavesTraced
  <2>3. QED
    BY <2>1, <2>2 DEF ReportInv, Quiet, ResultChanged
<1>3. CASE DeletesDone \/ Validate
  <2>1. /\ UNCHANGED <<nmVars, runVars, flips>>
        /\ pc \in {"delete", "validate"} /\ pc' \in {"validate", "main"}
    BY <1>3 DEF DeletesDone, Validate
  <2>2. FreshResult' /\ SlavesTraced'
    BY <2>1 DEF runVars, ReportInv, FreshResult, SlavesTraced
  <2>3. Quiet'
    BY <2>1, QuietKept DEF nmVars, runVars, ReportInv, ResultChanged, Entries
  <2>4. QED
    BY <2>2, <2>3 DEF ReportInv
<1>4. QED
  BY <1>1, <1>2, <1>3

(* The main connection: what is added or modified is reported as changed. *)
LEMMA MainReport ==
    ASSUME IInv, ReportInv, (\E u \in Uuid : AddMain(u)) \/ ModifyMain \/ KeepMain
    PROVE  ReportInv'
<1>1. pc = "main" /\ res \in MainResult /\ res.main = None /\ res.slaves = <<>>
  BY DEF AddMain, ModifyMain, KeepMain, IInv, Shape, TypeOK, ReportInv, FreshResult
<1>2. ASSUME NEW u, NEW changed, MainDone(u, changed)
      PROVE  /\ res' = [res EXCEPT !.main = [uuid |-> u, changed |-> changed, n |-> 0]]
             /\ FreshResult' /\ SlavesTraced'
  BY <1>1, <1>2 DEF MainDone, FreshResult, SlavesTraced, MainResult
<1>3. ASSUME NEW u \in Uuid, MainDone(u, TRUE) PROVE ReportInv'
  <2>1. res'.main = [uuid |-> u, changed |-> TRUE, n |-> 0]
    BY <1>1, <1>3 DEF MainDone, MainResult
  <2>2. res'.main # None
    <3>1. [uuid |-> u, changed |-> TRUE, n |-> 0] \in Result
      BY <1>3 DEF Result
    <3>2. None \notin Result
      BY SessionAssumption DEF Result
    <3>3. QED
      BY <2>1, <3>1, <3>2
  <2>3. ResultChanged(res)'
    BY <2>1, <2>2 DEF ResultChanged, Entries
  <2>4. QED
    BY <1>2, <1>3, <2>3 DEF ReportInv, Quiet
<1>4. CASE KeepMain
  <2>1. PICK u : MainDone(u, FALSE) /\ UNCHANGED nmVars
    BY <1>4 DEF KeepMain
  <2>2. ResultChanged(res) => ResultChanged(res)'
    BY <1>1, <1>2, <2>1 DEF ResultChanged, Entries, Range, MainResult
  <2>3. Quiet'
    BY <1>1, <2>1, <2>2, QuietKept DEF MainDone, nmVars, ReportInv
  <2>4. QED
    BY <1>2, <2>1, <2>3 DEF ReportInv
<1>5. ModifyMain => MainDone(MainTarget(snap, cfg), TRUE) /\ MainTarget(snap, cfg) \in Uuid
  BY TargetsListed, <1>1 DEF ModifyMain, IInv, Shape, TypeOK, Snapshot
<1>6. QED
  BY <1>3, <1>4, <1>5 DEF AddMain

(* The result of a slave is in the result of its main, and the others stay *)
(* as long as none has its uuid.                                           *)
LEMMA WithSlaveHas ==
    ASSUME NEW slaves \in Seq(Result), NEW e \in Result
    PROVE  /\ \A n \in DOMAIN WithSlave(slaves, e) :
                \/ WithSlave(slaves, e)[n] = e
                \/ n \in DOMAIN slaves /\ WithSlave(slaves, e)[n] = slaves[n]
           /\ \E n \in DOMAIN WithSlave(slaves, e) : WithSlave(slaves, e)[n] = e
           /\ \/ \E n \in DOMAIN slaves : slaves[n].uuid = e.uuid
              \/ \A n \in DOMAIN slaves : /\ n \in DOMAIN WithSlave(slaves, e)
                                          /\ WithSlave(slaves, e)[n] = slaves[n]
<1>1. CASE \E n \in DOMAIN slaves : slaves[n].uuid = e.uuid
  BY <1>1 DEF WithSlave
<1>2. CASE ~\E n \in DOMAIN slaves : slaves[n].uuid = e.uuid
  <2>1. WithSlave(slaves, e) = Append(slaves, e)
    BY <1>2 DEF WithSlave
  <2>2. /\ DOMAIN Append(slaves, e) = 1..(Len(slaves) + 1)
        /\ DOMAIN slaves = 1..Len(slaves)
        /\ Append(slaves, e)[Len(slaves) + 1] = e
        /\ \A n \in 1..Len(slaves) : Append(slaves, e)[n] = slaves[n]
        /\ Len(slaves) \in Nat
    OBVIOUS
  <2>3. QED
    BY <2>1, <2>2
<1>3. QED
  BY <1>1, <1>2

LEMMA SlaveReport ==
    ASSUME IInv, ReportInv, (\E u \in Uuid : AddSlave(u)) \/ ModifySlave \/ KeepSlave
    PROVE  ReportInv'
<1> DEFINE c == cfg.slaves[k]
           t == SlaveTarget(snap, c)
<1>1. /\ AtSlave /\ pc = "slave" /\ i \in DOMAIN plan
      /\ res \in MainResult /\ res.main \in Result /\ res.slaves \in Seq(Result)
      /\ snap.order \in Seq(Uuid) /\ k \in Nat /\ k # 0 /\ k \in DOMAIN cfg.slaves
  <2>1. AtSlave
    BY DEF AddSlave, ModifySlave, KeepSlave
  <2>2. k \in DOMAIN cfg.slaves /\ cfg.slaves \in Seq(SlaveCfg)
    BY <2>1, CfgType DEF AtSlave, Working, IInv
  <2>3. QED
    BY <2>1, <2>2 DEF AtSlave, IInv, Shape, TypeOK, Working, Configured,
                      Snapshot, MainResult
<1>2. t \in Listed(snap) \cup {None} /\ Listed(snap) \subseteq Uuid /\ None \notin Listed(snap)
  BY <1>1, TargetsListed
<1>3. ASSUME NEW u \in Uuid, NEW changed \in BOOLEAN, SlaveDone(u, changed),
             u \notin Listed(snap) \/ u = t
      PROVE  /\ FreshResult' /\ SlavesTraced'
             /\ changed => ResultChanged(res)'
             /\ u = t => Shared \/ (ResultChanged(res) => ResultChanged(res)')
  <2> DEFINE e == [uuid |-> u, changed |-> changed, n |-> k]
             after == WithSlave(res.slaves, e)
  <2>1. e \in Result
    BY <1>1 DEF Result
  <2>2. res'.slaves = after /\ res'.main = res.main /\ res'.deleted = res.deleted
    BY <1>1, <1>3 DEF SlaveDone, MainResult
  <2>3. FreshResult'
    BY <1>1, <1>3 DEF SlaveDone, FreshResult
  <2>4. UNCHANGED <<plan, snap, i, pc>> /\ k' = k + 1 /\ cfg' = cfg
    BY <1>3 DEF SlaveDone, cfg
  <2>5. SlavesTraced'
    <3>1. SUFFICES ASSUME NEW n \in DOMAIN after PROVE SlaveTraced(res.slaves[n])'
      BY <2>2 DEF SlavesTraced
    <3>2. CASE after[n] = e
      BY <1>1, <1>3, <2>2, <2>4, <3>2 DEF SlaveTraced
    <3>3. CASE n \in DOMAIN res.slaves /\ after[n] = res.slaves[n]
      <4>1. SlaveTraced(res.slaves[n])
        BY <1>1, <3>3 DEF ReportInv, SlavesTraced
      <4>2. res.slaves[n].n \in Nat
        <5>1. res.slaves[n] \in Result
          BY <1>1, <3>3
        <5>2. QED
          BY <5>1 DEF Result
      <4>3. QED
        BY <1>1, <2>2, <2>4, <3>3, <4>1, <4>2 DEF SlaveTraced
    <3>4. QED
      BY <1>1, <2>1, <3>2, <3>3, WithSlaveHas
  <2>6. changed => ResultChanged(res)'
    <3>1. PICK n \in DOMAIN after : after[n] = e
      BY <1>1, <2>1, WithSlaveHas
    <3>2. QED
      BY <2>2, <3>1 DEF ResultChanged, Entries, Range
  <2>7. ASSUME u = t, ~Shared, ResultChanged(res) PROVE ResultChanged(res)'
    <3>1. ASSUME NEW n \in DOMAIN res.slaves, res.slaves[n].uuid = t PROVE FALSE
      <4> DEFINE m == res.slaves[n].n
      <4>1. t \in Listed(snap) /\ t # None
        BY <1>2, <2>7, UuidAssumption
      <4>2. m \in DOMAIN cfg.slaves /\ m < k /\ t = SlaveTarget(snap, cfg.slaves[m])
        BY <1>1, <3>1, <4>1 DEF ReportInv, SlavesTraced, SlaveTraced
      <4>3. cfg.slaves \in Seq(SlaveCfg)
        BY <1>1, CfgType DEF Working, IInv
      <4>4. m \in Nat /\ m # 0 /\ m # k
        BY <1>1, <4>2, <4>3
      <4>5. <<i, m>> \in Places(plan) /\ <<i, k>> \in Places(plan) /\ <<i, m>> # <<i, k>>
        BY <1>1, <4>2, <4>4 DEF Places, cfg
      <4>6. TargetAt(<<i, m>>) = t /\ TargetAt(<<i, k>>) = t
        BY <1>1, <4>2, <4>4 DEF TargetAt, CfgAt, cfg
      <4>7. QED
        BY <2>7, <4>1, <4>5, <4>6 DEF Shared
    <3>2. \A n \in DOMAIN res.slaves : n \in DOMAIN after /\ after[n] = res.slaves[n]
      BY <1>1, <2>1, <2>7, <3>1, WithSlaveHas
    <3>3. Entries(res) \subseteq Entries(res)'
      BY <2>2, <3>2 DEF Entries, Range
    <3>4. QED
      BY <2>2, <2>7, <3>3 DEF ResultChanged
  <2>8. QED
    BY <2>3, <2>5, <2>6, <2>7
<1>4. ASSUME NEW u \in Uuid, SlaveDone(u, TRUE), u \notin Listed(snap) \/ u = t
      PROVE  ReportInv'
  <2>1. pc' = "slave" /\ ResultChanged(res)' /\ FreshResult' /\ SlavesTraced'
    BY <1>1, <1>3, <1>4 DEF SlaveDone
  <2>2. QED
    BY <2>1 DEF ReportInv, Quiet
<1>5. ASSUME NEW u \in Uuid, AddSlave(u) PROVE ReportInv'
  BY <1>4, <1>5 DEF AddSlave, AddConn, Seen
<1>6. CASE ModifySlave
  BY <1>2, <1>4, <1>6 DEF ModifySlave, ModifyConn
<1>7. CASE KeepSlave
  <2>1. t # None /\ SlaveDone(t, FALSE) /\ UNCHANGED nmVars
    BY <1>7 DEF KeepSlave
  <2>2. t \in Uuid
    BY <1>2, <2>1
  <2>3. FreshResult' /\ SlavesTraced' /\ (Shared \/ (ResultChanged(res) => ResultChanged(res)'))
    BY <1>3, <2>1, <2>2
  <2>4. Quiet'
    BY <1>1, <2>1, <2>3, QuietKept DEF SlaveDone, nmVars, ReportInv
  <2>5. QED
    BY <2>3, <2>4 DEF ReportInv
<1>8. QED
  BY <1>5, <1>6, <1>7

(* A change of state is on its way from the command to the end of its      *)
(* polls, and then reported.                                               *)
LEMMA EnforceReport ==
    ASSUME IInv, ReportInv,
           SlavesDone \/ EnforceSkip \/ EnforceNeeded \/ PollWait \/ CommandUp \/ CommandDown
    PROVE  ReportInv'
<1>1. /\ UNCHANGED <<live, prof, plan, snap, results, res, outcome, flips>>
      /\ pc \in {"slave", "enforce", "command", "poll"}
      /\ pc' \in {"enforce", "command", "poll"}
      /\ pc' # "poll" => pc # "poll" /\ active' = active
  <2>1. CASE SlavesDone \/ EnforceSkip \/ EnforceNeeded
    BY <2>1 DEF SlavesDone, EnforceSkip, EnforceNeeded, AtEnforce, nmVars, runVars
  <2>2. CASE PollWait \/ CommandUp \/ CommandDown
    BY <2>2 DEF PollWait, CommandUp, CommandDown, nmVars
  <2>3. QED
    BY <2>1, <2>2
<1>2. FreshResult' /\ SlavesTraced'
  BY <1>1 DEF FreshResult, SlavesTraced
<1>3. ResultChanged(res) => ResultChanged(res)'
  BY <1>1 DEF ResultChanged, Entries
<1>4. Quiet'
  BY <1>1, <1>3, QuietKept DEF ReportInv
<1>5. QED
  BY <1>2, <1>4 DEF ReportInv

LEMMA PollReachedReport ==
    ASSUME IInv, ReportInv, PollReached
    PROVE  ReportInv'
<1>1. /\ res' = IF k \in DOMAIN res.slaves
                  THEN [res EXCEPT !.slaves[k].changed = TRUE]
                  ELSE [res EXCEPT !.main.changed = TRUE]
      /\ pc = "poll" /\ pc' = "enforce"
  BY DEF PollReached
<1>2. res \in MainResult /\ res.main \in Result /\ res.slaves \in Seq(Result)
  BY <1>1 DEF IInv, Shape, TypeOK, Configured, MainResult
<1>3. CASE k \in DOMAIN res.slaves
  <2>1. res.slaves[k] \in Result
    BY <1>2, <1>3
  <2>2. k \in DOMAIN res'.slaves /\ res'.slaves[k].changed = TRUE
    BY <1>1, <1>2, <1>3, <2>1 DEF MainResult, Result
  <2>3. ResultChanged(res)'
    BY <2>2 DEF ResultChanged, Entries, Range
  <2>4. QED
    BY <1>1, <2>3 DEF ReportInv, FreshResult, SlavesTraced, Quiet
<1>4. CASE k \notin DOMAIN res.slaves
  <2>1. res'.main = [res.main EXCEPT !.changed = TRUE]
    BY <1>1, <1>2, <1>4 DEF MainResult
  <2>2. res'.main \in Result /\ res'.main.changed = TRUE
    BY <1>2, <2>1 DEF Result
  <2>3. None \notin Result
    BY SessionAssumption DEF Result
  <2>4. ResultChanged(res)'
    BY <2>2, <2>3 DEF ResultChanged, Entries
  <2>5. QED
    BY <1>1, <2>4 DEF ReportInv, FreshResult, SlavesTraced, Quiet
<1>5. QED
  BY <1>3, <1>4

(* What a result reports, the run reports from then on. *)
LEMMA ConnDoneReport ==
    ASSUME IInv, ReportInv, ConnDone
    PROVE  ReportInv'
<1>1. /\ UNCHANGED <<live, prof, active, plan, snap, outcome, flips>>
      /\ pc = "enforce" /\ pc' = "target"
      /\ results' = Append(results, res) /\ res' = NoResult
  BY DEF ConnDone, nmVars
<1>2. results \in Seq(MainResult) /\ res \in MainResult
  BY DEF IInv, Shape, TypeOK
<1>3. FreshResult' /\ SlavesTraced'
  BY <1>1 DEF FreshResult, SlavesTraced
<1>4. Range(results) \cup {res} \subseteq Range(results')
  <2>1. /\ \A n \in DOMAIN results : n \in DOMAIN results' /\ results'[n] = results[n]
        /\ Len(results) + 1 \in DOMAIN results'
        /\ results'[Len(results) + 1] = res
    BY <1>1, <1>2
  <2>2. QED
    BY <2>1 DEF Range
<1>5. RunChanged \/ ResultChanged(res) => RunChanged'
  BY <1>4 DEF RunChanged, ResultChanged, Entries
<1>6. Shared' <=> Shared
  BY <1>1, SharedSame
<1>7. Quiet'
  BY <1>1, <1>5, <1>6 DEF ReportInv, Quiet
<1>8. QED
  BY <1>3, <1>7 DEF ReportInv

LEMMA EndingReport ==
    ASSUME ReportInv,
           DeleteFails \/ ValidateFails \/ MainRaises \/ MainFails \/ SlaveFails \/ EnforceMissing
             \/ CommandFails \/ PollTimeout \/ RunDone \/ Kill
    PROVE  ReportInv'
<1>1. \/ End("ok") /\ pc = "target"
      \/ End("failed") \/ End("raised") \/ End("killed")
  BY DEF DeleteFails, ValidateFails, MainRaises, MainFails, SlaveFails, EnforceMissing,
         CommandFails, PollTimeout, RunDone, Kill
<1>2. {"ok", "failed", "raised", "killed"} \subseteq Outcomes
  BY DEF Outcomes
<1>3. QED
  BY <1>1, <1>2, EndReport

LEMMA OutsideReport ==
    ASSUME IInv, ReportInv, NmNext \/ UNCHANGED vars
    PROVE  ReportInv'
<1>1. /\ UNCHANGED <<live, prof, plan, snap, pc, todel, res, results, outcome, k, i>>
      /\ flips' = 0 => flips = 0 /\ active' = active
  <2>1. flips \in Nat
    BY SessionAssumption DEF IInv, Shape, TypeOK
  <2>2. QED
    BY <2>1 DEF NmNext, NmUp, NmDown, runVars, vars
<1>2. FreshResult' /\ SlavesTraced'
  <2>1. cfg' = cfg
    BY <1>1 DEF cfg
  <2>2. QED
    BY <1>1, <2>1 DEF ReportInv, FreshResult, SlavesTraced, SlaveTraced
<1>3. ResultChanged(res) => ResultChanged(res)'
  BY <1>1 DEF ResultChanged, Entries
<1>4. Quiet'
  BY <1>1, <1>3, QuietKept DEF ReportInv
<1>5. QED
  BY <1>2, <1>4 DEF ReportInv

LEMMA NextReport ==
    ASSUME IInv, ReportInv, [Next]_vars
    PROVE  ReportInv'
<1>1. ASSUME NEW p \in Plans, Start(p) PROVE ReportInv'
  BY <1>1, StartReport
<1>2. CASE RunNext
  BY <1>2, DeletingReport, MainReport, SlaveReport, EnforceReport, PollReachedReport,
     ConnDoneReport, EndingReport DEF RunNext
<1>3. CASE Kill
  BY <1>3, EndingReport
<1>4. CASE NmNext \/ UNCHANGED vars
  BY <1>4, OutsideReport
<1>5. QED
  BY <1>1, <1>2, <1>3, <1>4 DEF Next

(* A run that reports no change has left every connection as it found it,  *)
(* and in the state it found it in unless NetworkManager changed that of   *)
(* its own: what a command changes is reported by the result of its        *)
(* connection (set_changed), which update_slave replaces for no other      *)
(* connection, and which the session keeps.                                *)
THEOREM ChangesReported == Spec => []ChangeReported
<1>1. Init => ReportInv
  BY DEF Init, ReportInv, FreshResult, SlavesTraced, Quiet
<1>2. IInv /\ ReportInv /\ [Next]_vars => ReportInv'
  BY NextReport
<1>3. ReportInv => ChangeReported
  BY NothingInNoResult
     DEF ReportInv, FreshResult, Quiet, ChangeReported, Succeeded
<1>4. QED
  BY <1>1, <1>2, <1>3, Invariance, PTL DEF Spec

-----------------------------------------------------------------------------
(* Slaves that a main connection adopts.  A slave that is new to its main  *)
(* has been added or given its master, hence changed; so its state is      *)
(* never left alone, and it has been activated again before the main's     *)
(* turn comes.                                                             *)
Newcomer(e) ==
    LET t == SlaveTarget(snap, cfg.slaves[e.n])
    IN  t # None => ~IsSlave(snap, t)

NewcomersChanged ==
    pc \in Configured =>
        \A n \in DOMAIN res.slaves :
            /\ res.slaves[n].n \in DOMAIN cfg.slaves
            /\ Newcomer(res.slaves[n]) => res.slaves[n].changed

AdoptedRestarted ==
    pc \in Enforcing =>
        \A n \in DOMAIN res.slaves :
            n < k /\ Adopted(res.slaves[n]) => res.slaves[n].uuid \notin stale

PolledRestarted == pc = "poll" /\ ShouldUp(Cur) => Cur.uuid \notin stale

AdoptedInv == NewcomersChanged /\ AdoptedRestarted /\ PolledRestarted

(* A step after which no state is being enforced *)
LEMMA AdoptedIdle ==
    ASSUME pc' \notin Configured
    PROVE  AdoptedInv'
BY DEF AdoptedInv, NewcomersChanged, AdoptedRestarted, PolledRestarted,
       Configured, Enforcing

(* A step that leaves the results and the settings that run as they are,   *)
(* or restarts connections *)
LEMMA AdoptedKept ==
    ASSUME AdoptedInv, UNCHANGED <<plan, snap, i, res, k>>, stale' \subseteq stale,
           pc' \in Configured => pc \in Configured,
           pc' \in Enforcing => pc \in Enforcing,
           pc' = "poll" /\ ShouldUp(Cur) => pc = "poll" \/ Cur.uuid \notin stale'
    PROVE  AdoptedInv'
<1>1. cfg' = cfg /\ Cur' = Cur
  BY DEF cfg, Cur, ToEnforce
<1>2. \A e : (Newcomer(e)' <=> Newcomer(e)) /\ (Adopted(e)' <=> Adopted(e))
  BY <1>1 DEF Newcomer, Adopted
<1>3. ShouldUp(Cur)' <=> ShouldUp(Cur)
  BY <1>1, <1>2 DEF ShouldUp, CfgOf
<1>4. NewcomersChanged'
  BY <1>1, <1>2 DEF AdoptedInv, NewcomersChanged
<1>5. AdoptedRestarted'
  BY <1>2 DEF AdoptedInv, AdoptedRestarted
<1>6. PolledRestarted'
  BY <1>1, <1>3 DEF AdoptedInv, PolledRestarted
<1>7. QED
  BY <1>4, <1>5, <1>6 DEF AdoptedInv

LEMMA MainAdopted ==
    ASSUME ReportInv, (\E u \in Uuid : AddMain(u)) \/ ModifyMain \/ KeepMain,
           Shape
    PROVE  AdoptedInv'
<1>1. PICK u, changed : MainDone(u, changed) /\ pc = "main"
  BY DEF AddMain, ModifyMain, KeepMain
<1>2. pc' = "slave" /\ res'.slaves = <<>>
  BY <1>1 DEF MainDone, ReportInv, FreshResult, Shape, TypeOK, MainResult
<1>3. QED
  BY <1>2 DEF AdoptedInv, NewcomersChanged, AdoptedRestarted, PolledRestarted, Enforcing

(* A slave that is kept as it is had its master before. *)
LEMMA SlaveAdopted ==
    ASSUME IInv, AdoptedInv, (\E u \in Uuid : AddSlave(u)) \/ ModifySlave \/ KeepSlave
    PROVE  AdoptedInv'
<1> DEFINE c == cfg.slaves[k]
           t == SlaveTarget(snap, c)
<1>1. /\ AtSlave /\ pc = "slave" /\ k \in DOMAIN cfg.slaves /\ k \in Nat
      /\ res \in MainResult /\ res.main \in Result /\ res.slaves \in Seq(Result)
      /\ snap \in Snapshot /\ snap.order \in Seq(Uuid) /\ cfg.slaves \in Seq(SlaveCfg)
  <2>1. AtSlave
    BY DEF AddSlave, ModifySlave, KeepSlave
  <2>2. cfg.slaves \in Seq(SlaveCfg)
    BY <2>1, CfgType DEF AtSlave, Working, IInv
  <2>3. QED
    BY <2>1, <2>2 DEF AtSlave, IInv, Shape, TypeOK, Configured, Snapshot, MainResult
<1>2. t \in Listed(snap) \cup {None} /\ Listed(snap) \subseteq Uuid
  BY <1>1, TargetsListed
<1>3. PICK u \in Uuid, changed \in BOOLEAN :
        /\ SlaveDone(u, changed)
        /\ Newcomer([uuid |-> u, changed |-> changed, n |-> k]) => changed
  <2>1. CASE \E u \in Uuid : AddSlave(u)
    BY <2>1 DEF AddSlave
  <2>2. CASE ModifySlave
    BY <1>2, <2>2 DEF ModifySlave
  <2>3. CASE KeepSlave
    <3>1. t # None /\ SlaveDone(t, FALSE)
          /\ ~Needed(c, snap.prof[t], WantSlave(c, snap.prof[t], res.main.uuid))
      BY <2>3 DEF KeepSlave
    <3>2. t \in Uuid /\ snap.prof[t] \in Prof /\ c \in SlaveCfg
      BY <1>1, <1>2, <3>1 DEF Snapshot
    <3>3. snap.prof[t].master = res.main.uuid
      BY <3>1, <3>2 DEF Needed, WantSlave, VlanArgs, CommonArgs, Prof
    <3>4. res.main.uuid # None
      BY <1>1, UuidAssumption DEF Result
    <3>5. ~Newcomer([uuid |-> t, changed |-> FALSE, n |-> k])
      BY <3>1, <3>3, <3>4 DEF Newcomer, IsSlave
    <3>6. QED
      BY <3>1, <3>2, <3>5
  <2>4. QED
    BY <2>1, <2>2, <2>3
<1> DEFINE e == [uuid |-> u, changed |-> changed, n |-> k]
           after == WithSlave(res.slaves, e)
<1>4. e \in Result
  BY <1>1 DEF Result
<1>5. res'.slaves = after /\ UNCHANGED <<plan, snap, i, pc>>
  BY <1>1, <1>3 DEF SlaveDone, MainResult
<1>6. cfg' = cfg /\ \A x : Newcomer(x)' <=> Newcomer(x)
  BY <1>5 DEF cfg, Newcomer
<1>7. ASSUME NEW n \in DOMAIN after
      PROVE  after[n].n \in DOMAIN cfg.slaves /\ (Newcomer(after[n]) => after[n].changed)
  <2>1. CASE after[n] = e
    BY <1>1, <1>3, <2>1
  <2>2. CASE n \in DOMAIN res.slaves /\ after[n] = res.slaves[n]
    BY <1>1, <2>2 DEF AdoptedInv, NewcomersChanged, Configured
  <2>3. QED
    BY <1>1, <1>4, <2>1, <2>2, WithSlaveHas
<1>8. QED
  BY <1>1, <1>5, <1>6, <1>7
     DEF AdoptedInv, NewcomersChanged, AdoptedRestarted, PolledRestarted, Enforcing

LEMMA SlavesDoneAdopted ==
    ASSUME IInv, AdoptedInv, SlavesDone
    PROVE  AdoptedInv'
<1>1. UNCHANGED <<plan, snap, i, res>> /\ pc = "slave" /\ pc' = "enforce" /\ k' = 1
  BY DEF SlavesDone
<1>2. cfg' = cfg /\ \A e : Newcomer(e)' <=> Newcomer(e)
  BY <1>1 DEF cfg, Newcomer
<1>3. NewcomersChanged'
  BY <1>1, <1>2 DEF AdoptedInv, NewcomersChanged, Configured
<1>4. \A n \in DOMAIN res.slaves : ~(n < 1)
  <2>1. res.slaves \in Seq(Result)
    BY DEF IInv, Shape, TypeOK, MainResult
  <2>2. QED
    BY <2>1
<1>5. QED
  BY <1>1, <1>3, <1>4 DEF AdoptedInv, AdoptedRestarted, PolledRestarted

(* The turn goes to the next one: its state was reached by activating it,  *)
(* or it was left alone, which a newcomer never is. *)
LEMMA TurnAdopted ==
    ASSUME IInv, AdoptedInv, EnforceSkip \/ PollReached
    PROVE  AdoptedInv'
<1>1. /\ UNCHANGED <<plan, snap, i, stale>> /\ k' = k + 1 /\ pc' = "enforce"
      /\ pc \in Enforcing /\ pc \in Configured
  BY DEF EnforceSkip, PollReached, AtEnforce, nmVars, Enforcing, Configured
<1>2. res \in MainResult /\ res.main \in Result /\ res.slaves \in Seq(Result) /\ k \in Nat
  BY <1>1 DEF IInv, Shape, TypeOK, MainResult
<1>3. /\ DOMAIN res'.slaves = DOMAIN res.slaves
      /\ \A n \in DOMAIN res.slaves :
            /\ res'.slaves[n].uuid = res.slaves[n].uuid
            /\ res'.slaves[n].n = res.slaves[n].n
            /\ res.slaves[n].changed => res'.slaves[n].changed
  <2>1. CASE EnforceSkip
    BY <2>1 DEF EnforceSkip
  <2>2. CASE PollReached
    <3>1. CASE k \in DOMAIN res.slaves
      <4>1. \A n \in DOMAIN res.slaves : res.slaves[n] \in Result
        BY <1>2
      <4>2. res'.slaves = [res.slaves EXCEPT ![k].changed = TRUE]
        BY <1>2, <2>2, <3>1 DEF PollReached, MainResult
      <4>3. QED
        BY <3>1, <4>1, <4>2 DEF Result
    <3>2. CASE k \notin DOMAIN res.slaves
      BY <1>2, <2>2, <3>2 DEF PollReached, MainResult
    <3>3. QED
      BY <3>1, <3>2
  <2>3. QED
    BY <2>1, <2>2
<1>4. cfg' = cfg
  BY <1>1 DEF cfg
<1>5. ASSUME NEW n \in DOMAIN res.slaves
      PROVE  /\ Newcomer(res.slaves[n])' <=> Newcomer(res.slaves[n])
             /\ Adopted(res.slaves[n])' <=> Adopted(res.slaves[n])
  BY <1>1, <1>3, <1>4 DEF Newcomer, Adopted
<1>6. NewcomersChanged'
  BY <1>1, <1>3, <1>4, <1>5 DEF AdoptedInv, NewcomersChanged
<1>7. ASSUME NEW n \in DOMAIN res.slaves, n < k + 1, Adopted(res.slaves[n])
      PROVE  res.slaves[n].uuid \notin stale
  <2>1. n < k \/ n = k
    BY <1>2, <1>7
  <2>2. CASE n < k
    BY <1>1, <1>7, <2>2 DEF AdoptedInv, AdoptedRestarted
  <2>3. CASE n = k
    <3>1. Cur = res.slaves[n]
      BY <1>2, <2>3 DEF Cur, ToEnforce
    <3>2. ShouldUp(Cur) /\ res.slaves[n].changed
      BY <1>1, <1>7, <3>1 DEF ShouldUp, Adopted, AdoptedInv, NewcomersChanged, Newcomer
    <3>3. ~EnforceSkip
      BY <1>7, <3>1, <3>2 DEF EnforceSkip, LeftAlone
    <3>4. pc = "poll"
      BY <3>3 DEF PollReached
    <3>5. QED
      BY <3>1, <3>2, <3>4 DEF AdoptedInv, PolledRestarted
  <2>4. QED
    BY <2>1, <2>2, <2>3
<1>8. AdoptedRestarted'
  BY <1>1, <1>3, <1>5, <1>7 DEF AdoptedRestarted
<1>9. QED
  BY <1>1, <1>6, <1>8 DEF AdoptedInv, PolledRestarted

LEMMA NextAdopted ==
    ASSUME IInv, ReportInv, AdoptedInv, [Next]_vars
    PROVE  AdoptedInv'
<1>1. CASE \/ \E p \in Plans : Start(p)
           \/ ChooseTarget \/ (\E u \in Uuid : Delete(u)) \/ DeleteFails
           \/ DeletesDone \/ Validate \/ ValidateFails
           \/ MainRaises \/ MainFails \/ SlaveFails \/ EnforceMissing
           \/ CommandFails \/ PollTimeout \/ ConnDone \/ RunDone \/ Kill
  <2>1. pc' \notin Configured
    BY <1>1 DEF Start, ChooseTarget, Delete, DeleteFails, DeletesDone, Validate,
       ValidateFails, MainRaises, MainFails, SlaveFails, EnforceMissing, CommandFails,
       PollTimeout, ConnDone, RunDone, Kill, End, Configured
  <2>2. QED
    BY <2>1, AdoptedIdle
<1>2. CASE EnforceNeeded \/ PollWait
  <2>1. /\ UNCHANGED <<plan, snap, i, res, k, stale>>
        /\ pc \in Enforcing /\ pc \in Configured
        /\ pc' = "poll" => pc = "poll"
    BY <1>2 DEF EnforceNeeded, AtEnforce, PollWait, nmVars, runVars, Enforcing, Configured
  <2>2. QED
    BY <2>1, AdoptedKept
<1>3. CASE CommandUp \/ CommandDown
  <2>1. /\ UNCHANGED <<plan, snap, i, res, k>> /\ stale' \subseteq stale
        /\ pc \in Enforcing /\ pc \in Configured
        /\ ShouldUp(Cur) => Cur.uuid \notin stale'
    BY <1>3 DEF CommandUp, CommandDown, Enforcing, Configured
  <2>2. QED
    BY <2>1, AdoptedKept
<1>4. CASE NmNext \/ UNCHANGED vars
  <2>1. UNCHANGED <<plan, snap, i, res, k, pc>> /\ stale' \subseteq stale
    BY <1>4 DEF NmNext, NmUp, NmDown, runVars, vars
  <2>2. QED
    BY <2>1, AdoptedKept
<1>5. QED
  BY <1>1, <1>2, <1>3, <1>4, MainAdopted, SlaveAdopted, SlavesDoneAdopted, TurnAdopted
     DEF Next, RunNext, IInv

(* A main connection is brought up only after the slaves it has adopted    *)
(* were activated again: __enforce_connection_states goes through the      *)
(* slaves first, leaves none of the adopted ones alone, and what it        *)
(* activates no longer runs with the settings it had before.               *)
THEOREM AdoptedGoFirst == Spec => []AdoptedFirst
<1>1. Init => ReportInv
  BY DEF Init, ReportInv, FreshResult, SlavesTraced, Quiet
<1>2. Init => AdoptedInv
  BY DEF Init, AdoptedInv, NewcomersChanged, AdoptedRestarted, PolledRestarted,
         Configured, Enforcing
<1>3. IInv /\ ReportInv /\ AdoptedInv /\ [Next]_vars => ReportInv' /\ AdoptedInv'
  BY NextReport, NextAdopted
<1>4. IInv /\ AdoptedInv => AdoptedFirst
  <2>1. SUFFICES ASSUME IInv, AdoptedInv, pc = "command", Cur.n = 0,
                        NEW n \in DOMAIN res.slaves, Adopted(res.slaves[n])
                 PROVE  res.slaves[n].uuid \notin stale
    BY DEF AdoptedFirst, Range
  <2>2. /\ res.slaves \in Seq(Result) /\ cfg.slaves \in Seq(SlaveCfg) /\ k \in Nat
        /\ k \in DOMAIN ToEnforce
    BY <2>1, CfgType DEF IInv, Shape, TypeOK, MainResult, Working, CurLive
  <2>3. k \notin DOMAIN res.slaves
    <3>1. SUFFICES ASSUME k \in DOMAIN res.slaves PROVE FALSE
      OBVIOUS
    <3>2. Cur = res.slaves[k]
      BY <2>2, <3>1 DEF Cur, ToEnforce
    <3>3. Cur.n \in DOMAIN cfg.slaves
      BY <2>1, <3>1, <3>2 DEF AdoptedInv, NewcomersChanged, Configured
    <3>4. QED
      BY <2>1, <2>2, <3>3
  <2>4. n < k
    BY <2>2, <2>3 DEF ToEnforce
  <2>5. QED
    BY <2>1, <2>4 DEF AdoptedInv, AdoptedRestarted, Enforcing
<1>5. QED
  BY <1>1, <1>2, <1>3, <1>4, Invariance, PTL DEF Spec

-----------------------------------------------------------------------------
(* What becomes of each configuration.  A mark <<n, j, u>> says that u is  *)
(* the connection of the configuration at the place <<n, j>>: those of the *)
(* results so far, and of the result being put together.                   *)
MarksOf(n, r) == {<<n, e.n, e.uuid>> : e \in Entries(r)}

Filed == UNION {MarksOf(n, results[n]) : n \in DOMAIN results}

Marks == Filed \cup MarksOf(i, res)

At(n, j) == {x \in Marks : x[1] = n /\ x[2] = j}

(* A run that goes on, or that has succeeded, in which no two              *)
(* configurations have taken over the same connection                      *)
Clean == (pc # "idle" \/ outcome = "ok") /\ ~Shared

(* The results come one by one, and each has its main connection's. *)
Counted ==
    /\ pc = "idle" => i = 1
    /\ pc # "idle" => Len(results) = i - 1 /\ i <= Len(plan) + 1
    /\ pc = "idle" /\ outcome = "ok" => Len(results) = Len(plan)

Filled(r) ==
    /\ r.main \in Result
    /\ r.main.n = 0
    /\ \A j \in DOMAIN r.slaves : r.slaves[j].n # 0

Numbered ==
    /\ \A n \in DOMAIN results : Filled(results[n])
    /\ pc \in Configured => Filled(res)
    /\ pc = "slave" => \A j \in DOMAIN res.slaves : res.slaves[j].n < k

(* A mark has the connection that its configuration took over, or a new    *)
(* one.                                                                    *)
Originated ==
    Clean => \A x \in Marks :
        LET t == TargetAt(<<x[1], x[2]>>)
        IN  /\ <<x[1], x[2]>> \in Places(plan)
            /\ IF t = None THEN x[3] \notin Listed(snap) ELSE x[3] = t

(* What has no mark is as the snapshot shows it, or gone. *)
Untouched ==
    Clean => \A u \in Listed(snap) \cap live :
                (\A x \in Marks : x[3] # u) => prof[u] = snap.prof[u]

OfTheirOwn ==
    Clean => \A x, y \in Marks : x[3] = y[3] => x[1] = y[1] /\ x[2] = y[2]

(* What has a mark carries its configuration. *)
Fitting ==
    Clean => \A x \in Marks : x[3] \in live =>
        IF x[2] = 0
          THEN FitsMain(prof[x[3]], plan[x[1]])
          ELSE \A y \in At(x[1], 0) :
                  FitsSlave(prof[x[3]], plan[x[1]].slaves[x[2]], y[3])

Faithful == Originated /\ Untouched /\ OfTheirOwn /\ Fitting

(* A place that has had its turn has a mark. *)
Past(m) ==
    \/ pc = "idle"
    \/ m[1] < i
    \/ m[1] = i /\ (pc \in Enforcing \/ (pc = "slave" /\ m[2] < k))

Complete == Clean => \A m \in Places(plan) : Past(m) => At(m[1], m[2]) # {}

MarksInv == Counted /\ Numbered /\ Faithful /\ Complete

-----------------------------------------------------------------------------
(* Marks, step by step *)
LEMMA UnmarkedResult ==
    ASSUME NEW n, NEW r, r.main = None, r.slaves = <<>>
    PROVE  MarksOf(n, r) = {}
BY DEF MarksOf, Entries, Range

LEMMA UnmarkedYet ==
    ASSUME TypeOK, FreshResult, pc \notin Configured
    PROVE  MarksOf(i, res) = {}
<1>1. res.main = None /\ res.slaves = <<>>
  BY DEF TypeOK, Steps, Configured, FreshResult, NoResult
<1>2. QED
  BY <1>1, UnmarkedResult

LEMMA MarksSeen ==
    ASSUME NEW x \in Marks
    PROVE  x[3] \in Seen
<1>1. CASE x \in Filed
  <2>1. PICK n \in DOMAIN results : \E e \in Entries(results[n]) : x = <<n, e.n, e.uuid>>
    BY <1>1 DEF Filed, MarksOf
  <2>2. x[3] \in UuidsOf(results[n]) /\ results[n] \in Range(results)
    BY <2>1 DEF UuidsOf, Range
  <2>3. QED
    BY <2>2 DEF Seen, session
<1>2. CASE x \in MarksOf(i, res)
  BY <1>2 DEF MarksOf, Seen, UuidsOf
<1>3. QED
  BY <1>1, <1>2 DEF Marks

(* The marks of the results that are complete come before the current one. *)
LEMMA FiledBefore ==
    ASSUME TypeOK, Counted, pc # "idle", NEW x \in Filed
    PROVE  x[1] \in Nat /\ x[1] < i
<1>1. PICK n \in DOMAIN results : \E e \in Entries(results[n]) : x = <<n, e.n, e.uuid>>
  BY DEF Filed, MarksOf
<1>2. n \in Nat /\ n < i
  <2>1. results \in Seq(MainResult) /\ i \in Nat /\ Len(results) = i - 1
    BY DEF TypeOK, Counted
  <2>2. QED
    BY <1>1, <2>1
<1>3. QED
  BY <1>1, <1>2

(* A connection that a place is about to get has no mark yet. *)
LEMMA NotMarkedYet ==
    ASSUME Clean, Originated, NEW n, NEW j, <<n, j>> \in Places(plan), At(n, j) = {},
           NEW u, u \notin Seen \/ (u # None /\ u = TargetAt(<<n, j>>) /\ u \in Listed(snap))
    PROVE  \A x \in Marks : x[3] # u
<1>1. SUFFICES ASSUME NEW x \in Marks, x[3] = u PROVE FALSE
  OBVIOUS
<1>2. u # None /\ u = TargetAt(<<n, j>>) /\ u \in Listed(snap)
  BY <1>1, MarksSeen
<1>3. TargetAt(<<x[1], x[2]>>) = u /\ <<x[1], x[2]>> \in Places(plan)
  BY <1>1, <1>2 DEF Originated
<1>4. <<x[1], x[2]>> # <<n, j>>
  BY <1>1 DEF At
<1>5. QED
  BY <1>2, <1>3, <1>4 DEF Clean, Shared

(* A step that changes no mark, and no connection that has one *)
LEMMA FaithfulKept ==
    ASSUME Faithful, UNCHANGED <<plan, snap>>, Marks' = Marks, live' \subseteq live,
           \A u \in live' : prof'[u] = prof[u],
           pc' # "idle" \/ outcome' = "ok" => pc # "idle" \/ outcome = "ok"
    PROVE  Faithful'
<1>1. Shared' <=> Shared
  BY SharedSame
<1>2. Clean' => Clean
  BY <1>1 DEF Clean
<1>3. \A n, j : At(n, j)' = At(n, j)
  BY DEF At
<1>4. Originated'
  BY <1>2 DEF Faithful, Originated, TargetAt
<1>5. Untouched'
  BY <1>2 DEF Faithful, Untouched
<1>6. OfTheirOwn'
  BY <1>2 DEF Faithful, OfTheirOwn
<1>7. Fitting'
  BY <1>2, <1>3 DEF Faithful, Fitting
<1>8. QED
  BY <1>4, <1>5, <1>6, <1>7 DEF Faithful

(* A step that gives the place <<i, j>> its connection u *)
LEMMA FaithfulMarked ==
    ASSUME Faithful, Clean, pc' # "idle", UNCHANGED <<plan, snap>>,
           NEW u, NEW j, <<i, j>> \in Places(plan),
           IF TargetAt(<<i, j>>) = None THEN u \notin Listed(snap) ELSE u = TargetAt(<<i, j>>),
           Marks' = Marks \cup {<<i, j, u>>},
           \A x \in Marks : x[3] # u,
           live' \subseteq live \cup {u},
           \A w \in live' \ {u} : prof'[w] = prof[w],
           j = 0 => \A x \in Marks : x[1] # i,
           u \in live' =>
               /\ j = 0 => FitsMain(prof'[u], plan[i])
               /\ j # 0 => \A y \in At(i, 0) : FitsSlave(prof'[u], plan[i].slaves[j], y[3])
    PROVE  Faithful'
<1> DEFINE new == <<i, j, u>>
<1>1. Shared' <=> Shared
  BY SharedSame
<1>2. ~Shared /\ Clean'
  BY <1>1 DEF Clean
<1>3. Originated'
  <2>1. \A m : TargetAt(m)' = TargetAt(m)
    BY DEF TargetAt
  <2>2. SUFFICES ASSUME NEW x \in Marks'
                 PROVE  /\ <<x[1], x[2]>> \in Places(plan)
                        /\ IF TargetAt(<<x[1], x[2]>>) = None
                             THEN x[3] \notin Listed(snap)
                             ELSE x[3] = TargetAt(<<x[1], x[2]>>)
    BY <2>1 DEF Originated
  <2>3. CASE x = new
    BY <2>3
  <2>4. CASE x \in Marks
    BY <1>2, <2>4 DEF Faithful, Originated
  <2>5. QED
    BY <2>2, <2>3, <2>4
<1>4. Untouched'
  <2>1. SUFFICES ASSUME NEW w \in Listed(snap) \cap live', \A x \in Marks' : x[3] # w
                 PROVE  prof'[w] = snap.prof[w]
    BY DEF Untouched
  <2>2. w # u /\ \A x \in Marks : x[3] # w
    <3>1. new \in Marks' /\ new[3] = u
      OBVIOUS
    <3>2. QED
      BY <2>1, <3>1
  <2>3. QED
    BY <1>2, <2>1, <2>2 DEF Faithful, Untouched
<1>5. OfTheirOwn'
  BY <1>2 DEF Faithful, OfTheirOwn
<1>6. Fitting'
  <2>1. SUFFICES ASSUME NEW x \in Marks', x[3] \in live'
                 PROVE  /\ x[2] = 0 => FitsMain(prof'[x[3]], plan[x[1]])
                        /\ x[2] # 0 => \A y \in At(x[1], 0)' :
                              FitsSlave(prof'[x[3]], plan[x[1]].slaves[x[2]], y[3])
    BY DEF Fitting
  <2>2. CASE x = new
    <3>1. x[2] # 0 => At(x[1], 0)' = At(x[1], 0)
      BY <2>2 DEF At
    <3>2. QED
      BY <2>1, <2>2, <3>1
  <2>3. CASE x # new
    <3>1. x \in Marks /\ x[3] \in live /\ prof'[x[3]] = prof[x[3]]
      BY <2>1, <2>3
    <3>2. At(x[1], 0)' = At(x[1], 0)
      BY <3>1 DEF At
    <3>3. QED
      BY <3>1, <3>2 DEF Faithful, Fitting
  <2>4. QED
    BY <2>2, <2>3
<1>7. QED
  BY <1>3, <1>4, <1>5, <1>6 DEF Faithful

-----------------------------------------------------------------------------
(* The beginning and the end of a run *)
LEMMA PlanType ==
    ASSUME TypeOK
    PROVE  plan \in Seq(MainCfg)
<1>1. <<>> \in Seq(MainCfg)
  OBVIOUS
<1>2. QED
  BY <1>1, SessionAssumption DEF TypeOK

LEMMA PlacesIn ==
    ASSUME NEW p \in Seq(MainCfg), NEW m \in Places(p)
    PROVE  /\ m[1] \in DOMAIN p /\ m[1] \in Nat \ {0} /\ m[1] <= Len(p)
           /\ m[2] \in {0} \cup DOMAIN p[m[1]].slaves
           /\ m[2] \in Nat
           /\ m = <<m[1], m[2]>>
<1>1. PICK n \in DOMAIN p : \E j \in {0} \cup DOMAIN p[n].slaves : m = <<n, j>>
  BY DEF Places
<1>2. p[n] \in MainCfg
  BY <1>1
<1>3. p[n].slaves \in Seq(SlaveCfg)
  BY <1>2 DEF MainCfg
<1>4. QED
  BY <1>1, <1>3

LEMMA StartMarks ==
    ASSUME IInv, ReportInv, MarksInv, NEW p \in Plans, Start(p)
    PROVE  MarksInv' /\ Marks' = {}
<1>1. /\ pc = "idle" /\ pc' = "target" /\ i' = i /\ plan' = p
      /\ results' = <<>> /\ res' = NoResult
      /\ live' = live /\ prof' = prof
  BY DEF Start, nmVars, ReportInv, FreshResult
<1>2. Marks' = {}
  <2>1. MarksOf(i, res)' = {}
    BY <1>1, UnmarkedResult DEF MarksOf, Entries, Range, NoResult
  <2>2. QED
    BY <1>1, <2>1 DEF Marks, Filed
<1>3. p \in Seq(MainCfg) /\ i = 1
  BY <1>1, SessionAssumption DEF MarksInv, Counted
<1>4. Counted' /\ Numbered'
  BY <1>1, <1>3 DEF Counted, Numbered, Configured
<1>5. snap'.prof = prof
  BY DEF Start
<1>6. Faithful'
  BY <1>1, <1>2, <1>5 DEF Faithful, Originated, Untouched, OfTheirOwn, Fitting
<1>7. Complete'
  BY <1>1, <1>3, PlacesIn DEF Complete, Past, Enforcing
<1>8. QED
  BY <1>2, <1>4, <1>6, <1>7 DEF MarksInv

LEMMA EndMarks ==
    ASSUME IInv, ReportInv, MarksInv, NEW how \in Outcomes, End(how),
           how = "ok" => pc = "target" /\ i > Len(plan)
    PROVE  MarksInv' /\ (how = "ok" => Marks' = Marks)
<1>1. /\ pc' = "idle" /\ outcome' = how /\ i' = 1 /\ res' = NoResult
      /\ live' = live /\ prof' = prof
      /\ IF how = "ok" THEN UNCHANGED <<plan, snap, results>> ELSE results' = <<>>
  BY DEF End
<1>2. CASE how # "ok"
  BY <1>1, <1>2
     DEF MarksInv, Counted, Numbered, Configured, Faithful, Originated, Untouched,
         OfTheirOwn, Fitting, Complete, Clean
<1>3. CASE how = "ok"
  <2>1. UNCHANGED <<plan, snap, results>> /\ pc = "target" /\ i > Len(plan)
    BY <1>1, <1>3
  <2>2. plan \in Seq(MainCfg) /\ results \in Seq(MainResult) /\ i \in Nat
    BY PlanType DEF IInv, Shape, TypeOK
  <2>3. Marks' = Marks
    <3>1. MarksOf(i, res)' = {}
      BY <1>1, UnmarkedResult DEF MarksOf, Entries, Range, NoResult
    <3>2. MarksOf(i, res) = {}
      BY <2>1, UnmarkedYet DEF IInv, Shape, ReportInv, Configured
    <3>3. Filed' = Filed
      BY <2>1 DEF Filed, MarksOf, Entries
    <3>4. QED
      BY <3>1, <3>2, <3>3 DEF Marks
  <2>4. Faithful'
    BY <1>1, <2>1, <2>3, FaithfulKept DEF MarksInv
  <2>5. Counted'
    BY <1>1, <2>1, <2>2 DEF MarksInv, Counted
  <2>6. Numbered'
    BY <1>1, <2>1 DEF MarksInv, Numbered, Configured, Filled
  <2>7. Complete'
    <3>1. Clean' => Clean
      BY <2>1, SharedSame DEF Clean
    <3>2. \A m \in Places(plan) : m[1] < i
      BY <2>1, <2>2, PlacesIn
    <3>3. \A m \in Places(plan) : Clean => At(m[1], m[2]) # {}
      BY <3>2 DEF MarksInv, Complete, Past
    <3>4. QED
      BY <2>1, <2>3, <3>1, <3>3 DEF Complete, At
  <2>8. QED
    BY <2>3, <2>4, <2>5, <2>6, <2>7 DEF MarksInv
<1>4. QED
  BY <1>2, <1>3

LEMMA EndingMarks ==
    ASSUME IInv, ReportInv, MarksInv,
           DeleteFails \/ ValidateFails \/ MainRaises \/ MainFails \/ SlaveFails \/ EnforceMissing
             \/ CommandFails \/ PollTimeout \/ RunDone \/ Kill
    PROVE  MarksInv' /\ (Clean' => Marks' = Marks)
<1>1. \/ End("ok") /\ pc = "target" /\ i > Len(plan)
      \/ End("failed") \/ End("raised") \/ End("killed")
  BY DEF DeleteFails, ValidateFails, MainRaises, MainFails, SlaveFails, EnforceMissing,
         CommandFails, PollTimeout, RunDone, Kill
<1>2. {"ok", "failed", "raised", "killed"} \subseteq Outcomes
  BY DEF Outcomes
<1>3. \A how : End(how) => pc' = "idle" /\ outcome' = how
  BY DEF End
<1>4. QED
  BY <1>1, <1>2, <1>3, EndMarks DEF Clean

(* The steps before the main connection is configured give no marks. *)
LEMMA EarlyMarks ==
    ASSUME IInv, ReportInv, MarksInv, IInv', ReportInv',
           ChooseTarget \/ (\E u \in Uuid : Delete(u)) \/ DeletesDone \/ Validate
    PROVE  MarksInv' /\ Marks' = Marks
<1>1. /\ UNCHANGED <<plan, snap, i, k, results, outcome>>
      /\ pc \notin Configured /\ pc' \notin Configured /\ pc # "idle" /\ pc' # "idle"
  BY DEF ChooseTarget, Delete, DeletesDone, Validate, runVars, Configured
<1>2. live' \subseteq live /\ \A u \in live' : prof'[u] = prof[u]
  BY DEF ChooseTarget, Delete, DeletesDone, Validate, nmVars, IInv, Shape, TypeOK
<1>3. Marks' = Marks
  <2>1. MarksOf(i, res) = {}
    BY <1>1, UnmarkedYet DEF IInv, Shape, ReportInv
  <2>2. MarksOf(i, res)' = {}
    <3>1. (res.main = None /\ res.slaves = <<>>)'
      BY <1>1 DEF IInv, Shape, TypeOK, Steps, Configured, ReportInv, FreshResult, NoResult
    <3>2. QED
      BY <3>1, UnmarkedResult DEF MarksOf, Entries, Range
  <2>3. Filed' = Filed
    BY <1>1 DEF Filed, MarksOf, Entries
  <2>4. QED
    BY <2>1, <2>2, <2>3 DEF Marks
<1>4. Faithful'
  BY <1>1, <1>2, <1>3, FaithfulKept DEF MarksInv
<1>5. Counted' /\ Numbered'
  BY <1>1 DEF MarksInv, Counted, Numbered, Configured, Filled
<1>6. Complete'
  <2>1. Clean' => Clean
    BY <1>1, SharedSame DEF Clean
  <2>2. \A m : Past(m)' => Past(m)
    BY <1>1 DEF Past, Enforcing, Configured
  <2>3. QED
    BY <1>1, <1>3, <2>1, <2>2 DEF MarksInv, Complete, At
<1>7. QED
  BY <1>3, <1>4, <1>5, <1>6 DEF MarksInv

-----------------------------------------------------------------------------
(* Enforcing the states gives no marks. *)
LEMMA SameMarks ==
    ASSUME NEW n, NEW r \in MainResult, NEW q \in MainResult,
           r.main \in Result, q.main \in Result,
           q.main.uuid = r.main.uuid, q.main.n = r.main.n,
           DOMAIN q.slaves = DOMAIN r.slaves,
           \A j \in DOMAIN r.slaves : /\ q.slaves[j].uuid = r.slaves[j].uuid
                                      /\ q.slaves[j].n = r.slaves[j].n
    PROVE  MarksOf(n, q) = MarksOf(n, r)
<1>1. None \notin Result
  BY SessionAssumption DEF Result
<1>2. MarksOf(n, r) = {<<n, r.main.n, r.main.uuid>>}
                        \cup {<<n, r.slaves[j].n, r.slaves[j].uuid>> : j \in DOMAIN r.slaves}
  BY <1>1 DEF MarksOf, Entries, Range
<1>3. MarksOf(n, q) = {<<n, q.main.n, q.main.uuid>>}
                        \cup {<<n, q.slaves[j].n, q.slaves[j].uuid>> : j \in DOMAIN q.slaves}
  BY <1>1 DEF MarksOf, Entries, Range
<1>4. QED
  BY <1>2, <1>3

(* What the enforcing steps do to the result at most *)
LEMMA ResultKept ==
    ASSUME IInv, SlavesDone \/ EnforceSkip \/ EnforceNeeded \/ CommandUp \/ CommandDown
                   \/ PollWait \/ PollReached
    PROVE  /\ res' \in MainResult /\ res \in MainResult
           /\ res.main \in Result /\ res'.main \in Result
           /\ res'.main.uuid = res.main.uuid /\ res'.main.n = res.main.n
           /\ DOMAIN res'.slaves = DOMAIN res.slaves
           /\ \A j \in DOMAIN res.slaves : /\ res'.slaves[j].uuid = res.slaves[j].uuid
                                           /\ res'.slaves[j].n = res.slaves[j].n
<1>1. res \in MainResult /\ res.main \in Result /\ res.slaves \in Seq(Result)
  BY DEF SlavesDone, EnforceSkip, EnforceNeeded, CommandUp, CommandDown, PollWait,
     PollReached, AtEnforce, IInv, Shape, TypeOK, Configured, MainResult
<1>2. CASE res' = res
  BY <1>1, <1>2
<1>3. CASE PollReached /\ k \in DOMAIN res.slaves
  <2> DEFINE sl == [res.slaves EXCEPT ![k] = [@ EXCEPT !.changed = TRUE]]
  <2>1. res.slaves[k] \in Result
    BY <1>1, <1>3
  <2>2. sl \in Seq(Result)
    <3>1. [res.slaves[k] EXCEPT !.changed = TRUE] \in Result
      BY <2>1 DEF Result
    <3>2. QED
      BY <1>1, <1>3, <3>1
  <2>3. /\ DOMAIN sl = DOMAIN res.slaves
        /\ \A j \in DOMAIN sl : sl[j].uuid = res.slaves[j].uuid /\ sl[j].n = res.slaves[j].n
    BY <1>1, <1>3, <2>1 DEF Result
  <2>4. res' = [res EXCEPT !.slaves = sl]
    BY <1>1, <1>3 DEF PollReached
  <2> HIDE DEF sl
  <2>5. QED
    BY <1>1, <2>2, <2>3, <2>4 DEF MainResult
<1>4. CASE PollReached /\ k \notin DOMAIN res.slaves
  <2>1. /\ [res.main EXCEPT !.changed = TRUE] \in Result
        /\ [res.main EXCEPT !.changed = TRUE].uuid = res.main.uuid
        /\ [res.main EXCEPT !.changed = TRUE].n = res.main.n
    BY <1>1 DEF Result
  <2>2. res' = [res EXCEPT !.main = [res.main EXCEPT !.changed = TRUE]]
    BY <1>4 DEF PollReached
  <2>3. QED
    BY <1>1, <2>1, <2>2 DEF MainResult
<1>5. QED
  BY <1>2, <1>3, <1>4
     DEF SlavesDone, EnforceSkip, EnforceNeeded, CommandUp, CommandDown, PollWait, runVars

LEMMA EnforcingMarks ==
    ASSUME IInv, MarksInv, SlavesDone \/ EnforceSkip \/ EnforceNeeded \/ CommandUp
                             \/ CommandDown \/ PollWait \/ PollReached
    PROVE  MarksInv' /\ Marks' = Marks
<1>1. /\ UNCHANGED <<live, prof, plan, snap, i, results, outcome>>
      /\ pc \in Configured /\ pc' \in Enforcing /\ pc' # "slave"
      /\ pc \in Enforcing \/ SlavesDone
  BY DEF SlavesDone, EnforceSkip, EnforceNeeded, CommandUp, CommandDown, PollWait,
     PollReached, AtEnforce, nmVars, runVars, Configured, Enforcing
<1>2. Marks' = Marks
  <2>1. MarksOf(i, res') = MarksOf(i, res)
    BY ResultKept, SameMarks
  <2>2. MarksOf(i, res)' = MarksOf(i, res') /\ Filed' = Filed
    BY <1>1 DEF Filed, MarksOf, Entries
  <2>3. QED
    BY <2>1, <2>2 DEF Marks
<1>3. Faithful'
  BY <1>1, <1>2, FaithfulKept DEF MarksInv, Configured
<1>4. Counted'
  BY <1>1 DEF MarksInv, Counted, Configured, Enforcing
<1>5. Numbered'
  <2>1. Filled(res)'
    BY <1>1, ResultKept DEF MarksInv, Numbered, Filled
  <2>2. QED
    BY <1>1, <2>1 DEF MarksInv, Numbered, Filled
<1>6. Complete'
  <2>1. Clean' => Clean
    BY <1>1, SharedSame DEF Clean, Configured
  <2>2. ASSUME NEW m \in Places(plan), Past(m)' PROVE Past(m)
    <3>1. m[1] \in Nat /\ m[2] \in {0} \cup DOMAIN plan[m[1]].slaves /\ m[2] \in Nat
      BY PlanType, PlacesIn DEF IInv, Shape
    <3>2. m[1] < i \/ m[1] = i
      BY <1>1, <2>2 DEF Past, Enforcing
    <3>3. CASE SlavesDone /\ m[1] = i
      <4>1. pc = "slave" /\ k \in Nat /\ k > Len(cfg.slaves)
        BY <3>3 DEF SlavesDone, IInv, Shape, TypeOK
      <4>2. cfg.slaves \in Seq(SlaveCfg)
        BY <4>1, CfgType DEF IInv, Working
      <4>3. m[2] < k
        BY <3>1, <3>3, <4>1, <4>2 DEF cfg
      <4>4. QED
        BY <3>3, <4>1, <4>3 DEF Past
    <3>4. QED
      BY <1>1, <3>2, <3>3 DEF Past
  <2>3. QED
    BY <1>1, <1>2, <2>1, <2>2 DEF MarksInv, Complete, At
<1>7. QED
  BY <1>2, <1>3, <1>4, <1>5, <1>6 DEF MarksInv

LEMMA OutsideMarks ==
    ASSUME MarksInv, NmNext \/ UNCHANGED vars
    PROVE  MarksInv' /\ Marks' = Marks
<1>1. UNCHANGED <<live, prof, plan, snap, i, pc, k, res, results, outcome>>
  BY DEF NmNext, NmUp, NmDown, runVars, vars
<1>2. Marks' = Marks
  BY <1>1 DEF Marks, Filed, MarksOf, Entries
<1>3. Faithful'
  BY <1>1, <1>2, FaithfulKept DEF MarksInv
<1>4. Clean' => Clean
  BY <1>1, SharedSame DEF Clean
<1>5. QED
  BY <1>1, <1>2, <1>3, <1>4
     DEF MarksInv, Counted, Numbered, Filled, Complete, Past, At

(* A result is filed. *)
LEMMA ConnDoneMarks ==
    ASSUME IInv, MarksInv, ConnDone
    PROVE  MarksInv' /\ Marks' = Marks
<1>1. /\ UNCHANGED <<live, prof, plan, snap, outcome>>
      /\ pc = "enforce" /\ pc' = "target"
      /\ results' = Append(results, res) /\ res' = NoResult /\ i' = i + 1
  BY DEF ConnDone, nmVars
<1>2. /\ results \in Seq(MainResult) /\ res \in MainResult /\ i \in Nat
      /\ plan \in Seq(MainCfg) /\ i \in DOMAIN plan /\ Len(results) = i - 1
      /\ Filled(res)
  BY <1>1, PlanType
     DEF IInv, Shape, TypeOK, Working, Configured, MarksInv, Counted, Numbered
<1>3. /\ DOMAIN results' = DOMAIN results \cup {i}
      /\ results'[i] = res
      /\ \A n \in DOMAIN results : results'[n] = results[n]
      /\ Len(results') = i
  BY <1>1, <1>2
<1>4. Marks' = Marks
  <2>1. MarksOf(i, res)' = {}
    BY <1>1, UnmarkedResult DEF MarksOf, Entries, Range, NoResult
  <2>2. Filed' = UNION {MarksOf(n, results'[n]) : n \in DOMAIN results'}
    BY DEF Filed, MarksOf, Entries
  <2>3. Filed' = Filed \cup MarksOf(i, res)
    BY <1>3, <2>2 DEF Filed
  <2>4. QED
    BY <2>1, <2>3 DEF Marks
<1>5. Faithful'
  BY <1>1, <1>4, FaithfulKept DEF MarksInv
<1>6. Counted'
  BY <1>1, <1>2, <1>3 DEF Counted
<1>7. Numbered'
  BY <1>1, <1>2, <1>3 DEF MarksInv, Numbered, Configured, Filled
<1>8. Complete'
  <2>1. Clean' => Clean
    BY <1>1, SharedSame DEF Clean
  <2>2. ASSUME NEW m \in Places(plan), Past(m)' PROVE Past(m)
    <3>1. m[1] \in Nat /\ m[1] < i + 1
      BY <1>1, <1>2, <2>2, PlacesIn DEF Past, Enforcing
    <3>2. QED
      BY <1>1, <1>2, <3>1 DEF Past, Enforcing
  <2>3. QED
    BY <1>1, <1>4, <2>1, <2>2 DEF MarksInv, Complete, At
<1>9. QED
  BY <1>4, <1>5, <1>6, <1>7, <1>8 DEF MarksInv

-----------------------------------------------------------------------------
(* What the commands make of a connection that is as the snapshot shows    *)
(* it: exactly what the builders described.                                *)
LEMMA MergedSame ==
    ASSUME NEW cur \in IpSetting \cup {None}, NEW want \in IpSetting \cup {None}
    PROVE  Merged(cur, cur, want) = want
<1>1. CASE cur = None \/ want = None
  BY <1>1 DEF Merged
<1>2. CASE cur # None /\ want # None
  <2>1. cur \in IpSetting /\ want \in IpSetting
    BY <1>2
  <2>2. QED
    BY <1>2, <2>1 DEF Merged, IpSetting
<1>3. QED
  BY <1>1, <1>2

LEMMA ModifiedSame ==
    ASSUME NEW p \in Prof, NEW want \in Prof, want.type = p.type
    PROVE  Modified(p, p, want) = want
<1>1. Merged(p.ip, p.ip, want.ip) = want.ip
  BY MergedSame DEF Prof
<1>2. QED
  BY <1>1 DEF Modified, Prof

LEMMA WantMainFits ==
    ASSUME NEW c \in MainCfg, NEW p \in Prof, Usable(c.ip, p.ip),
           p.type = c.type, p.master = None
    PROVE  FitsMain(WantMain(c, p), c) /\ WantMain(c, p).type = p.type
<1>1. Built(c.ip, p.ip) = Described(c.ip)
  BY BuiltAsDescribed DEF MainCfg, Prof
<1>2. QED
  BY <1>1 DEF FitsMain, Fits, WantMain, VlanArgs, CommonArgs, MainCfg, Prof

LEMMA WantSlaveFits ==
    ASSUME NEW c \in SlaveCfg, NEW p \in Prof, NEW m \in Uuid, p.type = c.type
    PROVE  /\ FitsSlave(WantSlave(c, p, m), c, m)
           /\ WantSlave(c, p, m).type = p.type
           /\ WantSlave(c, p, m).ip = p.ip
BY DEF FitsSlave, Fits, WantSlave, VlanArgs, CommonArgs, SlaveCfg, Prof

(* The interface and the parent that they are left with *)
LEMMA PlaceFormed ==
    ASSUME plan \in Plans \cup {<<>>}, NEW m \in Places(plan)
    PROVE  WellFormed(CfgAt(plan, m))
<1>1. plan # <<>>
  BY DEF Places
<1>2. QED
  BY <1>1, SessionAssumption DEF ParsedPlan

LEMMA WantAfter ==
    ASSUME plan \in Plans \cup {<<>>}, NEW m \in Places(plan),
           NEW cur \in Prof, NEW want,
           \/ want = WantMain(CfgAt(plan, m), cur)
           \/ \E w : want = WantSlave(CfgAt(plan, m), cur, w),
           IF TargetAt(m) = None THEN cur = Blank(CfgAt(plan, m).type)
                                 ELSE cur = snap.prof[TargetAt(m)]
    PROVE  want.iface = IfaceAfter(m) /\ want.parent = ParentAfter(m)
<1> DEFINE c == CfgAt(plan, m)
<1>1. /\ want.iface = IF c.iface = None THEN cur.iface ELSE c.iface
      /\ want.parent = IF c.type = "vlan" THEN c.parent ELSE cur.parent
  BY DEF WantMain, WantSlave, VlanArgs, CommonArgs, Prof
<1>2. c.type # "vlan" => c.parent = None
  BY PlaceFormed DEF WellFormed
<1> HIDE DEF c
<1>3. QED
  BY <1>1, <1>2 DEF IfaceAfter, ParentAfter, Blank, c

(* Adding, modifying or keeping the connection u of a configuration whose  *)
(* profile is to be want; cur is the target's in the snapshot.             *)
LEMMA Configures ==
    ASSUME Shape, NEW c, NEW u \in Uuid, NEW want \in Prof,
           \/ AddConn(u, want)
           \/ /\ prof[u] = snap.prof[u] /\ want.type = snap.prof[u].type
              /\ \/ ModifyConn(u, c, want)
                 \/ UNCHANGED nmVars /\ ~Needed(c, snap.prof[u], want)
    PROVE  /\ prof'[u] = want
           /\ live' \subseteq live \cup {u}
           /\ \A w \in live' \ {u} : prof'[w] = prof[w]
<1>1. prof \in [Uuid -> Prof] /\ live \subseteq Uuid /\ snap.prof \in [Uuid -> Prof]
  BY DEF Shape, TypeOK, Snapshot
<1>2. CASE AddConn(u, want)
  BY <1>1, <1>2 DEF AddConn
<1>3. CASE prof[u] = snap.prof[u] /\ want.type = snap.prof[u].type /\ ModifyConn(u, c, want)
  <2>1. Modified(prof[u], snap.prof[u], want) = want
    BY <1>1, <1>3, ModifiedSame
  <2>2. QED
    BY <1>1, <1>3, <2>1 DEF ModifyConn
<1>4. CASE prof[u] = snap.prof[u] /\ UNCHANGED nmVars /\ ~Needed(c, snap.prof[u], want)
  BY <1>4 DEF Needed, nmVars
<1>5. QED
  BY <1>2, <1>3, <1>4

(* What a step that configures the connection u may do to the others; and  *)
(* one that gives u to the place <<i, j>>.                                 *)
Alters(u) ==
    /\ live \subseteq live'
    /\ live' \subseteq live \cup {u}
    /\ u \in live' \ live => u \notin Listed(snap)
    /\ active' = active
    /\ stale' \subseteq stale \cup {u}
    /\ \A w \in Uuid \ {u} : prof'[w] = prof[w]

Takes(u, j) ==
    /\ Alters(u)
    /\ Marks' = Marks \cup {<<i, j, u>>}
    /\ \A x \in Marks : x[3] # u
    /\ At(i, j) = {}
    /\ j # 0 /\ u \in live' => prof'[u].ip \in {None, snap.prof[u].ip}
    /\ u \in live' => /\ prof'[u].iface = IfaceAfter(<<i, j>>)
                      /\ prof'[u].parent = ParentAfter(<<i, j>>)
    /\ u \notin Listed(snap) => \A w \in live : prof[w].master # u

LEMMA AltersOne ==
    ASSUME Shape, NEW u \in Uuid, NEW c, NEW want,
           AddConn(u, want) \/ ModifyConn(u, c, want) \/ UNCHANGED nmVars
    PROVE  Alters(u)
<1>1. prof \in [Uuid -> Prof]
  BY DEF Shape, TypeOK
<1>2. CASE AddConn(u, want)
  BY <1>1, <1>2 DEF AddConn, Seen, Alters
<1>3. CASE ModifyConn(u, c, want)
  BY <1>1, <1>3 DEF ModifyConn, Alters
<1>4. CASE UNCHANGED nmVars
  BY <1>4 DEF nmVars, Alters
<1>5. QED
  BY <1>2, <1>3, <1>4

-----------------------------------------------------------------------------
(* A main connection gets its mark. *)
LEMMA MainMarks ==
    ASSUME IInv, ReportInv, MarksInv, (\E u \in Uuid : AddMain(u)) \/ ModifyMain \/ KeepMain
    PROVE  MarksInv' /\ (Clean => \E u \in Uuid : Takes(u, 0))
<1> DEFINE t == MainTarget(snap, cfg)
<1>1. /\ pc = "main" /\ i \in DOMAIN plan /\ cfg \in MainCfg /\ plan \in Seq(MainCfg)
      /\ snap \in Snapshot /\ snap.order \in Seq(Uuid) /\ i \in Nat
      /\ res \in MainResult /\ res.slaves = <<>> /\ Shape
  <2>1. Shape /\ pc = "main"
    BY DEF IInv, AddMain, ModifyMain, KeepMain
  <2>2. QED
    BY <2>1, CfgType, PlanType
       DEF Working, Shape, TypeOK, Snapshot, ReportInv, FreshResult
<1>2. t \in Listed(snap) \cup {None} /\ Listed(snap) \subseteq Uuid /\ None \notin Listed(snap)
  BY <1>1, TargetsListed
<1>3. PICK u \in Uuid, changed \in BOOLEAN :
        /\ MainDone(u, changed)
        /\ IF t = None THEN AddConn(u, WantMain(cfg, Blank(cfg.type)))
                       ELSE /\ u = t
                            /\ Usable(cfg.ip, snap.prof[t].ip)
                            /\ \/ ModifyConn(t, cfg, WantMain(cfg, snap.prof[t]))
                               \/ /\ UNCHANGED nmVars
                                  /\ ~Needed(cfg, snap.prof[t], WantMain(cfg, snap.prof[t]))
  <2>1. CASE \E u \in Uuid : AddMain(u)
    BY <2>1 DEF AddMain
  <2>2. CASE ModifyMain
    BY <1>2, <2>2 DEF ModifyMain
  <2>3. CASE KeepMain
    BY <1>2, <2>3 DEF KeepMain
  <2>4. QED
    BY <2>1, <2>2, <2>3
<1> DEFINE e == [uuid |-> u, changed |-> changed, n |-> 0]
<1>4. /\ UNCHANGED <<plan, snap, i, results, outcome>> /\ pc' = "slave" /\ k' = 1
      /\ res' = [res EXCEPT !.main = e]
  BY <1>3 DEF MainDone
<1>5. e \in Result /\ e # None /\ res'.main = e /\ res'.slaves = <<>>
  <2>1. e \in Result
    BY DEF Result
  <2>2. QED
    BY <1>1, <1>4, <2>1, SessionAssumption DEF Result, MainResult
<1>6. Marks = Filed /\ Marks' = Marks \cup {<<i, 0, u>>}
  <2>1. MarksOf(i, res) = {}
    BY <1>1, UnmarkedYet DEF ReportInv, Configured, Shape
  <2>2. MarksOf(i, res)' = {<<i, 0, u>>}
    <3>1. Entries(res)' = {e}
      BY <1>5 DEF Entries, Range
    <3>2. MarksOf(i, res)' = {<<i', x.n, x.uuid>> : x \in Entries(res)'}
      BY DEF MarksOf
    <3>3. \A x : {<<i, y.n, y.uuid>> : y \in {x}} = {<<i, x.n, x.uuid>>}
      OBVIOUS
    <3>4. i' = i /\ e.n = 0 /\ e.uuid = u
      BY <1>4
    <3> HIDE DEF e
    <3>5. QED
      BY <3>1, <3>2, <3>3, <3>4
  <2>3. Filed' = Filed
    BY <1>4 DEF Filed, MarksOf, Entries
  <2>4. QED
    BY <2>1, <2>2, <2>3 DEF Marks
<1>7. Counted'
  BY <1>1, <1>4 DEF MarksInv, Counted
<1>8. Numbered'
  <2>1. Filled(res)'
    BY <1>5 DEF Filled
  <2>2. QED
    BY <1>4, <1>5, <2>1 DEF MarksInv, Numbered, Filled
<1>9. Clean' => Clean
  BY <1>1, <1>4, SharedSame DEF Clean
<1>10. <<i, 0>> \in Places(plan)
  BY <1>1 DEF Places
<1>11. \A x \in Marks : x[1] \in Nat /\ x[1] < i
  BY <1>1, <1>6, FiledBefore DEF Shape, MarksInv
<1>12. ASSUME Clean
       PROVE  /\ Faithful' /\ \A x \in Marks : x[3] # u
              /\ u \in live' => /\ prof'[u].iface = IfaceAfter(<<i, 0>>)
                                /\ prof'[u].parent = ParentAfter(<<i, 0>>)
  <2>1. TargetAt(<<i, 0>>) = t
    BY DEF TargetAt, cfg
  <2>2. IF t = None THEN u \notin Listed(snap) ELSE u = t
    BY <1>3 DEF AddConn, Seen
  <2>3. \A x \in Marks : x[3] # u
    <3>1. At(i, 0) = {}
      BY <1>1, <1>11 DEF At
    <3>2. u \notin Seen \/ (u # None /\ u = t /\ u \in Listed(snap))
      BY <1>2, <1>3 DEF AddConn
    <3>3. QED
      BY <1>10, <1>12, <2>1, <3>1, <3>2, NotMarkedYet DEF MarksInv, Faithful
  <2> DEFINE cur == IF t = None THEN Blank(cfg.type) ELSE snap.prof[t]
  <2>4. /\ cur \in Prof /\ cur.type = cfg.type /\ cur.master = None
        /\ Usable(cfg.ip, cur.ip)
    <3>1. CASE t = None
      BY <1>1, <3>1, BlankType, NewUsable DEF Blank, MainCfg
    <3>2. CASE t # None
      BY <1>1, <1>2, <1>3, <3>2, MainTargetFits DEF Snapshot, IsSlave
    <3>3. QED
      BY <3>1, <3>2
  <2> DEFINE want == WantMain(cfg, cur)
  <2>5. want \in Prof /\ FitsMain(want, cfg) /\ want.type = cur.type
    BY <1>1, <2>4, WantMainType, WantMainFits
  <2>6. want.iface = IfaceAfter(<<i, 0>>) /\ want.parent = ParentAfter(<<i, 0>>)
    <3>1. CfgAt(plan, <<i, 0>>) = cfg /\ plan \in Plans \cup {<<>>}
      BY <1>1 DEF CfgAt, cfg, Shape, TypeOK
    <3>2. QED
      BY <1>10, <2>1, <2>4, <3>1, WantAfter
  <2>7. \/ AddConn(u, want)
        \/ /\ t # None /\ u = t /\ cur = snap.prof[u]
           /\ \/ ModifyConn(u, cfg, want)
              \/ UNCHANGED nmVars /\ ~Needed(cfg, snap.prof[u], want)
    BY <1>3
  <2> HIDE DEF want, cur
  <2>8. /\ u \in live' => prof'[u] = want
        /\ live' \subseteq live \cup {u}
        /\ \A w \in live' \ {u} : prof'[w] = prof[w]
    <3> DEFINE Done == /\ u \in live' => prof'[u] = want
                       /\ live' \subseteq live \cup {u}
                       /\ \A w \in live' \ {u} : prof'[w] = prof[w]
    <3> SUFFICES Done
      OBVIOUS
    <3>1. CASE AddConn(u, want)
      BY <1>1, <2>5, <3>1, Configures
    <3>2. CASE t # None /\ u = t /\ cur = snap.prof[u] /\ u \in live
                 /\ (ModifyConn(u, cfg, want)
                       \/ (UNCHANGED nmVars /\ ~Needed(cfg, snap.prof[u], want)))
      <4>1. prof[u] = snap.prof[u]
        BY <1>2, <1>12, <2>3, <3>2 DEF MarksInv, Faithful, Untouched
      <4>2. QED
        BY <1>1, <2>5, <3>2, <4>1, Configures
    <3>3. CASE u \notin live /\ UNCHANGED nmVars
      BY <3>3 DEF nmVars
    <3>4. ModifyConn(u, cfg, want) => u \in live
      BY DEF ModifyConn
    <3> HIDE DEF Done
    <3>5. QED
      BY <2>7, <3>1, <3>2, <3>3, <3>4
  <2>9. Faithful'
    BY <1>4, <1>6, <1>10, <1>11, <1>12, <2>1, <2>2, <2>3, <2>5, <2>8, FaithfulMarked
       DEF MarksInv, cfg
  <2>10. QED
    BY <2>3, <2>8, <2>9, <2>6
<1>13. Complete'
  <2>1. SUFFICES ASSUME Clean, NEW m \in Places(plan), Past(m)'
                 PROVE  At(m[1], m[2])' # {}
    BY <1>4, <1>9 DEF Complete
  <2>2. m[1] \in Nat /\ m[2] \in Nat
    BY <1>1, PlacesIn
  <2>3. CASE m[1] = i
    <3>1. m[2] = 0
      BY <1>1, <1>4, <2>1, <2>2, <2>3 DEF Past, Enforcing
    <3>2. <<i, 0, u>> \in At(m[1], m[2])'
      BY <1>6, <2>3, <3>1 DEF At
    <3>3. QED
      BY <3>2
  <2>4. CASE m[1] # i
    <3>1. Past(m)
      BY <1>4, <2>1, <2>4 DEF Past
    <3>2. QED
      BY <1>6, <2>1, <3>1 DEF MarksInv, Complete, At
  <2>5. QED
    BY <2>3, <2>4
<1>14. Clean' => Faithful'
  BY <1>9, <1>12
<1>15. ~Clean' => Faithful'
  BY DEF Faithful, Originated, Untouched, OfTheirOwn, Fitting
<1>16. Alters(u)
  BY <1>1, <1>3, AltersOne
<1>17. Clean => Takes(u, 0)
  <2>1. u \notin Listed(snap) => \A w \in live : prof[w].master # u
    BY <1>2, <1>3 DEF AddConn, Seen
  <2>2. At(i, 0) = {}
    BY <1>1, <1>11 DEF At
  <2>3. QED
    BY <1>6, <1>12, <1>16, <2>1, <2>2 DEF Takes
<1>18. QED
  BY <1>7, <1>8, <1>13, <1>14, <1>15, <1>17 DEF MarksInv

(* A slave gets its mark, and no other result makes way for it. *)
LEMMA SlaveMarks ==
    ASSUME IInv, ReportInv, MarksInv, (\E u \in Uuid : AddSlave(u)) \/ ModifySlave \/ KeepSlave
    PROVE  MarksInv' /\ (Clean => \E u \in Uuid : Takes(u, k))
<1> DEFINE c == cfg.slaves[k]
           t == SlaveTarget(snap, c)
           main == res.main.uuid
<1>1. /\ pc = "slave" /\ i \in DOMAIN plan /\ i \in Nat /\ plan \in Seq(MainCfg)
      /\ k \in DOMAIN cfg.slaves /\ k \in Nat \ {0} /\ c \in SlaveCfg
      /\ snap \in Snapshot /\ snap.order \in Seq(Uuid) /\ Shape
      /\ res \in MainResult /\ res.main \in Result /\ res.slaves \in Seq(Result)
      /\ main \in Uuid
  <2>1. AtSlave
    BY DEF AddSlave, ModifySlave, KeepSlave
  <2>2. k \in DOMAIN cfg.slaves /\ cfg.slaves \in Seq(SlaveCfg)
    BY <2>1, CfgType DEF AtSlave, Working, IInv
  <2>3. k \in Nat \ {0} /\ c \in SlaveCfg
    BY <2>2
  <2>4. QED
    BY <2>1, <2>2, <2>3, PlanType
       DEF AtSlave, IInv, Shape, TypeOK, Working, Configured, Snapshot, MainResult, Result
<1>2. t \in Listed(snap) \cup {None} /\ Listed(snap) \subseteq Uuid /\ None \notin Listed(snap)
  BY <1>1, TargetsListed
<1>3. PICK u \in Uuid, changed \in BOOLEAN :
        /\ SlaveDone(u, changed)
        /\ IF t = None THEN AddConn(u, WantSlave(c, Blank(c.type), main))
                       ELSE /\ u = t
                            /\ \/ ModifyConn(t, c, WantSlave(c, snap.prof[t], main))
                               \/ /\ UNCHANGED nmVars
                                  /\ ~Needed(c, snap.prof[t], WantSlave(c, snap.prof[t], main))
  <2>1. CASE \E u \in Uuid : AddSlave(u)
    BY <2>1 DEF AddSlave
  <2>2. CASE ModifySlave
    BY <1>2, <2>2 DEF ModifySlave
  <2>3. CASE KeepSlave
    BY <1>2, <2>3 DEF KeepSlave
  <2>4. QED
    BY <2>1, <2>2, <2>3
<1> DEFINE e == [uuid |-> u, changed |-> changed, n |-> k]
           after == WithSlave(res.slaves, e)
<1>4. /\ UNCHANGED <<plan, snap, i, pc, results, outcome>> /\ k' = k + 1
      /\ res'.slaves = after /\ res'.main = res.main
  BY <1>1, <1>3 DEF SlaveDone, MainResult
<1>5. e \in Result /\ e.n = k /\ e.uuid = u
  BY <1>1 DEF Result
<1>6. Counted'
  BY <1>4 DEF MarksInv, Counted
<1>7. Numbered'
  <2>1. ASSUME NEW j \in DOMAIN after PROVE after[j].n # 0 /\ after[j].n < k + 1
    <3>1. CASE after[j] = e
      BY <1>1, <1>5, <3>1
    <3>2. CASE j \in DOMAIN res.slaves /\ after[j] = res.slaves[j]
      <4>1. res.slaves[j] \in Result
        BY <1>1, <3>2
      <4>2. res.slaves[j].n < k /\ res.slaves[j].n # 0 /\ res.slaves[j].n \in Nat
        BY <1>1, <3>2, <4>1 DEF MarksInv, Numbered, Configured, Filled, Result
      <4>3. QED
        BY <1>1, <3>2, <4>2
    <3>3. QED
      BY <1>1, <1>5, <3>1, <3>2, WithSlaveHas
  <2> HIDE DEF after
  <2>2. Filled(res)'
    BY <1>1, <1>4, <2>1 DEF MarksInv, Numbered, Configured, Filled
  <2>3. QED
    BY <1>1, <1>4, <2>1, <2>2 DEF MarksInv, Numbered, Filled
<1>8. Clean' => Clean
  BY <1>1, <1>4, SharedSame DEF Clean
<1>9. <<i, k>> \in Places(plan)
  BY <1>1 DEF Places, cfg
<1>10. ASSUME NEW x \in Marks, x[1] = i
       PROVE  x[2] # k /\ (x[2] = 0 => x[3] = main)
  <2>1. x \in MarksOf(i, res)
    BY <1>1, <1>10, FiledBefore DEF MarksInv, Marks, Shape
  <2>2. PICK d \in Entries(res) : x = <<i, d.n, d.uuid>>
    BY <2>1 DEF MarksOf
  <2>3. CASE d = res.main
    BY <1>1, <2>2, <2>3 DEF MarksInv, Numbered, Filled, Configured
  <2>4. CASE d \in Range(res.slaves)
    <3>1. PICK j \in DOMAIN res.slaves : d = res.slaves[j]
      BY <2>4 DEF Range
    <3>2. d.n < k /\ d.n # 0
      BY <1>1, <3>1 DEF MarksInv, Numbered, Filled, Configured
    <3>3. QED
      BY <1>1, <2>2, <3>2
  <2>5. QED
    BY <2>2, <2>3, <2>4 DEF Entries
<1>11. Alters(u)
  BY <1>1, <1>3, AltersOne
<1>12. ASSUME Clean PROVE Faithful' /\ Marks' = Marks \cup {<<i, k, u>>} /\ Takes(u, k)
  <2>1. TargetAt(<<i, k>>) = t
    BY <1>1 DEF TargetAt, CfgAt, cfg
  <2>2. IF t = None THEN u \notin Listed(snap) ELSE u = t
    BY <1>3 DEF AddConn, Seen
  <2>3. \A x \in Marks : x[3] # u
    <3>1. At(i, k) = {}
      BY <1>10 DEF At
    <3>2. u \notin Seen \/ (u # None /\ u = t /\ u \in Listed(snap))
      BY <1>2, <1>3 DEF AddConn
    <3>3. QED
      BY <1>9, <1>12, <2>1, <3>1, <3>2, NotMarkedYet DEF MarksInv, Faithful
  <2>4. Marks' = Marks \cup {<<i, k, u>>}
    <3>1. \A j \in DOMAIN res.slaves : res.slaves[j].uuid # u
      <4>1. SUFFICES ASSUME NEW j \in DOMAIN res.slaves PROVE res.slaves[j].uuid # u
        OBVIOUS
      <4>2. <<i, res.slaves[j].n, res.slaves[j].uuid>> \in Marks
        BY DEF Marks, MarksOf, Entries, Range
      <4>3. QED
        BY <2>3, <4>2
    <3>2. after = Append(res.slaves, e)
      BY <1>5, <3>1 DEF WithSlave
    <3> HIDE DEF e
    <3>3. Range(after) = Range(res.slaves) \cup {e}
      <4>1. /\ DOMAIN after = 1..(Len(res.slaves) + 1)
            /\ DOMAIN res.slaves = 1..Len(res.slaves)
            /\ after[Len(res.slaves) + 1] = e
            /\ \A n \in 1..Len(res.slaves) : after[n] = res.slaves[n]
            /\ Len(res.slaves) \in Nat
        BY <1>1, <1>5, <3>2
      <4>2. QED
        BY <4>1 DEF Range
    <3>4. e # None
      BY <1>5, SessionAssumption DEF Result
    <3>5. Entries(res)' = Entries(res) \cup {e}
      BY <1>1, <1>4, <3>3, <3>4, SessionAssumption DEF Entries, Result
    <3>6. MarksOf(i, res)' = {<<i, x.n, x.uuid>> : x \in Entries(res) \cup {e}}
      BY <1>4, <3>5 DEF MarksOf
    <3>7. MarksOf(i, res)' = MarksOf(i, res) \cup {<<i, k, u>>}
      BY <1>5, <3>6 DEF MarksOf
    <3>8. Filed' = Filed
      BY <1>4 DEF Filed, MarksOf, Entries
    <3>9. QED
      BY <3>7, <3>8 DEF Marks
  <2> DEFINE cur == IF t = None THEN Blank(c.type) ELSE snap.prof[t]
  <2>5. cur \in Prof /\ cur.type = c.type
    <3>1. CASE t = None
      BY <1>1, <3>1, BlankType DEF Blank, SlaveCfg, Types
    <3>2. CASE t # None
      BY <1>1, <1>2, <3>2, SlaveTargetFits DEF Snapshot
    <3>3. QED
      BY <3>1, <3>2
  <2> DEFINE want == WantSlave(c, cur, main)
  <2>6. /\ want \in Prof /\ FitsSlave(want, c, main) /\ want.type = cur.type
        /\ want.ip \in {None, snap.prof[u].ip}
    <3>1. want.ip = cur.ip /\ cur.ip \in {None, snap.prof[u].ip}
      BY <1>1, <1>3, <2>5, WantSlaveFits DEF Blank
    <3>2. QED
      BY <1>1, <2>5, <3>1, WantSlaveType, WantSlaveFits
  <2>7. want.iface = IfaceAfter(<<i, k>>) /\ want.parent = ParentAfter(<<i, k>>)
    <3>1. CfgAt(plan, <<i, k>>) = c /\ plan \in Plans \cup {<<>>}
      BY <1>1 DEF CfgAt, cfg, Shape, TypeOK
    <3>2. QED
      BY <1>9, <2>1, <2>5, <3>1, WantAfter
  <2>8. u \notin Listed(snap) => \A w \in live : prof[w].master # u
    BY <1>2, <1>3 DEF AddConn, Seen
  <2>9. \/ AddConn(u, want)
        \/ /\ t # None /\ u = t /\ cur = snap.prof[u]
           /\ \/ ModifyConn(u, c, want)
              \/ UNCHANGED nmVars /\ ~Needed(c, snap.prof[u], want)
    BY <1>3
  <2> HIDE DEF want, cur, e, after, c, main, t
  <2>10. /\ u \in live' => prof'[u] = want
        /\ live' \subseteq live \cup {u}
        /\ \A w \in live' \ {u} : prof'[w] = prof[w]
    <3> DEFINE Done == /\ u \in live' => prof'[u] = want
                       /\ live' \subseteq live \cup {u}
                       /\ \A w \in live' \ {u} : prof'[w] = prof[w]
    <3> SUFFICES Done
      OBVIOUS
    <3>1. CASE AddConn(u, want)
      BY <1>1, <2>6, <3>1, Configures
    <3>2. CASE t # None /\ u = t /\ cur = snap.prof[u] /\ u \in live
                 /\ (ModifyConn(u, c, want)
                       \/ (UNCHANGED nmVars /\ ~Needed(c, snap.prof[u], want)))
      <4>1. prof[u] = snap.prof[u]
        BY <1>2, <1>12, <2>3, <3>2 DEF MarksInv, Faithful, Untouched
      <4>2. QED
        BY <1>1, <2>6, <3>2, <4>1, Configures
    <3>3. CASE u \notin live /\ UNCHANGED nmVars
      BY <3>3 DEF nmVars
    <3>4. ModifyConn(u, c, want) => u \in live
      BY DEF ModifyConn
    <3> HIDE DEF Done
    <3>5. QED
      BY <2>9, <3>1, <3>2, <3>3, <3>4
  <2>11. u \in live' => \A y \in At(i, 0) : FitsSlave(prof'[u], plan[i].slaves[k], y[3])
    BY <1>10, <2>6, <2>10 DEF At, c, cfg
  <2>12. Faithful'
    BY <1>1, <1>4, <1>9, <1>12, <2>1, <2>2, <2>3, <2>4, <2>10, <2>11, FaithfulMarked
       DEF MarksInv
  <2>13. Takes(u, k)
    <3>1. At(i, k) = {}
      BY <1>10 DEF At
    <3>2. QED
      BY <1>11, <2>3, <2>4, <2>6, <2>7, <2>8, <2>10, <3>1 DEF Takes
  <2>14. QED
    BY <2>4, <2>12, <2>13
<1>13. Complete'
  <2>1. SUFFICES ASSUME Clean, NEW m \in Places(plan), Past(m)'
                 PROVE  At(m[1], m[2])' # {}
    BY <1>4, <1>8 DEF Complete
  <2>2. m[1] \in Nat /\ m[2] \in Nat
    BY <1>1, PlacesIn
  <2>3. CASE m[1] = i /\ m[2] = k
    <3>1. <<i, k, u>> \in At(m[1], m[2])'
      BY <1>12, <2>1, <2>3 DEF At
    <3>2. QED
      BY <3>1
  <2>4. CASE ~(m[1] = i /\ m[2] = k)
    <3>1. Past(m)
      BY <1>1, <1>4, <2>1, <2>2, <2>4 DEF Past, Enforcing
    <3>2. QED
      BY <1>12, <2>1, <3>1 DEF MarksInv, Complete, At
  <2>5. QED
    BY <2>3, <2>4
<1>14. ~Clean' => Faithful'
  BY DEF Faithful, Originated, Untouched, OfTheirOwn, Fitting
<1>15. QED
  BY <1>6, <1>7, <1>8, <1>12, <1>13, <1>14 DEF MarksInv

LEMMA NextMarks ==
    ASSUME IInv, ReportInv, MarksInv, [Next]_vars
    PROVE  MarksInv'
<1>1. IInv' /\ ReportInv'
  BY NextInv, NextReport
<1>2. ASSUME NEW p \in Plans, Start(p) PROVE MarksInv'
  BY <1>2, StartMarks
<1>3. CASE RunNext
  BY <1>1, <1>3, EarlyMarks, MainMarks, SlaveMarks, EnforcingMarks, ConnDoneMarks, EndingMarks
     DEF RunNext
<1>4. CASE Kill
  BY <1>4, EndingMarks
<1>5. CASE NmNext \/ UNCHANGED vars
  BY <1>5, OutsideMarks
<1>6. QED
  BY <1>2, <1>3, <1>4, <1>5 DEF Next

LEMMA InitMarks == Init => MarksInv
<1> SUFFICES ASSUME Init PROVE MarksInv
  OBVIOUS
<1>1. pc = "idle" /\ outcome = "none" /\ i = 1 /\ results = <<>>
  BY DEF Init
<1>2. ~Clean
  BY <1>1 DEF Clean
<1>3. QED
  BY <1>1, <1>2
     DEF MarksInv, Counted, Numbered, Configured, Faithful, Originated, Untouched,
         OfTheirOwn, Fitting, Complete

LEMMA MarksAlways == Spec => [](IInv /\ ReportInv /\ MarksInv)
<1>1. Init => ReportInv
  BY DEF Init, ReportInv, FreshResult, SlavesTraced, Quiet
<1>2. IInv /\ ReportInv /\ MarksInv /\ [Next]_vars => IInv' /\ ReportInv' /\ MarksInv'
  BY NextInv, NextReport, NextMarks
<1>3. QED
  BY <1>1, <1>2, InitInv, InitMarks, PTL DEF Spec

-----------------------------------------------------------------------------
(* The marks of a run that has succeeded are those of its results. *)
LEMMA FiledMark ==
    ASSUME NEW n \in DOMAIN results, NEW e \in Entries(results[n])
    PROVE  <<n, e.n, e.uuid>> \in Filed /\ e.uuid \in session
BY DEF Filed, MarksOf, session, UuidsOf, Range

LEMMA SessionFiled ==
    ASSUME NEW u \in session
    PROVE  \E x \in Filed : x[3] = u
<1>1. PICK n \in DOMAIN results : u \in UuidsOf(results[n])
  BY DEF session, Range
<1>2. PICK e \in Entries(results[n]) : u = e.uuid
  BY <1>1 DEF UuidsOf
<1>3. QED
  BY <1>2, FiledMark

LEMMA FiledResult ==
    ASSUME NEW x \in Filed
    PROVE  /\ x[1] \in DOMAIN results
           /\ \E e \in Entries(results[x[1]]) : x = <<x[1], e.n, e.uuid>>
<1>1. PICK n \in DOMAIN results : \E e \in Entries(results[n]) : x = <<n, e.n, e.uuid>>
  BY DEF Filed, MarksOf
<1>2. QED
  BY <1>1

(* When a run succeeds, every configuration and every slave of it has a    *)
(* connection of its own that carries it: what a builder compares with is  *)
(* what the connection holds, since no other configuration of the run has  *)
(* touched it.                                                             *)
THEOREM AppliedInFull == Spec => []Applied
<1>1. ASSUME IInv, ReportInv, MarksInv PROVE Applied
  <2>1. SUFFICES ASSUME Succeeded PROVE
          /\ Len(results) = Len(plan)
          /\ \A n \in DOMAIN results :
               LET r == results[n] IN
               /\ r.main.uuid \in live
               /\ FitsMain(prof[r.main.uuid], plan[n])
               /\ {e.n : e \in Range(r.slaves)} = DOMAIN plan[n].slaves
               /\ \A e \in Range(r.slaves) :
                    /\ e.uuid \in live
                    /\ FitsSlave(prof[e.uuid], plan[n].slaves[e.n], r.main.uuid)
               /\ \A m \in DOMAIN results :
                    UuidsOf(results[m]) \cap UuidsOf(r) # {} => m = n
    BY DEF Applied
  <2>2. /\ pc = "idle" /\ outcome = "ok" /\ Clean
        /\ plan \in Seq(MainCfg) /\ results \in Seq(MainResult)
        /\ session \subseteq live
    BY <1>1, <2>1, PlanType DEF Succeeded, Clean, IInv, Shape, TypeOK
  <2>3. Len(results) = Len(plan)
    BY <1>1, <2>2 DEF MarksInv, Counted
  <2>4. Marks = Filed
    <3>1. MarksOf(i, res) = {}
      BY <1>1, <2>2, UnmarkedYet DEF IInv, Shape, ReportInv, Configured
    <3>2. QED
      BY <3>1 DEF Marks
  <2>5. ASSUME NEW n \in DOMAIN results
        PROVE  /\ results[n].main.uuid \in live
               /\ FitsMain(prof[results[n].main.uuid], plan[n])
               /\ {e.n : e \in Range(results[n].slaves)} = DOMAIN plan[n].slaves
               /\ \A e \in Range(results[n].slaves) :
                    /\ e.uuid \in live
                    /\ FitsSlave(prof[e.uuid], plan[n].slaves[e.n], results[n].main.uuid)
               /\ \A m \in DOMAIN results :
                    UuidsOf(results[m]) \cap UuidsOf(results[n]) # {} => m = n
    <3> DEFINE r == results[n]
    <3>1. /\ r.main \in Result /\ r.main # None /\ r.main.n = 0
          /\ r.main \in Entries(r) /\ Range(r.slaves) \subseteq Entries(r)
      BY <1>1, SessionAssumption DEF MarksInv, Numbered, Filled, Entries, Result
    <3>2. <<n, 0, r.main.uuid>> \in Marks /\ r.main.uuid \in live
      BY <2>2, <2>4, <3>1, FiledMark
    <3>3. FitsMain(prof[r.main.uuid], plan[n])
      BY <1>1, <2>2, <3>2 DEF MarksInv, Faithful, Fitting
    <3>4. ASSUME NEW e \in Range(r.slaves)
          PROVE  /\ e.n \in DOMAIN plan[n].slaves
                 /\ e.uuid \in live
                 /\ FitsSlave(prof[e.uuid], plan[n].slaves[e.n], r.main.uuid)
      <4>1. <<n, e.n, e.uuid>> \in Marks /\ e.uuid \in live
        BY <2>2, <2>4, <3>1, <3>4, FiledMark
      <4>2. e.n # 0
        BY <1>1, <3>4 DEF MarksInv, Numbered, Filled, Range
      <4>3. <<n, e.n>> \in Places(plan)
        BY <1>1, <2>2, <4>1 DEF MarksInv, Faithful, Originated
      <4>4. e.n \in DOMAIN plan[n].slaves
        BY <2>2, <4>2, <4>3, PlacesIn
      <4>5. <<n, 0, r.main.uuid>> \in At(n, 0)
        BY <3>2 DEF At
      <4>6. FitsSlave(prof[e.uuid], plan[n].slaves[e.n], r.main.uuid)
        BY <1>1, <2>2, <4>1, <4>2, <4>5 DEF MarksInv, Faithful, Fitting
      <4>7. QED
        BY <4>1, <4>4, <4>6
    <3>5. ASSUME NEW j \in DOMAIN plan[n].slaves
          PROVE  \E e \in Range(r.slaves) : j = e.n
      <4>1. n \in DOMAIN plan /\ <<n, j>> \in Places(plan)
        <5>1. DOMAIN plan = DOMAIN results
          BY <2>2, <2>3
        <5>2. <<n, j>> \in {<<n, l>> : l \in {0} \cup DOMAIN plan[n].slaves}
          BY <3>5
        <5>3. QED
          BY <5>1, <5>2 DEF Places
      <4>2. j # 0
        <5>1. plan[n] \in MainCfg
          BY <2>2, <4>1
        <5>2. plan[n].slaves \in Seq(SlaveCfg)
          BY <5>1 DEF MainCfg
        <5>3. QED
          BY <5>2
      <4>3. PICK x \in Marks : x[1] = n /\ x[2] = j
        BY <1>1, <2>2, <4>1 DEF MarksInv, Complete, Past, At
      <4>4. PICK e \in Entries(results[n]) : x = <<n, e.n, e.uuid>>
        BY <2>4, <4>3, FiledResult
      <4>5. QED
        BY <3>1, <4>2, <4>3, <4>4 DEF Entries
    <3>6. ASSUME NEW m \in DOMAIN results, UuidsOf(results[m]) \cap UuidsOf(r) # {}
          PROVE  m = n
      <4>1. PICK d \in Entries(results[m]), e \in Entries(r) : d.uuid = e.uuid
        BY <3>6 DEF UuidsOf
      <4>2. <<m, d.n, d.uuid>> \in Marks /\ <<n, e.n, e.uuid>> \in Marks
        BY <2>4, FiledMark
      <4>3. QED
        BY <1>1, <2>2, <4>1, <4>2 DEF MarksInv, Faithful, OfTheirOwn
    <3>7. {e.n : e \in Range(r.slaves)} = DOMAIN plan[n].slaves
      BY <3>4, <3>5
    <3>8. QED
      BY <3>2, <3>3, <3>4, <3>6, <3>7
  <2>6. QED
    BY <2>3, <2>5
<1>2. QED
  BY <1>1, MarksAlways, PTL

-----------------------------------------------------------------------------
(* The connections that were in the way of a configuration are gone for    *)
(* good: what its delete list named, with some of the marked connections   *)
(* preserved, does not exist any more.                                     *)
Owned == {x[3] : x \in Marks}

ClearedFor(c) ==
    \E S \in SUBSET Owned : DeleteList(snap, plan, c, S) \cap live = {}

Cleared ==
    Clean =>
      /\ \A n \in DOMAIN plan :
            n < i \/ pc = "idle" \/ (n = i /\ pc \in Configured) => ClearedFor(plan[n])
      /\ pc = "delete" => DeleteList(snap, plan, cfg, session) \cap live \subseteq todel
      /\ pc \in {"validate", "main"} => DeleteList(snap, plan, cfg, session) \cap live = {}

(* Nothing that the snapshot lists comes back. *)
LEMMA ClearedForGood ==
    ASSUME UNCHANGED <<plan, snap>>, Marks \subseteq Marks', snap.order \in Seq(Uuid),
           live' \cap Listed(snap) \subseteq live, NEW c, ClearedFor(c)
    PROVE  ClearedFor(c)'
<1>1. PICK S \in SUBSET Owned : DeleteList(snap, plan, c, S) \cap live = {}
  BY DEF ClearedFor
<1>2. Owned \subseteq Owned'
  BY DEF Owned
<1>3. DeleteList(snap, plan, c, S) \subseteq Listed(snap)
  BY DeleteListSpares
<1>4. DeleteList(snap', plan', c, S) = DeleteList(snap, plan, c, S)
  OBVIOUS
<1>5. S \in SUBSET Owned' /\ DeleteList(snap', plan', c, S) \cap live' = {}
  BY <1>1, <1>2, <1>3, <1>4
<1>6. ClearedFor(c)' <=> \E T \in SUBSET Owned' : DeleteList(snap', plan', c, T) \cap live' = {}
  BY DEF ClearedFor
<1>7. QED
  BY <1>5, <1>6

(* A step that changes no mark, brings nothing back, and has no deletions  *)
(* under way                                                               *)
LEMMA ClearedKept ==
    ASSUME IInv, Cleared, UNCHANGED <<plan, snap>>, Marks \subseteq Marks', live' \cap Listed(snap) \subseteq live,
           Clean' => Clean,
           pc' \notin {"delete", "validate", "main"},
           \A n \in DOMAIN plan :
              n < i' \/ pc' = "idle" \/ (n = i' /\ pc' \in Configured)
                => n < i \/ pc = "idle" \/ (n = i /\ pc \in Configured) \/ ClearedFor(plan[n])
    PROVE  Cleared'
<1>1. snap.order \in Seq(Uuid)
  BY DEF IInv, Shape, TypeOK, Snapshot
<1>2. SUFFICES ASSUME Clean, NEW n \in DOMAIN plan,
                      n < i' \/ pc' = "idle" \/ (n = i' /\ pc' \in Configured)
               PROVE  ClearedFor(plan[n])'
  BY DEF Cleared
<1>3. ClearedFor(plan[n])
  BY <1>2 DEF Cleared
<1>4. \A c : ClearedFor(c) => ClearedFor(c)'
  BY <1>1, ClearedForGood
<1>5. QED
  BY <1>3, <1>4

LEMMA NextCleared ==
    ASSUME IInv, ReportInv, MarksInv, Cleared, [Next]_vars
    PROVE  Cleared'
<1> USE DEF Configured
<1>1. snap.order \in Seq(Uuid) /\ i \in Nat /\ plan \in Seq(MainCfg) /\ pc \in Steps
  BY PlanType DEF IInv, Shape, TypeOK, Snapshot
<1>2. IInv' /\ ReportInv'
  BY NextInv, NextReport
<1>3. ASSUME NEW p \in Plans, Start(p) PROVE Cleared'
  <2>1. pc' = "target" /\ i' = 1 /\ plan' = p /\ p \in Seq(MainCfg)
    BY <1>3, SessionAssumption DEF Start, MarksInv, Counted
  <2>2. \A n \in DOMAIN plan' : ~(n < i')
    BY <2>1
  <2>3. QED
    BY <2>1, <2>2 DEF Cleared
<1>4. CASE \/ DeleteFails \/ ValidateFails \/ MainRaises \/ MainFails \/ SlaveFails
           \/ EnforceMissing \/ CommandFails \/ PollTimeout \/ RunDone \/ Kill
  <2>1. SUFFICES ASSUME Clean' PROVE Cleared'
    BY DEF Cleared
  <2>2. /\ UNCHANGED <<plan, snap, live>> /\ pc = "target" /\ i > Len(plan) /\ pc' = "idle"
    BY <1>4, <2>1
       DEF DeleteFails, ValidateFails, MainRaises, MainFails, SlaveFails, EnforceMissing,
           CommandFails, PollTimeout, RunDone, Kill, End, Clean
  <2>3. Marks' = Marks
    BY <1>4, <2>1, EndingMarks
  <2>4. Clean
    BY <2>1, <2>2, SharedSame DEF Clean
  <2>5. \A n \in DOMAIN plan : n < i
    BY <1>1, <2>2
  <2>6. QED
    BY <2>2, <2>3, <2>4, <2>5, ClearedKept
<1>5. CASE ChooseTarget
  <2>1. /\ UNCHANGED <<plan, snap, live, i, outcome, results>>
        /\ pc = "target" /\ pc' = "delete"
        /\ todel' = DeleteList(snap, plan, cfg, session)
    BY <1>5 DEF ChooseTarget, nmVars
  <2>2. session' = session /\ cfg' = cfg
    BY <2>1 DEF session, cfg, UuidsOf, Entries
  <2>3. Marks' = Marks
    BY <1>2, <1>5, EarlyMarks
  <2>4. Clean' => Clean
    BY <2>1, SharedSame DEF Clean
  <2>5. \A c : ClearedFor(c) => ClearedFor(c)'
    BY <1>1, <2>1, <2>3, ClearedForGood
  <2>6. QED
    BY <2>1, <2>2, <2>4, <2>5 DEF Cleared
<1>6. ASSUME NEW u \in Uuid, Delete(u) PROVE Cleared'
  <2>1. /\ UNCHANGED <<plan, snap, i, pc, outcome, results>>
        /\ pc = "delete" /\ live' = live \ {u} /\ todel' = todel \ {u}
    BY <1>6 DEF Delete
  <2>2. session' = session /\ cfg' = cfg
    BY <2>1 DEF session, cfg, UuidsOf, Entries
  <2>3. Marks' = Marks
    BY <1>2, <1>6, EarlyMarks
  <2>4. Clean' => Clean
    BY <2>1, SharedSame DEF Clean
  <2>5. \A c : ClearedFor(c) => ClearedFor(c)'
    BY <1>1, <2>1, <2>3, ClearedForGood
  <2>6. QED
    BY <2>1, <2>2, <2>4, <2>5 DEF Cleared
<1>7. CASE DeletesDone \/ Validate
  <2>1. /\ UNCHANGED <<plan, snap, live, i, outcome, results, todel>>
        /\ \/ pc = "delete" /\ todel = {} /\ pc' = "validate"
           \/ pc = "validate" /\ pc' = "main"
    BY <1>7 DEF DeletesDone, Validate, nmVars, runVars
  <2>2. session' = session /\ cfg' = cfg
    BY <2>1 DEF session, cfg, UuidsOf, Entries
  <2>3. Marks' = Marks
    BY <1>2, <1>7, EarlyMarks
  <2>4. Clean' => Clean
    BY <2>1, SharedSame DEF Clean
  <2>5. \A c : ClearedFor(c) => ClearedFor(c)'
    BY <1>1, <2>1, <2>3, ClearedForGood
  <2>6. QED
    BY <2>1, <2>2, <2>4, <2>5 DEF Cleared
<1>8. CASE (\E u \in Uuid : AddMain(u)) \/ ModifyMain \/ KeepMain
  <2>1. UNCHANGED <<plan, snap, i, outcome>> /\ pc = "main" /\ pc' = "slave"
    BY <1>8 DEF AddMain, ModifyMain, KeepMain, MainDone
  <2>2. SUFFICES ASSUME Clean PROVE Cleared'
    BY <2>1, SharedSame DEF Clean, Cleared
  <2>3. PICK u \in Uuid : Takes(u, 0)
    BY <1>8, <2>2, MainMarks
  <2>4. session \subseteq Owned
    BY SessionFiled DEF Owned, Marks
  <2>5. ClearedFor(cfg)
    BY <2>1, <2>2, <2>4 DEF Cleared, ClearedFor
  <2>6. Marks \subseteq Marks' /\ live' \cap Listed(snap) \subseteq live
    BY <2>3 DEF Takes, Alters
  <2>7. \A n \in DOMAIN plan :
          n < i' \/ pc' = "idle" \/ (n = i' /\ pc' \in Configured) => n < i \/ ClearedFor(plan[n])
    BY <2>1, <2>5 DEF cfg
  <2>8. QED
    BY <2>1, <2>2, <2>6, <2>7, ClearedKept
<1>9. CASE (\E u \in Uuid : AddSlave(u)) \/ ModifySlave \/ KeepSlave
  <2>1. UNCHANGED <<plan, snap, i, outcome, pc>> /\ pc = "slave"
    BY <1>9 DEF AddSlave, ModifySlave, KeepSlave, AtSlave, SlaveDone
  <2>2. SUFFICES ASSUME Clean PROVE Cleared'
    BY <2>1, SharedSame DEF Clean, Cleared
  <2>3. PICK u \in Uuid : Takes(u, k)
    BY <1>9, <2>2, SlaveMarks
  <2>4. Marks \subseteq Marks' /\ live' \cap Listed(snap) \subseteq live
    BY <2>3 DEF Takes, Alters
  <2>5. QED
    BY <2>1, <2>2, <2>4, ClearedKept
<1>10. CASE SlavesDone \/ EnforceSkip \/ EnforceNeeded \/ CommandUp \/ CommandDown
              \/ PollWait \/ PollReached
  <2>1. /\ UNCHANGED <<live, plan, snap, i, outcome>>
        /\ pc \in Configured /\ pc' \in Configured
    BY <1>10 DEF SlavesDone, EnforceSkip, EnforceNeeded, CommandUp, CommandDown, PollWait,
       PollReached, AtEnforce, nmVars, runVars
  <2>2. Marks' = Marks /\ (Clean' => Clean)
    BY <1>10, <2>1, EnforcingMarks, SharedSame DEF Clean
  <2>3. QED
    BY <2>1, <2>2, ClearedKept
<1>11. CASE ConnDone
  <2>1. /\ UNCHANGED <<live, plan, snap, outcome>>
        /\ pc = "enforce" /\ pc' = "target" /\ i' = i + 1
    BY <1>11 DEF ConnDone, nmVars
  <2>2. Marks' = Marks /\ (Clean' => Clean)
    BY <1>11, <2>1, ConnDoneMarks, SharedSame DEF Clean
  <2>3. \A n \in DOMAIN plan : n < i' => n < i \/ n = i
    BY <1>1, <2>1
  <2>4. QED
    BY <2>1, <2>2, <2>3, ClearedKept
<1>12. CASE NmNext \/ UNCHANGED vars
  <2>1. UNCHANGED <<live, plan, snap, i, pc, outcome, todel, results>>
    BY <1>12 DEF NmNext, NmUp, NmDown, runVars, vars
  <2>2. session' = session /\ cfg' = cfg
    BY <2>1 DEF session, cfg, UuidsOf, Entries
  <2>3. Marks' = Marks /\ (Clean' => Clean)
    BY <1>12, <2>1, OutsideMarks, SharedSame DEF Clean
  <2>4. \A c : ClearedFor(c) => ClearedFor(c)'
    BY <1>1, <2>1, <2>3, ClearedForGood
  <2>5. QED
    BY <2>1, <2>2, <2>3, <2>4 DEF Cleared
<1>13. QED
  BY <1>3, <1>4, <1>5, <1>6, <1>7, <1>8, <1>9, <1>10, <1>11, <1>12 DEF Next, RunNext

(* A main connection is emptied when a configuration deletes all of its    *)
(* slaves, unless it is preserved.                                         *)
LEMMA EmptiedDeleted ==
    ASSUME NEW c, NEW S, NEW m \in Listed(snap),
           m \notin Preserved(snap, plan, c, S),
           Group(snap, m) # {},
           Group(snap, m) \cap Preserved(snap, plan, c, S) = {},
           \A u \in Group(snap, m) : snap.prof[u].iface \in RelatedIfaces(c)
    PROVE  m \in DeleteList(snap, plan, c, S)
<1> DEFINE keep == Preserved(snap, plan, c, S)
           related == {u \in Listed(snap) \ keep :
                         \/ snap.prof[u].iface \in RelatedIfaces(c)
                         \/ snap.prof[u].parent \in RelatedIfaces(c)}
           lost == {u \in related : IsSlave(snap, u)}
<1> HIDE DEF keep
<1>1. Group(snap, m) \subseteq lost /\ lost # {}
  BY DEF Group, keep
<1>2. m \in OwnedUnknown(snap, c, keep)
  BY <1>1 DEF OwnedUnknown, keep
<1>3. QED
  BY <1>2 DEF DeleteList, keep

(* What the plan takes over is configured when the run succeeds. *)
LEMMA ChildrenTaken ==
    ASSUME NEW c, NEW u \in ChildrenUuids(snap, plan, c)
    PROVE  u \in Taken
<1>1. PICK d \in Range(plan) :
        u # None /\ (u = MainTarget(snap, d) \/ \E e \in SlavesOf(d) : u = SlaveTarget(snap, e))
  BY DEF ChildrenUuids
<1>2. u \in TargetUuids(snap, d)
  BY <1>1 DEF TargetUuids, SlaveTargets
<1>3. QED
  BY <1>1, <1>2 DEF Taken

LEMMA TargetPlace ==
    ASSUME plan \in Seq(MainCfg), NEW n \in DOMAIN plan, NEW u \in TargetUuids(snap, plan[n])
    PROVE  \E j \in {0} \cup DOMAIN plan[n].slaves :
              u # None /\ u = TargetAt(<<n, j>>) /\ <<n, j>> \in Places(plan)
<1>1. plan[n].slaves \in Seq(SlaveCfg)
  <2>1. plan[n] \in MainCfg
    OBVIOUS
  <2>2. QED
    BY <2>1 DEF MainCfg
<1>2. \A j \in {0} \cup DOMAIN plan[n].slaves : <<n, j>> \in Places(plan)
  BY DEF Places
<1>3. CASE u = MainTarget(snap, plan[n]) /\ u # None
  BY <1>2, <1>3 DEF TargetAt
<1>4. CASE \E d \in SlavesOf(plan[n]) : u = SlaveTarget(snap, d) /\ u # None
  <2>1. PICK j \in DOMAIN plan[n].slaves : u = SlaveTarget(snap, plan[n].slaves[j]) /\ u # None
    BY <1>4 DEF SlavesOf, Range
  <2>2. j # 0
    BY <1>1, <2>1
  <2>3. QED
    BY <1>2, <2>1, <2>2 DEF TargetAt, CfgAt
<1>5. QED
  BY <1>3, <1>4 DEF TargetUuids, SlaveTargets

LEMMA TakenMarked ==
    ASSUME IInv, MarksInv, Clean, pc = "idle", NEW u \in Taken
    PROVE  u \in Owned
<1>1. plan \in Seq(MainCfg)
  BY PlanType DEF IInv, Shape
<1>2. PICK n \in DOMAIN plan : u \in TargetUuids(snap, plan[n])
  BY DEF Taken, Range
<1>3. PICK j \in {0} \cup DOMAIN plan[n].slaves :
        u # None /\ u = TargetAt(<<n, j>>) /\ <<n, j>> \in Places(plan)
  BY <1>1, <1>2, TargetPlace
<1>4. PICK x \in Marks : x[1] = n /\ x[2] = j
  BY <1>3 DEF MarksInv, Complete, Past, At
<1>5. x[3] = u
  BY <1>3, <1>4 DEF MarksInv, Faithful, Originated
<1>6. QED
  BY <1>4, <1>5 DEF Owned

(* When a run succeeds, no connection is left whose slaves it has all      *)
(* deleted, when one configuration has the interfaces of all of them: that *)
(* configuration's delete list has it, and it does not come back.          *)
THEOREM EmptyMainsGo == Spec => []LostMainsGone
<1>1. ASSUME IInv, ReportInv, MarksInv, Cleared PROVE LostMainsGone
  <2>1. SUFFICES ASSUME Succeeded, NEW m \in Listed(snap) \ session,
                        Group(snap, m) # {}, Group(snap, m) \cap live = {},
                        NEW n \in DOMAIN plan,
                        \A u \in Group(snap, m) :
                           snap.prof[u].iface \in RelatedIfaces(plan[n])
                 PROVE  m \notin live
    BY DEF LostMainsGone, Range
  <2>2. Clean /\ pc = "idle" /\ session \subseteq live
    BY <1>1, <2>1 DEF Succeeded, Clean, IInv
  <2>3. Owned = session
    <3>1. MarksOf(i, res) = {}
      BY <1>1, <2>2, UnmarkedYet DEF IInv, Shape, ReportInv, Configured
    <3>2. ASSUME NEW x \in Filed PROVE x[3] \in session
      BY <3>2, FiledResult, FiledMark
    <3>3. QED
      BY <3>1, <3>2, SessionFiled DEF Owned, Marks
  <2>4. PICK S \in SUBSET session : DeleteList(snap, plan, plan[n], S) \cap live = {}
    BY <1>1, <2>2, <2>3 DEF Cleared, ClearedFor
  <2>5. Preserved(snap, plan, plan[n], S) \subseteq session
    <3>1. TargetUuids(snap, plan[n]) \subseteq Taken
      BY DEF Taken, Range
    <3>2. Taken \subseteq session
      BY <1>1, <2>2, <2>3, TakenMarked
    <3>3. QED
      BY <3>1, <3>2, ChildrenTaken DEF Preserved
  <2>6. m \in DeleteList(snap, plan, plan[n], S)
    BY <2>1, <2>2, <2>5, EmptiedDeleted
  <2>7. QED
    BY <2>4, <2>6
<1>2. Init => Cleared
  BY DEF Init, Cleared, Clean
<1>3. IInv /\ ReportInv /\ MarksInv /\ Cleared /\ [Next]_vars => Cleared'
  BY NextCleared
<1>4. QED
  BY <1>1, <1>2, <1>3, MarksAlways, PTL DEF Spec

-----------------------------------------------------------------------------
(* States.  What a run has changed has been activated again, or has been   *)
(* taken down, by the time the run is done with it; and a connection is in *)
(* its state, or up when it was adopted, for as long as nothing else is    *)
(* activated on its interface.                                             *)
ChangedRestarted ==
    Clean =>
      /\ \A n \in DOMAIN results : \A e \in Entries(results[n]) :
            e.changed /\ CfgAt(plan, <<n, e.n>>).state # "unset" => e.uuid \notin stale
      /\ pc \in Enforcing => \A n \in DOMAIN ToEnforce :
            /\ n < k
            /\ ToEnforce[n].changed
            /\ CfgOf(ToEnforce[n]).state # "unset"
            => ToEnforce[n].uuid \notin stale

Alone(u) ==
    \A x \in Marks : x[3] # u /\ prof[u].iface # None => prof[x[3]].iface # prof[u].iface

(* The marks of the connections whose states have been enforced *)
Pending == {ToEnforce[n].uuid : n \in {j \in DOMAIN ToEnforce : j >= k}}

Finished == IF pc \in Enforcing THEN {x \in Marks : x[3] \notin Pending} ELSE Filed

(* A slave that is new to a main connection that goes up *)
AdoptedAt(m) ==
    /\ m[2] # 0
    /\ plan[m[1]].state = "up"
    /\ TargetAt(m) # None => ~IsSlave(snap, TargetAt(m))

UpAt(m) == CfgAt(plan, m).state = "up" \/ AdoptedAt(m)

AsAsked ==
    Clean /\ flips = 0 =>
        \A x \in Finished :
            LET m == <<x[1], x[2]>>
            IN  /\ CfgAt(plan, m).state # "unset" \/ AdoptedAt(m)
                /\ Alone(x[3])
                => (x[3] \in active <=> UpAt(m))

(* What is enforced has a mark. *)
LEMMA EnforcedMarked ==
    ASSUME IInv, pc \in Configured, NEW n \in DOMAIN ToEnforce
    PROVE  /\ <<i, ToEnforce[n].n, ToEnforce[n].uuid>> \in MarksOf(i, res)
           /\ n \notin DOMAIN res.slaves => n = Len(ToEnforce) /\ ToEnforce[n] = res.main
<1>1. /\ res.slaves \in Seq(Result) /\ res.main \in Result /\ None \notin Result
  BY SessionAssumption DEF IInv, Shape, TypeOK, MainResult, Result
<1>2. CASE n \in DOMAIN res.slaves
  <2>1. ToEnforce[n] = res.slaves[n]
    BY <1>1, <1>2 DEF ToEnforce
  <2>2. QED
    BY <1>2, <2>1 DEF MarksOf, Entries, Range
<1>3. CASE n \notin DOMAIN res.slaves
  <2>1. n = Len(ToEnforce) /\ ToEnforce[n] = res.main
    BY <1>1, <1>3 DEF ToEnforce
  <2>2. QED
    BY <1>1, <2>1 DEF MarksOf, Entries
<1>4. QED
  BY <1>2, <1>3

LEMMA EntriesEnforced ==
    ASSUME IInv, pc \in Configured, NEW e \in Entries(res)
    PROVE  \E n \in DOMAIN ToEnforce : e = ToEnforce[n]
<1>1. res.slaves \in Seq(Result)
  BY DEF IInv, Shape, TypeOK, MainResult
<1>2. CASE e = res.main
  <2>1. Len(ToEnforce) \in DOMAIN ToEnforce /\ ToEnforce[Len(ToEnforce)] = res.main
    BY <1>1 DEF ToEnforce
  <2>2. QED
    BY <1>2, <2>1
<1>3. CASE e \in Range(res.slaves)
  <2>1. PICK n \in DOMAIN res.slaves : e = res.slaves[n]
    BY <1>3 DEF Range
  <2>2. n \in DOMAIN ToEnforce /\ ToEnforce[n] = res.slaves[n]
    BY <1>1, <2>1 DEF ToEnforce
  <2>3. QED
    BY <2>1, <2>2
<1>4. QED
  BY <1>2, <1>3 DEF Entries

LEMMA PollReachedResult ==
    ASSUME IInv, PollReached
    PROVE  /\ k \in DOMAIN ToEnforce
           /\ DOMAIN ToEnforce' = DOMAIN ToEnforce
           /\ Len(ToEnforce') = Len(ToEnforce)
           /\ \A n \in DOMAIN ToEnforce : /\ n # k => ToEnforce'[n] = ToEnforce[n]
                                          /\ ToEnforce'[n].uuid = ToEnforce[n].uuid
                                          /\ ToEnforce'[n].n = ToEnforce[n].n
<1>1. /\ pc = "poll"
      /\ res' = IF k \in DOMAIN res.slaves
                  THEN [res EXCEPT !.slaves[k].changed = TRUE]
                  ELSE [res EXCEPT !.main.changed = TRUE]
  BY DEF PollReached
<1>2. /\ res \in MainResult /\ res.main \in Result /\ res.slaves \in Seq(Result)
      /\ k \in DOMAIN ToEnforce
  BY <1>1 DEF IInv, Shape, TypeOK, Configured, MainResult, CurLive
<1>3. CASE k \in DOMAIN res.slaves
  <2> DEFINE sl == [res.slaves EXCEPT ![k].changed = TRUE]
  <2>1. \A n \in DOMAIN res.slaves : res.slaves[n] \in Result
    BY <1>2
  <2>2. /\ DOMAIN sl = DOMAIN res.slaves
        /\ Len(sl) = Len(res.slaves)
        /\ \A n \in DOMAIN res.slaves : /\ n # k => sl[n] = res.slaves[n]
                                        /\ sl[n].uuid = res.slaves[n].uuid
                                        /\ sl[n].n = res.slaves[n].n
    BY <1>2, <1>3, <2>1 DEF Result
  <2>3. sl \in Seq(Result)
    <3>1. [res.slaves[k] EXCEPT !.changed = TRUE] \in Result
      BY <1>3, <2>1 DEF Result
    <3>2. QED
      BY <1>2, <1>3, <3>1
  <2>4. res'.slaves = sl /\ res'.main = res.main
    BY <1>1, <1>2, <1>3 DEF MainResult
  <2> HIDE DEF sl
  <2>5. ToEnforce' = Append(sl, res.main)
    BY <2>4 DEF ToEnforce
  <2>6. QED
    BY <1>2, <2>2, <2>3, <2>5 DEF ToEnforce
<1>4. CASE k \notin DOMAIN res.slaves
  <2>1. /\ res'.slaves = res.slaves
        /\ res'.main.uuid = res.main.uuid /\ res'.main.n = res.main.n
    BY <1>1, <1>2, <1>4 DEF MainResult, Result
  <2>2. ToEnforce' = Append(res.slaves, res'.main)
    BY <2>1 DEF ToEnforce
  <2>3. k = Len(res.slaves) + 1
    BY <1>2, <1>4 DEF ToEnforce
  <2>4. QED
    BY <1>2, <2>1, <2>2, <2>3 DEF ToEnforce
<1>5. QED
  BY <1>3, <1>4

(* A step that files no result, enforces nothing, and restarts or brings   *)
(* down at most what runs                                                  *)
LEMMA RestartedKept ==
    ASSUME ChangedRestarted, UNCHANGED <<plan, results>>,
           Clean' => Clean, pc' \notin Enforcing,
           \A u \in session : u \in stale' => u \in stale
    PROVE  ChangedRestarted'
<1>1. SUFFICES ASSUME Clean, NEW n \in DOMAIN results, NEW e \in Entries(results[n]),
                      e.changed, CfgAt(plan, <<n, e.n>>).state # "unset"
               PROVE  e.uuid \notin stale'
  BY DEF ChangedRestarted, Entries
<1>2. e.uuid \notin stale
  BY <1>1 DEF ChangedRestarted
<1>3. QED
  BY <1>1, <1>2, FiledMark

LEMMA NextRestarted ==
    ASSUME IInv, ReportInv, AdoptedInv, MarksInv, ChangedRestarted, [Next]_vars
    PROVE  ChangedRestarted'
<1>1. ASSUME NEW p \in Plans, Start(p) PROVE ChangedRestarted'
  BY <1>1 DEF Start, ChangedRestarted, Enforcing
<1>2. CASE \/ DeleteFails \/ ValidateFails \/ MainRaises \/ MainFails \/ SlaveFails
           \/ EnforceMissing \/ CommandFails \/ PollTimeout \/ RunDone \/ Kill
  <2>1. SUFFICES ASSUME Clean' PROVE ChangedRestarted'
    BY DEF ChangedRestarted
  <2>2. UNCHANGED <<plan, snap, results, stale>> /\ pc = "target" /\ pc' = "idle"
    BY <1>2, <2>1
       DEF DeleteFails, ValidateFails, MainRaises, MainFails, SlaveFails, EnforceMissing,
           CommandFails, PollTimeout, RunDone, Kill, End, Clean
  <2>3. Clean' => Clean
    BY <2>2, SharedSame DEF Clean
  <2>4. QED
    BY <2>2, <2>3, RestartedKept DEF Enforcing
<1>3. CASE ChooseTarget \/ (\E u \in Uuid : Delete(u)) \/ DeletesDone \/ Validate
  <2>1. /\ UNCHANGED <<plan, snap, results, outcome>> /\ stale' \subseteq stale
        /\ pc # "idle" /\ pc' \notin Enforcing
    BY <1>3 DEF ChooseTarget, Delete, DeletesDone, Validate, nmVars, runVars, Enforcing
  <2>2. Clean' => Clean
    BY <2>1, SharedSame DEF Clean
  <2>3. QED
    BY <2>1, <2>2, RestartedKept
<1>4. CASE (\E u \in Uuid : AddMain(u)) \/ ModifyMain \/ KeepMain
           \/ (\E u \in Uuid : AddSlave(u)) \/ ModifySlave \/ KeepSlave
  <2>1. UNCHANGED <<plan, snap, results, outcome>> /\ pc # "idle" /\ pc' = "slave"
    BY <1>4 DEF AddMain, ModifyMain, KeepMain, MainDone, AddSlave, ModifySlave, KeepSlave,
       SlaveDone, AtSlave
  <2>2. Clean' => Clean
    BY <2>1, SharedSame DEF Clean
  <2>3. SUFFICES ASSUME Clean PROVE ChangedRestarted'
    BY <2>2 DEF ChangedRestarted
  <2>4. PICK u \in Uuid : Takes(u, 0) \/ Takes(u, k)
    BY <1>4, <2>3, MainMarks, SlaveMarks
  <2>5. u \notin session /\ stale' \subseteq stale \cup {u}
    BY <2>4, SessionFiled DEF Takes, Alters, Marks
  <2>6. QED
    BY <2>1, <2>2, <2>5, RestartedKept DEF Enforcing
<1>5. CASE SlavesDone \/ EnforceNeeded \/ CommandUp \/ CommandDown \/ PollWait
           \/ NmNext \/ UNCHANGED vars
  <2>1. /\ UNCHANGED <<plan, snap, i, res, results, outcome>> /\ stale' \subseteq stale
        /\ pc' # "idle" \/ outcome' = "ok" => pc # "idle" \/ outcome = "ok"
        /\ pc' \in Enforcing => \/ pc \in Enforcing /\ k' = k
                                \/ k' = 1 /\ pc = "slave"
    BY <1>5 DEF SlavesDone, EnforceNeeded, AtEnforce, CommandUp, CommandDown, PollWait,
       NmNext, NmUp, NmDown, nmVars, runVars, vars, Enforcing
  <2>2. Clean' => Clean
    BY <2>1, SharedSame DEF Clean
  <2>3. ToEnforce' = ToEnforce /\ \A e : CfgOf(e)' = CfgOf(e)
    BY <2>1 DEF ToEnforce, CfgOf
  <2>4. pc = "slave" => \A n \in DOMAIN ToEnforce : ~(n < 1)
    <3>1. pc = "slave" => ToEnforce \in Seq(Result)
      BY ToEnforceType DEF IInv, Configured
    <3>2. QED
      BY <3>1
  <2>5. QED
    BY <2>1, <2>2, <2>3, <2>4 DEF ChangedRestarted, Entries
<1>6. CASE EnforceSkip \/ PollReached
  <2>1. /\ UNCHANGED <<plan, snap, i, results, outcome, stale>>
        /\ pc \in Enforcing /\ pc \in Configured /\ pc # "idle" /\ pc' = "enforce" /\ k' = k + 1
    BY <1>6 DEF EnforceSkip, PollReached, AtEnforce, nmVars, Enforcing, Configured
  <2>2. Clean' => Clean
    BY <2>1, SharedSame DEF Clean
  <2>3. /\ k \in DOMAIN ToEnforce
        /\ DOMAIN ToEnforce' = DOMAIN ToEnforce
        /\ \A n \in DOMAIN ToEnforce : /\ n # k => ToEnforce'[n] = ToEnforce[n]
                                       /\ ToEnforce'[n].uuid = ToEnforce[n].uuid
                                       /\ ToEnforce'[n].n = ToEnforce[n].n
    <3>1. CASE EnforceSkip
      BY <3>1 DEF EnforceSkip, AtEnforce, ToEnforce
    <3>2. CASE PollReached
      BY <3>2, PollReachedResult
    <3>3. QED
      BY <1>6, <3>1, <3>2
  <2>4. DOMAIN ToEnforce \subseteq Nat
    <3>1. ToEnforce \in Seq(Result)
      BY <2>1, ToEnforceType DEF IInv
    <3>2. QED
      BY <3>1
  <2>5. SUFFICES ASSUME Clean, NEW n \in DOMAIN ToEnforce, n < k + 1, ToEnforce'[n].changed,
                        CfgOf(ToEnforce[n]).state # "unset"
                 PROVE  ToEnforce[n].uuid \notin stale
    <3>1. \A n \in DOMAIN ToEnforce :
            CfgOf(ToEnforce[n])' = CfgOf(ToEnforce[n])
      BY <2>1, <2>3 DEF CfgOf
    <3>2. QED
      BY <2>1, <2>2, <2>3, <3>1 DEF ChangedRestarted, Entries
  <2>6. CASE n # k
    <3>1. n < k
      BY <2>4, <2>3, <2>5, <2>6
    <3>2. QED
      BY <2>1, <2>3, <2>5, <2>6, <3>1 DEF ChangedRestarted
  <2>7. CASE n = k
    <3>1. ToEnforce[n] = Cur
      BY <2>7 DEF Cur
    <3>2. CASE EnforceSkip
      <4>1. Cur.changed
        BY <2>5, <2>7, <3>2 DEF EnforceSkip, ToEnforce, Cur
      <4>2. QED
        BY <2>5, <3>1, <3>2, <4>1 DEF EnforceSkip, LeftAlone
    <3>3. CASE PollReached
      <4>1. pc = "poll" /\ (ShouldUp(Cur) <=> Cur.uuid \in active)
        BY <3>3 DEF PollReached
      <4>2. CASE ShouldUp(Cur)
        BY <3>1, <4>1, <4>2 DEF AdoptedInv, PolledRestarted
      <4>3. CASE ~ShouldUp(Cur)
        BY <3>1, <4>1, <4>3 DEF IInv, Shape, TypeOK
      <4>4. QED
        BY <4>2, <4>3
    <3>4. QED
      BY <1>6, <3>2, <3>3
  <2>8. QED
    BY <2>6, <2>7
<1>7. CASE ConnDone
  <2>1. /\ UNCHANGED <<plan, snap, outcome, stale>>
        /\ pc = "enforce" /\ pc' = "target" /\ k > Len(ToEnforce)
        /\ results' = Append(results, res)
    BY <1>7 DEF ConnDone, nmVars
  <2>2. Clean' => Clean
    BY <2>1, SharedSame DEF Clean
  <2>3. /\ results \in Seq(MainResult) /\ Len(results) = i - 1 /\ i \in Nat
        /\ ToEnforce \in Seq(Result) /\ k \in Nat
    BY <2>1, ToEnforceType DEF IInv, Shape, TypeOK, MarksInv, Counted, Configured
  <2>4. /\ DOMAIN results' = DOMAIN results \cup {i}
        /\ results'[i] = res
        /\ \A n \in DOMAIN results : results'[n] = results[n]
    BY <2>1, <2>3
  <2>5. ASSUME Clean, NEW e \in Entries(res), e.changed, CfgAt(plan, <<i, e.n>>).state # "unset"
        PROVE  e.uuid \notin stale
    <3>1. PICK n \in DOMAIN ToEnforce : e = ToEnforce[n]
      BY <2>1, EntriesEnforced DEF Configured
    <3>2. n < k
      BY <2>1, <2>3
    <3>3. QED
      BY <2>1, <2>5, <3>1, <3>2 DEF ChangedRestarted, Enforcing, CfgOf
  <2>6. QED
    BY <2>1, <2>2, <2>4, <2>5 DEF ChangedRestarted, Entries, Enforcing
<1>8. QED
  BY <1>1, <1>2, <1>3, <1>4, <1>5, <1>6, <1>7 DEF Next, RunNext

LEMMA MarksTyped ==
    ASSUME TypeOK, NEW x \in Marks
    PROVE  x[3] \in Uuid
<1>1. results \in Seq(MainResult) /\ res \in MainResult
  BY DEF TypeOK
<1>2. \A r \in MainResult : \A e \in Entries(r) : e.uuid \in Uuid
  <2>1. SUFFICES ASSUME NEW r \in MainResult, NEW e \in Entries(r) PROVE e \in Result
    BY DEF Result
  <2>2. r.slaves \in Seq(Result) /\ r.main \in Result \cup {None}
    BY DEF MainResult
  <2>3. QED
    BY <2>2 DEF Entries, Range
<1>3. QED
  BY <1>1, <1>2 DEF Marks, Filed, MarksOf

(* A step that finishes nothing, and leaves what is finished and alone on  *)
(* its interface as active as it was                                       *)
LEMMA AskedKept ==
    ASSUME AsAsked, UNCHANGED <<plan, snap, flips>>, Clean' => Clean,
           Clean => Finished' \subseteq Finished,
           Clean => \A x \in Finished :
               Alone(x[3])' => Alone(x[3]) /\ (x[3] \in active' <=> x[3] \in active)
    PROVE  AsAsked'
<1>1. \A m : AdoptedAt(m)' = AdoptedAt(m) /\ UpAt(m)' = UpAt(m)
  BY DEF AdoptedAt, UpAt, TargetAt
<1>2. QED
  BY <1>1 DEF AsAsked

LEMMA AloneSame ==
    ASSUME Marks' = Marks, NEW u \in {x[3] : x \in Marks},
           \A x \in Marks : prof'[x[3]] = prof[x[3]]
    PROVE  Alone(u)' => Alone(u)
BY DEF Alone

LEMMA FiledSame ==
    ASSUME results' = results
    PROVE  Filed' = Filed
BY DEF Filed, MarksOf, Entries

LEMMA NextAsked ==
    ASSUME IInv, ReportInv, MarksInv, AsAsked, [Next]_vars
    PROVE  AsAsked'
<1>1. Filed \subseteq Marks /\ Finished \subseteq Marks
  BY DEF Marks, Finished
<1>2. IInv' /\ ReportInv' /\ MarksInv'
  BY NextInv, NextReport, NextMarks
<1>3. ASSUME NEW p \in Plans, Start(p) PROVE AsAsked'
  <2>1. Marks' = {}
    BY <1>3, StartMarks
  <2>2. Finished' = {}
    BY <2>1 DEF Finished, Marks
  <2>3. QED
    BY <2>2 DEF AsAsked
<1>4. CASE \/ DeleteFails \/ ValidateFails \/ MainRaises \/ MainFails \/ SlaveFails
           \/ EnforceMissing \/ CommandFails \/ PollTimeout \/ RunDone \/ Kill
  <2>1. SUFFICES ASSUME Clean' PROVE AsAsked'
    BY DEF AsAsked
  <2>2. /\ UNCHANGED <<plan, snap, results, prof, active, flips>>
        /\ pc = "target" /\ pc' = "idle"
    BY <1>4, <2>1
       DEF DeleteFails, ValidateFails, MainRaises, MainFails, SlaveFails, EnforceMissing,
           CommandFails, PollTimeout, RunDone, Kill, End, Clean
  <2>3. Clean
    BY <2>1, <2>2, SharedSame DEF Clean
  <2>4. Marks' = Marks
    BY <1>4, <2>1, EndingMarks
  <2>5. Finished' = Finished
    BY <2>2, FiledSame DEF Finished, Enforcing
  <2>6. \A x \in Finished : Alone(x[3])' => Alone(x[3])
    BY <1>1, <2>2, <2>4, AloneSame
  <2>7. QED
    BY <2>2, <2>3, <2>5, <2>6, AskedKept
<1>5. CASE ChooseTarget \/ (\E u \in Uuid : Delete(u)) \/ DeletesDone \/ Validate
  <2>1. /\ UNCHANGED <<plan, snap, results, outcome, flips>>
        /\ pc \in {"target", "delete", "validate"} /\ pc' # "idle" /\ pc' \notin Enforcing
    BY <1>5 DEF ChooseTarget, Delete, DeletesDone, Validate, runVars, Enforcing
  <2>2. Clean' => Clean
    BY <2>1, SharedSame DEF Clean
  <2>3. Marks' = Marks
    BY <1>2, <1>5, EarlyMarks
  <2>4. Marks = Filed
    <3>1. MarksOf(i, res) = {}
      BY <2>1, UnmarkedYet DEF IInv, Shape, ReportInv, Configured
    <3>2. QED
      BY <3>1 DEF Marks
  <2>5. Finished' = Filed /\ Finished = Filed
    BY <2>1, FiledSame DEF Finished, Enforcing
  <2>6. \A x \in Marks : prof'[x[3]] = prof[x[3]] /\ (x[3] \in active' <=> x[3] \in active)
    <3>1. CASE ChooseTarget \/ DeletesDone \/ Validate
      BY <3>1 DEF ChooseTarget, DeletesDone, Validate, nmVars
    <3>2. ASSUME NEW w \in Uuid, Delete(w), NEW x \in Marks
          PROVE  prof'[x[3]] = prof[x[3]] /\ (x[3] \in active' <=> x[3] \in active)
      <4>1. /\ pc = "delete" /\ w \in todel /\ active' = active \ {w}
            /\ prof' = [prof EXCEPT ![w] = Gone]
        BY <3>2 DEF Delete
      <4>2. w \notin session
        <5>1. snap.order \in Seq(Uuid)
          BY DEF IInv, Shape, TypeOK, Snapshot
        <5>2. QED
          BY <4>1, <5>1, DeleteListSpares DEF IInv, DeletesPlanned, Preserved
      <4>3. x[3] \in session
        <5>1. PICK e \in Entries(results[x[1]]) : x[1] \in DOMAIN results /\ x = <<x[1], e.n, e.uuid>>
          BY <2>4, FiledResult
        <5>2. QED
          BY <5>1, FiledMark
      <4>4. prof \in [Uuid -> Prof]
        BY DEF IInv, Shape, TypeOK
      <4>5. QED
        BY <4>1, <4>2, <4>3, <4>4
    <3>3. QED
      BY <1>5, <3>1, <3>2
  <2>7. \A x \in Finished : Alone(x[3])' => Alone(x[3])
    BY <1>1, <2>3, <2>6, AloneSame
  <2>8. QED
    BY <1>1, <2>1, <2>2, <2>5, <2>6, <2>7, AskedKept
<1>6. CASE (\E u \in Uuid : AddMain(u)) \/ ModifyMain \/ KeepMain
           \/ (\E u \in Uuid : AddSlave(u)) \/ ModifySlave \/ KeepSlave
  <2>1. /\ UNCHANGED <<plan, snap, results, outcome, flips>>
        /\ pc \in {"main", "slave"} /\ pc' = "slave"
    BY <1>6 DEF AddMain, ModifyMain, KeepMain, MainDone, AddSlave, ModifySlave, KeepSlave,
       SlaveDone, AtSlave
  <2>2. Clean' => Clean
    BY <2>1, SharedSame DEF Clean
  <2>3. SUFFICES ASSUME Clean PROVE AsAsked'
    BY <2>2 DEF AsAsked
  <2>4. PICK u \in Uuid : Takes(u, 0) \/ Takes(u, k)
    BY <1>6, <2>3, MainMarks, SlaveMarks
  <2>5. /\ Marks \subseteq Marks' /\ active' = active
        /\ \A x \in Marks : x[3] # u
        /\ \A w \in Uuid \ {u} : prof'[w] = prof[w]
    BY <2>4 DEF Takes, Alters
  <2>6. \A x \in Marks : prof'[x[3]] = prof[x[3]]
    BY <2>5, MarksTyped DEF IInv, Shape
  <2>7. Finished' = Finished
    BY <2>1, FiledSame DEF Finished, Enforcing
  <2>8. \A x \in Marks : Alone(x[3])' => Alone(x[3])
    BY <2>5, <2>6 DEF Alone
  <2>9. QED
    BY <1>1, <2>1, <2>3, <2>5, <2>7, <2>8, AskedKept
<1>7. CASE SlavesDone
  <2>1. /\ UNCHANGED <<plan, snap, i, res, results, outcome, flips, prof, active>>
        /\ pc = "slave" /\ pc' = "enforce" /\ k' = 1
    BY <1>7 DEF SlavesDone, nmVars
  <2>2. Clean' => Clean
    BY <2>1, SharedSame DEF Clean
  <2>3. Marks' = Marks
    BY <1>7, EnforcingMarks
  <2>4. Finished' \subseteq Finished
    <3>1. SUFFICES ASSUME NEW x \in Marks, x \notin Filed PROVE x[3] \in Pending'
      BY <2>1, <2>3 DEF Finished, Enforcing
    <3>2. PICK e \in Entries(res) : x = <<i, e.n, e.uuid>>
      BY <3>1 DEF Marks, MarksOf
    <3>3. PICK n \in DOMAIN ToEnforce : e = ToEnforce[n]
      BY <2>1, EntriesEnforced DEF Configured
    <3>4. ToEnforce \in Seq(Result)
      BY <2>1, ToEnforceType DEF IInv, Configured
    <3>5. n >= 1 /\ ToEnforce' = ToEnforce
      BY <2>1, <3>4 DEF ToEnforce
    <3>6. QED
      BY <2>1, <3>2, <3>3, <3>5 DEF Pending
  <2>5. \A x \in Marks : Alone(x[3])' => Alone(x[3])
    BY <2>1, <2>3, AloneSame
  <2>6. QED
    BY <1>1, <2>1, <2>2, <2>4, <2>5, AskedKept
<1>8. CASE EnforceNeeded \/ CommandUp \/ CommandDown \/ PollWait
  <2>1. /\ UNCHANGED <<plan, snap, i, k, res, results, outcome, flips, prof>>
        /\ pc \in Enforcing /\ pc' \in Enforcing /\ pc # "idle"
    BY <1>8 DEF EnforceNeeded, AtEnforce, CommandUp, CommandDown, PollWait,
       nmVars, runVars, Enforcing
  <2>2. Clean' => Clean
    BY <2>1, SharedSame DEF Clean
  <2>3. Marks' = Marks
    BY <1>8, EnforcingMarks
  <2>4. Finished' = Finished
    BY <2>1, <2>3 DEF Finished, Pending, ToEnforce
  <2>5. \A x \in Finished : Alone(x[3])' => Alone(x[3])
    BY <1>1, <2>1, <2>3, AloneSame
  <2>6. ASSUME NEW x \in Finished, Alone(x[3])
        PROVE  x[3] \in active' <=> x[3] \in active
    <3>1. CASE EnforceNeeded \/ PollWait
      BY <3>1 DEF EnforceNeeded, PollWait, nmVars
    <3>2. CASE CommandUp \/ CommandDown
      <4>1. pc = "command" /\ k \in DOMAIN ToEnforce
        BY <3>2 DEF CommandUp, CommandDown, IInv, CurLive
      <4>2. <<i, Cur.n, Cur.uuid>> \in Marks
        BY <4>1, EnforcedMarked DEF Configured, Cur, Marks
      <4>3. k >= k
        BY DEF IInv, Shape, TypeOK
      <4>4. x[3] # Cur.uuid
        BY <2>1, <2>6, <4>1, <4>3 DEF Finished, Pending, Cur
      <4>5. x[3] \notin Displaced(Cur.uuid)
        BY <2>6, <4>2, <4>4 DEF Alone, Displaced
      <4>6. QED
        BY <3>2, <4>4, <4>5 DEF CommandUp, CommandDown
    <3>3. QED
      BY <1>8, <3>1, <3>2
  <2>7. QED
    BY <1>1, <2>1, <2>2, <2>4, <2>5, <2>6, AskedKept
<1>9. CASE EnforceSkip \/ PollReached
  <2>1. /\ UNCHANGED <<plan, snap, i, results, outcome, prof, active, flips>>
        /\ pc \in Enforcing /\ pc # "idle" /\ pc' = "enforce" /\ k' = k + 1
    BY <1>9 DEF EnforceSkip, PollReached, AtEnforce, nmVars, Enforcing
  <2>2. Clean' => Clean
    BY <2>1, SharedSame DEF Clean
  <2>3. Marks' = Marks
    BY <1>9, EnforcingMarks
  <2>4. \A x \in Marks : Alone(x[3])' => Alone(x[3])
    BY <2>1, <2>3, AloneSame
  <2>5. /\ k \in DOMAIN ToEnforce /\ DOMAIN ToEnforce' = DOMAIN ToEnforce
        /\ \A n \in DOMAIN ToEnforce : ToEnforce'[n].uuid = ToEnforce[n].uuid
    <3>1. CASE EnforceSkip
      BY <3>1 DEF EnforceSkip, AtEnforce, ToEnforce
    <3>2. CASE PollReached
      BY <3>2, PollReachedResult
    <3>3. QED
      BY <1>9, <3>1, <3>2
  <2>6. Pending \subseteq Pending' \cup {Cur.uuid}
    <3>1. SUFFICES ASSUME NEW n \in DOMAIN ToEnforce, n >= k, n # k
                   PROVE  n >= k + 1
      BY <2>1, <2>5 DEF Pending, Cur
    <3>2. ToEnforce \in Seq(Result) /\ k \in Nat
      BY <2>1, ToEnforceType DEF IInv, Shape, TypeOK, Enforcing, Configured
    <3>3. QED
      BY <3>1, <3>2
  <2> DEFINE m(x) == <<x[1], x[2]>>
  <2>7. \A x : AdoptedAt(m(x))' = AdoptedAt(m(x)) /\ UpAt(m(x))' = UpAt(m(x))
    BY <2>1 DEF AdoptedAt, UpAt, TargetAt
  <2>8. SUFFICES ASSUME Clean, flips = 0, NEW x \in Finished',
                        CfgAt(plan, m(x)).state # "unset" \/ AdoptedAt(m(x)), Alone(x[3])'
                 PROVE  x[3] \in active <=> UpAt(m(x))
    BY <2>1, <2>2, <2>7 DEF AsAsked
  <2>9. x \in Marks /\ Alone(x[3]) /\ x[3] \notin Pending'
    BY <2>1, <2>3, <2>4, <2>8 DEF Finished, Enforcing
  <2>10. CASE x[3] \notin Pending
    BY <2>1, <2>8, <2>9, <2>10 DEF AsAsked, Finished
  <2>11. CASE x[3] \in Pending
    <3>1. x[3] = Cur.uuid
      BY <2>6, <2>9, <2>11
    <3>2. <<i, Cur.n, Cur.uuid>> \in Marks
      BY <2>1, <2>5, EnforcedMarked DEF Configured, Enforcing, Cur, Marks
    <3>3. x[1] = i /\ x[2] = Cur.n
      BY <2>8, <2>9, <3>1, <3>2 DEF MarksInv, Faithful, OfTheirOwn
    <3>4. /\ CfgOf(Cur) = CfgAt(plan, m(x))
          /\ Adopted(Cur) <=> AdoptedAt(m(x))
      BY <3>3 DEF CfgOf, Adopted, AdoptedAt, TargetAt, CfgAt, cfg
    <3>5. ShouldUp(Cur) <=> UpAt(m(x))
      BY <3>4 DEF ShouldUp, UpAt
    <3>6. ShouldUp(Cur) <=> Cur.uuid \in active
      <4>1. CASE EnforceSkip
        BY <2>8, <3>4, <4>1 DEF EnforceSkip, LeftAlone
      <4>2. CASE PollReached
        BY <4>2 DEF PollReached
      <4>3. QED
        BY <1>9, <4>1, <4>2
    <3>7. QED
      BY <3>1, <3>5, <3>6
  <2>12. QED
    BY <2>10, <2>11
<1>10. CASE ConnDone
  <2>1. /\ UNCHANGED <<plan, snap, outcome, prof, active, flips>>
        /\ pc = "enforce" /\ pc' = "target" /\ k > Len(ToEnforce)
    BY <1>10 DEF ConnDone, nmVars
  <2>2. Clean' => Clean
    BY <2>1, SharedSame DEF Clean
  <2>3. Marks' = Marks
    BY <1>10, ConnDoneMarks
  <2>4. Finished = Marks /\ Finished' \subseteq Marks'
    <3>1. ToEnforce \in Seq(Result) /\ k \in Nat
      BY <2>1, ToEnforceType DEF IInv, Shape, TypeOK, Configured
    <3>2. Pending = {}
      BY <2>1, <3>1 DEF Pending
    <3>3. QED
      BY <2>1, <3>2 DEF Finished, Marks, Enforcing
  <2>5. \A x \in Marks : Alone(x[3])' => Alone(x[3])
    BY <2>1, <2>3, AloneSame
  <2>6. QED
    BY <2>1, <2>2, <2>3, <2>4, <2>5, AskedKept
<1>11. CASE NmNext
  <2>1. flips' # 0
    BY <1>11 DEF NmNext, NmUp, NmDown, IInv, Shape, TypeOK
  <2>2. QED
    BY <2>1 DEF AsAsked
<1>12. CASE UNCHANGED vars
  <2>1. UNCHANGED <<plan, snap, prof, active, flips, pc, outcome, k, res, results, i>>
    BY <1>12 DEF vars
  <2>2. Clean' => Clean
    BY <2>1, SharedSame DEF Clean
  <2>3. Marks' = Marks /\ Filed' = Filed
    BY <1>12, <2>1, OutsideMarks, FiledSame
  <2>4. Finished' = Finished
    BY <2>1, <2>3 DEF Finished, Pending, ToEnforce
  <2>5. \A x \in Marks : Alone(x[3])' => Alone(x[3])
    BY <2>1, <2>3, AloneSame
  <2>6. QED
    BY <1>1, <2>1, <2>2, <2>4, <2>5, AskedKept
<1>13. QED
  BY <1>3, <1>4, <1>5, <1>6, <1>7, <1>8, <1>9, <1>10, <1>11, <1>12 DEF Next, RunNext

(* When a run succeeds, nothing it changed and whose state it was to       *)
(* handle still runs with old settings, and each main connection that has  *)
(* its interface for itself is in the state that was asked for: of two     *)
(* connections on one interface, the later one takes the other down.       *)
THEOREM StatesAsAsked == Spec => []StatesReached
<1> DEFINE Inv == IInv /\ ReportInv /\ AdoptedInv /\ MarksInv /\ ChangedRestarted /\ AsAsked
<1>1. Init => Inv
  <2>1. SUFFICES ASSUME Init PROVE Inv
    OBVIOUS
  <2>2. ~Clean
    BY <2>1 DEF Init, Clean
  <2>3. ReportInv /\ AdoptedInv
    BY <2>1 DEF Init, ReportInv, FreshResult, SlavesTraced, Quiet, AdoptedInv,
       NewcomersChanged, AdoptedRestarted, PolledRestarted, Configured, Enforcing
  <2>4. QED
    BY <2>1, <2>2, <2>3, InitInv, InitMarks DEF ChangedRestarted, AsAsked
<1>2. Inv /\ [Next]_vars => Inv'
  BY NextInv, NextReport, NextAdopted, NextMarks, NextRestarted, NextAsked
<1>3. ASSUME Inv PROVE StatesReached
  <2>1. SUFFICES ASSUME Succeeded, NEW n \in DOMAIN results
                 PROVE
          /\ \A e \in Entries(results[n]) :
               e.changed /\ CfgAt(plan, <<n, e.n>>).state # "unset" => e.uuid \notin stale
          /\ flips = 0 /\ plan[n].state # "unset" /\ AloneOnIface(results[n].main.uuid) =>
               (results[n].main.uuid \in active <=> plan[n].state = "up")
    BY DEF StatesReached
  <2>2. pc = "idle" /\ Clean
    BY <2>1 DEF Succeeded, Clean
  <2>3. Marks = Filed
    <3>1. MarksOf(i, res) = {}
      BY <1>3, <2>2, UnmarkedYet DEF IInv, Shape, ReportInv, Configured
    <3>2. QED
      BY <3>1 DEF Marks
  <2>4. results[n].main \in Entries(results[n]) /\ results[n].main.n = 0
    BY <1>3, SessionAssumption DEF MarksInv, Numbered, Filled, Entries, Result
  <2> DEFINE u == results[n].main.uuid
  <2>5. <<n, 0, u>> \in Filed
    BY <2>4, FiledMark
  <2>6. AloneOnIface(u) => Alone(u)
    <3>1. \A x \in Marks : x[3] \in session
      BY <2>3, FiledResult, FiledMark
    <3>2. QED
      BY <3>1 DEF AloneOnIface, Alone
  <2>7. flips = 0 /\ plan[n].state # "unset" /\ AloneOnIface(u)
          => (u \in active <=> plan[n].state = "up")
    BY <1>3, <2>2, <2>5, <2>6 DEF AsAsked, Finished, Enforcing, AdoptedAt, UpAt, CfgAt
  <2>8. QED
    BY <1>3, <2>2, <2>7 DEF ChangedRestarted
<1>4. QED
  BY <1>1, <1>2, <1>3, PTL DEF Spec

-----------------------------------------------------------------------------
(* Addressing on which no builder breaks: what is disabled does not keep   *)
(* its default route off.                                                  *)
Sound(p) == p # None /\ p.method = "disabled" => p.never_default = "no"

AllSound == \A u \in Uuid : Sound(prof[u].ip) /\ Sound(snap.prof[u].ip)

LEMMA DescribedSound ==
    ASSUME NEW c \in IpConfig \cup {None}
    PROVE  Sound(Described(c))
<1>1. c # None => c.mode # "disabled"
  BY DEF IpConfig
<1>2. QED
  BY <1>1 DEF Sound, Described, Fresh

LEMMA NextSound ==
    ASSUME IInv, ReportInv, MarksInv, AllSound, ~Shared, [Next]_vars
    PROVE  AllSound'
<1>1. \A u \in Uuid : Sound(Gone.ip) /\ Sound(NoSnap.prof[u].ip)
  BY DEF Sound, Gone, Blank, NoSnap
<1>2. CASE prof' = prof /\ snap'.prof \in {prof, snap.prof, NoSnap.prof}
  BY <1>1, <1>2 DEF AllSound
<1>3. ASSUME NEW u \in Uuid, Delete(u) PROVE AllSound'
  <2>1. prof' = [prof EXCEPT ![u] = Gone] /\ prof \in [Uuid -> Prof] /\ snap' = snap
    BY <1>3 DEF Delete, IInv, Shape, TypeOK
  <2>2. QED
    BY <1>1, <2>1 DEF AllSound
<1>4. CASE (\E u \in Uuid : AddMain(u)) \/ ModifyMain \/ KeepMain
           \/ (\E u \in Uuid : AddSlave(u)) \/ ModifySlave \/ KeepSlave
  <2>1. /\ UNCHANGED <<plan, snap, i>> /\ pc \in {"main", "slave"} /\ pc' = "slave"
    BY <1>4 DEF AddMain, ModifyMain, KeepMain, MainDone, AddSlave, ModifySlave, KeepSlave,
       SlaveDone, AtSlave
  <2>2. Clean /\ Clean'
    BY <2>1, SharedSame DEF Clean
  <2>3. PICK u \in Uuid, j \in {0, k} : Takes(u, j)
    BY <1>4, <2>2, MainMarks, SlaveMarks
  <2>4. \A w \in Uuid \ live' : prof'[w] = prof[w]
    <3>1. \A w, p : AddConn(w, p) => live' = live \cup {w} /\ prof' = [prof EXCEPT ![w] = p]
      BY DEF AddConn
    <3>2. \A w, c, p : ModifyConn(w, c, p) =>
            w \in live' /\ prof' = [prof EXCEPT ![w] = Modified(@, snap.prof[w], p)]
      BY DEF ModifyConn
    <3>3. prof \in [Uuid -> Prof]
      BY DEF IInv, Shape, TypeOK
    <3>4. QED
      BY <1>4, <3>1, <3>2, <3>3 DEF AddMain, ModifyMain, KeepMain, AddSlave, ModifySlave,
         KeepSlave, nmVars
  <2>5. u \in live' => Sound(prof'[u].ip)
    <3>1. CASE j # 0
      BY <2>3, <3>1 DEF Takes, AllSound, Sound
    <3>2. CASE j = 0 /\ u \in live'
      <4>1. <<i, 0, u>> \in Marks'
        BY <2>3, <3>2 DEF Takes
      <4>2. FitsMain(prof'[u], plan'[i])
        BY <1>4, <2>2, <3>2, <4>1, MainMarks, SlaveMarks DEF MarksInv, Faithful, Fitting
      <4>3. plan'[i].ip \in IpConfig \cup {None}
        BY <2>1, CfgType DEF IInv, Working, cfg, MainCfg
      <4>4. QED
        BY <4>2, <4>3, DescribedSound DEF FitsMain
    <3>3. QED
      BY <3>1, <3>2
  <2>6. \A w \in Uuid \ {u} : prof'[w] = prof[w]
    BY <2>3 DEF Takes, Alters
  <2>7. QED
    BY <2>1, <2>4, <2>5, <2>6 DEF AllSound
<1>5. QED
  <2>1. \A how : End(how) => prof' = prof /\ snap' \in {snap, NoSnap}
    BY DEF End
  <2>2. \A p : Start(p) => prof' = prof /\ snap'.prof = prof
    BY DEF Start, nmVars
  <2>3. CASE \/ ChooseTarget \/ DeletesDone \/ Validate \/ SlavesDone \/ EnforceSkip
             \/ EnforceNeeded \/ CommandUp \/ CommandDown \/ PollReached \/ PollWait
             \/ ConnDone \/ NmNext \/ UNCHANGED vars
    BY <1>2, <2>3 DEF ChooseTarget, DeletesDone, Validate, SlavesDone, EnforceSkip,
       EnforceNeeded, CommandUp, CommandDown, PollReached, PollWait, ConnDone, NmNext, NmUp,
       NmDown, nmVars, runVars, vars
  <2>4. CASE \/ DeleteFails \/ ValidateFails \/ MainRaises \/ MainFails \/ SlaveFails
             \/ EnforceMissing \/ CommandFails \/ PollTimeout \/ RunDone \/ Kill
    BY <1>2, <2>1, <2>4
       DEF DeleteFails, ValidateFails, MainRaises, MainFails, SlaveFails, EnforceMissing,
           CommandFails, PollTimeout, RunDone, Kill
  <2>5. QED
    BY <1>2, <1>3, <1>4, <2>2, <2>3, <2>4 DEF Next, RunNext

(* No run meets a profile on which the builder of the addressing breaks,   *)
(* if NetworkManager holds none at first and no run gives one connection   *)
(* to two configurations.  Neither can be left out: somebody may have made *)
(* such a profile by hand, and two configurations over one connection,     *)
(* each comparing with the snapshot, can put one together.                 *)
THEOREM RaisesNever ==
    ASSUME \A st \in Stores : \A u \in DOMAIN st.prof : Sound(st.prof[u].ip)
    PROVE  Spec /\ []~Shared => []NeverRaises
<1> DEFINE Inv == IInv /\ ReportInv /\ MarksInv /\ AllSound
<1>1. Init => AllSound
  <2>1. SUFFICES ASSUME Init, NEW u \in Uuid
                 PROVE  Sound(prof[u].ip) /\ Sound(snap.prof[u].ip)
    BY DEF AllSound
  <2>2. PICK st \in Stores : prof = [w \in Uuid |-> IF w \in DOMAIN st.prof THEN st.prof[w]
                                                                              ELSE Gone]
    BY <2>1 DEF Init
  <2>3. snap = NoSnap /\ prof[u] \in {st.prof[u], Gone} /\ (prof[u] # Gone => u \in DOMAIN st.prof)
    BY <2>1, <2>2 DEF Init
  <2>4. Sound(Gone.ip) /\ Sound(NoSnap.prof[u].ip)
    BY DEF Sound, Gone, Blank, NoSnap
  <2>5. QED
    BY <2>2, <2>3, <2>4
<1>2. Inv /\ ~Shared /\ [Next]_vars => Inv'
  BY NextInv, NextReport, NextMarks, NextSound
<1>3. IInv /\ AllSound => NeverRaises
  <2>1. SUFFICES ASSUME IInv, AllSound, pc = "main", MainTarget(snap, cfg) # None
                 PROVE  ~BuildRaises(cfg.ip, snap.prof[MainTarget(snap, cfg)].ip)
    BY DEF NeverRaises
  <2> DEFINE cur == snap.prof[MainTarget(snap, cfg)].ip
  <2>2. snap.order \in Seq(Uuid)
    BY <2>1 DEF IInv, Shape, TypeOK, Snapshot
  <2>3. MainTarget(snap, cfg) \in Uuid
    BY <2>1, <2>2, TargetsListed
  <2>4. Sound(cur)
    BY <2>1, <2>3 DEF AllSound
  <2>5. QED
    BY <2>4 DEF Sound, BuildRaises, NeverDiffers, NeverCleared, NeverWanted, MethodChanges,
       Target, Read, Fresh
<1>4. Init => ReportInv
  BY DEF Init, ReportInv, FreshResult, SlavesTraced, Quiet
<1>5. QED
  BY <1>1, <1>2, <1>3, <1>4, InitInv, InitMarks, PTL DEF Spec

-----------------------------------------------------------------------------
(* A run whose snapshot shows everything as its plan wants it changes      *)
(* nothing, and commands nothing.                                          *)
NothingToDo ==
    pc # "idle" /\ AsConfigured /\ flips = 0 =>
        /\ todel = {}
        /\ live = Listed(snap)
        /\ prof = snap.prof
        /\ active = snap.active
        /\ ~RunChanged
        /\ pc # "command"

Unchanging ==
    /\ pc = "idle" => todel = {}
    /\ pc # "idle" /\ AsConfigured /\ flips = 0 =>
        /\ ~RunChanged /\ ~ResultChanged(res)
        /\ todel = {}
        /\ pc \notin {"command", "poll"}

LEMMA MainAsIs ==
    ASSUME NEW c \in MainCfg, NEW p \in Prof, FitsMain(p, c), ~c.startup
    PROVE  Usable(c.ip, p.ip) /\ ~Needed(c, p, WantMain(c, p))
<1>1. Usable(c.ip, p.ip) /\ Built(c.ip, p.ip) = p.ip
  BY NothingLeftToBuild, BuiltAsDescribed, DescribedType DEF FitsMain, MainCfg
<1>2. WantMain(c, p) = p
  BY <1>1 DEF FitsMain, Fits, WantMain, VlanArgs, CommonArgs, Prof
<1>3. QED
  BY <1>1, <1>2 DEF Needed

LEMMA SlaveAsIs ==
    ASSUME NEW c \in SlaveCfg, NEW p \in Prof, NEW m, FitsSlave(p, c, m), ~c.startup
    PROVE  ~Needed(c, p, WantSlave(c, p, m))
<1>1. WantSlave(c, p, m) = p
  BY DEF FitsSlave, Fits, WantSlave, VlanArgs, CommonArgs, Prof
<1>2. QED
  BY <1>1 DEF Needed

LEMMA ConfiguredSame ==
    ASSUME UNCHANGED <<plan, snap>>
    PROVE  AsConfigured' <=> AsConfigured
BY DEF AsConfigured, TargetAt

LEMMA ConfiguredApart ==
    ASSUME IInv, AsConfigured
    PROVE  ~Shared
<1>1. SUFFICES ASSUME NEW m \in Places(plan), NEW n \in Places(plan), TargetAt(m) = TargetAt(n)
               PROVE  m = n
  BY DEF Shared
<1>2. CfgAt(plan, m).name = CfgAt(plan, n).name
  BY <1>1 DEF AsConfigured, FitsMain, FitsSlave, Fits
<1>3. UniqueNames(plan)
  <2>1. plan # <<>>
    BY <1>1 DEF Places
  <2>2. QED
    BY <2>1, SessionAssumption DEF IInv, Shape, TypeOK, ParsedPlan
<1>4. QED
  BY <1>2, <1>3 DEF UniqueNames

LEMMA PlaceTarget ==
    ASSUME plan \in Seq(MainCfg), NEW m \in Places(plan), TargetAt(m) # None
    PROVE  TargetAt(m) \in TargetUuids(snap, plan[m[1]])
<1>1. m[1] \in DOMAIN plan /\ m[2] \in {0} \cup DOMAIN plan[m[1]].slaves
  BY PlacesIn
<1>2. CASE m[2] = 0
  BY <1>2 DEF TargetAt, TargetUuids
<1>3. CASE m[2] # 0
  BY <1>1, <1>3 DEF TargetAt, TargetUuids, SlaveTargets, SlavesOf, CfgAt, Range
<1>4. QED
  BY <1>2, <1>3

(* The session of a run that finds all its targets *)
LEMMA SessionTargets ==
    ASSUME IInv, ReportInv, MarksInv, Clean, AsConfigured, pc = "target"
    PROVE  session = UNION {TargetUuids(snap, plan[m]) : m \in 1..(i - 1)}
<1>1. /\ plan \in Seq(MainCfg) /\ i \in Nat \ {0} /\ i <= Len(plan) + 1
  BY PlanType DEF IInv, Shape, TypeOK, MarksInv, Counted
<1>2. Marks = Filed
  <2>1. MarksOf(i, res) = {}
    BY UnmarkedYet DEF IInv, Shape, ReportInv, Configured
  <2>2. QED
    BY <2>1 DEF Marks
<1>3. ASSUME NEW x \in Filed
      PROVE  <<x[1], x[2]>> \in Places(plan) /\ x[3] = TargetAt(<<x[1], x[2]>>)
  BY <1>2, <1>3 DEF MarksInv, Faithful, Originated, AsConfigured
<1>4. ASSUME NEW u \in session
      PROVE  \E m \in 1..(i - 1) : u \in TargetUuids(snap, plan[m])
  <2>1. PICK x \in Filed : x[3] = u
    BY <1>4, SessionFiled
  <2>2. x[1] \in Nat /\ x[1] < i
    BY <2>1, FiledBefore DEF IInv, Shape, MarksInv
  <2>3. x[1] \in DOMAIN plan
    BY <1>1, <1>3, <2>1, PlacesIn
  <2>4. u \in TargetUuids(snap, plan[x[1]])
    BY <1>1, <1>3, <2>1, PlaceTarget DEF AsConfigured
  <2>5. QED
    BY <1>1, <2>2, <2>3, <2>4
<1>5. ASSUME NEW n \in 1..(i - 1), NEW u \in TargetUuids(snap, plan[n])
      PROVE  u \in session
  <2>1. n \in DOMAIN plan /\ n < i
    BY <1>1
  <2>2. PICK j \in {0} \cup DOMAIN plan[n].slaves :
          u = TargetAt(<<n, j>>) /\ <<n, j>> \in Places(plan)
    BY <1>1, <1>5, <2>1, TargetPlace
  <2>3. PICK x \in Marks : x[1] = n /\ x[2] = j
    BY <2>1, <2>2 DEF MarksInv, Complete, Past, At
  <2>4. x[3] = u
    BY <1>2, <1>3, <2>2, <2>3
  <2>5. PICK e \in Entries(results[x[1]]) : x[1] \in DOMAIN results /\ x = <<x[1], e.n, e.uuid>>
    BY <1>2, FiledResult
  <2>6. QED
    BY <2>4, <2>5, FiledMark
<1>6. QED
  BY <1>4, <1>5

LEMMA SameChanged ==
    ASSUME UNCHANGED <<results, res>>
    PROVE  (RunChanged' <=> RunChanged) /\ (ResultChanged(res)' <=> ResultChanged(res))
BY DEF RunChanged, ResultChanged, Entries

(* What a configuration finds in the snapshot *)
LEMMA FindsMain ==
    ASSUME IInv, AsConfigured, pc = "main"
    PROVE  LET t == MainTarget(snap, cfg)
           IN  t # None /\ ~Needed(cfg, snap.prof[t], WantMain(cfg, snap.prof[t]))
<1> DEFINE t == MainTarget(snap, cfg)
<1>1. cfg \in MainCfg /\ i \in DOMAIN plan /\ snap.prof \in [Uuid -> Prof] /\ snap.order \in Seq(Uuid)
  BY CfgType DEF IInv, Shape, TypeOK, Snapshot, Working
<1>2. <<i, 0>> \in Places(plan) /\ TargetAt(<<i, 0>>) = t /\ CfgAt(plan, <<i, 0>>) = cfg
  BY <1>1 DEF Places, TargetAt, CfgAt, cfg
<1>3. t # None /\ ~cfg.startup /\ FitsMain(snap.prof[t], cfg)
  BY <1>2 DEF AsConfigured
<1>4. t \in Uuid
  BY <1>1, <1>3, TargetsListed
<1>5. QED
  BY <1>1, <1>3, <1>4, MainAsIs

LEMMA FindsSlave ==
    ASSUME IInv, MarksInv, Clean, AsConfigured, AtSlave
    PROVE  LET c == cfg.slaves[k]
               t == SlaveTarget(snap, c)
           IN  t # None /\ ~Needed(c, snap.prof[t], WantSlave(c, snap.prof[t], res.main.uuid))
<1> DEFINE c == cfg.slaves[k]
           t == SlaveTarget(snap, c)
<1>1. /\ cfg.slaves \in Seq(SlaveCfg) /\ i \in DOMAIN plan /\ k \in DOMAIN cfg.slaves
      /\ snap.prof \in [Uuid -> Prof] /\ snap.order \in Seq(Uuid)
      /\ res.main \in Result /\ Filled(res)
  BY CfgType DEF AtSlave, IInv, Shape, TypeOK, Snapshot, Working, Configured, MarksInv, Numbered
<1>2. c \in SlaveCfg /\ k # 0
  BY <1>1
<1>3. /\ <<i, k>> \in Places(plan) /\ <<i, 0>> \in Places(plan)
      /\ TargetAt(<<i, k>>) = t /\ CfgAt(plan, <<i, k>>) = c
  BY <1>1, <1>2 DEF Places, TargetAt, CfgAt, cfg
<1>4. t # None /\ ~c.startup /\ FitsSlave(snap.prof[t], c, TargetAt(<<i, 0>>))
  BY <1>2, <1>3 DEF AsConfigured
<1>5. res.main.uuid = TargetAt(<<i, 0>>)
  <2>1. <<i, 0, res.main.uuid>> \in Marks
    BY <1>1, SessionAssumption DEF Marks, MarksOf, Entries, Filled, Result
  <2>2. QED
    BY <1>3, <2>1 DEF MarksInv, Faithful, Originated, AsConfigured
<1>6. t \in Uuid
  BY <1>1, <1>4, TargetsListed
<1>7. QED
  BY <1>1, <1>2, <1>4, <1>5, <1>6, SlaveAsIs

LEMMA FindsState ==
    ASSUME IInv, MarksInv, Clean, AsConfigured, AtEnforce, active = snap.active,
           ~ResultChanged(res)
    PROVE  LeftAlone(Cur)
<1>1. /\ <<i, Cur.n, Cur.uuid>> \in Marks /\ Cur \in Entries(res)
      /\ res.main \in Result /\ res.slaves \in Seq(Result)
  <2>1. /\ pc \in Configured /\ k \in DOMAIN ToEnforce
        /\ res.main \in Result /\ res.slaves \in Seq(Result)
    BY DEF AtEnforce, Configured, IInv, Shape, TypeOK, MainResult
  <2>2. Cur \in Entries(res)
    BY <2>1, SessionAssumption DEF Cur, ToEnforce, Entries, Range, Result
  <2>3. QED
    BY <2>1, <2>2, EnforcedMarked DEF Marks, Cur
<1>2. ~Cur.changed
  BY <1>1 DEF ResultChanged
<1>3. /\ <<i, Cur.n>> \in Places(plan)
      /\ TargetAt(<<i, Cur.n>>) # None
      /\ Cur.uuid = TargetAt(<<i, Cur.n>>)
  BY <1>1 DEF MarksInv, Faithful, Originated, AsConfigured
<1>4. CfgOf(Cur).state # "unset" => (Cur.uuid \in active <=> CfgOf(Cur).state = "up")
  BY <1>3 DEF AsConfigured, CfgOf
<1>5. ~Adopted(Cur)
  <2>1. SUFFICES ASSUME Cur.n # 0
                 PROVE  IsSlave(snap, SlaveTarget(snap, cfg.slaves[Cur.n]))
    BY <1>3 DEF Adopted, TargetAt, CfgAt, cfg
  <2>2. /\ SlaveTarget(snap, cfg.slaves[Cur.n]) = Cur.uuid
        /\ snap.prof[Cur.uuid].master = TargetAt(<<i, 0>>)
    BY <1>3, <2>1 DEF TargetAt, CfgAt, cfg, AsConfigured, FitsSlave
  <2>3. <<i, 0>> \in Places(plan)
    BY <1>3 DEF Places
  <2>4. TargetAt(<<i, 0>>) # None
    BY <2>3 DEF AsConfigured
  <2>5. QED
    BY <2>2, <2>4 DEF IsSlave
<1>6. QED
  BY <1>2, <1>4, <1>5 DEF LeftAlone, ShouldUp

LEMMA NextUnchanging ==
    ASSUME IInv, ReportInv, MarksInv, Unchanging, [Next]_vars
    PROVE  Unchanging'
<1>1. ASSUME NEW p \in Plans, Start(p) PROVE Unchanging'
  <2>1. results' = <<>> /\ res' = NoResult /\ pc' = "target" /\ todel' = {}
    BY <1>1 DEF Start, ReportInv, FreshResult, Unchanging
  <2>2. ~RunChanged'
    BY <2>1 DEF RunChanged, Range
  <2>3. ~ResultChanged(res)'
    BY <2>1, NothingInNoResult DEF ResultChanged, Entries
  <2>4. QED
    BY <2>1, <2>2, <2>3 DEF Unchanging
<1>2. CASE \/ DeleteFails \/ ValidateFails \/ MainRaises \/ MainFails \/ SlaveFails
           \/ EnforceMissing \/ CommandFails \/ PollTimeout \/ RunDone \/ Kill
  BY <1>2 DEF DeleteFails, ValidateFails, MainRaises, MainFails, SlaveFails, EnforceMissing,
     CommandFails, PollTimeout, RunDone, Kill, End, Unchanging
<1>3. CASE NmNext
  <2>1. flips' # 0 /\ (pc' = pc) /\ (todel' = todel)
    BY <1>3 DEF NmNext, NmUp, NmDown, IInv, Shape, TypeOK, runVars
  <2>2. QED
    BY <2>1 DEF Unchanging
<1>4. CASE RunNext /\ pc' # "idle"
  <2>1. UNCHANGED <<plan, snap, flips>> /\ pc # "idle"
    BY <1>4 DEF RunNext, ChooseTarget, Delete, DeleteFails, DeletesDone, Validate, ValidateFails,
       AddMain, ModifyMain, KeepMain, MainDone, AddSlave, ModifySlave, KeepSlave, SlaveDone,
       AtSlave, MainRaises, MainFails, SlaveFails, SlavesDone, EnforceMissing, EnforceSkip,
       EnforceNeeded, AtEnforce, CommandUp, CommandDown, CommandFails, PollReached, PollWait,
       PollTimeout, ConnDone, RunDone, End, nmVars, runVars
  <2>2. SUFFICES ASSUME AsConfigured, flips = 0
                 PROVE  /\ ~RunChanged' /\ ~ResultChanged(res)'
                        /\ todel' = {}
                        /\ pc' \notin {"command", "poll"}
    BY <1>4, <2>1, ConfiguredSame DEF Unchanging
  <2>3. ~RunChanged /\ ~ResultChanged(res) /\ todel = {} /\ pc \notin {"command", "poll"}
    BY <2>1, <2>2 DEF Unchanging
  <2>4. ~Shared /\ Clean
    BY <2>1, <2>2, ConfiguredApart DEF Clean
  <2>5. CASE ChooseTarget
    <3>1. i \in DOMAIN plan /\ i \in Nat /\ pc = "target" /\ results' = results
      BY <2>5, PlanType DEF ChooseTarget, IInv, Shape, TypeOK
    <3>2. todel' = {}
      BY <2>2, <2>4, <2>5, <3>1, SessionTargets DEF ChooseTarget, AsConfigured, cfg
    <3>3. res' = NoResult /\ pc' = "delete"
      BY <2>5, <3>2 DEF ChooseTarget, NoResult
    <3>4. ~ResultChanged(res)'
      BY <3>3, NothingInNoResult DEF ResultChanged, Entries
    <3>5. ~RunChanged'
      BY <2>3, <3>1 DEF RunChanged, ResultChanged, Entries
    <3>6. QED
      BY <3>2, <3>3, <3>4, <3>5
  <2>6. CASE (\E u \in Uuid : Delete(u)) \/ DeletesDone \/ Validate \/ SlavesDone \/ EnforceSkip
    <3>1. UNCHANGED <<results, res>> /\ todel' = {} /\ pc' \notin {"command", "poll"}
      BY <2>3, <2>6 DEF Delete, DeletesDone, Validate, SlavesDone, EnforceSkip, AtEnforce, runVars
    <3>2. QED
      BY <2>3, <3>1, SameChanged
  <2>7. CASE (\E u \in Uuid : AddMain(u)) \/ ModifyMain \/ KeepMain
    <3>1. pc = "main"
      BY <2>7 DEF AddMain, ModifyMain, KeepMain
    <3>2. KeepMain
      BY <2>2, <2>7, <3>1, FindsMain DEF AddMain, ModifyMain, ModifyConn
    <3>3. PICK u : MainDone(u, FALSE)
      BY <3>2 DEF KeepMain
    <3>4. /\ res' = [res EXCEPT !.main = [uuid |-> u, changed |-> FALSE, n |-> 0]]
          /\ results' = results /\ pc' = "slave" /\ todel' = todel
      BY <3>3 DEF MainDone
    <3>5. ~ResultChanged(res)'
      BY <2>3, <3>1, <3>4 DEF ResultChanged, Entries, Range, ReportInv, FreshResult, IInv, Shape,
         TypeOK, MainResult
    <3>6. ~RunChanged'
      BY <2>3, <3>4 DEF RunChanged, ResultChanged, Entries
    <3>7. QED
      BY <2>3, <3>4, <3>5, <3>6
  <2>8. CASE (\E u \in Uuid : AddSlave(u)) \/ ModifySlave \/ KeepSlave
    <3>1. AtSlave
      BY <2>8 DEF AddSlave, ModifySlave, KeepSlave
    <3>2. KeepSlave
      BY <2>2, <2>4, <2>8, <3>1, FindsSlave DEF AddSlave, ModifySlave, ModifyConn
    <3>3. PICK u \in Uuid : SlaveDone(u, FALSE)
      <4>1. snap.order \in Seq(Uuid)
        BY DEF IInv, Shape, TypeOK, Snapshot
      <4>2. SlaveTarget(snap, cfg.slaves[k]) \in Uuid
        BY <3>2, <4>1, TargetsListed DEF KeepSlave
      <4>3. QED
        BY <3>2, <4>2 DEF KeepSlave
    <3> DEFINE e == [uuid |-> u, changed |-> FALSE, n |-> k]
               after == WithSlave(res.slaves, e)
    <3>4. /\ res' = [res EXCEPT !.slaves = after]
          /\ results' = results /\ pc' = "slave" /\ todel' = todel
      BY <3>1, <3>3 DEF SlaveDone, AtSlave
    <3>5. e \in Result /\ ~e.changed /\ res \in MainResult /\ res.slaves \in Seq(Result)
      BY DEF Result, IInv, Shape, TypeOK, MainResult
    <3>6. \A j \in DOMAIN after : \/ after[j] = e
                                  \/ j \in DOMAIN res.slaves /\ after[j] = res.slaves[j]
      BY <3>5, WithSlaveHas
    <3> HIDE DEF e, after
    <3>7. ~ResultChanged(res)'
      BY <2>3, <3>4, <3>5, <3>6 DEF ResultChanged, Entries, Range, MainResult
    <3>8. ~RunChanged'
      BY <2>3, <3>4 DEF RunChanged, ResultChanged, Entries
    <3>9. QED
      BY <2>3, <3>4, <3>7, <3>8
  <2>9. CASE EnforceNeeded
    <3>1. AtEnforce /\ ~LeftAlone(Cur) /\ pc = "enforce"
      BY <2>9 DEF EnforceNeeded, AtEnforce
    <3>2. active = snap.active
      BY <2>1, <2>2, <2>3, <2>4, <3>1 DEF ReportInv, Quiet
    <3>3. QED
      BY <2>2, <2>3, <2>4, <3>1, <3>2, FindsState
  <2>10. CASE ConnDone
    <3>1. results' = Append(results, res) /\ res' = NoResult /\ pc' = "target" /\ todel' = todel
      BY <2>10 DEF ConnDone
    <3>2. results \in Seq(MainResult) /\ res \in MainResult
      BY DEF IInv, Shape, TypeOK
    <3>3. Range(results') = Range(results) \cup {res}
      <4>1. /\ DOMAIN results' = 1..(Len(results) + 1)
            /\ DOMAIN results = 1..Len(results) /\ Len(results) \in Nat
            /\ results'[Len(results) + 1] = res
            /\ \A n \in 1..Len(results) : results'[n] = results[n]
        BY <3>1, <3>2
      <4>2. QED
        BY <4>1 DEF Range
    <3>4. ~RunChanged'
      BY <2>3, <3>3 DEF RunChanged, ResultChanged, Entries
    <3>5. ~ResultChanged(res)'
      BY <3>1, NothingInNoResult DEF ResultChanged, Entries
    <3>6. QED
      BY <2>3, <3>1, <3>4, <3>5
  <2>11. CASE CommandUp \/ CommandDown \/ PollReached \/ PollWait
    BY <2>3, <2>11 DEF CommandUp, CommandDown, PollReached, PollWait
  <2>12. CASE \/ DeleteFails \/ ValidateFails \/ MainRaises \/ MainFails \/ SlaveFails
              \/ EnforceMissing \/ CommandFails \/ PollTimeout \/ RunDone
    BY <1>4, <2>12 DEF DeleteFails, ValidateFails, MainRaises, MainFails, SlaveFails,
       EnforceMissing, CommandFails, PollTimeout, RunDone, End
  <2>13. QED
    BY <1>4, <2>5, <2>6, <2>7, <2>8, <2>9, <2>10, <2>11, <2>12 DEF RunNext
<1>5. CASE RunNext /\ pc' = "idle"
  <2>1. todel' = {}
    BY <1>5 DEF RunNext, ChooseTarget, Delete, DeleteFails, DeletesDone, Validate, ValidateFails,
       AddMain, ModifyMain, KeepMain, MainDone, AddSlave, ModifySlave, KeepSlave, SlaveDone,
       AtSlave, MainRaises, MainFails, SlaveFails, SlavesDone, EnforceMissing, EnforceSkip,
       EnforceNeeded, AtEnforce, CommandUp, CommandDown, CommandFails, PollReached, PollWait,
       PollTimeout, ConnDone, RunDone, End, nmVars, runVars
  <2>2. QED
    BY <1>5, <2>1 DEF Unchanging
<1>6. CASE UNCHANGED vars
  <2>1. UNCHANGED <<plan, snap, flips, results, res, todel, pc>>
    BY <1>6 DEF vars, runVars
  <2>2. QED
    BY <2>1, ConfiguredSame, SameChanged DEF Unchanging
<1>7. QED
  BY <1>1, <1>2, <1>3, <1>4, <1>5, <1>6 DEF Next

(* Over connections that are as a plan wants them a run deletes nothing,   *)
(* writes nothing, commands nothing and reports nothing.                   *)
THEOREM NothingLeftToDo == Spec => []NothingToDo
<1> DEFINE Inv == IInv /\ ReportInv /\ MarksInv /\ Unchanging
<1>1. Init => ReportInv /\ Unchanging
  BY DEF Init, ReportInv, FreshResult, SlavesTraced, Quiet, Unchanging
<1>2. Inv /\ [Next]_vars => Inv'
  BY NextInv, NextReport, NextMarks, NextUnchanging
<1>3. Inv => NothingToDo
  BY ConfiguredApart DEF Unchanging, NothingToDo, ReportInv, Quiet
<1>4. QED
  BY <1>1, <1>2, <1>3, InitInv, InitMarks, PTL DEF Spec

-----------------------------------------------------------------------------
(* What a run leaves behind: the connections that have marks, each on the  *)
(* interface that its place ends up with, and untouched ones of the        *)
(* snapshot, of which none is a slave of a connection that is new; and no  *)
(* place has two of them.                                                  *)
Resting ==
    Clean =>
      /\ live \subseteq Listed(snap) \cup Owned
      /\ \A x \in Marks : x[3] \in live =>
            /\ prof[x[3]].iface = IfaceAfter(<<x[1], x[2]>>)
            /\ prof[x[3]].parent = ParentAfter(<<x[1], x[2]>>)
      /\ \A x \in Marks : x[3] \notin Listed(snap) =>
            \A u \in (Listed(snap) \cap live) \ Owned : snap.prof[u].master # x[3]
      /\ \A x, y \in Marks : x[1] = y[1] /\ x[2] = y[2] => x[3] = y[3]

LEMMA AfterSame ==
    ASSUME UNCHANGED <<plan, snap>>, NEW m
    PROVE  IfaceAfter(m)' = IfaceAfter(m) /\ ParentAfter(m)' = ParentAfter(m)
BY DEF IfaceAfter, ParentAfter, TargetAt

LEMMA RestingKept ==
    ASSUME Resting, UNCHANGED <<plan, snap>>, Clean' => Clean /\ Marks' = Marks,
           live' \subseteq live, \A u \in live' : prof'[u] = prof[u]
    PROVE  Resting'
<1>1. SUFFICES ASSUME Clean' PROVE Resting'
  BY DEF Resting
<1>2. Clean /\ Marks' = Marks /\ Owned' = Owned
  BY <1>1 DEF Owned
<1>3. \A m : IfaceAfter(m)' = IfaceAfter(m) /\ ParentAfter(m)' = ParentAfter(m)
  BY AfterSame
<1>4. QED
  BY <1>2, <1>3 DEF Resting

LEMMA RestingTaken ==
    ASSUME IInv, MarksInv, Resting, Clean, UNCHANGED <<plan, snap>>, Clean',
           NEW u \in Uuid, NEW j, Takes(u, j)
    PROVE  Resting'
<1>1. /\ Marks' = Marks \cup {<<i, j, u>>} /\ Owned' = Owned \cup {u}
      /\ live' \subseteq live \cup {u} /\ live \subseteq Uuid
      /\ u \in live' \ live => u \notin Listed(snap)
      /\ \A x \in Marks : x[3] # u
      /\ \A w \in Uuid \ {u} : prof'[w] = prof[w]
  <2>1. Marks' = Marks \cup {<<i, j, u>>}
    BY DEF Takes
  <2>2. Owned' = {x[3] : x \in Marks'} /\ <<i, j, u>>[3] = u
    BY DEF Owned
  <2>3. Owned' = Owned \cup {u}
    BY <2>1, <2>2 DEF Owned
  <2>4. QED
    BY <2>1, <2>3 DEF Takes, Alters, IInv, Shape, TypeOK
<1>2. \A m : IfaceAfter(m)' = IfaceAfter(m) /\ ParentAfter(m)' = ParentAfter(m)
  BY AfterSame
<1>3. live' \subseteq Listed(snap') \cup Owned'
  BY <1>1 DEF Resting
<1>4. ASSUME NEW x \in Marks', x[3] \in live'
      PROVE  /\ prof'[x[3]].iface = IfaceAfter(<<x[1], x[2]>>)
             /\ prof'[x[3]].parent = ParentAfter(<<x[1], x[2]>>)
  <2>1. CASE x = <<i, j, u>>
    BY <1>4, <2>1 DEF Takes
  <2>2. CASE x \in Marks
    <3>1. x[3] \in live /\ prof'[x[3]] = prof[x[3]]
      BY <1>1, <1>4, <2>2
    <3>2. QED
      BY <2>2, <3>1 DEF Resting
  <2>3. QED
    BY <1>1, <2>1, <2>2
<1>5. ASSUME NEW x \in Marks', x[3] \notin Listed(snap),
             NEW w \in (Listed(snap) \cap live') \ Owned'
      PROVE  snap.prof[w].master # x[3]
  <2>1. w \in Listed(snap) /\ w \in live /\ w \notin Owned
    BY <1>1, <1>5
  <2>2. CASE x = <<i, j, u>>
    <3>1. prof[w] = snap.prof[w]
      BY <2>1 DEF MarksInv, Faithful, Untouched, Owned
    <3>2. prof[w].master # u
      BY <1>5, <2>1, <2>2 DEF Takes
    <3>3. QED
      BY <2>2, <3>1, <3>2
  <2>3. CASE x \in Marks
    BY <1>5, <2>1, <2>3 DEF Resting
  <2>4. QED
    BY <1>1, <2>2, <2>3
<1>6. \A x \in Marks : ~(x[1] = i /\ x[2] = j)
  BY DEF Takes, At
<1>7. ASSUME NEW x \in Marks', NEW y \in Marks', x[1] = y[1], x[2] = y[2]
      PROVE  x[3] = y[3]
  <2>1. CASE x = <<i, j, u>> \/ y = <<i, j, u>>
    BY <1>1, <1>6, <1>7, <2>1
  <2>2. CASE x \in Marks /\ y \in Marks
    BY <1>7, <2>2 DEF Resting
  <2>3. QED
    BY <1>1, <2>1, <2>2
<1>8. QED
  BY <1>2, <1>3, <1>4, <1>5, <1>7 DEF Resting

LEMMA NextResting ==
    ASSUME IInv, ReportInv, MarksInv, Resting, [Next]_vars
    PROVE  Resting'
<1>1. IInv' /\ ReportInv' /\ MarksInv'
  BY NextInv, NextReport, NextMarks
<1>2. ASSUME NEW p \in Plans, Start(p) PROVE Resting'
  <2>1. Marks' = {}
    BY <1>2, StartMarks
  <2>2. live' = Listed(snap')
    BY <1>2, StartListed DEF Start, nmVars
  <2>3. QED
    BY <2>1, <2>2 DEF Resting
<1>3. CASE \/ DeleteFails \/ ValidateFails \/ MainRaises \/ MainFails \/ SlaveFails
           \/ EnforceMissing \/ CommandFails \/ PollTimeout \/ RunDone \/ Kill
  <2>1. SUFFICES ASSUME Clean' PROVE Resting'
    BY DEF Resting
  <2>2. UNCHANGED <<plan, snap, live, prof>> /\ pc = "target"
    BY <1>3, <2>1
       DEF DeleteFails, ValidateFails, MainRaises, MainFails, SlaveFails, EnforceMissing,
           CommandFails, PollTimeout, RunDone, Kill, End, Clean
  <2>3. Clean /\ Marks' = Marks
    BY <1>3, <2>1, <2>2, EndingMarks, SharedSame DEF Clean
  <2>4. QED
    BY <2>2, <2>3, RestingKept
<1>4. CASE ChooseTarget \/ (\E u \in Uuid : Delete(u)) \/ DeletesDone \/ Validate
  <2>1. UNCHANGED <<plan, snap, outcome>> /\ pc # "idle"
    BY <1>4 DEF ChooseTarget, Delete, DeletesDone, Validate, runVars
  <2>2. live' \subseteq live /\ \A u \in live' : prof'[u] = prof[u]
    BY <1>4 DEF ChooseTarget, Delete, DeletesDone, Validate, nmVars, IInv, Shape, TypeOK
  <2>3. Marks' = Marks /\ (Clean' => Clean)
    BY <1>1, <1>4, <2>1, EarlyMarks, SharedSame DEF Clean
  <2>4. QED
    BY <2>1, <2>2, <2>3, RestingKept
<1>5. CASE (\E u \in Uuid : AddMain(u)) \/ ModifyMain \/ KeepMain
           \/ (\E u \in Uuid : AddSlave(u)) \/ ModifySlave \/ KeepSlave
  <2>1. UNCHANGED <<plan, snap, outcome>> /\ pc # "idle"
    BY <1>5 DEF AddMain, ModifyMain, KeepMain, MainDone, AddSlave, ModifySlave, KeepSlave,
       SlaveDone, AtSlave
  <2>2. SUFFICES ASSUME Clean, Clean' PROVE Resting'
    BY <2>1, SharedSame DEF Clean, Resting
  <2>3. PICK u \in Uuid : Takes(u, 0) \/ Takes(u, k)
    BY <1>5, <2>2, MainMarks, SlaveMarks
  <2>4. QED
    BY <2>1, <2>2, <2>3, RestingTaken
<1>6. CASE SlavesDone \/ EnforceSkip \/ EnforceNeeded \/ CommandUp \/ CommandDown
             \/ PollWait \/ PollReached
  <2>1. UNCHANGED <<live, prof, plan, snap, outcome>> /\ pc # "idle"
    BY <1>6 DEF SlavesDone, EnforceSkip, EnforceNeeded, CommandUp, CommandDown, PollWait,
       PollReached, AtEnforce, nmVars, runVars
  <2>2. Marks' = Marks /\ (Clean' => Clean)
    BY <1>6, <2>1, EnforcingMarks, SharedSame DEF Clean
  <2>3. QED
    BY <2>1, <2>2, RestingKept
<1>7. CASE ConnDone
  <2>1. UNCHANGED <<live, prof, plan, snap, outcome>> /\ pc = "enforce"
    BY <1>7 DEF ConnDone, nmVars
  <2>2. Marks' = Marks /\ (Clean' => Clean)
    BY <1>7, <2>1, ConnDoneMarks, SharedSame DEF Clean
  <2>3. QED
    BY <2>1, <2>2, RestingKept
<1>8. CASE NmNext \/ UNCHANGED vars
  <2>1. UNCHANGED <<live, prof, plan, snap, pc, outcome>>
    BY <1>8 DEF NmNext, NmUp, NmDown, runVars, vars
  <2>2. Marks' = Marks /\ (Clean' => Clean)
    BY <1>8, <2>1, OutsideMarks, SharedSame DEF Clean
  <2>3. QED
    BY <2>1, <2>2, RestingKept
<1>9. QED
  BY <1>2, <1>3, <1>4, <1>5, <1>6, <1>7, <1>8 DEF Next, RunNext

-----------------------------------------------------------------------------
(* What the next run finds after a run that succeeded, when nothing has    *)
(* been done to NetworkManager since: AtRest.  Held(m) is the connection   *)
(* that the place m has got.                                               *)
AtRest ==
    /\ pc = "idle" /\ Clean /\ Tidy /\ flips = 0
    /\ IInv /\ ReportInv /\ MarksInv /\ Cleared /\ Resting /\ AsAsked

Held(m) == CHOOSE u : <<m[1], m[2], u>> \in Marks

LEMMA RestTypes ==
    ASSUME AtRest
    PROVE  /\ plan \in Seq(MainCfg) /\ plan \in Plans \cup {<<>>}
           /\ live \subseteq Uuid /\ prof \in [Uuid -> Prof]
           /\ snap.order \in Seq(Uuid) /\ snap.prof \in [Uuid -> Prof]
           /\ Marks = Filed
<1>1. MarksOf(i, res) = {}
  BY UnmarkedYet DEF AtRest, IInv, Shape, ReportInv, Configured
<1>2. QED
  BY <1>1, PlanType DEF AtRest, IInv, Shape, TypeOK, Snapshot, Marks

LEMMA HeldMark ==
    ASSUME AtRest, NEW m \in Places(plan)
    PROVE  <<m[1], m[2], Held(m)>> \in Marks
<1>1. PICK x \in Marks : x[1] = m[1] /\ x[2] = m[2]
  BY DEF AtRest, MarksInv, Complete, Past, At
<1>2. x = <<m[1], m[2], x[3]>>
  <2>1. x \in Filed
    BY RestTypes
  <2>2. PICK e \in Entries(results[x[1]]) : x = <<x[1], e.n, e.uuid>>
    BY <2>1, FiledResult
  <2>3. QED
    BY <1>1, <2>2
<1>3. <<m[1], m[2], x[3]>> \in Marks
  BY <1>2
<1>4. QED
  BY <1>3 DEF Held

LEMMA MarkHeld ==
    ASSUME AtRest, NEW x \in Marks
    PROVE  <<x[1], x[2]>> \in Places(plan) /\ x[3] = Held(<<x[1], x[2]>>)
<1> DEFINE m == <<x[1], x[2]>>
<1>1. m \in Places(plan)
  BY DEF AtRest, MarksInv, Faithful, Originated
<1>2. <<m[1], m[2], Held(m)>> \in Marks
  BY <1>1, HeldMark
<1>3. \A y \in Marks : y[1] = x[1] /\ y[2] = x[2] => y[3] = x[3]
  BY DEF AtRest, Resting
<1> HIDE DEF m
<1>4. m[1] = x[1] /\ m[2] = x[2]
  BY DEF m
<1>5. <<m[1], m[2], Held(m)>>[3] = x[3]
  BY <1>2, <1>3, <1>4
<1>6. QED
  BY <1>1, <1>5 DEF m

(* It exists, carries the configuration, and is the one that was taken     *)
(* over or else was not there.                                             *)
LEMMA HeldFits ==
    ASSUME AtRest, NEW m \in Places(plan)
    PROVE  /\ Held(m) \in live /\ Held(m) \in Uuid /\ Held(m) # None
           /\ Held(m) \in Owned
           /\ IF m[2] = 0 THEN FitsMain(prof[Held(m)], CfgAt(plan, m))
                          ELSE FitsSlave(prof[Held(m)], CfgAt(plan, m), Held(<<m[1], 0>>))
           /\ prof[Held(m)].iface = IfaceAfter(m)
           /\ prof[Held(m)].parent = ParentAfter(m)
           /\ TargetAt(m) # None => Held(m) = TargetAt(m)
           /\ TargetAt(m) = None => Held(m) \notin Listed(snap)
<1> DEFINE u == Held(m)
           x == <<m[1], m[2], u>>
<1>1. x \in Marks /\ x[1] = m[1] /\ x[2] = m[2] /\ x[3] = u
  BY HeldMark
<1>2. m = <<m[1], m[2]>> /\ m[1] \in DOMAIN plan
  BY RestTypes, PlacesIn
<1>3. u \in live
  <2>1. x \in Filed
    BY <1>1, RestTypes
  <2>2. PICK e \in Entries(results[x[1]]) : x[1] \in DOMAIN results /\ x = <<x[1], e.n, e.uuid>>
    BY <2>1, FiledResult
  <2>3. u \in session
    BY <2>2, FiledMark
  <2>4. QED
    BY <2>3 DEF AtRest, IInv
<1>4. u \in Uuid /\ u # None
  BY <1>3, RestTypes, UuidAssumption
<1> HIDE DEF x, u
<1>5. u \in Owned
  BY <1>1 DEF Owned
<1>6. IF m[2] = 0 THEN FitsMain(prof[u], CfgAt(plan, m))
                  ELSE FitsSlave(prof[u], CfgAt(plan, m), Held(<<m[1], 0>>))
  <2>1. /\ x[2] = 0 => FitsMain(prof[u], plan[x[1]])
        /\ x[2] # 0 => \A y \in At(x[1], 0) : FitsSlave(prof[u], plan[x[1]].slaves[x[2]], y[3])
    BY <1>1, <1>3 DEF AtRest, MarksInv, Faithful, Fitting
  <2>2. CASE m[2] = 0
    BY <1>1, <2>1, <2>2 DEF CfgAt
  <2>3. CASE m[2] # 0
    <3> DEFINE y == <<m[1], 0, Held(<<m[1], 0>>)>>
    <3>1. <<m[1], 0>> \in Places(plan)
      BY <1>2 DEF Places
    <3>2. y \in Marks
      BY <3>1, HeldMark
    <3>3. y \in At(m[1], 0) /\ y[3] = Held(<<m[1], 0>>)
      BY <3>2 DEF At
    <3>4. QED
      BY <1>1, <2>1, <2>3, <3>3 DEF CfgAt
  <2>4. QED
    BY <2>2, <2>3
<1>7. prof[u].iface = IfaceAfter(m) /\ prof[u].parent = ParentAfter(m)
  BY <1>1, <1>2, <1>3 DEF AtRest, Resting
<1>8. IF TargetAt(m) = None THEN u \notin Listed(snap) ELSE u = TargetAt(m)
  BY <1>1, <1>2 DEF AtRest, MarksInv, Faithful, Originated
<1>9. QED
  BY <1>3, <1>4, <1>5, <1>6, <1>7, <1>8 DEF u

LEMMA HeldOnce ==
    ASSUME AtRest, NEW m \in Places(plan), NEW n \in Places(plan), Held(m) = Held(n)
    PROVE  m = n
<1>1. <<m[1], m[2], Held(m)>> \in Marks /\ <<n[1], n[2], Held(n)>> \in Marks
  BY HeldMark
<1>2. m[1] = n[1] /\ m[2] = n[2]
  <2>1. \A x, y \in Marks : x[3] = y[3] => x[1] = y[1] /\ x[2] = y[2]
    BY DEF AtRest, MarksInv, Faithful, OfTheirOwn
  <2>2. <<m[1], m[2], Held(m)>>[3] = <<n[1], n[2], Held(n)>>[3]
    OBVIOUS
  <2>3. QED
    BY <1>1, <2>1, <2>2
<1>3. m = <<m[1], m[2]>> /\ n = <<n[1], n[2]>>
  BY RestTypes, PlacesIn
<1>4. QED
  BY <1>2, <1>3

LEMMA OwnedHeld ==
    ASSUME AtRest, NEW u \in Owned
    PROVE  \E m \in Places(plan) : u = Held(m)
<1>1. PICK x \in Marks : u = x[3]
  BY DEF Owned
<1>2. QED
  BY <1>1, MarkHeld

(* What no place has got is as the snapshot showed it, and is in the way   *)
(* of none of the configurations.                                          *)
LEMMA UnownedClear ==
    ASSUME AtRest, NEW u \in live \ Owned
    PROVE  /\ u \in Listed(snap) /\ u \in Uuid /\ u \notin Taken
           /\ prof[u] = snap.prof[u]
           /\ \A n \in DOMAIN plan : ~InTheWay(snap, plan[n], u)
           /\ \A m \in Places(plan) :
                 TargetAt(m) = None => snap.prof[u].master # Held(m)
<1>1. u \in Listed(snap) /\ u \in Uuid
  BY RestTypes DEF AtRest, Resting
<1>2. u \notin Taken
  BY TakenMarked DEF AtRest
<1>3. prof[u] = snap.prof[u]
  BY <1>1 DEF AtRest, MarksInv, Faithful, Untouched, Owned
<1>4. ASSUME NEW n \in DOMAIN plan PROVE ~InTheWay(snap, plan[n], u)
  <2>1. PICK S \in SUBSET Owned : DeleteList(snap, plan, plan[n], S) \cap live = {}
    BY DEF AtRest, Cleared, ClearedFor
  <2>2. u \notin Preserved(snap, plan, plan[n], S)
    <3>1. TargetUuids(snap, plan[n]) \subseteq Taken
      BY DEF Taken, Range
    <3>2. QED
      BY <1>2, <2>1, <3>1, ChildrenTaken DEF Preserved
  <2>3. QED
    BY <1>1, <2>1, <2>2, InTheWayDeleted
<1>5. ASSUME NEW m \in Places(plan), TargetAt(m) = None
      PROVE  snap.prof[u].master # Held(m)
  <2> DEFINE x == <<m[1], m[2], Held(m)>>
  <2>1. x \in Marks /\ x[3] = Held(m)
    BY HeldMark
  <2>2. Held(m) \notin Listed(snap)
    BY <1>5, HeldFits
  <2> HIDE DEF x
  <2>3. QED
    BY <1>1, <2>1, <2>2 DEF AtRest, Resting
<1>6. QED
  BY <1>1, <1>2, <1>3, <1>4, <1>5

(* The snapshot that the next run takes.  In it each place finds the       *)
(* connection that it has got.                                             *)
Shows(s) ==
    s.order \in Seq(Uuid) /\ Listed(s) = live /\ s.prof = prof /\ s.active = active

LEMMA NamesApart ==
    ASSUME plan \in Plans \cup {<<>>}, NEW m \in Places(plan), NEW n \in Places(plan)
    PROVE  /\ CfgAt(plan, m).name = CfgAt(plan, n).name => m = n
           /\ CfgAt(plan, m).iface # None /\ CfgAt(plan, m).iface = CfgAt(plan, n).iface
                => m = n
<1>1. plan # <<>>
  BY DEF Places
<1>2. QED
  BY <1>1, SessionAssumption DEF ParsedPlan, UniqueNames, UniqueIfaces

LEMMA NextMain ==
    ASSUME AtRest, NEW s, Shows(s), NEW n \in DOMAIN plan
    PROVE  MainTarget(s, plan[n]) = Held(<<n, 0>>)
<1> DEFINE m == <<n, 0>>
           u == Held(m)
           c == plan[n]
<1>1. m \in Places(plan) /\ CfgAt(plan, m) = c /\ m[2] = 0
  BY DEF Places, CfgAt
<1> HIDE DEF m
<1>2. u \in live /\ u # None /\ FitsMain(prof[u], c)
  BY <1>1, HeldFits
<1>3. u \in Mains(s) \cap Listed(s) /\ s.prof[u].id = c.name /\ s.prof[u].type = c.type
  BY <1>2 DEF Shows, Mains, IsSlave, FitsMain, Fits
<1>4. ASSUME NEW w \in Mains(s), s.prof[w].id = c.name
      PROVE  w = u
  <2>1. w \in live /\ prof[w].id = c.name
    BY <1>4 DEF Mains, Shows
  <2>2. CASE w \in Owned
    <3>1. PICK q \in Places(plan) : w = Held(q)
      BY <2>2, OwnedHeld
    <3>2. prof[w].id = CfgAt(plan, q).name
      BY <3>1, HeldFits DEF FitsMain, FitsSlave, Fits
    <3>3. QED
      BY <1>1, <2>1, <3>1, <3>2, RestTypes, NamesApart
  <2>3. CASE w \notin Owned
    BY <2>1, <2>3, UnownedClear DEF InTheWay
  <2>4. QED
    BY <2>2, <2>3
<1> HIDE DEF c, u
<1>5. FirstNamed(s, Mains(s), c.name, c.type) = u
  BY <1>3, <1>4, OnlyOneNamed DEF Shows
<1>6. MainTarget(s, c) = u
  BY <1>2, <1>5 DEF MainTarget
<1>7. QED
  BY <1>6 DEF c, u, m

LEMMA NextSlave ==
    ASSUME AtRest, NEW s, Shows(s), NEW m \in Places(plan), m[2] # 0
    PROVE  SlaveTarget(s, CfgAt(plan, m)) = Held(m)
<1> DEFINE u == Held(m)
           c == CfgAt(plan, m)
<1>1. u \in live /\ u # None /\ FitsSlave(prof[u], c, Held(<<m[1], 0>>)) /\ m[1] \in DOMAIN plan
  BY HeldFits, PlacesIn, RestTypes
<1>2. u \in Listed(s) \cap Listed(s) /\ s.prof[u].id = c.name /\ s.prof[u].type = c.type
  BY <1>1 DEF Shows, FitsSlave, Fits
<1>3. ASSUME NEW w \in Listed(s), s.prof[w].id = c.name, s.prof[w].type = c.type
      PROVE  w = u
  <2>1. w \in live /\ prof[w].id = c.name /\ prof[w].type = c.type
    BY <1>3 DEF Shows
  <2>2. CASE w \in Owned
    <3>1. PICK q \in Places(plan) : w = Held(q)
      BY <2>2, OwnedHeld
    <3>2. prof[w].id = CfgAt(plan, q).name
      BY <3>1, HeldFits DEF FitsMain, FitsSlave, Fits
    <3>3. QED
      BY <2>1, <3>1, <3>2, RestTypes, NamesApart
  <2>3. CASE w \notin Owned
    <3>1. w \in Listed(snap) \ Taken /\ prof[w] = snap.prof[w] /\ ~InTheWay(snap, plan[m[1]], w)
      BY <1>1, <2>1, <2>3, UnownedClear
    <3>2. w \in Strangers(plan[m[1]])
      BY <3>1 DEF InTheWay, Strangers
    <3>3. NamedApart
      BY DEF AtRest, Tidy
    <3>4. QED
      BY <2>1, <3>1, <3>2, <3>3 DEF NamedApart
  <2>4. QED
    BY <2>2, <2>3
<1> HIDE DEF c, u
<1>4. FirstNamed(s, Listed(s), c.name, c.type) = u
  BY <1>2, <1>3, OnlyOneNamed DEF Shows
<1>5. SlaveTarget(s, c) = u
  BY <1>1, <1>4 DEF SlaveTarget
<1>6. QED
  BY <1>5 DEF c, u

LEMMA NextTargets ==
    ASSUME AtRest, NEW s, Shows(s), NEW n \in DOMAIN plan
    PROVE  /\ \A t \in SlaveTargets(s, plan[n]) :
                 \E j \in DOMAIN plan[n].slaves :
                     j # 0 /\ <<n, j>> \in Places(plan) /\ t = Held(<<n, j>>)
           /\ \A m \in Places(plan) :
                 m[1] = n => /\ Held(m) \in TargetUuids(s, plan[n])
                             /\ m[2] # 0 => \E d \in SlavesOf(plan[n]) :
                                   d = CfgAt(plan, m) /\ SlaveTarget(s, d) = Held(m)
<1>1. plan[n] \in MainCfg
  BY RestTypes
<1>2. DOMAIN plan[n].slaves \subseteq Nat \ {0}
  BY <1>1 DEF MainCfg
<1>3. ASSUME NEW t \in SlaveTargets(s, plan[n])
      PROVE  \E j \in DOMAIN plan[n].slaves :
                 j # 0 /\ <<n, j>> \in Places(plan) /\ t = Held(<<n, j>>)
  <2>1. PICK j \in DOMAIN plan[n].slaves : t = SlaveTarget(s, plan[n].slaves[j])
    BY DEF SlaveTargets, SlavesOf, Range
  <2>2. <<n, j>> \in Places(plan) /\ j # 0
    BY <1>2 DEF Places
  <2>3. CfgAt(plan, <<n, j>>) = plan[n].slaves[j]
    BY <2>2 DEF CfgAt
  <2>4. t = Held(<<n, j>>)
    BY <2>1, <2>2, <2>3, NextSlave
  <2>5. QED
    BY <2>2, <2>4
<1>4. ASSUME NEW m \in Places(plan), m[1] = n
      PROVE  /\ Held(m) \in TargetUuids(s, plan[n])
             /\ m[2] # 0 => \E d \in SlavesOf(plan[n]) :
                   d = CfgAt(plan, m) /\ SlaveTarget(s, d) = Held(m)
  <2>1. m = <<n, m[2]>> /\ m[2] \in {0} \cup DOMAIN plan[n].slaves /\ Held(m) # None
    BY <1>4, RestTypes, PlacesIn, HeldFits
  <2>2. CASE m[2] = 0
    BY <2>1, <2>2, NextMain DEF TargetUuids
  <2>3. CASE m[2] # 0
    <3>1. SlaveTarget(s, CfgAt(plan, m)) = Held(m)
      BY <2>3, NextSlave
    <3>2. CfgAt(plan, m) \in SlavesOf(plan[n])
      BY <1>4, <2>1, <2>3 DEF CfgAt, SlavesOf, Range
    <3>3. QED
      BY <2>1, <3>1, <3>2 DEF TargetUuids, SlaveTargets
  <2>4. QED
    BY <2>2, <2>3
<1>5. QED
  BY <1>3, <1>4

(* What stands in the way of none of the configurations in the first run   *)
(* stands in the way of none in the second.                                *)
LEMMA NextUnowned ==
    ASSUME AtRest, NEW s, Shows(s), NEW n \in DOMAIN plan, NEW u \in live \ Owned
    PROVE  ~InTheWay(s, plan[n], u)
<1> DEFINE c == plan[n]
           main == Held(<<n, 0>>)
<1>1. /\ u \in Listed(snap) \ Taken /\ s.prof[u] = snap.prof[u]
      /\ ~InTheWay(snap, c, u)
      /\ \A m \in Places(plan) : TargetAt(m) = None => snap.prof[u].master # Held(m)
  BY UnownedClear DEF Shows
<1>2. u \in Strangers(c)
  BY <1>1 DEF InTheWay, Strangers
<1>3. ASSUME NEW t \in SlaveTargets(s, c), s.prof[t].iface # None,
             s.prof[u].iface = s.prof[t].iface
      PROVE  FALSE
  <2>1. PICK j \in DOMAIN c.slaves : j # 0 /\ <<n, j>> \in Places(plan) /\ t = Held(<<n, j>>)
    BY <1>3, NextTargets
  <2> DEFINE m == <<n, j>>
  <2>2. s.prof[t].iface = IfaceAfter(m)
    BY <2>1, HeldFits DEF Shows
  <2>3. CfgAt(plan, m) = c.slaves[j] /\ c.slaves[j] \in SlavesOf(c)
    BY <2>1 DEF CfgAt, SlavesOf, Range
  <2>4. CASE CfgAt(plan, m).iface # None
    <3>1. IfaceAfter(m) \in RelatedIfaces(c)
      BY <2>3, <2>4 DEF IfaceAfter, RelatedIfaces, OwnRelated
    <3>2. QED
      BY <1>1, <1>3, <2>2, <3>1 DEF InTheWay
  <2>5. CASE CfgAt(plan, m).iface = None
    <3>1. TargetAt(m) # None /\ IfaceAfter(m) = snap.prof[TargetAt(m)].iface
      BY <1>3, <2>2, <2>5 DEF IfaceAfter
    <3>2. TargetAt(m) \in SlaveTargets(snap, c)
      BY <2>1, <2>3, <3>1 DEF TargetAt, SlaveTargets
    <3>3. QED
      BY <1>1, <1>3, <2>2, <3>1, <3>2 DEF InTheWay
  <2>6. QED
    BY <2>4, <2>5
<1>4. ASSUME IsMainOf(s, main, u)
      PROVE  FALSE
  <2> DEFINE m == <<n, 0>>
  <2>1. m \in Places(plan) /\ TargetAt(m) = MainTarget(snap, c)
    BY DEF Places, TargetAt
  <2>2. /\ IsSlave(snap, u) /\ prof[main].iface = IfaceAfter(m)
        /\ snap.prof[u].master \in {main, IfaceAfter(m)}
    BY <1>1, <1>4, <2>1, HeldFits DEF IsMainOf, IsSlave, Shows
  <2>3. TargetAt(m) # None /\ IsMainOf(snap, TargetAt(m), u)
    <3>1. CASE snap.prof[u].master = main
      <4>1. TargetAt(m) # None /\ TargetAt(m) = main
        BY <1>1, <2>1, <3>1, HeldFits
      <4>2. QED
        BY <2>2, <3>1, <4>1 DEF IsMainOf
    <3>2. CASE snap.prof[u].master = IfaceAfter(m)
      BY <1>2, <2>2, <3>2 DEF AtRest, Tidy, NoForeignSlaves
    <3>3. QED
      BY <2>2, <3>1, <3>2
  <2>4. QED
    BY <1>1, <2>1, <2>3 DEF InTheWay
<1>5. MainTarget(s, c) = main
  BY NextMain
<1>6. QED
  BY <1>1, <1>3, <1>4, <1>5 DEF InTheWay

(* A connection of a later configuration is a child of this one, or out of *)
(* its way.                                                                *)
LEMMA NextLater ==
    ASSUME AtRest, NEW s, Shows(s), NEW n \in DOMAIN plan, NEW m \in Places(plan),
           m[1] # n, Held(m) \notin ChildrenUuids(s, plan, plan[n]),
           n \in 1..(m[1] - 1)
    PROVE  ~InTheWay(s, plan[n], Held(m))
<1> DEFINE c == plan[n]
           d == plan[m[1]]
           u == Held(m)
           main == Held(<<n, 0>>)
<1>1. /\ m = <<m[1], m[2]>> /\ m[1] \in DOMAIN plan
      /\ u \in Uuid /\ u # None
      /\ s.prof[u].iface = IfaceAfter(m) /\ s.prof[u].parent = ParentAfter(m)
  BY RestTypes, PlacesIn, HeldFits DEF Shows
<1>2. /\ <<n, 0>> \in Places(plan) /\ <<n, 0>> # m
      /\ <<m[1], 0>> \in Places(plan) /\ <<m[1], 0>> # <<n, 0>>
      /\ CfgAt(plan, <<n, 0>>) = c
  BY <1>1 DEF Places, CfgAt
<1>3. MainTarget(s, c) = main
  BY NextMain
<1>4. s.prof[u].id # c.name
  <2>1. s.prof[u].id = CfgAt(plan, m).name
    BY HeldFits DEF Shows, FitsMain, FitsSlave, Fits
  <2>2. QED
    BY <1>2, <2>1, RestTypes, NamesApart
<1>5. {s.prof[u].iface, s.prof[u].parent} \cap RelatedIfaces(c) = {}
  <2>1. CASE c.iface # None /\ c.iface \in DependsOn(d)
    <3> DEFINE children == {e \in Range(plan) : c.iface \in DependsOn(e)}
               candidates == {<<MainTarget(s, e), e.iface>> : e \in children}
                 \cup UNION {{<<SlaveTarget(s, f), f.iface>> : f \in SlavesOf(e)}
                               : e \in children}
               x == <<u, CfgAt(plan, m).iface>>
    <3>1. d \in children
      BY <1>1, <2>1 DEF Range
    <3>2. x \in candidates
      <4>1. CASE m[2] = 0
        BY <1>1, <3>1, <4>1, NextMain DEF CfgAt
      <4>2. CASE m[2] # 0
        <5>1. CfgAt(plan, m) \in SlavesOf(d) /\ SlaveTarget(s, CfgAt(plan, m)) = u
          BY <1>1, <4>2, NextTargets
        <5>2. QED
          BY <3>1, <5>1
      <4>3. QED
        BY <4>1, <4>2
    <3>3. x[1] # None /\ x[1] # MainTarget(s, c)
      BY <1>1, <1>2, <1>3, HeldOnce
    <3>4. x[2] # c.iface
      BY <1>2, <2>1, RestTypes, NamesApart
    <3> HIDE DEF candidates
    <3>5. x[1] \in {t[1] : t \in {y \in candidates :
                                     /\ y[1] # None
                                     /\ y[1] # MainTarget(s, c)
                                     /\ y[2] # c.iface}}
      BY <3>2, <3>3, <3>4
    <3>6. u \in ChildrenUuids(s, plan, c)
      BY <2>1, <3>5 DEF ChildrenUuids, candidates
    <3>7. QED
      BY <3>6
  <2>2. CASE ~(c.iface # None /\ c.iface \in DependsOn(d))
    BY <1>1, <2>2 DEF AtRest, Tidy, OutOfTheWay
  <2>3. QED
    BY <2>1, <2>2
<1>6. ASSUME NEW t \in SlaveTargets(s, c), s.prof[t].iface # None,
             s.prof[u].iface = s.prof[t].iface
      PROVE  FALSE
  <2>1. PICK j \in DOMAIN c.slaves : <<n, j>> \in Places(plan) /\ t = Held(<<n, j>>)
    <3>1. \A w \in SlaveTargets(s, c) :
             \E j \in DOMAIN c.slaves :
                j # 0 /\ <<n, j>> \in Places(plan) /\ w = Held(<<n, j>>)
      BY NextTargets
    <3>2. QED
      BY <3>1
  <2>2. s.prof[t].iface = IfaceAfter(<<n, j>>)
    BY <2>1, HeldFits DEF Shows
  <2>3. m = <<n, j>>
    BY <1>1, <1>6, <2>1, <2>2 DEF AtRest, Tidy, OwnIfaces
  <2>4. QED
    BY <1>1, <2>3
<1>7. ASSUME IsMainOf(s, main, u)
      PROVE  FALSE
  <2>1. prof[u].master # None /\ prof[u].master \in {main, prof[main].iface}
    BY <1>7 DEF IsMainOf, IsSlave, Shows
  <2>2. m[2] # 0
    BY <2>1, HeldFits DEF FitsMain
  <2>3. prof[u].master = Held(<<m[1], 0>>)
    BY <2>2, HeldFits DEF FitsSlave
  <2>4. Held(<<m[1], 0>>) # main
    BY <1>2, HeldOnce
  <2>5. prof[main].iface \in Iface \cup {None} /\ Held(<<m[1], 0>>) \in Uuid
    <3>1. main \in Uuid /\ Held(<<m[1], 0>>) \in Uuid
      BY <1>2, HeldFits
    <3>2. prof[main] \in Prof
      BY <3>1, RestTypes
    <3>3. QED
      BY <3>1, <3>2 DEF Prof
  <2>6. QED
    BY <2>1, <2>3, <2>4, <2>5, UuidAssumption
<1>8. QED
  BY <1>3, <1>4, <1>5, <1>6, <1>7 DEF InTheWay

(* Nothing has to be deleted for any configuration. *)
LEMMA NextClear ==
    ASSUME AtRest, NEW s, Shows(s), NEW n \in DOMAIN plan
    PROVE  DeleteList(s, plan, plan[n],
                      UNION {TargetUuids(s, plan[m]) : m \in 1..(n - 1)}) = {}
<1> DEFINE before == UNION {TargetUuids(s, plan[m]) : m \in 1..(n - 1)}
           keep == Preserved(s, plan, plan[n], before)
           main == Held(<<n, 0>>)
<1>1. ASSUME NEW u \in Listed(s) \ keep
      PROVE  ~InTheWay(s, plan[n], u)
  <2>1. u \in live
    BY DEF Shows
  <2>2. CASE u \notin Owned
    BY <2>1, <2>2, NextUnowned
  <2>3. CASE u \in Owned
    <3>1. PICK m \in Places(plan) : u = Held(m)
      BY <2>3, OwnedHeld
    <3>2. m[1] \in DOMAIN plan /\ m[1] \in Nat \ {0} /\ n \in Nat \ {0}
      BY <3>1, RestTypes, PlacesIn
    <3>3. Held(m) \in TargetUuids(s, plan[m[1]])
      BY <3>1, <3>2, NextTargets
    <3>4. m[1] # n
      BY <1>1, <3>1, <3>3 DEF Preserved
    <3>5. m[1] \notin 1..(n - 1)
      <4>1. u \notin before
        BY <1>1 DEF Preserved
      <4>2. QED
        BY <3>1, <3>3, <4>1
    <3>6. n \in 1..(m[1] - 1)
      BY <3>2, <3>4, <3>5
    <3>7. u \notin ChildrenUuids(s, plan, plan[n])
      BY <1>1 DEF Preserved
    <3>8. QED
      BY <3>1, <3>4, <3>6, <3>7, NextLater
  <2>4. QED
    BY <2>2, <2>3
<1>2. ASSUME NEW t \in SlaveTargets(s, plan[n])
      PROVE  MainTarget(s, plan[n]) # None /\ IsMainOf(s, MainTarget(s, plan[n]), t)
  <2>1. PICK j \in DOMAIN plan[n].slaves : j # 0 /\ <<n, j>> \in Places(plan) /\ t = Held(<<n, j>>)
    BY <1>2, NextTargets
  <2>2. <<n, 0>> \in Places(plan)
    BY DEF Places
  <2>3. MainTarget(s, plan[n]) = main /\ main # None
    BY <2>2, NextMain, HeldFits
  <2>4. prof[t].master = main
    BY <2>1, HeldFits DEF FitsSlave
  <2>5. QED
    BY <2>3, <2>4 DEF IsMainOf, IsSlave, Shows
<1> HIDE DEF before
<1>3. DeleteList(s, plan, plan[n], before) = {}
  BY <1>1, <1>2, NothingToDelete
<1>4. QED
  BY <1>3 DEF before

(* Every connection is in the state that its configuration asks for. *)
LEMMA NextState ==
    ASSUME AtRest, NEW m \in Places(plan), CfgAt(plan, m).state # "unset"
    PROVE  Held(m) \in active <=> CfgAt(plan, m).state = "up"
<1> DEFINE u == Held(m)
           x == <<m[1], m[2], u>>
<1>1. x \in Marks /\ x[3] = u /\ <<x[1], x[2]>> = m
  BY HeldMark, RestTypes, PlacesIn
<1> HIDE DEF x, u
<1>2. x \in Finished
  BY <1>1, RestTypes DEF AtRest, Finished, Enforcing
<1>3. Alone(u)
  <2>1. SUFFICES ASSUME NEW y \in Marks, y[3] # u, prof[u].iface # None,
                        prof[y[3]].iface = prof[u].iface
                 PROVE  FALSE
    BY DEF Alone
  <2> DEFINE q == <<y[1], y[2]>>
  <2>2. q \in Places(plan) /\ y[3] = Held(q)
    BY <2>1, MarkHeld
  <2> HIDE DEF q
  <2>3. prof[u].iface = IfaceAfter(m) /\ prof[y[3]].iface = IfaceAfter(q)
    BY <2>2, HeldFits DEF u
  <2>4. q = m
    BY <2>1, <2>2, <2>3 DEF AtRest, Tidy, OwnIfaces
  <2>5. QED
    BY <2>1, <2>2, <2>4 DEF u
<1>4. u \in active <=> UpAt(m)
  BY <1>1, <1>2, <1>3 DEF AtRest, AsAsked
<1>5. ASSUME AdoptedAt(m), CfgAt(plan, m).state # "up" PROVE FALSE
  <2>1. CfgAt(plan, m).state \in States
    <3>1. plan[m[1]] \in MainCfg /\ m[2] \in {0} \cup DOMAIN plan[m[1]].slaves
      BY RestTypes, PlacesIn
    <3>2. plan[m[1]].slaves \in Seq(SlaveCfg) /\ plan[m[1]].state \in States
      BY <3>1 DEF MainCfg
    <3>3. m[2] # 0 => plan[m[1]].slaves[m[2]] \in SlaveCfg
      BY <3>1, <3>2
    <3>4. QED
      BY <3>2, <3>3 DEF CfgAt, SlaveCfg
  <2>2. CfgAt(plan, m).state = "down"
    BY <1>5, <2>1 DEF States
  <2>3. DownStaysDown
    BY DEF AtRest, Tidy
  <2>4. QED
    BY <1>5, <2>2, <2>3 DEF AdoptedAt, DownStaysDown
<1>6. QED
  BY <1>4, <1>5 DEF UpAt, u

(* So the next run's snapshot shows everything as the plan wants it, when  *)
(* none of its configurations gives startup, which is always written.      *)
NoStartup == \A p \in Plans : \A m \in Places(p) : ~CfgAt(p, m).startup

LEMMA NextConfigured ==
    ASSUME NoStartup, AtRest, Start(plan)
    PROVE  AsConfigured'
<1>1. plan' = plan /\ Shows(snap')
  <2>1. Listed(snap') = live /\ snap'.prof = prof /\ snap'.active = active
    BY StartListed DEF AtRest
  <2>2. PICK order \in [1..Cardinality(live) -> live] : snap'.order = order
    BY DEF Start
  <2>3. Cardinality(live) \in Nat /\ live \subseteq Uuid
    BY RestTypes, FS_CardinalityType DEF AtRest, IInv, Shape
  <2>4. order \in Seq(Uuid)
    BY <2>2, <2>3
  <2>5. QED
    BY <2>1, <2>2, <2>4 DEF Start, Shows
<1>2. ASSUME NEW m \in Places(plan)
      PROVE  TargetAt(m)' = Held(m)
  <2>1. m = <<m[1], m[2]>> /\ m[1] \in DOMAIN plan
    BY RestTypes, PlacesIn
  <2>2. m[2] = 0 => MainTarget(snap', plan[m[1]]) = Held(m)
    BY <1>1, <2>1, NextMain
  <2>3. m[2] # 0 => SlaveTarget(snap', CfgAt(plan, m)) = Held(m)
    BY <1>1, NextSlave
  <2>4. TargetAt(m)' = IF m[2] = 0 THEN MainTarget(snap', plan'[m[1]])
                                   ELSE SlaveTarget(snap', CfgAt(plan', m))
    BY DEF TargetAt
  <2>5. QED
    BY <1>1, <2>2, <2>3, <2>4
<1>3. ASSUME NEW m \in Places(plan)
      PROVE  LET t == Held(m)
                 c == CfgAt(plan, m)
             IN  /\ t # None
                 /\ ~c.startup
                 /\ IF m[2] = 0
                      THEN FitsMain(snap'.prof[t], c)
                      ELSE FitsSlave(snap'.prof[t], c, Held(<<m[1], 0>>))
                 /\ c.state # "unset" => (t \in snap'.active <=> c.state = "up")
  <2>1. ~CfgAt(plan, m).startup
    <3>1. plan \in Plans
      BY RestTypes DEF Places
    <3>2. QED
      BY <3>1 DEF NoStartup
  <2>2. QED
    BY <1>1, <2>1, HeldFits, NextState DEF Shows
<1>4. ASSUME NEW n \in DOMAIN plan
      PROVE  DeleteList(snap', plan, plan[n],
                        UNION {TargetUuids(snap', plan[m]) : m \in 1..(n - 1)}) = {}
  BY <1>1, NextClear
<1>5. ASSUME NEW m \in Places(plan)
      PROVE  <<m[1], 0>> \in Places(plan)
  BY RestTypes, PlacesIn DEF Places
<1>6. \A m \in Places(plan') :
         LET t == TargetAt(m)'
             c == CfgAt(plan', m)
         IN  /\ t # None
             /\ ~c.startup
             /\ IF m[2] = 0 THEN FitsMain(snap'.prof[t], c)
                            ELSE FitsSlave(snap'.prof[t], c, TargetAt(<<m[1], 0>>)')
             /\ c.state # "unset" => (t \in snap'.active <=> c.state = "up")
  BY <1>1, <1>2, <1>3, <1>5
<1>7. QED
  BY <1>1, <1>4, <1>6 DEF AsConfigured

(* A plan whose run has succeeded stays as it was, until the next begins. *)
SettledWell == pc = "idle" /\ settled => outcome = "ok" /\ ~Shared /\ Tidy

LEMMA TidySame ==
    ASSUME UNCHANGED <<plan, snap>>
    PROVE  Tidy' <=> Tidy
BY DEF Tidy, OwnIfaces, OutOfTheWay, NamedApart, NoForeignSlaves, DownStaysDown, IfaceAfter,
   ParentAfter, TargetAt, Strangers, Taken

LEMMA NextConverged ==
    ASSUME NoStartup, IInv, ReportInv, MarksInv, Cleared, Resting, AsAsked,
           SettledWell, Converged, [Next]_vars
    PROVE  SettledWell' /\ Converged'
<1>1. ASSUME NEW p \in Plans, Start(p) PROVE SettledWell' /\ Converged'
  <2>1. SUFFICES ASSUME settled' PROVE AsConfigured'
    BY <1>1 DEF Start, SettledWell, Converged
  <2>2. pc = "idle" /\ settled /\ flips = 0 /\ p = plan
    BY <1>1, <2>1 DEF Start
  <2>3. AtRest
    BY <2>2 DEF AtRest, SettledWell, Clean
  <2>4. QED
    BY <1>1, <2>2, <2>3, NextConfigured
<1>2. CASE \/ DeleteFails \/ ValidateFails \/ MainRaises \/ MainFails \/ SlaveFails
           \/ EnforceMissing \/ CommandFails \/ PollTimeout \/ RunDone \/ Kill
  <2>1. PICK how : End(how)
    BY <1>2 DEF DeleteFails, ValidateFails, MainRaises, MainFails, SlaveFails, EnforceMissing,
       CommandFails, PollTimeout, RunDone, Kill
  <2>2. settled' => how = "ok" /\ ~Shared /\ Tidy
    BY <2>1 DEF End
  <2>3. pc' = "idle" /\ outcome' = how /\ (how = "ok" => UNCHANGED <<plan, snap>>)
    BY <2>1 DEF End
  <2>4. SettledWell'
    BY <2>2, <2>3, TidySame, SharedSame DEF SettledWell
  <2>5. QED
    BY <2>3, <2>4 DEF Converged
<1>3. CASE NmNext
  <2>1. flips' # 0 /\ UNCHANGED <<plan, snap, pc, outcome, settled>>
    BY <1>3 DEF NmNext, NmUp, NmDown, IInv, Shape, TypeOK, runVars
  <2>2. QED
    BY <2>1, TidySame, SharedSame DEF SettledWell, Converged
<1>4. CASE RunNext /\ pc' # "idle"
  <2>1. UNCHANGED <<plan, snap, flips, settled>> /\ pc # "idle"
    BY <1>4 DEF RunNext, ChooseTarget, Delete, DeleteFails, DeletesDone, Validate, ValidateFails,
       AddMain, ModifyMain, KeepMain, MainDone, AddSlave, ModifySlave, KeepSlave, SlaveDone,
       AtSlave, MainRaises, MainFails, SlaveFails, SlavesDone, EnforceMissing, EnforceSkip,
       EnforceNeeded, AtEnforce, CommandUp, CommandDown, CommandFails, PollReached, PollWait,
       PollTimeout, ConnDone, RunDone, End, nmVars, runVars
  <2>2. QED
    BY <1>4, <2>1, ConfiguredSame DEF SettledWell, Converged
<1>5. CASE RunNext /\ pc' = "idle" /\ ~ \/ DeleteFails \/ ValidateFails \/ MainRaises
                                        \/ MainFails \/ SlaveFails \/ EnforceMissing
                                        \/ CommandFails \/ PollTimeout \/ RunDone
  BY <1>5 DEF RunNext, ChooseTarget, Delete, DeletesDone, Validate, AddMain, ModifyMain,
     KeepMain, MainDone, AddSlave, ModifySlave, KeepSlave, SlaveDone, AtSlave, SlavesDone,
     EnforceSkip, EnforceNeeded, AtEnforce, CommandUp, CommandDown, PollReached, PollWait,
     ConnDone, runVars
<1>6. CASE UNCHANGED vars
  <2>1. UNCHANGED <<plan, snap, flips, settled, pc, outcome>>
    BY <1>6 DEF vars
  <2>2. QED
    BY <2>1, ConfiguredSame, TidySame, SharedSame DEF SettledWell, Converged
<1>7. QED
  BY <1>1, <1>2, <1>3, <1>4, <1>5, <1>6 DEF Next

(* What a run that succeeds leaves is what its plan wants, as the          *)
(* selection of the next run sees it, but for the plans that are in their  *)
(* own way (build_target_connection_data and build_delete_conn_list, over  *)
(* a new snapshot in any order).                                           *)
THEOREM WhatIsLeftIsWanted ==
    ASSUME NoStartup
    PROVE  Spec => []Converged
<1> DEFINE Inv == /\ IInv /\ ReportInv /\ MarksInv /\ Cleared /\ Resting /\ AsAsked
                  /\ SettledWell /\ Converged
<1>1. Init => Inv
  <2>1. SUFFICES ASSUME Init PROVE Inv
    OBVIOUS
  <2>2. ~Clean /\ ~settled
    BY <2>1 DEF Init, Clean
  <2>3. ReportInv
    BY <2>1 DEF Init, ReportInv, FreshResult, SlavesTraced, Quiet
  <2>4. QED
    BY <2>1, <2>2, <2>3, InitInv, InitMarks
       DEF Cleared, Resting, AsAsked, SettledWell, Converged
<1>2. Inv /\ [Next]_vars => Inv'
  BY NextInv, NextReport, NextMarks, NextCleared, NextResting, NextAsked, NextConverged
<1>3. QED
  BY <1>1, <1>2, PTL DEF Spec

(* So repeating the plan of a run that succeeded does nothing. *)
THEOREM RepetitionIsIdle ==
    ASSUME NoStartup
    PROVE  Spec => []RerunIsNoop
<1>1. NothingToDo /\ Converged => RerunIsNoop
  BY DEF NothingToDo, Converged, RerunIsNoop
<1>2. QED
  BY <1>1, NothingLeftToDo, WhatIsLeftIsWanted, PTL
=============================================================================

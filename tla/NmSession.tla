------------------------------ MODULE NmSession ------------------------------
(***************************************************************************)
(* nmcli_apply against NetworkManager.  A run of the module parses its     *)
(* plan, takes one snapshot of the connections, and for each configuration *)
(* in turn deletes what is in the way, validates the links, creates or     *)
(* modifies the connection and its slaves, and then brings each of them to *)
(* its state, polling until NetworkManager agrees                          *)
(* (NetworkManagerConfigurator.configure).  Runs follow one another, each  *)
(* with any plan, over whatever the runs before it left behind; a run may  *)
(* fail at any command or be killed between any two steps.                 *)
(*                                                                         *)
(* NetworkManager itself (live, prof, active, stale) is external: it is    *)
(* modelled by the effect of the commands the code sends to it, and by its *)
(* freedom to activate and deactivate connections on its own.              *)
(***************************************************************************)
EXTENDS NmTarget

CONSTANTS
    Plans,      \* the plans a run may be given, as parse() hands them over
    Stores,     \* what NetworkManager may hold at first: [prof, active]
    Phys,       \* interfaces that exist without any connection
    PollMax,    \* state_apply_timeout_secs / state_apply_poll_secs
    FlipMax     \* bound: changes NetworkManager makes of its own in a run

ASSUME SessionAssumption ==
    /\ Plans \subseteq Seq(MainCfg)
    /\ \A p \in Plans : ParsedPlan(p)
    /\ \A st \in Stores :
         /\ DOMAIN st.prof \subseteq Uuid
         /\ IsFiniteSet(DOMAIN st.prof)
         /\ \A u \in DOMAIN st.prof : st.prof[u] \in Prof
         /\ st.active \subseteq DOMAIN st.prof
    /\ Phys \subseteq Iface
    /\ PollMax \in Nat
    /\ FlipMax \in Nat
    /\ None \notin [uuid: Uuid, changed: BOOLEAN, n: Nat]    \* no result is None

VARIABLES
    live,       \* uuids of the connections that exist
    prof,       \* their profiles (Blank for the others)
    active,     \* those NetworkManager reports as activated
    stale,      \* active ones whose profile changed since their activation
    plan,       \* the plan of the current run, or of the last one
    snap,       \* TargetConnectionDataFactory.__connections
    i,          \* which configuration of the plan is being applied
    pc,         \* the step of configure() that comes next
    todel,      \* uuids still to be deleted for it
    res,        \* its MainConfigurationResult
    k,          \* which result is being enforced (slaves first, main last)
    remaining,  \* poll periods left before the state change times out
    results,    \* ConfigurationSession.conn_config_results, in order
    outcome,    \* how the last run ended
    flips,      \* changes NetworkManager made of its own in this run
    settled     \* the last run succeeded, its configurations are not in each
                \* other's way (~Shared, Tidy), and nothing has happened since

nmVars == <<live, prof, active, stale>>
runVars == <<plan, snap, i, todel, res, k, remaining, results, outcome, settled>>
vars == <<live, prof, active, stale, plan, snap, i, pc, todel, res, k,
          remaining, results, outcome, flips, settled>>

Steps == {"idle", "target", "delete", "validate", "main", "slave", "enforce",
          "command", "poll"}

Outcomes == {"none", "ok", "failed", "raised", "killed"}

Blank(type) ==
    [id |-> None, type |-> type, iface |-> None, parent |-> None,
     master |-> None, vid |-> None, ip |-> None]

(* The profile of a uuid that is not in use *)
Gone == Blank("ethernet")

(* One ConnectionConfigurationResult; n is the slave's place in the        *)
(* configuration, 0 for the main connection.                               *)
Result == [uuid: Uuid, changed: BOOLEAN, n: Nat]

(* MainConfigurationResult: the slaves' results, in the order in which they *)
(* were configured, and the main connection's (None until it is            *)
(* configured); deleted is set_changed() called because connections were   *)
(* deleted.                                                                *)
MainResult == [main: Result \cup {None}, slaves: Seq(Result), deleted: BOOLEAN]

NoResult == [main |-> None, slaves |-> <<>>, deleted |-> FALSE]

cfg == plan[i]

Entries(r) == Range(r.slaves) \cup ({r.main} \ {None})

UuidsOf(r) == {e.uuid : e \in Entries(r)}

(* ConfigurationSession.uuids *)
session == UNION {UuidsOf(r) : r \in Range(results)}

(* Mutant: deletions are not reported *)
Mutant_DropsDeleted(r) == \E e \in Entries(r) : e.changed

(* MainConfigurationResult.changed, and the `changed' of the whole run *)
ResultChanged(r) == r.deleted \/ \E e \in Entries(r) : e.changed
RunChanged == \E r \in Range(results) : ResultChanged(r)

-----------------------------------------------------------------------------
(* What the args builders ask of NetworkManager.  want is the profile the  *)
(* configuration describes, laid over the connection data cur that was     *)
(* read in the snapshot: a builder emits a field only when cur differs,    *)
(* and never clears an interface or a master.                              *)
CommonArgs(c, cur) ==
    [cur EXCEPT !.id = c.name,
                !.iface = IF c.iface = None THEN @ ELSE c.iface]

VlanArgs(c, cur) ==
    IF c.type = "vlan"
      THEN [cur EXCEPT !.parent = c.parent, !.vid = c.vid]
      ELSE cur

(* nmcli_args_builder_factory: a main connection has its addressing built, *)
(* a slave its master.                                                     *)
WantMain(c, cur) ==
    VlanArgs(c, [CommonArgs(c, cur) EXCEPT !.ip = Built(c.ip, @)])

(* Mutant: a connection that already has a master keeps it *)
Mutant_KeepsMaster(c, cur, main) ==
    VlanArgs(c, [CommonArgs(c, cur) EXCEPT !.master = IF @ = None THEN main ELSE @])

WantSlave(c, cur, main) ==
    VlanArgs(c, [CommonArgs(c, cur) EXCEPT !.master = main])

(* The builders emit an argument when a field differs, and for autoconnect *)
(* whenever startup is given: the querier has turned nmcli's "yes" into a  *)
(* boolean by then, which map_from_mcli_boolean_value does not recognise.  *)
Needed(c, cur, want) == cur # want \/ c.startup

(* `nmcli connection modify': only the fields that differ from cur are     *)
(* written, over what the profile p holds by now.                          *)
Modified(p, cur, want) ==
    [id     |-> IF cur.id # want.id THEN want.id ELSE p.id,
     type   |-> p.type,
     iface  |-> IF cur.iface # want.iface THEN want.iface ELSE p.iface,
     parent |-> IF cur.parent # want.parent THEN want.parent ELSE p.parent,
     master |-> IF cur.master # want.master THEN want.master ELSE p.master,
     vid    |-> IF cur.vid # want.vid THEN want.vid ELSE p.vid,
     ip     |-> Merged(p.ip, cur.ip, want.ip)]

(* NetworkManager gives a new connection a uuid that nobody has seen, be   *)
(* it as the master that a slave was left with.                            *)
Seen ==
    live \cup {prof[w].master : w \in live} \cup Listed(snap) \cup session
         \cup UuidsOf(res)

(* Links that `ip link' shows: the physical ones and those of the active   *)
(* connections.                                                            *)
Links == Phys \cup {prof[u].iface : u \in active}

(* validate_mandatory_links: Ethernet needs its interface and a VLAN its   *)
(* parent; the slaves are looked at only when the main is neither.         *)
LinksOf(c) ==
    CASE c.type = "ethernet" -> {c.iface}
      [] c.type = "vlan"     -> {c.parent}
      [] OTHER               -> {IF s.type = "vlan" THEN s.parent ELSE s.iface :
                                    s \in SlavesOf(c)}

(* An interface carries one active connection: activating u displaces the  *)
(* one that was on its interface.                                          *)
Displaced(u) ==
    {w \in active \ {u} : prof[w].iface # None /\ prof[w].iface = prof[u].iface}

-----------------------------------------------------------------------------
(* The end of a run.  "failed" is a BaseInfraException reported through    *)
(* fail_json; "raised" is what main() does not catch: the                  *)
(* CommandRunException of a delete, which nothing converts, and the        *)
(* AttributeError of a builder.  The process is gone with all its memory;  *)
(* what a run that succeeded reports stays visible here.                   *)
(* Two configurations of the plan may take over the same connection: one   *)
(* finds it by its name and the other, by whose name none is found, as the *)
(* active one of its interface.  Nothing in the code looks for that, and   *)
(* the second rewrites what the first has configured; the properties below *)
(* that follow what became of a configuration leave such runs out.         *)
TargetAt(m) ==
    IF m[2] = 0 THEN MainTarget(snap, plan[m[1]])
                ELSE SlaveTarget(snap, CfgAt(plan, m))

Shared ==
    \E m, n \in Places(plan) :
        m # n /\ TargetAt(m) # None /\ TargetAt(m) = TargetAt(n)

(* The connections that the configurations of the plan take over *)
Taken == UNION {TargetUuids(snap, c) : c \in Range(plan)}

(* The interface and the parent that the connection of a place ends up     *)
(* with: what its configuration says, or else what it had.                 *)
IfaceAfter(m) ==
    IF CfgAt(plan, m).iface # None \/ TargetAt(m) = None
      THEN CfgAt(plan, m).iface
      ELSE snap.prof[TargetAt(m)].iface

ParentAfter(m) ==
    IF CfgAt(plan, m).type = "vlan" \/ TargetAt(m) = None
      THEN CfgAt(plan, m).parent
      ELSE snap.prof[TargetAt(m)].parent

(* Connections that the plan does not take over, and in which c's clean-up *)
(* finds no interface of c's                                               *)
Strangers(c) ==
    {u \in Listed(snap) \ Taken :
        {snap.prof[u].iface, snap.prof[u].parent} \cap RelatedIfaces(c) = {}}

(* A plan may also be such that its repetition finds something to do.  It  *)
(* does not when, with this snapshot,                                      *)
(*   - no two connections end up on one interface, one of them because its *)
(*     configuration names none;                                           *)
(*   - none ends up on, or with a VLAN on, an interface that an earlier    *)
(*     configuration cleans up, unless that one knows it as its child;     *)
(*   - no stranger has the name and type of a slave (duplicates are looked *)
(*     for by the names of main connections only);                         *)
(*   - no stranger is the slave of the interface of a main connection that *)
(*     has not been its master;                                            *)
(*   - no slave that is to be down is new to a main connection that is to  *)
(*     be up (it is brought up with it, and down by the repetition).       *)
OwnIfaces ==
    \A m, n \in Places(plan) :
        IfaceAfter(m) # None /\ IfaceAfter(m) = IfaceAfter(n) => m = n

OutOfTheWay ==
    \A m \in Places(plan) : \A n \in 1..(m[1] - 1) :
        \/ plan[n].iface # None /\ plan[n].iface \in DependsOn(plan[m[1]])
        \/ {IfaceAfter(m), ParentAfter(m)} \cap RelatedIfaces(plan[n]) = {}

NamedApart ==
    \A m \in Places(plan) : m[2] # 0 =>
        \A u \in Strangers(plan[m[1]]) :
            snap.prof[u].id = CfgAt(plan, m).name
                => snap.prof[u].type # CfgAt(plan, m).type

NoForeignSlaves ==
    \A n \in DOMAIN plan : \A u \in Strangers(plan[n]) :
        IsSlave(snap, u) /\ snap.prof[u].master = IfaceAfter(<<n, 0>>)
            => TargetAt(<<n, 0>>) # None /\ IsMainOf(snap, TargetAt(<<n, 0>>), u)

DownStaysDown ==
    \A m \in Places(plan) :
        m[2] # 0 /\ CfgAt(plan, m).state = "down" /\ plan[m[1]].state = "up"
            => TargetAt(m) # None /\ IsSlave(snap, TargetAt(m))

Tidy ==
    OwnIfaces /\ OutOfTheWay /\ NamedApart /\ NoForeignSlaves /\ DownStaysDown

NoSnap == [order |-> <<>>, prof |-> [u \in Uuid |-> Gone], active |-> {}]

End(how) ==
    /\ pc' = "idle"
    /\ outcome' = how
    /\ settled' = (how = "ok" /\ flips = 0 /\ ~Shared /\ Tidy)
    /\ IF how = "ok"
         THEN UNCHANGED <<plan, snap, results>>
         ELSE plan' = <<>> /\ snap' = NoSnap /\ results' = <<>>
    /\ i' = 1
    /\ todel' = {}
    /\ res' = NoResult
    /\ k' = 0
    /\ remaining' = 0
    /\ UNCHANGED <<live, prof, active, stale, flips>>

Init ==
    /\ \E st \in Stores :
         /\ live = DOMAIN st.prof
         /\ prof = [u \in Uuid |-> IF u \in DOMAIN st.prof THEN st.prof[u]
                                                  ELSE Gone]
         /\ active = st.active
    /\ stale = {}
    /\ plan = <<>>
    /\ snap = NoSnap
    /\ i = 1
    /\ pc = "idle"
    /\ todel = {}
    /\ res = NoResult
    /\ k = 0
    /\ remaining = 0
    /\ results = <<>>
    /\ outcome = "none"
    /\ flips = 0
    /\ settled = FALSE

(* A run begins: main() builds the factory, which lists the connections,   *)
(* and parses the plan.  settled now says that the run repeats a plan that *)
(* succeeded, with nothing done to NetworkManager in between.              *)
Start(p) ==
    /\ pc = "idle"
    /\ \E order \in [1..Cardinality(live) -> live] :
         /\ IsInjective(order)
         /\ snap' = [order |-> order, prof |-> prof, active |-> active]
    /\ plan' = p
    /\ pc' = "target"
    /\ results' = <<>>
    /\ outcome' = "none"
    /\ flips' = 0
    /\ settled' = (settled /\ flips = 0 /\ p = plan)
    /\ UNCHANGED <<nmVars, i, todel, res, k, remaining>>

(* The head of configure(): compute the target and what to delete for it *)
ChooseTarget ==
    /\ pc = "target"
    /\ i <= Len(plan)
    /\ todel' = DeleteList(snap, plan, cfg, session)
    /\ res' = [NoResult EXCEPT !.deleted = (todel' # {})]
    /\ pc' = "delete"
    /\ UNCHANGED <<nmVars, plan, snap, i, k, remaining, results, outcome,
                   flips, settled>>

(* __delete_connections: deleting a connection that is gone is an error *)
Delete(u) ==
    /\ pc = "delete"
    /\ u \in todel
    /\ u \in live
    /\ live' = live \ {u}
    /\ prof' = [prof EXCEPT ![u] = Gone]
    /\ active' = active \ {u}
    /\ stale' = stale \ {u}
    /\ todel' = todel \ {u}
    /\ UNCHANGED <<plan, snap, i, pc, res, k, remaining, results, outcome,
                   flips, settled>>

DeleteFails ==
    /\ pc = "delete"
    /\ todel # {}
    /\ End("raised")

DeletesDone ==
    /\ pc = "delete"
    /\ todel = {}
    /\ pc' = "validate"
    /\ UNCHANGED <<nmVars, runVars, flips>>

Validate ==
    /\ pc = "validate"
    /\ LinksOf(cfg) \subseteq Links
    /\ pc' = "main"
    /\ UNCHANGED <<nmVars, runVars, flips>>

ValidateFails ==
    /\ pc = "validate"
    /\ ~(LinksOf(cfg) \subseteq Links)
    /\ End("failed")

-----------------------------------------------------------------------------
(* _configure_main_connection and _configure_slave, over                   *)
(* _apply_builder_args: add when there is no target, modify when some      *)
(* field of the target differs, and no command at all otherwise.           *)
AddConn(u, p) ==
    /\ u \in Uuid \ Seen
    /\ live' = live \cup {u}
    /\ prof' = [prof EXCEPT ![u] = p]
    /\ UNCHANGED <<active, stale>>

ModifyConn(u, c, want) ==
    /\ u \in live
    /\ Needed(c, snap.prof[u], want)
    /\ prof' = [prof EXCEPT ![u] = Modified(@, snap.prof[u], want)]
    /\ stale' = stale \cup {w \in {u} \cap active : prof'[w] # prof[w]}
    /\ UNCHANGED <<live, active>>

MainDone(u, changed) ==
    /\ res' = [res EXCEPT !.main = [uuid |-> u, changed |-> changed, n |-> 0]]
    /\ pc' = "slave"
    /\ k' = 1
    /\ UNCHANGED <<plan, snap, i, todel, remaining, results, outcome, flips,
                   settled>>

AddMain(u) ==
    /\ pc = "main"
    /\ MainTarget(snap, cfg) = None
    /\ AddConn(u, WantMain(cfg, Blank(cfg.type)))
    /\ MainDone(u, TRUE)

ModifyMain ==
    /\ pc = "main"
    /\ LET t == MainTarget(snap, cfg)
       IN  /\ t # None
           /\ Usable(cfg.ip, snap.prof[t].ip)
           /\ ModifyConn(t, cfg, WantMain(cfg, snap.prof[t]))
           /\ MainDone(t, TRUE)

KeepMain ==
    /\ pc = "main"
    /\ LET t == MainTarget(snap, cfg)
       IN  /\ t # None
           /\ Usable(cfg.ip, snap.prof[t].ip)
           /\ ~Needed(cfg, snap.prof[t], WantMain(cfg, snap.prof[t]))
           /\ MainDone(t, FALSE)
    /\ UNCHANGED nmVars

(* update_slave: a result with the same uuid is replaced *)
WithSlave(slaves, e) ==
    IF \E n \in DOMAIN slaves : slaves[n].uuid = e.uuid
      THEN [n \in DOMAIN slaves |->
              IF slaves[n].uuid = e.uuid THEN e ELSE slaves[n]]
      ELSE Append(slaves, e)

SlaveDone(u, changed) ==
    /\ res' = [res EXCEPT !.slaves =
                WithSlave(@, [uuid |-> u, changed |-> changed, n |-> k])]
    /\ k' = k + 1
    /\ UNCHANGED <<plan, snap, i, pc, todel, remaining, results, outcome,
                   flips, settled>>

AtSlave == pc = "slave" /\ k \in DOMAIN cfg.slaves

AddSlave(u) ==
    /\ AtSlave
    /\ LET c == cfg.slaves[k]
       IN  /\ SlaveTarget(snap, c) = None
           /\ AddConn(u, WantSlave(c, Blank(c.type), res.main.uuid))
    /\ SlaveDone(u, TRUE)

ModifySlave ==
    /\ AtSlave
    /\ LET c == cfg.slaves[k]
           t == SlaveTarget(snap, c)
       IN  /\ t # None
           /\ ModifyConn(t, c, WantSlave(c, snap.prof[t], res.main.uuid))
           /\ SlaveDone(t, TRUE)

KeepSlave ==
    /\ AtSlave
    /\ LET c == cfg.slaves[k]
           t == SlaveTarget(snap, c)
       IN  /\ t # None
           /\ ~Needed(c, snap.prof[t], WantSlave(c, snap.prof[t], res.main.uuid))
           /\ SlaveDone(t, FALSE)
    /\ UNCHANGED nmVars

(* The builder of the addressing raises an AttributeError, which main()    *)
(* does not catch.                                                         *)
MainRaises ==
    /\ pc = "main"
    /\ LET t == MainTarget(snap, cfg)
       IN  t # None /\ BuildRaises(cfg.ip, snap.prof[t].ip)
    /\ End("raised")

(* The add or modify command fails: NmcliInterfaceApplyException.  It must *)
(* when the target is gone, or when an argument is one that nmcli rejects. *)
MainFails ==
    /\ pc = "main"
    /\ LET t == MainTarget(snap, cfg)
       IN  t # None =>
             /\ ~BuildRaises(cfg.ip, snap.prof[t].ip)
             /\ \/ BuildRejected(cfg.ip, snap.prof[t].ip)
                \/ Needed(cfg, snap.prof[t], WantMain(cfg, snap.prof[t]))
    /\ End("failed")

SlaveFails ==
    /\ AtSlave
    /\ LET c == cfg.slaves[k]
           t == SlaveTarget(snap, c)
       IN  t # None => Needed(c, snap.prof[t],
                              WantSlave(c, snap.prof[t], res.main.uuid))
    /\ End("failed")

SlavesDone ==
    /\ pc = "slave"
    /\ k > Len(cfg.slaves)
    /\ pc' = "enforce"
    /\ k' = 1
    /\ UNCHANGED <<nmVars, plan, snap, i, todel, res, remaining, results,
                   outcome, flips, settled>>

-----------------------------------------------------------------------------
(* Mutant: the main connection goes first *)
Mutant_MainFirst == <<res.main>> \o res.slaves

(* __enforce_connection_states: the slaves in the order of their results,  *)
(* then the main connection.                                               *)
ToEnforce == Append(res.slaves, res.main)

Cur == ToEnforce[k]

CfgOf(e) == CfgAt(plan, <<i, e.n>>)

(* __enforce_connection_state_should_enforce_adopted: the slave was not a  *)
(* slave when the snapshot was taken (or did not exist), and its main goes *)
(* up.                                                                     *)
Adopted(e) ==
    /\ e.n # 0
    /\ cfg.state = "up"
    /\ LET t == SlaveTarget(snap, cfg.slaves[e.n])
       IN  t # None => ~IsSlave(snap, t)

ShouldUp(e) == CfgOf(e).state = "up" \/ Adopted(e)

(* Mutant: a connection in its target state is left alone even when its    *)
(* profile was changed                                                     *)
Mutant_IgnoresChange(e) ==
    \/ CfgOf(e).state = "unset" /\ ~Adopted(e)
    \/ ShouldUp(e) <=> e.uuid \in active

(* Mutant: the state is applied even when it is reached *)
Mutant_AlwaysEnforced(e) == CfgOf(e).state = "unset" /\ ~Adopted(e)

LeftAlone(e) ==
    \/ CfgOf(e).state = "unset" /\ ~Adopted(e)
    \/ (ShouldUp(e) <=> e.uuid \in active) /\ ~e.changed

AtEnforce == pc = "enforce" /\ k \in DOMAIN ToEnforce

(* get_connection_details(check_exists=True) *)
EnforceMissing ==
    /\ AtEnforce
    /\ Cur.uuid \notin live
    /\ End("failed")

EnforceSkip ==
    /\ AtEnforce
    /\ Cur.uuid \in live
    /\ LeftAlone(Cur)
    /\ k' = k + 1
    /\ UNCHANGED <<nmVars, plan, snap, i, pc, todel, res, remaining, results,
                   outcome, flips, settled>>

EnforceNeeded ==
    /\ AtEnforce
    /\ Cur.uuid \in live
    /\ ~LeftAlone(Cur)
    /\ pc' = "command"
    /\ UNCHANGED <<nmVars, runVars, flips>>

(* `nmcli connection up': the connection is activated again from its       *)
(* profile, either by the time the command returns or some time later.     *)
CommandUp ==
    /\ pc = "command"
    /\ ShouldUp(Cur)
    /\ LET u == Cur.uuid
       IN  /\ active' \in {(active \ Displaced(u)) \cup {u}, active \ {u}}
           /\ stale' = (stale \ {u}) \cap active'
    /\ remaining' = PollMax
    /\ pc' = "poll"
    /\ UNCHANGED <<live, prof, plan, snap, i, todel, res, k, results, outcome,
                   flips, settled>>

CommandDown ==
    /\ pc = "command"
    /\ ~ShouldUp(Cur)
    /\ active' \in {active \ {Cur.uuid}, active}
    /\ stale' = stale \cap active'
    /\ remaining' = PollMax
    /\ pc' = "poll"
    /\ UNCHANGED <<live, prof, plan, snap, i, todel, res, k, results, outcome,
                   flips, settled>>

CommandFails ==
    /\ pc = "command"
    /\ End("failed")

(* The polling loop of _apply_connection_state *)
PollReached ==
    /\ pc = "poll"
    /\ ShouldUp(Cur) <=> Cur.uuid \in active
    /\ res' = IF k \in DOMAIN res.slaves
                THEN [res EXCEPT !.slaves[k].changed = TRUE]
                ELSE [res EXCEPT !.main.changed = TRUE]
    /\ k' = k + 1
    /\ pc' = "enforce"
    /\ UNCHANGED <<nmVars, plan, snap, i, todel, remaining, results, outcome,
                   flips, settled>>

(* Mutant: one poll too many *)
Mutant_PollsOnceMore ==
    /\ pc = "poll"
    /\ ~(ShouldUp(Cur) <=> Cur.uuid \in active)
    /\ remaining' = remaining - 1
    /\ UNCHANGED <<nmVars, plan, snap, i, pc, todel, res, k, results, outcome,
                   flips, settled>>

(* Mutant: the state is polled for as long as NetworkManager takes *)
Mutant_PollsForever ==
    /\ pc = "poll"
    /\ ~(ShouldUp(Cur) <=> Cur.uuid \in active)
    /\ UNCHANGED vars

PollWait ==
    /\ pc = "poll"
    /\ ~(ShouldUp(Cur) <=> Cur.uuid \in active)
    /\ remaining > 0
    /\ remaining' = remaining - 1
    /\ UNCHANGED <<nmVars, plan, snap, i, pc, todel, res, k, results, outcome,
                   flips, settled>>

PollTimeout ==
    /\ pc = "poll"
    /\ ~(ShouldUp(Cur) <=> Cur.uuid \in active)
    /\ remaining = 0
    /\ End("failed")

(* The tail of configure() and session.add_result *)
ConnDone ==
    /\ pc = "enforce"
    /\ k > Len(ToEnforce)
    /\ results' = Append(results, res)
    /\ res' = NoResult
    /\ i' = i + 1
    /\ pc' = "target"
    /\ k' = 0
    /\ remaining' = 0
    /\ UNCHANGED <<nmVars, plan, snap, todel, outcome, flips,
                   settled>>

RunDone ==
    /\ pc = "target"
    /\ i > Len(plan)
    /\ End("ok")

(* The module's process dies, or its host reboots *)
Kill ==
    /\ pc # "idle"
    /\ End("killed")

-----------------------------------------------------------------------------
(* NetworkManager activates a connection (autoconnect, an activation that  *)
(* was under way) or one goes down (carrier lost, another user).  Only the *)
(* steps that read the activation state can tell when it changes.          *)
AtRead == pc \in {"idle", "validate", "enforce", "poll"} /\ flips < FlipMax

NmUp(u) ==
    /\ AtRead
    /\ u \in live \ active
    /\ active' = (active \ Displaced(u)) \cup {u}
    /\ stale' = stale \cap active'
    /\ flips' = flips + 1
    /\ UNCHANGED <<live, prof, runVars, pc>>

NmDown(u) ==
    /\ AtRead
    /\ u \in active
    /\ active' = active \ {u}
    /\ stale' = stale \ {u}
    /\ flips' = flips + 1
    /\ UNCHANGED <<live, prof, runVars, pc>>

(* The steps of a run: a command that can fail either fails or has its     *)
(* effect.                                                                 *)
RunNext ==
    \/ ChooseTarget \/ (\E u \in Uuid : Delete(u)) \/ DeleteFails
    \/ DeletesDone \/ Validate \/ ValidateFails
    \/ (\E u \in Uuid : AddMain(u)) \/ ModifyMain \/ KeepMain
    \/ (\E u \in Uuid : AddSlave(u)) \/ ModifySlave \/ KeepSlave
    \/ MainRaises \/ MainFails \/ SlaveFails \/ SlavesDone
    \/ EnforceMissing \/ EnforceSkip \/ EnforceNeeded
    \/ CommandUp \/ CommandDown \/ CommandFails
    \/ PollReached \/ PollWait \/ PollTimeout
    \/ ConnDone \/ RunDone

NmNext == \E u \in Uuid : NmUp(u) \/ NmDown(u)

Next ==
    \/ \E p \in Plans : Start(p)
    \/ RunNext
    \/ Kill
    \/ NmNext

Spec == Init /\ [][Next]_vars

(* A run that is not killed keeps going: every step is the next statement  *)
(* of a sequential program, and a command returns.  Nothing obliges        *)
(* NetworkManager to change anything, nor anybody to start a run.          *)
FairSpec == Spec /\ WF_vars(RunNext)

-----------------------------------------------------------------------------
(* TypeOK: the shape of the state of NetworkManager and of a run           *)
(* (ConfigurationSession, MainConfigurationResult, the poll counter of     *)
(* _apply_connection_state): what is active exists, and the counter stays  *)
(* within the configured number of polls.                                  *)
TypeOK ==
    /\ live \subseteq Uuid
    /\ prof \in [Uuid -> Prof]
    /\ active \subseteq live
    /\ stale \subseteq active
    /\ plan \in Plans \cup {<<>>}
    /\ snap \in Snapshot
    /\ i \in Nat \ {0}
    /\ pc \in Steps
    /\ todel \subseteq Uuid
    /\ res \in MainResult
    /\ results \in Seq(MainResult)
    /\ k \in Nat
    /\ remaining \in 0..PollMax
    /\ outcome \in Outcomes
    /\ flips \in 0..FlipMax
    /\ settled \in BOOLEAN

(* SessionKept: a connection that this run has already configured is still *)
(* there for as long as the run goes on, whatever the later configurations *)
(* delete (build_delete_conn_list: "Preserves the already configured       *)
(* ones").                                                                 *)
SessionKept == pc # "idle" => session \subseteq live

(* FutureTargetsKept: what is deleted for one configuration is never the   *)
(* connection that a later configuration of the plan will take over        *)
(* (build_delete_conn_list: "Preserves the ones that are going to be       *)
(* configured after the current one").                                     *)
FutureTargetsKept ==
    pc = "delete" =>
        \A n \in (i + 1)..Len(plan) : TargetUuids(snap, plan[n]) \cap todel = {}

(* DependentsKept: what is deleted for one configuration is never the      *)
(* connection that a later one will take over, when that one depends on    *)
(* its interface (__get_children_uuids: a VLAN over it, a bridge it is to  *)
(* be a port of, and the slaves of those).                                 *)
DependentsKept ==
    pc = "delete" =>
        \A n \in (i + 1)..Len(plan) :
            cfg.iface # None /\ cfg.iface \in DependsOn(plan[n])
                => TargetUuids(snap, plan[n]) \cap todel = {}

(* A connection of the snapshot that has nothing to do with the plan: it   *)
(* has none of its names, neither sits nor has a VLAN on an interface that *)
(* the plan relates to, shares no interface with a connection that is      *)
(* taken over, and is no master or slave of another connection.            *)
Bystander(u) ==
    LET used == (UNION {{CfgAt(plan, m).iface, CfgAt(plan, m).parent} :
                           m \in Places(plan)}) \ {None}
    IN  /\ u \in Listed(snap)
        /\ \A m \in Places(plan) : snap.prof[u].id # CfgAt(plan, m).name
        /\ snap.prof[u].iface \notin used
        /\ snap.prof[u].parent \notin used
        /\ \A x \in Taken : snap.prof[x].iface # None
                             => snap.prof[u].iface # snap.prof[x].iface
        /\ \A x \in Listed(snap) : ~IsMainOf(snap, x, u) /\ ~IsMainOf(snap, u, x)

(* BystandersUntouched: no step of a run deletes or rewrites a connection  *)
(* that has nothing to do with its plan (build_delete_conn_list removes    *)
(* only what interferes with the connections it configures).               *)
BystandersUntouched ==
    [][\A u \in Uuid :
          pc # "idle" /\ Bystander(u) /\ u \in live
              => u \in live' /\ prof'[u] = prof[u]]_vars

Succeeded == pc = "idle" /\ outcome = "ok" /\ ~Shared

(* ChangeReported: a run that reports no change has left every connection  *)
(* as it found it; the flag is gathered from the deletions, the builders'  *)
(* arguments and the state changes of every connection and slave.          *)
ChangeReported ==
    Succeeded /\ ~RunChanged =>
        /\ live = Listed(snap)
        /\ prof = snap.prof
        /\ flips = 0 => active = snap.active

(* The profile p has what the configuration c asks for. *)
Fits(p, c) ==
    /\ p.id = c.name
    /\ p.type = c.type
    /\ c.iface # None => p.iface = c.iface
    /\ c.type = "vlan" => p.parent = c.parent /\ p.vid = c.vid

FitsMain(p, c) == Fits(p, c) /\ p.ip = Described(c.ip) /\ p.master = None

FitsSlave(p, c, main) == Fits(p, c) /\ p.master = main

(* Applied: when a run succeeds, every configuration has a connection of   *)
(* its own that carries it, and so has every slave of it, attached to it.  *)
(* What makes it hard is that builders compare with the snapshot, not with *)
(* what the connection holds by then, and that a result may replace one of *)
(* the same uuid.                                                          *)
Applied ==
    Succeeded =>
      /\ Len(results) = Len(plan)
      /\ \A n \in DOMAIN results :
           LET r == results[n] IN
           /\ r.main.uuid \in live
           /\ FitsMain(prof[r.main.uuid], plan[n])
           /\ {e.n : e \in Range(r.slaves)} = DOMAIN plan[n].slaves
           /\ \A e \in Range(r.slaves) :
                /\ e.uuid \in live
                /\ FitsSlave(prof[e.uuid], plan[n].slaves[e.n], r.main.uuid)
           /\ \A m \in DOMAIN results :
                UuidsOf(results[m]) \cap UuidsOf(r) # {} => m = n

(* No other connection that the run has configured sits on the interface  *)
(* of u: a configuration without an interface keeps the one its connection *)
(* has, which may be another's, and activating either takes the other down.*)
AloneOnIface(u) ==
    \A w \in session \ {u} : prof[w].iface = None \/ prof[w].iface # prof[u].iface

(* StatesReached: when a run succeeds, no connection it changed and whose  *)
(* state it was to handle still runs with the settings it had before; and, *)
(* unless NetworkManager changed something of its own, each main           *)
(* connection that shares its interface with no other of the run is up or  *)
(* down as configured.                                                     *)
StatesReached ==
    Succeeded =>
      \A n \in DOMAIN results :
        /\ \A e \in Entries(results[n]) :
             e.changed /\ CfgAt(plan, <<n, e.n>>).state # "unset"
                 => e.uuid \notin stale
        /\ flips = 0 /\ plan[n].state # "unset" /\ AloneOnIface(results[n].main.uuid) =>
             (results[n].main.uuid \in active <=> plan[n].state = "up")

(* SettingsRun: when a run succeeds, a connection that is to be up runs    *)
(* with the settings of its profile ("some properties are applied only     *)
(* when the connection is explicitly activated").                          *)
SettingsRun ==
    Succeeded =>
      \A n \in DOMAIN results :
        plan[n].state = "up" => results[n].main.uuid \notin stale

(* AdoptedFirst: a main connection is only brought up when the slaves it   *)
(* has adopted do not run any more with the settings they had as           *)
(* connections of their own ("slaves need to be activated before the main  *)
(* connection").                                                           *)
AdoptedFirst ==
    pc = "command" /\ Cur.n = 0 /\ ShouldUp(Cur) =>
        \A e \in Range(res.slaves) : Adopted(e) => e.uuid \notin stale

(* LostMainsGone: a connection all of whose slaves a successful run has    *)
(* deleted is deleted too (__fetch_owned_unknown_connections: "Try to      *)
(* remove their main connections if no more interfaces are attached"),     *)
(* when one configuration has the interfaces of all of them; if each has   *)
(* some, none of them sees the last one go (NoEmptiedMain).                *)
LostMainsGone ==
    Succeeded =>
      \A m \in Listed(snap) \ session :
        /\ Group(snap, m) # {}
        /\ Group(snap, m) \cap live = {}
        /\ \E c \in Range(plan) : \A u \in Group(snap, m) :
              snap.prof[u].iface \in RelatedIfaces(c)
        => m \notin live

(* NoEmptiedMain: the same whoever has deleted the slaves, and when they   *)
(* were moved to another main instead ("Check, if all the slaves of the    *)
(* main connection are gone.  If so, we can get rid of it").               *)
NoEmptiedMain ==
    Succeeded =>
      \A m \in (Listed(snap) \cap live) \ session :
        Group(snap, m) # {} =>
            \E u \in live : prof[u].master \in {m, prof[m].iface} \ {None}

(* RerunIsNoop: repeating the plan of a run that succeeded, with nothing   *)
(* done to NetworkManager in between, deletes nothing, changes nothing and *)
(* commands nothing, but for the plans that are in their own way (Shared,  *)
(* Tidy).                                                                  *)
RerunIsNoop ==
    pc # "idle" /\ settled /\ flips = 0 =>
        /\ todel = {}
        /\ live = Listed(snap)
        /\ prof = snap.prof
        /\ pc # "command"

(* The snapshot of the run shows everything as the plan wants it: each     *)
(* configuration and slave finds a connection that carries it and is in    *)
(* the state it asks for, and nothing has to be deleted.                   *)
AsConfigured ==
    /\ \A m \in Places(plan) :
         LET t == TargetAt(m)
             c == CfgAt(plan, m)
         IN  /\ t # None
             /\ ~c.startup
             /\ IF m[2] = 0 THEN FitsMain(snap.prof[t], c)
                            ELSE FitsSlave(snap.prof[t], c, TargetAt(<<m[1], 0>>))
             /\ c.state # "unset" => (t \in snap.active <=> c.state = "up")
    /\ \A n \in DOMAIN plan :
         DeleteList(snap, plan, plan[n],
                    UNION {TargetUuids(snap, plan[m]) : m \in 1..(n - 1)}) = {}

(* Converged: a run that succeeds leaves everything as its plan wants it,  *)
(* as the selection of the next run, which starts from a new snapshot in   *)
(* another order, sees it (with the exceptions of Shared and Tidy).        *)
Converged == pc # "idle" /\ settled /\ flips = 0 => AsConfigured

(* NeverRaises: the builder of the addressing never meets a profile that   *)
(* is disabled and keeps its default route off, on which it breaks when    *)
(* the configuration has no addressing either: no run leaves such a        *)
(* profile behind, whatever the runs before it did to the connection.      *)
NeverRaises ==
    pc = "main" =>
        LET t == MainTarget(snap, cfg)
        IN  t # None => ~BuildRaises(cfg.ip, snap.prof[t].ip)

(* RunEnds: a run ends, whatever NetworkManager does.                      *)
RunEnds == pc # "idle" ~> pc = "idle"
=============================================================================

------------------------------- MODULE NmTarget -------------------------------
(***************************************************************************)
(* Which existing NetworkManager connection a configuration takes over,    *)
(* and which ones it removes first: TargetConnectionDataFactory and the    *)
(* filters of nmcli_filters.  Everything here is a function of             *)
(*   - s, the SNAPSHOT of the connections that the factory takes in its    *)
(*     constructor, once for the whole run: s.order is the order in which  *)
(*     nmcli listed them, s.prof their profiles, s.active those whose      *)
(*     general.state was "activated";                                      *)
(*   - the configurations, and the uuids configured so far in the run.     *)
(***************************************************************************)
EXTENDS NetConfig, FiniteSetsExt

CONSTANT Uuid           \* connection uuids

ASSUME UuidAssumption == None \notin Uuid /\ Uuid \cap Iface = {}

(* A connection profile.  master is what connection.master holds: a uuid,  *)
(* an interface name, or nothing.                                          *)
Prof ==
    [id: Name \cup {None}, type: Types, iface: Iface \cup {None},
     parent: Iface \cup {None}, master: Uuid \cup Iface \cup {None},
     vid: VlanId \cup {None}, ip: IpSetting \cup {None}]

Snapshot ==
    [order: Seq(Uuid), prof: [Uuid -> Prof], active: SUBSET Uuid]

Listed(s) == Range(s.order)

(* Python's next((conn for conn in connections if ...), None): the first   *)
(* connection of the listing that is in S.                                 *)
FirstOf(s, S) ==
    LET hits == {n \in DOMAIN s.order : s.order[n] \in S}
    IN  IF hits = {} THEN None ELSE s.order[Min(hits)]

IsSlave(s, u) == s.prof[u].master # None

(* is_main_connection_of: the master may be given by uuid or by interface *)
IsMainOf(s, m, u) ==
    /\ IsSlave(s, u)
    /\ \/ s.prof[u].master = m
       \/ s.prof[u].master = s.prof[m].iface

Mains(s) == {u \in Listed(s) : ~IsSlave(s, u)}

(* first_connection_with_name_and_type, active ones first; among is every  *)
(* listed connection, or the mains when is_main_conn is given.             *)
FirstNamed(s, among, name, type) ==
    LET named == {u \in among : s.prof[u].id = name /\ s.prof[u].type = type}
        up == named \cap s.active
    IN  FirstOf(s, IF up # {} THEN up ELSE named)

(* __is_connection_for_target_active_type_iface *)
ActiveOnIface(s, c) ==
    {u \in Listed(s) : /\ c.iface # None
                       /\ s.prof[u].iface = c.iface
                       /\ u \in s.active
                       /\ s.prof[u].type = c.type}

(* The connection a main configuration takes over: never a slave *)
MainTarget(s, c) ==
    LET byName == FirstNamed(s, Mains(s), c.name, c.type)
    IN  IF byName # None
          THEN byName
          ELSE FirstOf(s, ActiveOnIface(s, c) \cap Mains(s))

(* The connection a slave configuration takes over: main or slave *)
SlaveTarget(s, c) ==
    LET byName == FirstNamed(s, Listed(s), c.name, c.type)
    IN  IF byName # None THEN byName ELSE FirstOf(s, ActiveOnIface(s, c))

SlaveTargets(s, c) == {SlaveTarget(s, d) : d \in SlavesOf(c)} \ {None}

(* TargetConnectionData.uuids *)
TargetUuids(s, c) == ({MainTarget(s, c)} \ {None}) \cup SlaveTargets(s, c)

-----------------------------------------------------------------------------
(* Mutant: the configurations that come later are not looked at *)
Mutant_NoChildren(s, p, c) == {}

(* __get_children_uuids: the targets of the configurations of the plan p   *)
(* that depend on c's interface, except those that sit on that interface.  *)
ChildrenUuids(s, p, c) ==
    LET children == {d \in Range(p) : c.iface \in DependsOn(d)}
        candidates == {<<MainTarget(s, d), d.iface>> : d \in children}
          \cup UNION {{<<SlaveTarget(s, e), e.iface>> : e \in SlavesOf(d)}
                        : d \in children}
    IN  IF c.iface = None
          THEN {}
          ELSE {t[1] : t \in {x \in candidates :
                                /\ x[1] # None
                                /\ x[1] # MainTarget(s, c)
                                /\ x[2] # c.iface}}

(* Mutant: what was configured in the session is not preserved *)
Mutant_ForgetsSession(s, p, c, session) ==
    TargetUuids(s, c) \cup ChildrenUuids(s, p, c)

(* What configuring c must not delete *)
Preserved(s, p, c, session) ==
    TargetUuids(s, c) \cup session \cup ChildrenUuids(s, p, c)

(* __build_main_conns_dict: each slave is filed under the first listed     *)
(* main connection that is its master.                                     *)
MainUuidOf(s, u) ==
    FirstOf(s, {m \in Mains(s) : IsMainOf(s, m, u)})

Group(s, m) == {u \in Listed(s) : IsSlave(s, u) /\ MainUuidOf(s, u) = m}

(* Mutant: mains that lose their last slave are left behind *)
Mutant_KeepsEmptied(s, c, keep) ==
    {u \in Listed(s) \ keep :
        \/ s.prof[u].iface \in RelatedIfaces(c)
        \/ s.prof[u].parent \in RelatedIfaces(c)}

(* __fetch_owned_unknown_connections: connections on, or with a VLAN on,   *)
(* an interface that c manages, and the mains they leave without slaves.   *)
OwnedUnknown(s, c, keep) ==
    LET related == {u \in Listed(s) \ keep :
                      \/ s.prof[u].iface \in RelatedIfaces(c)
                      \/ s.prof[u].parent \in RelatedIfaces(c)}
        lost == {u \in related : IsSlave(s, u)}
        emptied == {m \in Listed(s) \ keep :
                      /\ Group(s, m) # {}
                      /\ Group(s, m) \subseteq lost}
    IN  related \cup (IF lost # {} THEN emptied ELSE {})

Duplicated(s, c, keep) == {u \in Listed(s) \ keep : s.prof[u].id = c.name}

(* __fetch_for_free_main_connection: the main that the target t of a slave *)
(* configuration leaves, when t was the last slave it had.  main is c's    *)
(* target, gone the connections already scheduled for deletion.            *)
FreedMain(s, main, t, gone, keep) ==
    IF t = None \/ main = None \/ IsMainOf(s, main, t)
      THEN {}
      ELSE LET current == FirstOf(s, {m \in Listed(s) : IsMainOf(s, m, t)})
           IN  IF /\ current # None
                  /\ Group(s, current) # {}
                  /\ Group(s, current) \subseteq {t} \cup gone
                 THEN {current} \ keep
                 ELSE {}

(* __fetch_target_conn_slaves_related: what else sits on the interfaces of *)
(* the taken-over slaves, the mains these slaves leave empty, and the      *)
(* slaves of c's target that c no longer lists.                            *)
SlavesRelated(s, c, gone, keep) ==
    LET main == MainTarget(s, c)
        targets == SlaveTargets(s, c)
        sameIface == {u \in Listed(s) \ keep :
                        \E t \in targets : /\ s.prof[t].iface # None
                                           /\ s.prof[u].iface = s.prof[t].iface}
        freed == UNION {FreedMain(s, main, t, gone, keep) : t \in targets}
        dropped == {u \in Listed(s) \ keep : main # None /\ IsMainOf(s, main, u)}
    IN  sameIface \cup freed \cup dropped

(* build_delete_conn_list *)
DeleteList(s, p, c, session) ==
    LET keep == Preserved(s, p, c, session)
        gone == Duplicated(s, c, keep) \cup OwnedUnknown(s, c, keep)
    IN  gone \cup SlavesRelated(s, c, gone, keep)
=============================================================================

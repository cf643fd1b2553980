------------------------------ MODULE NetConfig ------------------------------
(***************************************************************************)
(* The parsed configuration that nmcli_apply works from: one record per    *)
(* connection of the `connections' dictionary, after                       *)
(* net_config.ConnectionConfigFactory has built it.  Field parsing and its *)
(* error texts are left out; what the rest of the program reads of a       *)
(* parsed configuration is kept, with the two derived attributes that      *)
(* drive ordering and clean-up (depends_on and related_interfaces).        *)
(***************************************************************************)
EXTENDS IpSettings, Functions

CONSTANTS
    Name,       \* connection names (the keys of the `connections' dictionary)
    Iface,      \* interface names
    VlanId      \* VLAN ids

ASSUME NoneAssumption ==
    /\ None \notin Name
    /\ None \notin Iface
    /\ None \notin VlanId

Types == {"ethernet", "vlan", "bridge"}

(* FIELD_STATE: up, down, or not given *)
States == {"up", "down", "unset"}

(* A slave's configuration.  It has no addressing of its own.  startup     *)
(* says whether FIELD_STARTUP (autoconnect) is given.                      *)
SlaveCfg ==
    [name: Name, type: {"ethernet", "vlan"}, iface: Iface \cup {None},
     parent: Iface \cup {None}, vid: VlanId \cup {None}, state: States,
     startup: BOOLEAN]

MainCfg ==
    [name: Name, type: Types, iface: Iface \cup {None},
     parent: Iface \cup {None}, vid: VlanId \cup {None},
     ip: IpConfig \cup {None}, state: States, startup: BOOLEAN,
     slaves: Seq(SlaveCfg)]

(* What the constructors of the Ethernet and VLAN configurations insist on *)
WellFormed(c) ==
    /\ c.type = "ethernet" => c.iface # None
    /\ c.type = "vlan" => c.parent # None /\ c.parent # c.iface /\ c.vid # None
    /\ c.type # "vlan" => c.parent = None /\ c.vid = None

(* The dependencies of a configuration alone: its interface, or, for a     *)
(* VLAN, the parent interface instead.                                     *)
OwnDeps(c) == (IF c.type = "vlan" THEN {c.parent} ELSE {c.iface}) \ {None}

(* Mutant: an absent interface counts as one.  (The Mutant definitions of  *)
(* these modules are slips that the checked properties must notice; the    *)
(* specification does not use them.)                                       *)
Mutant_RelatesNone(c) == {c.iface, c.parent}

(* _related_interfaces of a configuration alone *)
OwnRelated(c) == {c.iface, c.parent} \ {None}

SlavesOf(c) == Range(c.slaves)

(* BaseConnectionConfig.depends_on once the slaves have been added *)
DependsOn(c) == OwnDeps(c) \cup UNION {OwnDeps(s) : s \in SlavesOf(c)}

(* BaseConnectionConfig.related_interfaces once the slaves have been added *)
RelatedIfaces(c) == OwnRelated(c) \cup UNION {OwnRelated(s) : s \in SlavesOf(c)}

(* The configurations of a plan and their slaves, each with its place: the *)
(* n-th connection is at <<n, 0>>, its j-th slave at <<n, j>>.             *)
Places(p) ==
    UNION {{<<n, j>> : j \in {0} \cup DOMAIN p[n].slaves} : n \in DOMAIN p}

CfgAt(p, m) == IF m[2] = 0 THEN p[m[1]] ELSE p[m[1]].slaves[m[2]]

(* __validate_connection_names: no slave takes the name of a connection or *)
(* of another slave (main names are dictionary keys).                      *)
UniqueNames(p) ==
    \A m, n \in Places(p) : CfgAt(p, m).name = CfgAt(p, n).name => m = n

(* __validate_interfaces_references_uniqueness: an interface is the own    *)
(* interface of one configuration only.                                    *)
UniqueIfaces(p) ==
    \A m, n \in Places(p) :
        CfgAt(p, m).iface # None /\ CfgAt(p, m).iface = CfgAt(p, n).iface
            => m = n

(* The order that __sort_connections is after: what a configuration        *)
(* depends on, when the plan provides it, comes before it.                 *)
DependenciesFirst(p) ==
    \A m, n \in DOMAIN p :
        p[m].iface # None /\ p[m].iface \in DependsOn(p[n]) => m <= n

(* What ConnectionsConfigurationHandler.parse hands over *)
ParsedPlan(p) ==
    /\ \A m \in Places(p) : WellFormed(CfgAt(p, m))
    /\ UniqueNames(p)
    /\ UniqueIfaces(p)
    /\ DependenciesFirst(p)
=============================================================================

----------------------------- MODULE MCNmSession -----------------------------
(***************************************************************************)
(* NmSession on small instances: two physical interfaces, what a machine   *)
(* may have on them at first, and plans that take over each other's        *)
(* connections.                                                            *)
(***************************************************************************)
EXTENDS NmSession, TLC

CONSTANTS a, b, s, y, v, w, wired,          \* names
          eth0, eth1, br0, vl0, vl1,        \* interfaces
          ip1, gw1, ns1, rt1,               \* addresses and a route
          u1, u2, u3, u4, u5                \* uuids

MCName == {a, b, s, y, v, w, wired}
MCIface == {eth0, eth1, br0, vl0, vl1}
MCAddress == {ip1}
MCGateway == {gw1}
MCServer == {ns1}
MCRoute == {rt1}
FiveUuids == {u1, u2, u3, u4, u5}
FourUuids == {u1, u2, u3, u4}
ThreeUuids == {u1, u2, u3}
MCPhys == {eth0, eth1}

(* Sound where no property tells uuids apart: Init takes Stores as it is,  *)
(* so the stores below name uuids only to tell their connections apart,    *)
(* and a permuted store leads to permuted behaviours.                      *)
UuidSymmetry == Permutations(Uuid)

(* Addressing: static, without a default route; automatic, which says      *)
(* nothing of the default route; and none (None)                           *)
Static ==
    [mode |-> "manual", ip |-> ip1, gw |-> gw1, dns |-> <<>>,
     routes |-> <<rt1>>, disable_default_route |-> "yes"]
Dhcp ==
    [mode |-> "auto", ip |-> None, gw |-> None, dns |-> <<ns1>>,
     routes |-> <<>>, disable_default_route |-> "unset"]

(* Configurations *)
Main(n, type, f, q, id, o, st, sl) ==
    [name |-> n, type |-> type, iface |-> f, parent |-> q, vid |-> id,
     ip |-> o, state |-> st, startup |-> FALSE, slaves |-> sl]
Eth(n, f, o, st) == Main(n, "ethernet", f, None, None, o, st, <<>>)
Vlan(n, f, q, id, o, st) == Main(n, "vlan", f, q, id, o, st, <<>>)
Bridge(n, f, o, st, sl) == Main(n, "bridge", f, None, None, o, st, sl)
EthSlave(n, f) ==
    [name |-> n, type |-> "ethernet", iface |-> f, parent |-> None,
     vid |-> None, state |-> "unset", startup |-> FALSE]

(* Profiles *)
EthProf(n, f) == [Blank("ethernet") EXCEPT !.id = n, !.iface = f, !.ip = Fresh]
BridgeProf(n, f) == [Blank("bridge") EXCEPT !.id = n, !.iface = f, !.ip = Fresh]
PortProf(n, f, m) ==
    [Blank("ethernet") EXCEPT !.id = n, !.iface = f, !.master = m]

(* What an installer leaves on the first interface: nothing, one           *)
(* connection next to one that no plan has to do with, or two of which one *)
(* has a name the plans use; and somebody's bridge, whose port names it by *)
(* its interface.                                                          *)
EmptyStore == [prof |-> <<>>, active |-> {}]
WiredStore ==
    [prof |-> u1 :> EthProf(wired, eth0) @@ u2 :> EthProf(w, None),
     active |-> {u1}]
TwoWired ==
    [prof |-> u1 :> EthProf(wired, eth0) @@ u2 :> EthProf(a, eth0),
     active |-> {u1}]
OldBridge ==
    [prof |-> u1 :> BridgeProf(wired, br0) @@ u2 :> PortProf(s, eth0, br0),
     active |-> {u1, u2}]
(* the same on an interface that no plan names, its port not one of theirs *)
(* and either up, so that they take it over, or down, so that they do not  *)
OtherBridge(up) ==
    [prof |-> u1 :> BridgeProf(wired, vl1) @@ u2 :> PortProf(w, eth0, vl1),
     active |-> up]

(* a port's connection on another interface than its configuration gives   *)
MovedPort ==
    [prof |-> u1 :> EthProf(s, eth1) @@ u2 :> EthProf(w, eth1), active |-> {}]

(* addressing that only a hand could have left: disabled, and yet with the *)
(* default route turned off                                                *)
HandMade ==
    [prof |-> u1 :> [Blank("vlan") EXCEPT
                        !.id = y, !.iface = vl1, !.parent = eth0, !.vid = 11,
                        !.ip = [Described(None) EXCEPT !.never_default = "yes"]],
     active |-> {}]

InstalledStores == {EmptyStore, WiredStore, TwoWired, OldBridge, MovedPort}
EmptyStores == {EmptyStore}
SiblingStores == {EmptyStore, HandMade, WiredStore}
BridgeStores == {EmptyStore} \cup {OtherBridge(up) : up \in {{}, {u1, u2}}}

(* An interface used as it is, bridged under the same name, and carrying a *)
(* VLAN: each plan takes over what the others leave.                       *)
ReusePlans ==
    { << Eth(a, eth0, Static, "up") >>,
      << Bridge(a, br0, Dhcp, "up", << EthSlave(s, eth0) >>) >>,
      << Eth(a, eth0, None, "down"), Vlan(v, vl0, eth0, 10, Dhcp, "up") >>,
      << Eth(a, eth0, Dhcp, "unset") >> }

(* A bridge that carries a VLAN, which it cannot while it is down; one     *)
(* with two ports and no interface name, whose state is not handled.       *)
BridgePlans ==
    { << Bridge(b, br0, Dhcp, st, << EthSlave(s, eth0) >>),
         Vlan(v, None, br0, 10, Dhcp, "up") >> : st \in {"up", "down"} }
    \cup
    { << Bridge(b, None, Dhcp, "unset", << EthSlave(s, eth0), EthSlave(y, eth1) >>) >> }

(* Plans that get in their own way: two VLANs on an interface that the     *)
(* plan does not manage, which delete each other's connection; and two     *)
(* connections of which one has the name that the installer gave to the    *)
(* other's interface, so that both take over the installer's connection.   *)
SiblingVlans ==
    { << Vlan(v, vl0, eth0, 10, Dhcp, "up"),
         Vlan(y, vl1, eth0, 11, None, "down") >> }
MovedName ==
    { << Eth(a, eth0, Dhcp, "up"), Eth(wired, eth1, Dhcp, "up") >> }
EntangledPlans == SiblingVlans \cup MovedName

(* A port moves to a bridge of another name *)
RebridgePlans ==
    { << Bridge(b, None, Dhcp, "unset", << EthSlave(s, eth0), EthSlave(y, eth1) >>) >> }
RebridgeStores == {OldBridge}

(* One interface, its settings changed while it is up; and with startup *)
EditPlans == { << Eth(a, eth0, o, "up") >> : o \in {Static, None} }
StartupPlans == { << [Eth(a, eth0, Static, "up") EXCEPT !.startup = TRUE] >> }
=============================================================================

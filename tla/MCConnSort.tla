------------------------------ MODULE MCConnSort ------------------------------
(***************************************************************************)
(* ConnSort over every dictionary of up to three of the connections below, *)
(* in every order.                                                         *)
(***************************************************************************)
EXTENDS ConnSort, SequencesExt

CONSTANTS a, b, c, d, e, f, g, h, s, t,     \* names
          eth0, eth1, br0, vl0, vl1         \* interfaces

MCName == {a, b, c, d, e, f, g, h, s, t}
MCIface == {eth0, eth1, br0, vl0, vl1}
VidOf(type) == IF type = "vlan" THEN 10 ELSE None

Slave(n, type, if, q) ==
    [name |-> n, type |-> type, iface |-> if, parent |-> q, vid |-> VidOf(type),
     state |-> "unset", startup |-> FALSE]
Main(n, type, if, q, sl) ==
    [name |-> n, type |-> type, iface |-> if, parent |-> q,
     vid |-> VidOf(type), ip |-> None, state |-> "up", startup |-> FALSE, slaves |-> sl]

(* An interface as it is, a VLAN over it, a VLAN over that, a VLAN of no   *)
(* name over a bridge; a bridge over one VLAN and one that makes the       *)
(* dependencies circular; a bridge with nothing; and an interface again,   *)
(* that is a bridge's port or another's.                                   *)
Catalogue ==
    { Main(a, "ethernet", eth0, None, <<>>),
      Main(b, "vlan", vl0, eth0, <<>>),
      Main(c, "vlan", vl1, vl0, <<>>),
      Main(d, "vlan", None, br0, <<>>),
      Main(e, "bridge", br0, None,
           << Slave(s, "vlan", None, vl0), Slave(t, "ethernet", eth1, None) >>),
      Main(f, "bridge", vl0, None, << Slave(a, "vlan", None, vl1) >>),
      Main(g, "bridge", None, None, <<>>),
      Main(h, "ethernet", eth1, None, <<>>) }

MCInputs ==
    {p \in BoundedSeq(Catalogue, 3) : IsInjective(p)}
================================================================================

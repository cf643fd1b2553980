------------------------------ MODULE MCHostSetup ------------------------------
(***************************************************************************)
(* Plays over hosts whose interfaces files are a distribution's usual one, *)
(* one with the stanzas in other orders, one that is migrated already, and *)
(* one that the parser does not recognise.                                 *)
(***************************************************************************)
EXTENDS HostSetup

MCIface == {"lo", "e0", "e1"}
MCSkipped == {"lo"}
MCPath == {"interfaces", "interfaces.d"}
MCHome == {"e0", "br0"}

L(word, name) == [word |-> word, name |-> name]
Option == L("option", Nobody)
Source == L("source", Nobody)
Loopback == <<L("auto", "lo"), L("iface", "lo")>>

(* The loopback after another interface, and an interface in a file that   *)
(* the main one includes, with an option after a directive.                *)
Usual ==
    [p \in MCPath |->
        IF p = "interfaces"
          THEN <<L("iface", "e0"), Option>> \o Loopback \o <<Source>>
          ELSE <<L("auto", "e1"), L("iface", "e1"), Source, Option>>]

Migrated ==
    [p \in MCPath |-> IF p = "interfaces" THEN Loopback ELSE <<Comment>>]

Unusual ==
    [p \in MCPath |-> IF p = "interfaces"
                        THEN <<L("auto", "e0"), L("odd", "e0")>> ELSE <<>>]

Plan(at_home, is_static, by_ssh) ==
    [home |-> at_home, static |-> is_static, ssh |-> by_ssh]

(* The address at the machine's interface, moved to a bridge, dynamic.     *)
MCInventory ==
    {Plan("e0", TRUE, TRUE), Plan("br0", TRUE, TRUE), Plan("e0", FALSE, TRUE)}

MCPlays == [roles : {"networking", "firewall", "both"}, fresh : BOOLEAN,
            wants : MCInventory]

(* Two hosts to migrate, with what a play of networking does to them, and  *)
(* one that is migrated, for everything that follows.                      *)
Networking == {p \in MCPlays : /\ p.roles = "networking"
                               /\ p.fresh
                               /\ p.wants = Plan("e0", TRUE, TRUE)}

MCHosts ==
    {[files |-> Usual, netplan |-> "absent", plays |-> Networking],
     [files |-> Unusual, netplan |-> "absent", plays |-> Networking],
     [files |-> Migrated, netplan |-> "networkd", plays |-> Networking],
     [files |-> Migrated, netplan |-> "absent", plays |-> MCPlays]}

MCFound == {Usual, Migrated, Unusual}

MCFacts == [conns : BOOLEAN, conf : {"addr", None}, iface : MCHome \cup {None}]
MCRules == {Rendered(f) : f \in MCFacts}
MCAccepted == {r \in MCRules : r.daddr # "{}"}
================================================================================

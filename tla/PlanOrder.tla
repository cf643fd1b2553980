------------------------------- MODULE PlanOrder -------------------------------
(***************************************************************************)
(* What ConnectionsConfigurationHandler.parse promises its caller, whatever *)
(* algorithm orders the connections: it rejects a dictionary whose          *)
(* connections conflict, or hands over its connections, each once, so that *)
(* a connection comes after those that provide what it depends on.         *)
(***************************************************************************)
EXTENDS NetConfig, FiniteSets

CONSTANT Inputs         \* dictionaries of connections, in their order

VARIABLES
    given,      \* the dictionary
    status,     \* "parsing", and then "accepted" or "rejected"
    sorted      \* the connections handed over

planVars == <<given, status, sorted>>

(* A connection with no interface and no dependencies is not ordered. *)
Sortable(c) == c.iface # None \/ DependsOn(c) # {}

Conflict(p) == ~UniqueNames(p) \/ ~UniqueIfaces(p)

(* Of the connections over one interface, only the last is handed over. *)
Kept(p) ==
    {p[m] : m \in {n \in DOMAIN p :
                     \A later \in DOMAIN p :
                        later > n /\ p[later].iface # None
                            => p[later].iface # p[n].iface}}

Orders(S) == {q \in [1..Cardinality(S) -> S] : IsInjective(q)}

(* The dependencies are not circular. *)
Orderable(p) == \E q \in Orders(Range(p)) : DependenciesFirst(q)

(* Connections that need no order "will be the last ones to be configured". *)
LooseLast(q) ==
    \A m, n \in DOMAIN q : Sortable(q[m]) /\ ~Sortable(q[n]) => m < n

Good(p, q) ==
    /\ ~Conflict(q)
    /\ LooseLast(q)
    /\ Orderable(p) => DependenciesFirst(q)

Init ==
    /\ given \in Inputs
    /\ status = "parsing"
    /\ sorted = <<>>

Accept ==
    /\ status = "parsing"
    /\ status' = "accepted"
    /\ sorted' \in Orders(Kept(given))
    /\ Good(given, sorted')
    /\ UNCHANGED given

Reject ==
    /\ status = "parsing"
    /\ status' = "rejected"
    /\ \E q \in Orders(Kept(given)) : Conflict(q)
    /\ UNCHANGED <<given, sorted>>

Next == Accept \/ Reject

Spec == Init /\ [][Next]_planVars
================================================================================

------------------------------- MODULE ConnSort -------------------------------
(***************************************************************************)
(* ConnectionsConfigurationHandler.parse: the depth-first sort of the      *)
(* connections by the interfaces they depend on (__sort_connections and    *)
(* the recursive __sort_conn_ifaces), and the two validations that follow. *)
(* The interfaces to sort are a Python set of strings, whose order of      *)
(* iteration changes from process to process: any order is possible.  The  *)
(* order in which a connection lists its dependencies is left open too.    *)
(***************************************************************************)
EXTENDS NetConfig, FiniteSetsExt

CONSTANT Inputs         \* dictionaries of connections, in their order

(* Names are the keys of the dictionary, and the constructors of the       *)
(* configurations have accepted each of them.                              *)
ASSUME InputsAssumption ==
    /\ Inputs \subseteq Seq(MainCfg)
    /\ \A p \in Inputs :
         /\ \A m, n \in DOMAIN p : p[m].name = p[n].name => m = n
         /\ \A m \in Places(p) : WellFormed(CfgAt(p, m))

VARIABLES
    given,      \* the dictionary of connections, in its order
    status,     \* "parsing", and then "accepted" or "rejected"
    sorted,     \* the connections handed over
    pending,    \* members of graph_ifaces_set that the loop has yet to see
    visited,    \* nodes entered so far
    frames,     \* the calls of __sort_conn_ifaces under way: the node of
                \* each and the dependencies that its loop has yet to see
    stack       \* ifaces_stack: the nodes whose call has returned

vars == <<given, status, sorted, pending, visited, frames, stack>>

(* What is sorted are interfaces; a connection without one that depends on *)
(* others is given a fresh uuid, for which its name stands here.           *)
IfaceNode(f) == <<"iface", f>>
Node(c) == IF c.iface = None THEN <<"uuid", c.name>> ELSE IfaceNode(c.iface)
Nodes == ({"iface"} \X Iface) \cup ({"uuid"} \X Name)

Sortable(c) == c.iface # None \/ DependsOn(c) # {}

SortedConns(p) == {c \in Range(p) : Sortable(c)}

DepNodes(c) == {IfaceNode(f) : f \in DependsOn(c)}

(* graph_ifaces_set *)
GraphIfaces(p) == UNION {{Node(c)} \cup DepNodes(c) : c \in SortedConns(p)}

(* Mutant: a slave's dependencies are not its main connection's *)
Mutant_OwnEdges(p, n) ==
    UNION {{IfaceNode(f) : f \in OwnDeps(c)} :
              c \in {d \in SortedConns(p) : Node(d) = n}}

(* interfaces_dependencies_graph: a connection that depends on nothing but *)
(* itself adds no edge.                                                    *)
Edges(p, n) ==
    UNION {DepNodes(c) : c \in {d \in SortedConns(p) :
                                  Node(d) = n /\ DepNodes(d) # {n}}}

(* ifaces_to_conn_dict: a later connection over the same interface         *)
(* replaces the earlier one.                                               *)
Owners(p, n) == {m \in DOMAIN p : Sortable(p[m]) /\ Node(p[m]) = n}
ConnOf(p, n) == IF Owners(p, n) = {} THEN None ELSE p[Max(Owners(p, n))]

(* The members of S in the sequence s, in its order: what a loop that      *)
(* appends just these builds.                                              *)
Only(s, S) ==
    LET kept == {j \in DOMAIN s : s[j] \in S}
    IN  [n \in 1..Cardinality(kept) |->
            s[CHOOSE j \in kept : Cardinality({l \in kept : l <= j}) = n]]

(* Mutant: the connections that need no order are forgotten *)
Mutant_NoLoose(p) == <<>>

(* non_iface_connections *)
Loose(p) == Only(p, Range(p) \ SortedConns(p))

(* Mutant: an interface that nobody provides becomes a connection *)
Mutant_Everything(p, nodes) ==
    [j \in DOMAIN nodes |->
        IF Owners(p, nodes[j]) # {}
          THEN ConnOf(p, nodes[j])
          ELSE [name |-> None, type |-> "ethernet", iface |-> nodes[j][2],
                parent |-> None, vid |-> None, ip |-> None, state |-> "unset",
                startup |-> FALSE, slaves |-> <<>>]]
    \o Loose(p)

(* sorted_conn_configs *)
Assembled(p, nodes) ==
    LET owned == Only(nodes, {Node(c) : c \in SortedConns(p)})
    IN  [j \in DOMAIN owned |-> ConnOf(p, owned[j])] \o Loose(p)

-----------------------------------------------------------------------------
Init ==
    /\ given \in Inputs
    /\ status = "parsing"
    /\ sorted = <<>>
    /\ pending = GraphIfaces(given)
    /\ visited = {}
    /\ frames = <<>>
    /\ stack = <<>>

(* Mutant: a node counts as visited only when its call returns, which a    *)
(* node that depends on itself never does                                  *)
Mutant_MarksLate(calls, n) ==
    /\ frames' = Append(calls, [node |-> n, rest |-> Edges(given, n)])
    /\ UNCHANGED visited

(* A call of __sort_conn_ifaces begins, over the calls under way *)
Enter(calls, n) ==
    /\ visited' = visited \cup {n}
    /\ frames' = Append(calls, [node |-> n, rest |-> Edges(given, n)])

(* The loop over graph_ifaces_set *)
Pick(n) ==
    /\ status = "parsing"
    /\ frames = <<>>
    /\ n \in pending
    /\ pending' = pending \ {n}
    /\ IF n \in visited THEN UNCHANGED <<visited, frames>> ELSE Enter(<<>>, n)
    /\ UNCHANGED <<given, status, sorted, stack>>

Depth == Len(frames)

(* The loop over the dependencies of the innermost call *)
Descend(d) ==
    /\ frames # <<>>
    /\ d \in frames[Depth].rest
    /\ LET calls == [frames EXCEPT ![Depth].rest = @ \ {d}]
       IN  IF d \in visited
             THEN frames' = calls /\ UNCHANGED visited
             ELSE Enter(calls, d)
    /\ UNCHANGED <<given, status, sorted, pending, stack>>

Return ==
    /\ frames # <<>>
    /\ frames[Depth].rest = {}
    /\ stack' = Append(stack, frames[Depth].node)
    /\ frames' = SubSeq(frames, 1, Depth - 1)
    /\ UNCHANGED <<given, status, sorted, pending, visited>>

AllSorted == status = "parsing" /\ frames = <<>> /\ pending = {}

(* __validate_connections looks at what the sort has returned. *)
Accept ==
    /\ AllSorted
    /\ LET q == Assembled(given, stack)
       IN  UniqueNames(q) /\ UniqueIfaces(q) /\ sorted' = q
    /\ status' = "accepted"
    /\ UNCHANGED <<given, pending, visited, frames, stack>>

Reject ==
    /\ AllSorted
    /\ LET q == Assembled(given, stack)
       IN  ~(UniqueNames(q) /\ UniqueIfaces(q))
    /\ status' = "rejected"
    /\ UNCHANGED <<given, sorted, pending, visited, frames, stack>>

Next ==
    \/ \E n \in Nodes : Pick(n) \/ Descend(n)
    \/ Return
    \/ Accept
    \/ Reject

Spec == Init /\ [][Next]_vars

-----------------------------------------------------------------------------
(* TypeOK: the shape of the sort's local variables; above all, what is     *)
(* handed over are connections of the dictionary, and not the interfaces   *)
(* that they depend on and nobody provides (parent interfaces "not part of *)
(* this configuration because managed outside").                           *)
TypeOK ==
    /\ given \in Inputs
    /\ status \in {"parsing", "accepted", "rejected"}
    /\ sorted \in Seq(MainCfg)
    /\ pending \subseteq Nodes
    /\ visited \subseteq Nodes
    /\ frames \in Seq([node: Nodes, rest: SUBSET Nodes])
    /\ stack \in Seq(Nodes)

(* EachOnce: no interface is entered twice: the calls under way and those  *)
(* that have returned are for different nodes, and these are the visited   *)
(* ones.  This bounds the recursion of __sort_conn_ifaces, for circular    *)
(* dependencies too.                                                       *)
EachOnce ==
    /\ IsInjective(frames)
    /\ IsInjective(stack)
    /\ \A m, n \in DOMAIN frames : frames[m].node = frames[n].node => m = n
    /\ {frames[m].node : m \in DOMAIN frames} \cap Range(stack) = {}
    /\ {frames[m].node : m \in DOMAIN frames} \cup Range(stack) = visited

Promise == INSTANCE PlanOrder
             WITH given <- given, status <- status, sorted <- sorted

(* Promised: whatever the order of iteration, what parse returns is what   *)
(* PlanOrder promises: every connection but those another one replaces,    *)
(* once, in an order that puts dependencies first, the others last; and it *)
(* rejects nothing without a conflict.                                     *)
Promised == Promise!Spec

(* PlanReady: what parse accepts meets what the runs of nmcli_apply assume *)
(* of their plans (NetConfig!ParsedPlan), unless its dependencies are      *)
(* circular.                                                               *)
PlanReady ==
    status = "accepted" /\ Promise!Orderable(given) => ParsedPlan(sorted)

(* NothingDropped: a dictionary that is accepted is applied whole.  Two    *)
(* connections over one interface are to be rejected: "Ensure that if a    *)
(* connection references an interface, no other connection can reference   *)
(* it".                                                                    *)
NothingDropped == status = "accepted" => Range(sorted) = Range(given)
================================================================================

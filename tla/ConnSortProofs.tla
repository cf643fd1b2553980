---------------------------- MODULE ConnSortProofs ----------------------------
(***************************************************************************)
(* The sort of parse(), for every dictionary of connections and every      *)
(* order in which Python's sets are iterated: no node is entered twice,    *)
(* and what is handed over is what PlanOrder promises.                     *)
(***************************************************************************)
EXTENDS ConnSort, FiniteSetTheorems, WellFoundedInduction, TLAPS

(* A bounded set of naturals that is not empty has a greatest element, and *)
(* Max is it: the least of its bounds.                                     *)
LEMMA MaxOfNats ==
    ASSUME NEW S \in SUBSET Nat, S # {}, NEW top \in Nat, \A y \in S : y <= top
    PROVE  Max(S) \in S /\ \A y \in S : y <= Max(S)
<1> DEFINE bounds == {n \in Nat : \A y \in S : y <= n}
<1>1. PICK x \in bounds : \A y \in bounds : ~(<<y, x>> \in OpToRel(<, Nat))
  <2>1. bounds # {} /\ bounds \subseteq Nat
    OBVIOUS
  <2>2. QED
    BY <2>1, NatLessThanWellFounded, WFMin
<1>2. \A y \in bounds : x <= y
  <2>1. SUFFICES ASSUME NEW y \in bounds, ~(x <= y) PROVE FALSE
    OBVIOUS
  <2>2. <<y, x>> \in Nat \X Nat /\ y < x
    BY <2>1
  <2>3. <<y, x>> \in OpToRel(<, Nat)
    BY <2>2 DEF OpToRel
  <2>4. QED
    BY <1>1, <2>3
<1>3. x \in S
  <2>1. SUFFICES ASSUME x \notin S PROVE FALSE
    OBVIOUS
  <2>2. \A y \in S : y \in Nat /\ y <= x /\ y # x
    BY <2>1
  <2>3. x - 1 \in Nat /\ \A y \in S : y <= x - 1
    <3>1. PICK y \in S : TRUE
      OBVIOUS
    <3>2. x \in Nat /\ y \in Nat /\ y <= x /\ y # x
      BY <2>2, <3>1
    <3>3. x - 1 \in Nat
      BY <3>2
    <3>4. QED
      BY <2>2, <3>2, <3>3
  <2>4. x - 1 \in bounds
    BY <2>3
  <2>5. QED
    BY <1>2, <2>4
<1>4. \A y \in S : y <= x
  OBVIOUS
<1>5. \A z \in S : (\A y \in S : y <= z) => z = x
  <2>1. SUFFICES ASSUME NEW z \in S, \A y \in S : y <= z PROVE z = x
    OBVIOUS
  <2>2. x <= z /\ z <= x /\ z \in Nat /\ x \in Nat
    BY <1>3, <2>1
  <2>3. QED
    BY <2>2
<1>6. QED
  BY <1>3, <1>4, <1>5 DEF Max

-----------------------------------------------------------------------------
(* Only(s, S) takes the members of S from s, all of them, in their order:  *)
(* at is where each of them was.                                           *)
Drawn(s, S, at) ==
    /\ at \in [DOMAIN Only(s, S) -> DOMAIN s]
    /\ \A n \in DOMAIN Only(s, S) : Only(s, S)[n] = s[at[n]] /\ s[at[n]] \in S
    /\ \A m, n \in DOMAIN Only(s, S) : m < n => at[m] < at[n]
    /\ \A j \in DOMAIN s : s[j] \in S => \E n \in DOMAIN Only(s, S) : at[n] = j

LEMMA OnlyOrdered ==
    ASSUME NEW T, NEW s \in Seq(T), NEW S
    PROVE  Only(s, S) \in Seq(T) /\ \E at : Drawn(s, S, at)
<1> DEFINE kept == {j \in DOMAIN s : s[j] \in S}
           N == Cardinality(kept)
           upto(j) == {l \in kept : l <= j}
           place == [j \in kept |-> Cardinality(upto(j))]
           at == [n \in 1..N |-> CHOOSE j \in kept : Cardinality(upto(j)) = n]
<1>1. IsFiniteSet(kept) /\ N \in Nat /\ kept \subseteq Nat
  <2>1. IsFiniteSet(1..Len(s)) /\ kept \in SUBSET (1..Len(s))
    BY FS_Interval
  <2>2. QED
    BY <2>1, FS_Subset, FS_CardinalityType
<1>2. \A j \in kept : upto(j) \subseteq kept /\ j \in upto(j)
  BY <1>1
<1>3. \A j, l \in kept : j < l => upto(j) \subseteq upto(l) /\ l \notin upto(j)
  BY <1>1
<1> HIDE DEF kept, N, upto
<1>4. \A j \in kept : /\ IsFiniteSet(upto(j))
                      /\ place[j] = Cardinality(upto(j))
                      /\ place[j] \in 1..N
  <2>1. SUFFICES ASSUME NEW j \in kept
                 PROVE  IsFiniteSet(upto(j)) /\ Cardinality(upto(j)) \in 1..N
    OBVIOUS
  <2>2. IsFiniteSet(upto(j)) /\ Cardinality(upto(j)) <= N /\ Cardinality(upto(j)) \in Nat
    BY <1>1, <1>2, FS_Subset, FS_CardinalityType DEF N
  <2>3. Cardinality(upto(j)) # 0
    BY <1>2, <2>2, FS_EmptySet
  <2>4. QED
    BY <1>1, <2>2, <2>3
<1>5. \A j, l \in kept : j < l => place[j] < place[l]
  <2>1. SUFFICES ASSUME NEW j \in kept, NEW l \in kept, j < l
                 PROVE  place[j] < place[l]
    OBVIOUS
  <2>2. upto(j) # upto(l) /\ upto(j) \in SUBSET upto(l)
    BY <1>2, <1>3, <2>1
  <2>3. Cardinality(upto(j)) <= Cardinality(upto(l)) /\ Cardinality(upto(j)) # Cardinality(upto(l))
    BY <1>4, <2>2, FS_Subset
  <2>4. place[j] \in Nat /\ place[l] \in Nat /\ place[j] <= place[l] /\ place[j] # place[l]
    BY <1>1, <1>4, <2>3
  <2>5. QED
    BY <2>4
<1>6. place \in Injection(kept, 1..N)
  <2>1. \A j, l \in kept : place[j] = place[l] => j = l
    <3>1. SUFFICES ASSUME NEW j \in kept, NEW l \in kept, place[j] = place[l], j # l PROVE FALSE
      OBVIOUS
    <3>2. j < l \/ l < j
      BY <1>1, <3>1
    <3>3. place[j] \in Nat /\ place[l] \in Nat
      BY <1>1, <1>4
    <3>4. QED
      BY <1>5, <3>1, <3>2, <3>3
  <2>2. QED
    BY <1>4, <2>1 DEF Injection, IsInjective
<1>7. place \in Surjection(kept, 1..N)
  <2>1. IsFiniteSet(1..N) /\ Cardinality(1..N) = N
    BY <1>1, FS_Interval
  <2>2. QED
    BY <1>6, <2>1, FS_Injection DEF N
<1>8. Only(s, S) = [n \in 1..N |-> s[at[n]]]
  BY DEF Only, kept, N, upto
<1> HIDE DEF place
<1>9. \A n \in 1..N : at[n] \in kept /\ place[at[n]] = n
  <2>1. SUFFICES ASSUME NEW n \in 1..N PROVE at[n] \in kept /\ place[at[n]] = n
    OBVIOUS
  <2>2. \E j \in kept : Cardinality(upto(j)) = n
    BY <1>4, <1>7 DEF Surjection
  <2>3. at[n] \in kept /\ Cardinality(upto(at[n])) = n
    BY <2>2
  <2>4. QED
    BY <1>4, <2>3
<1> HIDE DEF at
<1>10. \A n \in 1..N : at[n] \in DOMAIN s /\ s[at[n]] \in S
  BY <1>9 DEF kept
<1>11. Only(s, S) \in Seq(T) /\ DOMAIN Only(s, S) = 1..N
  BY <1>1, <1>8, <1>10
<1>12. \A m, n \in 1..N : m < n => at[m] < at[n]
  <2>1. SUFFICES ASSUME NEW m \in 1..N, NEW n \in 1..N, m < n, ~(at[m] < at[n]) PROVE FALSE
    OBVIOUS
  <2>2. at[n] < at[m] \/ at[n] = at[m]
    <3>1. at[m] \in Nat /\ at[n] \in Nat
      BY <1>1, <1>9
    <3>2. QED
      BY <2>1, <3>1
  <2>3. place[at[m]] = m /\ place[at[n]] = n /\ m \in Nat /\ n \in Nat
    BY <1>1, <1>9
  <2>4. QED
    BY <1>5, <1>9, <2>1, <2>2, <2>3
<1>13. \A j \in kept : \E n \in 1..N : at[n] = j
  <2>1. SUFFICES ASSUME NEW j \in kept PROVE \E n \in 1..N : at[n] = j
    OBVIOUS
  <2>2. at[place[j]] \in kept /\ place[at[place[j]]] = place[j] /\ place[j] \in 1..N
    BY <1>4, <1>9
  <2>3. at[place[j]] = j
    BY <1>6, <2>2 DEF Injection, IsInjective
  <2>4. QED
    BY <2>2, <2>3
<1>14. \A j \in DOMAIN s : s[j] \in S => \E n \in 1..N : at[n] = j
  BY <1>13 DEF kept
<1>15. at \in [1..N -> DOMAIN s] /\ \A n \in 1..N : Only(s, S)[n] = s[at[n]]
  BY <1>8, <1>10 DEF at
<1>16. Drawn(s, S, at)
  BY <1>10, <1>11, <1>12, <1>14, <1>15 DEF Drawn
<1>17. QED
  BY <1>11, <1>16

-----------------------------------------------------------------------------
(* The graph of a dictionary *)
LEMMA NodesApart ==
    ASSUME NEW c, NEW d
    PROVE  /\ Node(c) = Node(d) => /\ c.iface = d.iface
                                   /\ c.iface = None => c.name = d.name
           /\ \A f : Node(c) = IfaceNode(f) <=> c.iface # None /\ c.iface = f
           /\ \A f, g : IfaceNode(f) = IfaceNode(g) => f = g
BY DEF Node, IfaceNode

LEMMA InputType ==
    ASSUME NEW p \in Inputs
    PROVE  /\ p \in Seq(MainCfg)
           /\ \A m \in DOMAIN p : p[m] \in MainCfg /\ m \in Nat /\ m <= Len(p)
           /\ \A m, n \in DOMAIN p : p[m].name = p[n].name => m = n
           /\ \A m \in Places(p) : WellFormed(CfgAt(p, m))
           /\ Range(p) \subseteq MainCfg
BY InputsAssumption DEF Range

LEMMA DepsType ==
    ASSUME NEW c \in MainCfg
    PROVE  DependsOn(c) \subseteq Iface /\ Node(c) \in Nodes /\ DepNodes(c) \subseteq Nodes
<1>1. OwnDeps(c) \subseteq Iface
  BY DEF OwnDeps, MainCfg
<1>2. \A s \in SlavesOf(c) : OwnDeps(s) \subseteq Iface
  <2>1. SUFFICES ASSUME NEW s \in SlavesOf(c) PROVE OwnDeps(s) \subseteq Iface
    OBVIOUS
  <2>2. c.slaves \in Seq(SlaveCfg)
    BY DEF MainCfg
  <2>3. s \in SlaveCfg
    BY <2>2 DEF SlavesOf, Range
  <2>4. QED
    BY <2>3 DEF OwnDeps, SlaveCfg
<1>3. DependsOn(c) \subseteq Iface
  BY <1>1, <1>2 DEF DependsOn
<1>4. QED
  BY <1>3 DEF DepNodes, Node, IfaceNode, Nodes, MainCfg

LEMMA GraphType ==
    ASSUME NEW p \in Inputs
    PROVE  /\ GraphIfaces(p) \subseteq Nodes
           /\ \A n : Edges(p, n) \subseteq GraphIfaces(p)
<1>1. \A c \in SortedConns(p) : Node(c) \in Nodes /\ DepNodes(c) \subseteq Nodes
  BY InputType, DepsType DEF SortedConns
<1>2. QED
  BY <1>1 DEF GraphIfaces, Edges

(* ifaces_to_conn_dict has the last of the connections over a node. *)
LEMMA LastOwner ==
    ASSUME NEW p \in Inputs, NEW n, Owners(p, n) # {}
    PROVE  \E m \in DOMAIN p :
             /\ ConnOf(p, n) = p[m]
             /\ Sortable(p[m])
             /\ Node(p[m]) = n
             /\ \A l \in Owners(p, n) : l <= m
<1>1. Owners(p, n) \in SUBSET Nat /\ Len(p) \in Nat /\ \A l \in Owners(p, n) : l <= Len(p)
  BY InputType DEF Owners
<1>2. Max(Owners(p, n)) \in Owners(p, n) /\ \A l \in Owners(p, n) : l <= Max(Owners(p, n))
  BY <1>1, MaxOfNats
<1>3. QED
  BY <1>2 DEF Owners, ConnOf

LEMMA OwnedNodes ==
    ASSUME NEW p, NEW n
    PROVE  Owners(p, n) # {} <=> n \in {Node(c) : c \in SortedConns(p)}
BY DEF Owners, SortedConns, Range

-----------------------------------------------------------------------------
(* PlanOrder speaks of configurations in the same words. *)
LEMMA SameWords ==
    /\ \A S : Promise!Cardinality(S) = Cardinality(S)
    /\ \A f : Promise!Range(f) = Range(f) /\ (Promise!IsInjective(f) <=> IsInjective(f))
    /\ \A c : /\ Promise!DependsOn(c) = DependsOn(c)
              /\ Promise!Sortable(c) <=> Sortable(c)
    /\ \A q : /\ Promise!DependenciesFirst(q) <=> DependenciesFirst(q)
              /\ Promise!UniqueNames(q) <=> UniqueNames(q)
              /\ Promise!UniqueIfaces(q) <=> UniqueIfaces(q)
<1>1. \A f : Promise!Range(f) = Range(f) /\ (Promise!IsInjective(f) <=> IsInjective(f))
  BY DEF Range, Promise!Range, IsInjective, Promise!IsInjective
<1>2. \A c : Promise!DependsOn(c) = DependsOn(c)
  BY DEF DependsOn, Promise!DependsOn, OwnDeps, Promise!OwnDeps, SlavesOf, Promise!SlavesOf,
         Range, Promise!Range
<1>3. \A c : Promise!Sortable(c) <=> Sortable(c)
  BY <1>2 DEF Sortable, Promise!Sortable
<1>4. \A q : Promise!DependenciesFirst(q) <=> DependenciesFirst(q)
  BY <1>2 DEF DependenciesFirst, Promise!DependenciesFirst
<1>5. \A q : /\ Promise!UniqueNames(q) <=> UniqueNames(q)
             /\ Promise!UniqueIfaces(q) <=> UniqueIfaces(q)
  BY DEF UniqueNames, Promise!UniqueNames, UniqueIfaces, Promise!UniqueIfaces, Places,
         Promise!Places, CfgAt, Promise!CfgAt
<1>6. \A S : Promise!Cardinality(S) = Cardinality(S)
  BY Zenon DEF Cardinality, Promise!Cardinality
<1>7. QED
  BY <1>1, <1>2, <1>3, <1>4, <1>5, <1>6

(* When dependencies are not circular, some order of the connections puts  *)
(* them first; a node ranks as high in it as the last of its connections,  *)
(* and a node without connections lowest.  Ranks fall along the edges.     *)
Topo(p) == CHOOSE q \in Promise!Orders(Range(p)) : DependenciesFirst(q)

At(p, n) == {m \in DOMAIN Topo(p) : Sortable(Topo(p)[m]) /\ Node(Topo(p)[m]) = n}

Rank(p, n) == IF At(p, n) = {} THEN 0 ELSE Max(At(p, n))

LEMMA TopoType ==
    ASSUME NEW p \in Inputs, Promise!Orderable(p)
    PROVE  /\ Cardinality(Range(p)) \in Nat
           /\ Topo(p) \in [1..Cardinality(Range(p)) -> Range(p)]
           /\ DependenciesFirst(Topo(p))
           /\ \A c \in Range(p) : \E m \in DOMAIN Topo(p) : Topo(p)[m] = c
<1>1. /\ IsFiniteSet(Range(p))
      /\ Cardinality(Range(p)) \in Nat
  <2>1. p \in Surjection(1..Len(p), Range(p)) /\ Len(p) \in Nat
    BY InputType DEF Surjection, Range
  <2>2. IsFiniteSet(Range(p))
    BY <2>1, FS_Interval, FS_Surjection
  <2>3. QED
    BY <2>2, FS_CardinalityType
<1>2. Topo(p) \in Promise!Orders(Range(p)) /\ DependenciesFirst(Topo(p))
  BY SameWords DEF Topo, Promise!Orderable
<1> DEFINE places == 1..Cardinality(Range(p))
<1>3. Topo(p) \in [places -> Range(p)] /\ IsInjective(Topo(p))
  BY <1>2, SameWords DEF Promise!Orders
<1>4. Topo(p) \in Injection(places, Range(p))
  BY <1>3 DEF Injection
<1>5. Cardinality(places) = Cardinality(Range(p)) /\ IsFiniteSet(places)
  BY <1>1, FS_Interval
<1>6. Topo(p) \in Surjection(places, Range(p))
  BY <1>1, <1>4, <1>5, FS_Injection
<1>7. QED
  BY <1>1, <1>2, <1>3, <1>6 DEF Surjection

LEMMA RankOfAt ==
    ASSUME NEW p \in Inputs, Promise!Orderable(p), NEW n
    PROVE  /\ Rank(p, n) \in Nat
           /\ \A m \in At(p, n) : m <= Rank(p, n) /\ 0 < m
           /\ At(p, n) # {} => Rank(p, n) \in At(p, n)
<1>1. /\ At(p, n) \in SUBSET Nat
      /\ Cardinality(Range(p)) \in Nat
      /\ \A m \in At(p, n) : m <= Cardinality(Range(p)) /\ 0 < m
  BY TopoType DEF At
<1>2. CASE At(p, n) # {}
  BY <1>1, <1>2, MaxOfNats DEF Rank
<1>3. CASE At(p, n) = {}
  BY <1>3 DEF Rank
<1>4. QED
  BY <1>2, <1>3

LEMMA RankFalls ==
    ASSUME NEW p \in Inputs, Promise!Orderable(p), NEW n, NEW d \in Edges(p, n), d # n
    PROVE  Rank(p, d) < Rank(p, n)
<1>1. PICK c \in SortedConns(p) : Node(c) = n /\ d \in DepNodes(c)
  BY DEF Edges
<1>2. PICK y \in DOMAIN Topo(p) : Topo(p)[y] = c
  BY <1>1, TopoType DEF SortedConns
<1>3. y \in At(p, n)
  BY <1>1, <1>2 DEF At, SortedConns
<1>4. CASE At(p, d) = {}
  <2>1. Rank(p, d) = 0 /\ Rank(p, n) \in Nat /\ y <= Rank(p, n) /\ 0 < y /\ y \in Nat
    BY <1>3, <1>4, RankOfAt, TopoType DEF Rank
  <2>2. QED
    BY <2>1
<1>5. CASE At(p, d) # {}
  <2> DEFINE x == Rank(p, d)
  <2>1. x \in At(p, d) /\ x \in Nat
    BY <1>5, RankOfAt
  <2>2. PICK f \in DependsOn(c) : d = IfaceNode(f)
    BY <1>1 DEF DepNodes
  <2>3. x \in DOMAIN Topo(p) /\ Topo(p)[x].iface # None /\ Topo(p)[x].iface = f
    BY <2>1, <2>2, NodesApart DEF At
  <2>4. x <= y
    BY <1>2, <2>2, <2>3, TopoType DEF DependenciesFirst
  <2>5. x # y
    BY <1>1, <1>2, <2>1 DEF At
  <2>6. y <= Rank(p, n) /\ Rank(p, n) \in Nat /\ y \in Nat
    BY <1>3, RankOfAt, TopoType
  <2>7. QED
    BY <2>1, <2>4, <2>5, <2>6
<1>6. QED
  BY <1>4, <1>5

-----------------------------------------------------------------------------
(* The connections in the order of the stack: that of each node that has   *)
(* one.                                                                    *)
Ordered(p, s) ==
    LET owned == Only(s, {Node(c) : c \in SortedConns(p)})
    IN  [j \in DOMAIN owned |-> ConnOf(p, owned[j])]

LEMMA OrderedShape ==
    ASSUME NEW p \in Inputs, NEW s \in Seq(Nodes), IsInjective(s),
           GraphIfaces(p) \subseteq Range(s)
    PROVE  /\ Ordered(p, s) \in Seq(MainCfg)
           /\ \A m \in DOMAIN Ordered(p, s) :
                /\ Ordered(p, s)[m] \in SortedConns(p)
                /\ Ordered(p, s)[m] = ConnOf(p, Node(Ordered(p, s)[m]))
           /\ \A c \in SortedConns(p) :
                \E m \in DOMAIN Ordered(p, s) : Ordered(p, s)[m] = ConnOf(p, Node(c))
           /\ \E at \in [DOMAIN Ordered(p, s) -> DOMAIN s] :
                /\ \A m \in DOMAIN Ordered(p, s) : s[at[m]] = Node(Ordered(p, s)[m])
                /\ \A m, n \in DOMAIN Ordered(p, s) : m < n => at[m] < at[n]
<1> DEFINE S == {Node(c) : c \in SortedConns(p)}
           owned == Only(s, S)
           q == Ordered(p, s)
<1>1. PICK at : Drawn(s, S, at)
  BY OnlyOrdered
<1>2. owned \in Seq(Nodes)
  BY OnlyOrdered
<1>3. q = [j \in DOMAIN owned |-> ConnOf(p, owned[j])]
  BY DEF Ordered
<1>10. /\ at \in [DOMAIN owned -> DOMAIN s]
       /\ \A n \in DOMAIN owned : owned[n] = s[at[n]] /\ s[at[n]] \in S
       /\ \A m, n \in DOMAIN owned : m < n => at[m] < at[n]
       /\ \A j \in DOMAIN s : s[j] \in S => \E n \in DOMAIN owned : at[n] = j
  BY <1>1 DEF Drawn
<1> HIDE DEF owned, q
<1>4. DOMAIN q = DOMAIN owned /\ \A m \in DOMAIN q : q[m] = ConnOf(p, owned[m])
  BY <1>3
<1>5. \A m \in DOMAIN q : /\ q[m] \in SortedConns(p)
                          /\ Node(q[m]) = owned[m]
                          /\ q[m] \in MainCfg
  <2>1. SUFFICES ASSUME NEW m \in DOMAIN q
                 PROVE  q[m] \in SortedConns(p) /\ Node(q[m]) = owned[m] /\ q[m] \in MainCfg
    OBVIOUS
  <2>2. Owners(p, owned[m]) # {}
    BY <1>10, <1>4, OwnedNodes
  <2>3. PICK l \in DOMAIN p : ConnOf(p, owned[m]) = p[l] /\ Sortable(p[l]) /\ Node(p[l]) = owned[m]
    BY <2>2, LastOwner
  <2>4. p[l] \in Range(p) /\ p[l] \in MainCfg
    BY InputType DEF Range
  <2>5. QED
    BY <1>4, <2>3, <2>4 DEF SortedConns
<1>6. q \in Seq(MainCfg)
  <2>1. DOMAIN owned = 1..Len(owned) /\ Len(owned) \in Nat
    BY <1>2
  <2>2. q = [j \in 1..Len(owned) |-> q[j]]
    BY <1>3, <1>4, <2>1
  <2>3. QED
    BY <1>4, <1>5, <2>1, <2>2
<1>7. \A c \in SortedConns(p) : \E m \in DOMAIN q : q[m] = ConnOf(p, Node(c))
  <2>1. SUFFICES ASSUME NEW c \in SortedConns(p)
                 PROVE  \E m \in DOMAIN q : q[m] = ConnOf(p, Node(c))
    OBVIOUS
  <2>2. Node(c) \in GraphIfaces(p)
    BY DEF GraphIfaces
  <2>3. PICK j \in DOMAIN s : s[j] = Node(c)
    BY <2>2 DEF Range
  <2>4. PICK m \in DOMAIN owned : at[m] = j
    BY <1>10, <2>3
  <2>5. QED
    BY <1>10, <1>4, <2>3, <2>4
<1>8. at \in [DOMAIN q -> DOMAIN s] /\ \A m \in DOMAIN q : s[at[m]] = Node(q[m])
  BY <1>10, <1>4, <1>5
<1>9. QED
  BY <1>10, <1>4, <1>5, <1>6, <1>7, <1>8 DEF q

(* The connections that need no order, each once *)
LEMMA LooseShape ==
    ASSUME NEW p \in Inputs
    PROVE  /\ Loose(p) \in Seq(MainCfg)
           /\ Range(Loose(p)) = Range(p) \ SortedConns(p)
           /\ IsInjective(Loose(p))
<1> DEFINE S == Range(p) \ SortedConns(p)
           q == Only(p, S)
<1>1. PICK at : Drawn(p, S, at)
  BY OnlyOrdered, InputType
<1>2. q \in Seq(MainCfg) /\ Loose(p) = q
  BY OnlyOrdered, InputType DEF Loose
<1>6. /\ at \in [DOMAIN q -> DOMAIN p]
      /\ \A n \in DOMAIN q : q[n] = p[at[n]] /\ p[at[n]] \in S
      /\ \A m, n \in DOMAIN q : m < n => at[m] < at[n]
      /\ \A j \in DOMAIN p : p[j] \in S => \E n \in DOMAIN q : at[n] = j
  BY <1>1 DEF Drawn
<1> HIDE DEF q
<1>3. Range(q) = S
  BY <1>6 DEF Range
<1>4. IsInjective(q)
  <2>1. SUFFICES ASSUME NEW m \in DOMAIN q, NEW n \in DOMAIN q, q[m] = q[n] PROVE m = n
    BY DEF IsInjective
  <2>2. at[m] = at[n]
    BY <1>6, <2>1, InputType
  <2>3. m \in Nat /\ n \in Nat /\ at[m] \in Nat /\ at[n] \in Nat
    BY <1>6, <1>2, InputType
  <2>4. QED
    BY <1>6, <2>2, <2>3
<1>5. QED
  BY <1>2, <1>3, <1>4

(* The last connection of a node is one that no later one replaces, and    *)
(* conversely.                                                             *)
LEMMA KeptIsLast ==
    ASSUME NEW p \in Inputs, NEW c \in Range(p)
    PROVE  c \in Promise!Kept(p) <=> ~Sortable(c) \/ c = ConnOf(p, Node(c))
<1>1. PICK j \in DOMAIN p : p[j] = c
  BY DEF Range
<1>2. \A n \in DOMAIN p : p[n] = c => n = j
  BY <1>1, InputType
<1>3. c \in Promise!Kept(p) <=> \A later \in DOMAIN p :
                                    later > j /\ p[later].iface # None
                                        => p[later].iface # c.iface
  BY <1>1, <1>2 DEF Promise!Kept
<1>4. CASE ~Sortable(c)
  BY <1>3, <1>4 DEF Sortable
<1>5. CASE Sortable(c)
  <2>1. j \in Owners(p, Node(c))
    BY <1>1, <1>5 DEF Owners
  <2>2. PICK m \in DOMAIN p : /\ ConnOf(p, Node(c)) = p[m]
                              /\ Sortable(p[m])
                              /\ Node(p[m]) = Node(c)
                              /\ \A l \in Owners(p, Node(c)) : l <= m
    BY <2>1, LastOwner
  <2>3. c = ConnOf(p, Node(c)) <=> j = m
    BY <1>1, <1>2, <2>2
  <2>4. j <= m /\ j \in Nat /\ m \in Nat
    BY <2>1, <2>2, InputType
  <2>5. ASSUME j = m PROVE c \in Promise!Kept(p)
    <3>1. SUFFICES ASSUME NEW later \in DOMAIN p, later > j, p[later].iface # None,
                          p[later].iface = c.iface
                   PROVE  FALSE
      BY <1>3
    <3>2. later \in Owners(p, Node(c))
      BY <3>1 DEF Owners, Sortable, Node
    <3>3. later <= j /\ later \in Nat
      BY <2>2, <2>5, <3>2, InputType
    <3>4. QED
      BY <2>4, <3>1, <3>3
  <2>6. ASSUME j # m PROVE c \notin Promise!Kept(p)
    <3>1. m > j
      BY <2>4, <2>6
    <3>2. p[m].iface = c.iface /\ (c.iface = None => p[m].name = c.name)
      BY <2>2, NodesApart
    <3>3. c.iface # None
      BY <1>1, <2>6, <3>2, InputType
    <3>4. QED
      BY <1>3, <3>1, <3>2, <3>3
  <2>7. QED
    BY <1>5, <2>3, <2>5, <2>6
<1>6. QED
  BY <1>4, <1>5

(* What is assembled from a stack that holds every node of the graph once  *)
(* is an order of the connections that PlanOrder keeps, those that need no *)
(* order last.                                                             *)
LEMMA AssembledParts ==
    ASSUME NEW p \in Inputs, NEW s \in Seq(Nodes), IsInjective(s),
           GraphIfaces(p) \subseteq Range(s)
    PROVE  LET o == Ordered(p, s)
               l == Loose(p)
               q == Assembled(p, s)
           IN  /\ q \in Seq(MainCfg)
               /\ DOMAIN q = 1..(Len(o) + Len(l))
               /\ DOMAIN o = 1..Len(o)
               /\ DOMAIN l = 1..Len(l)
               /\ Len(o) \in Nat /\ Len(l) \in Nat
               /\ \A m \in DOMAIN q : m <= Len(o) => m \in DOMAIN o /\ q[m] = o[m]
               /\ \A m \in DOMAIN q : ~(m <= Len(o)) => m - Len(o) \in DOMAIN l /\ q[m] = l[m - Len(o)]
               /\ \A m \in DOMAIN o : m \in DOMAIN q
               /\ \A m \in DOMAIN l : m + Len(o) \in DOMAIN q /\ q[m + Len(o)] = l[m]
<1> DEFINE o == Ordered(p, s)
           l == Loose(p)
<1>1. o \in Seq(MainCfg) /\ l \in Seq(MainCfg)
  BY OrderedShape, LooseShape
<1>2. Assembled(p, s) = o \o l
  BY DEF Assembled, Ordered
<1> HIDE DEF o, l
<1>3. QED
  <2> DEFINE q == o \o l
  <2>1. q \in Seq(MainCfg) /\ DOMAIN q = 1..(Len(o) + Len(l))
    BY <1>1
  <2>2. DOMAIN o = 1..Len(o) /\ DOMAIN l = 1..Len(l) /\ Len(o) \in Nat /\ Len(l) \in Nat
    BY <1>1
  <2>3. \A m \in DOMAIN q : m <= Len(o) => m \in DOMAIN o /\ q[m] = o[m]
    BY <1>1, <2>2
  <2>4. \A m \in DOMAIN q : ~(m <= Len(o)) => m - Len(o) \in DOMAIN l /\ q[m] = l[m - Len(o)]
    BY <1>1, <2>2
  <2>5. \A m \in DOMAIN o : m \in DOMAIN q
    BY <1>1, <2>1, <2>2
  <2>6. \A m \in DOMAIN l : m + Len(o) \in DOMAIN q /\ q[m + Len(o)] = l[m]
    <3>1. SUFFICES ASSUME NEW m \in DOMAIN l PROVE m + Len(o) \in DOMAIN q /\ q[m + Len(o)] = l[m]
      OBVIOUS
    <3>2. m + Len(o) \in DOMAIN q /\ ~(m + Len(o) <= Len(o)) /\ (m + Len(o)) - Len(o) = m
      BY <2>1, <2>2
    <3>3. QED
      BY <2>4, <3>2
  <2>7. QED
    BY <1>2, <2>1, <2>2, <2>3, <2>4, <2>5, <2>6 DEF o, l

LEMMA AssembledOrder ==
    ASSUME NEW p \in Inputs, NEW s \in Seq(Nodes), IsInjective(s),
           GraphIfaces(p) \subseteq Range(s)
    PROVE  /\ Assembled(p, s) \in Seq(MainCfg)
           /\ Assembled(p, s) \in Promise!Orders(Promise!Kept(p))
           /\ Promise!LooseLast(Assembled(p, s))
<1> DEFINE o == Ordered(p, s)
           l == Loose(p)
           q == Assembled(p, s)
<1>1. /\ q \in Seq(MainCfg)
      /\ DOMAIN q = 1..(Len(o) + Len(l))
      /\ Len(o) \in Nat /\ Len(l) \in Nat
      /\ \A m \in DOMAIN q : m <= Len(o) => m \in DOMAIN o /\ q[m] = o[m]
      /\ \A m \in DOMAIN q : ~(m <= Len(o)) => m - Len(o) \in DOMAIN l /\ q[m] = l[m - Len(o)]
      /\ \A m \in DOMAIN o : m \in DOMAIN q /\ m <= Len(o)
      /\ \A m \in DOMAIN l : m + Len(o) \in DOMAIN q /\ q[m + Len(o)] = l[m]
  <2>1. \A m \in DOMAIN o : m <= Len(o)
    BY AssembledParts
  <2>2. QED
    BY <2>1, AssembledParts
<1>2. PICK at \in [DOMAIN o -> DOMAIN s] :
             /\ \A m \in DOMAIN o : s[at[m]] = Node(o[m])
             /\ \A m, n \in DOMAIN o : m < n => at[m] < at[n]
  BY OrderedShape
<1>3. /\ \A m \in DOMAIN o : o[m] \in SortedConns(p) /\ o[m] = ConnOf(p, Node(o[m]))
      /\ \A c \in SortedConns(p) : \E m \in DOMAIN o : o[m] = ConnOf(p, Node(c))
  BY OrderedShape
<1>4. Range(l) = Range(p) \ SortedConns(p) /\ IsInjective(l)
  BY LooseShape
<1> HIDE DEF o, l, q
<1>5. \A m \in DOMAIN q : /\ m <= Len(o) => Sortable(q[m]) /\ q[m] \in SortedConns(p)
                          /\ ~(m <= Len(o)) => ~Sortable(q[m]) /\ q[m] \in Range(p)
  <2>1. SUFFICES ASSUME NEW m \in DOMAIN q
                 PROVE  /\ m <= Len(o) => Sortable(q[m]) /\ q[m] \in SortedConns(p)
                        /\ ~(m <= Len(o)) => ~Sortable(q[m]) /\ q[m] \in Range(p)
    OBVIOUS
  <2>2. CASE m <= Len(o)
    BY <1>1, <1>3, <2>2 DEF SortedConns
  <2>3. CASE ~(m <= Len(o))
    <3>1. q[m] \in Range(l)
      BY <1>1, <2>3 DEF Range
    <3>2. QED
      BY <1>4, <2>3, <3>1 DEF SortedConns
  <2>4. QED
    BY <2>2, <2>3
<1>6. Promise!LooseLast(q)
  <2>1. SUFFICES ASSUME NEW m \in DOMAIN q, NEW n \in DOMAIN q, Sortable(q[m]), ~Sortable(q[n])
                 PROVE  m < n
    BY SameWords DEF Promise!LooseLast
  <2>2. m <= Len(o) /\ ~(n <= Len(o)) /\ m \in Nat /\ n \in Nat
    BY <1>1, <1>5, <2>1
  <2>3. QED
    BY <1>1, <2>2
<1>7. IsInjective(q)
  <2>1. SUFFICES ASSUME NEW m \in DOMAIN q, NEW n \in DOMAIN q, q[m] = q[n] PROVE m = n
    BY DEF IsInjective
  <2>2. CASE m <= Len(o)
    <3>1. n <= Len(o)
      BY <1>5, <2>1, <2>2
    <3>2. m \in DOMAIN o /\ n \in DOMAIN o /\ o[m] = o[n]
      BY <1>1, <2>1, <2>2, <3>1
    <3>3. s[at[m]] = s[at[n]] /\ at[m] \in DOMAIN s /\ at[n] \in DOMAIN s
      BY <1>2, <3>2
    <3>4. at[m] = at[n] /\ at[m] \in Nat
      BY <3>3 DEF IsInjective
    <3>5. ~(m < n) /\ ~(n < m)
      BY <1>2, <3>2, <3>4
    <3>6. QED
      BY <1>1, <3>5
  <2>3. CASE ~(m <= Len(o))
    <3>1. ~(n <= Len(o))
      BY <1>5, <2>1, <2>3
    <3>2. m - Len(o) \in DOMAIN l /\ n - Len(o) \in DOMAIN l /\ l[m - Len(o)] = l[n - Len(o)]
      BY <1>1, <2>1, <2>3, <3>1
    <3>3. m - Len(o) = n - Len(o)
      BY <1>4, <3>2 DEF IsInjective
    <3>4. QED
      BY <1>1, <3>3
  <2>4. QED
    BY <2>2, <2>3
<1>8. Range(q) = Promise!Kept(p)
  <2>1. \A m \in DOMAIN q : q[m] \in Promise!Kept(p)
    <3>1. SUFFICES ASSUME NEW m \in DOMAIN q PROVE q[m] \in Promise!Kept(p)
      OBVIOUS
    <3>2. CASE m <= Len(o)
      BY <1>1, <1>3, <1>5, <3>2, KeptIsLast DEF SortedConns
    <3>3. CASE ~(m <= Len(o))
      BY <1>5, <3>3, KeptIsLast
    <3>4. QED
      BY <3>2, <3>3
  <2>2. ASSUME NEW c \in Promise!Kept(p) PROVE c \in Range(q)
    <3>1. c \in Range(p)
      BY DEF Promise!Kept, Range
    <3>2. CASE ~Sortable(c)
      <4>1. c \in Range(l)
        BY <1>4, <3>1, <3>2 DEF SortedConns
      <4>2. PICK j \in DOMAIN l : l[j] = c
        BY <4>1 DEF Range
      <4>3. QED
        BY <1>1, <4>2 DEF Range
    <3>3. CASE Sortable(c)
      <4>1. c = ConnOf(p, Node(c)) /\ c \in SortedConns(p)
        BY <2>2, <3>1, <3>3, KeptIsLast DEF SortedConns
      <4>2. PICK j \in DOMAIN o : o[j] = c
        BY <1>3, <4>1
      <4>3. j \in DOMAIN q /\ q[j] = c
        BY <1>1, <4>2
      <4>4. QED
        BY <4>3 DEF Range
    <3>4. QED
      BY <3>2, <3>3
  <2>3. QED
    BY <2>1, <2>2 DEF Range
<1>9. q \in [1..Cardinality(Promise!Kept(p)) -> Promise!Kept(p)]
  <2> DEFINE N == Len(o) + Len(l)
  <2>1. N \in Nat /\ IsFiniteSet(1..N) /\ Cardinality(1..N) = N
    <3>1. \A k \in Nat : IsFiniteSet(1..k) /\ Cardinality(1..k) = k
      BY FS_Interval
    <3>2. N \in Nat
      BY <1>1
    <3>3. QED
      BY <3>1, <3>2
  <2>2. q \in Injection(1..N, Promise!Kept(p)) /\ q \in Surjection(1..N, Promise!Kept(p))
    BY <1>1, <1>7, <1>8 DEF Injection, Surjection, Range
  <2>3. IsFiniteSet(Promise!Kept(p)) /\ Cardinality(Promise!Kept(p)) <= N
    BY <2>1, <2>2, FS_Surjection
  <2>4. Cardinality(Promise!Kept(p)) \in Nat /\ N <= Cardinality(Promise!Kept(p))
    BY <2>1, <2>2, <2>3, FS_Injection, FS_CardinalityType
  <2>5. N = Cardinality(Promise!Kept(p))
    BY <2>1, <2>3, <2>4
  <2>6. q \in [1..N -> Promise!Kept(p)]
    BY <2>2 DEF Injection
  <2>7. QED
    BY <2>5, <2>6
<1>10. q \in Promise!Orders(Promise!Kept(p))
  BY <1>7, <1>9, SameWords DEF Promise!Orders
<1>11. QED
  BY <1>1, <1>6, <1>10 DEF q

(* A stack that holds the nodes each after those it has edges to gives an  *)
(* order that puts dependencies first.                                     *)
Ascending(p, s) ==
    \A j \in DOMAIN s : \A d \in Edges(p, s[j]) :
        d = s[j] \/ \E l \in DOMAIN s : l < j /\ s[l] = d

LEMMA AssembledDependencies ==
    ASSUME NEW p \in Inputs, NEW s \in Seq(Nodes), IsInjective(s),
           GraphIfaces(p) \subseteq Range(s), Ascending(p, s)
    PROVE  DependenciesFirst(Assembled(p, s))
<1> DEFINE o == Ordered(p, s)
           l == Loose(p)
           q == Assembled(p, s)
<1>1. /\ Len(o) \in Nat /\ DOMAIN q \subseteq Nat
      /\ \A m \in DOMAIN q : m <= Len(o) => m \in DOMAIN o /\ q[m] = o[m]
      /\ \A m \in DOMAIN q : ~(m <= Len(o)) => m - Len(o) \in DOMAIN l /\ q[m] = l[m - Len(o)]
  <2>1. /\ Len(o) \in Nat /\ Len(l) \in Nat /\ DOMAIN q = 1..(Len(o) + Len(l))
    BY AssembledParts
  <2>2. DOMAIN q \subseteq Nat
    BY <2>1
  <2>3. QED
    BY <2>1, <2>2, AssembledParts
<1>2. PICK at \in [DOMAIN o -> DOMAIN s] :
             /\ \A m \in DOMAIN o : s[at[m]] = Node(o[m])
             /\ \A m, n \in DOMAIN o : m < n => at[m] < at[n]
  BY OrderedShape
<1>3. \A m \in DOMAIN o : o[m] \in SortedConns(p)
  BY OrderedShape
<1>4. Range(l) = Range(p) \ SortedConns(p)
  BY LooseShape
<1> HIDE DEF o, l, q
<1>5. \A m \in DOMAIN q : Sortable(q[m]) => m \in DOMAIN o /\ q[m] = o[m]
  <2>1. SUFFICES ASSUME NEW m \in DOMAIN q, Sortable(q[m]), ~(m <= Len(o)) PROVE FALSE
    BY <1>1
  <2>2. q[m] \in Range(l)
    BY <1>1, <2>1 DEF Range
  <2>3. QED
    BY <1>4, <2>1, <2>2 DEF SortedConns
<1>6. SUFFICES ASSUME NEW m \in DOMAIN q, NEW n \in DOMAIN q,
                      q[m].iface # None, q[m].iface \in DependsOn(q[n]), n < m
               PROVE  FALSE
  BY <1>1 DEF DependenciesFirst, q
<1>7. m \in DOMAIN o /\ q[m] = o[m] /\ n \in DOMAIN o /\ q[n] = o[n]
  BY <1>5, <1>6 DEF Sortable
<1> DEFINE d == IfaceNode(q[m].iface)
<1>8. /\ at[n] < at[m] /\ at[n] \in DOMAIN s /\ at[m] \in DOMAIN s
      /\ s[at[m]] = d /\ s[at[n]] = Node(q[n])
  BY <1>2, <1>6, <1>7 DEF Node
<1>9. at[n] \in Nat /\ at[m] \in Nat /\ d # Node(q[n])
  BY <1>8 DEF IsInjective
<1>10. d \in Edges(p, s[at[n]])
  <2>1. d \in DepNodes(q[n])
    BY <1>6 DEF DepNodes
  <2>2. DepNodes(q[n]) # {Node(q[n])} /\ q[n] \in SortedConns(p)
    BY <1>3, <1>7, <1>9, <2>1
  <2>3. QED
    BY <1>8, <2>1, <2>2 DEF Edges
<1>11. PICK k \in DOMAIN s : k < at[n] /\ s[k] = d
  BY <1>8, <1>9, <1>10 DEF Ascending
<1>12. k = at[m] /\ k \in Nat
  BY <1>8, <1>11 DEF IsInjective
<1>13. QED
  BY <1>8, <1>9, <1>11, <1>12

-----------------------------------------------------------------------------
(* The inductive invariant.  EachOnce alone says nothing of the order in   *)
(* which calls return: that a call returns after those of its dependencies *)
(* needs that no dependency of a call is among the calls around it, which  *)
(* the ranks of the calls tell; and that a call ends with its dependencies *)
(* entered needs that those entered or still ahead of it are all of them.  *)
Frame == [node: Nodes, rest: SUBSET Nodes]

Covered == GraphIfaces(given) \subseteq pending \cup visited

Apart(fr, v, st) ==
    /\ \A m, n \in DOMAIN fr : fr[m].node = fr[n].node => m = n
    /\ {fr[m].node : m \in DOMAIN fr} \cap Range(st) = {}
    /\ {fr[m].node : m \in DOMAIN fr} \cup Range(st) = v

RestLeft(p, fr, v) ==
    \A m \in DOMAIN fr :
        /\ fr[m].rest \subseteq Edges(p, fr[m].node)
        /\ Edges(p, fr[m].node) \subseteq fr[m].rest \cup v

Falling(p, fr) ==
    \A m, n \in DOMAIN fr : m < n => Rank(p, fr[n].node) < Rank(p, fr[m].node)

Settled ==
    Promise!Orderable(given) => Falling(given, frames) /\ Ascending(given, stack)

HandedOver ==
    /\ status # "parsing" => frames = <<>> /\ pending = {}
    /\ status # "accepted" => sorted = <<>>
    /\ status = "accepted" => /\ sorted = Assembled(given, stack)
                              /\ UniqueNames(sorted)
                              /\ UniqueIfaces(sorted)

SortInv ==
    /\ TypeOK
    /\ EachOnce
    /\ Covered
    /\ RestLeft(given, frames, visited)
    /\ Settled
    /\ HandedOver

(* A dependency is seen: it leaves what the innermost call has ahead of    *)
(* it, and nothing else changes.                                           *)
LEMMA SeenShape ==
    ASSUME NEW fr \in Seq(Frame), fr # <<>>, NEW d
    PROVE  LET calls == [fr EXCEPT ![Len(fr)].rest = @ \ {d}]
           IN  /\ calls \in Seq(Frame)
               /\ DOMAIN calls = DOMAIN fr /\ Len(calls) = Len(fr)
               /\ \A m \in DOMAIN fr :
                    /\ calls[m].node = fr[m].node
                    /\ calls[m].rest = IF m = Len(fr) THEN fr[m].rest \ {d} ELSE fr[m].rest
<1> DEFINE calls == [fr EXCEPT ![Len(fr)].rest = @ \ {d}]
<1>1. Len(fr) \in DOMAIN fr /\ \A m \in DOMAIN fr : fr[m] \in Frame
  OBVIOUS
<1>2. DOMAIN calls = DOMAIN fr
  OBVIOUS
<1>3. \A m \in DOMAIN fr :
        /\ calls[m] \in Frame
        /\ calls[m].node = fr[m].node
        /\ calls[m].rest = IF m = Len(fr) THEN fr[m].rest \ {d} ELSE fr[m].rest
  BY <1>1 DEF Frame
<1>4. calls \in Seq(Frame) /\ Len(calls) = Len(fr)
  <2>1. Len(fr) \in Nat /\ DOMAIN fr = 1..Len(fr)
    OBVIOUS
  <2>2. calls = [m \in 1..Len(fr) |-> calls[m]]
    BY <1>2, <2>1
  <2>3. \A m \in 1..Len(fr) : calls[m] \in Frame
    BY <1>3, <2>1
  <2> HIDE DEF calls
  <2>4. QED
    BY <2>1, <2>2, <2>3
<1>5. QED
  BY <1>2, <1>3, <1>4

(* A call begins. *)
LEMMA EnteredShape ==
    ASSUME NEW p \in Inputs, NEW fr \in Seq(Frame), NEW n \in Nodes
    PROVE  LET calls == Append(fr, [node |-> n, rest |-> Edges(p, n)])
           IN  /\ calls \in Seq(Frame)
               /\ DOMAIN calls = DOMAIN fr \cup {Len(fr) + 1}
               /\ Len(fr) \in Nat /\ DOMAIN fr = 1..Len(fr)
               /\ \A m \in DOMAIN fr : calls[m] = fr[m]
               /\ calls[Len(fr) + 1].node = n
               /\ calls[Len(fr) + 1].rest = Edges(p, n)
<1>1. [node |-> n, rest |-> Edges(p, n)] \in Frame
  BY GraphType DEF Frame
<1>2. QED
  BY <1>1

LEMMA EnteredApart ==
    ASSUME NEW p \in Inputs, NEW fr \in Seq(Frame), NEW n \in Nodes,
           NEW v, n \notin v, NEW st, Apart(fr, v, st)
    PROVE  Apart(Append(fr, [node |-> n, rest |-> Edges(p, n)]), v \cup {n}, st)
<1> DEFINE calls == Append(fr, [node |-> n, rest |-> Edges(p, n)])
<1>1. /\ DOMAIN calls = DOMAIN fr \cup {Len(fr) + 1}
      /\ \A m \in DOMAIN fr : calls[m] = fr[m]
      /\ calls[Len(fr) + 1].node = n
  BY EnteredShape
<1> HIDE DEF calls
<1>2. {calls[m].node : m \in DOMAIN calls} = {fr[m].node : m \in DOMAIN fr} \cup {n}
  BY <1>1
<1>3. \A m \in DOMAIN fr : fr[m].node # n
  BY DEF Apart
<1>4. \A m, l \in DOMAIN calls : calls[m].node = calls[l].node => m = l
  BY <1>1, <1>3 DEF Apart
<1>5. n \notin Range(st)
  BY DEF Apart
<1>6. Apart(calls, v \cup {n}, st)
  BY <1>2, <1>4, <1>5 DEF Apart
<1>7. QED
  BY <1>6 DEF calls

LEMMA EnteredRest ==
    ASSUME NEW p \in Inputs, NEW fr \in Seq(Frame), NEW n \in Nodes,
           NEW v, RestLeft(p, fr, v)
    PROVE  RestLeft(p, Append(fr, [node |-> n, rest |-> Edges(p, n)]), v)
BY EnteredShape DEF RestLeft

(* A call for a dependency of the innermost one ranks below all calls.     *)
LEMMA EnteredFalling ==
    ASSUME NEW p \in Inputs, Promise!Orderable(p), NEW fr \in Seq(Frame), NEW n \in Nodes,
           fr # <<>> => n \in Edges(p, fr[Len(fr)].node) /\ n # fr[Len(fr)].node,
           Falling(p, fr)
    PROVE  Falling(p, Append(fr, [node |-> n, rest |-> Edges(p, n)]))
<1> DEFINE calls == Append(fr, [node |-> n, rest |-> Edges(p, n)])
<1>1. /\ DOMAIN calls = DOMAIN fr \cup {Len(fr) + 1}
      /\ Len(fr) \in Nat /\ DOMAIN fr = 1..Len(fr)
      /\ \A m \in DOMAIN fr : calls[m] = fr[m]
      /\ calls[Len(fr) + 1].node = n
  BY EnteredShape
<1> HIDE DEF calls
<1>2. \A l : Rank(p, l) \in Nat
  BY RankOfAt
<1>3. \A m \in DOMAIN fr : Rank(p, n) < Rank(p, fr[m].node)
  <2>1. SUFFICES ASSUME NEW m \in DOMAIN fr PROVE Rank(p, n) < Rank(p, fr[m].node)
    OBVIOUS
  <2>2. Len(fr) \in DOMAIN fr /\ fr # <<>>
    BY <1>1
  <2>3. Rank(p, n) < Rank(p, fr[Len(fr)].node)
    BY <2>2, RankFalls
  <2>4. m = Len(fr) \/ m < Len(fr)
    BY <1>1
  <2>5. CASE m < Len(fr)
    <3>1. Rank(p, fr[Len(fr)].node) < Rank(p, fr[m].node)
      BY <2>2, <2>5 DEF Falling
    <3>2. QED
      BY <1>2, <2>3, <3>1
  <2>6. QED
    BY <2>3, <2>4, <2>5
<1>4. Falling(p, calls)
  <2>1. SUFFICES ASSUME NEW m \in DOMAIN calls, NEW k \in DOMAIN calls, m < k
                 PROVE  Rank(p, calls[k].node) < Rank(p, calls[m].node)
    BY DEF Falling
  <2>2. m \in DOMAIN fr /\ (k \in DOMAIN fr \/ k = Len(fr) + 1)
    BY <1>1, <2>1
  <2>3. QED
    BY <1>1, <1>3, <2>1, <2>2 DEF Falling
<1>5. QED
  BY <1>4 DEF calls

LEMMA SeenApart ==
    ASSUME NEW fr \in Seq(Frame), fr # <<>>, NEW d, NEW v, NEW st, Apart(fr, v, st)
    PROVE  Apart([fr EXCEPT ![Len(fr)].rest = @ \ {d}], v, st)
<1> DEFINE calls == [fr EXCEPT ![Len(fr)].rest = @ \ {d}]
<1>1. DOMAIN calls = DOMAIN fr /\ \A m \in DOMAIN fr : calls[m].node = fr[m].node
  BY SeenShape
<1> HIDE DEF calls
<1>2. {calls[m].node : m \in DOMAIN calls} = {fr[m].node : m \in DOMAIN fr}
  BY <1>1
<1>3. Apart(calls, v, st)
  BY <1>1, <1>2 DEF Apart
<1>4. QED
  BY <1>3 DEF calls

LEMMA SeenRest ==
    ASSUME NEW p \in Inputs, NEW fr \in Seq(Frame), fr # <<>>, NEW d, NEW v,
           RestLeft(p, fr, v)
    PROVE  RestLeft(p, [fr EXCEPT ![Len(fr)].rest = @ \ {d}], v \cup {d})
<1> DEFINE calls == [fr EXCEPT ![Len(fr)].rest = @ \ {d}]
<1>1. /\ DOMAIN calls = DOMAIN fr
      /\ \A m \in DOMAIN fr :
           /\ calls[m].node = fr[m].node
           /\ calls[m].rest = IF m = Len(fr) THEN fr[m].rest \ {d} ELSE fr[m].rest
  BY SeenShape
<1> HIDE DEF calls
<1>2. RestLeft(p, calls, v \cup {d})
  BY <1>1 DEF RestLeft
<1>3. QED
  BY <1>2 DEF calls

LEMMA SeenFalling ==
    ASSUME NEW p, NEW fr \in Seq(Frame), fr # <<>>, NEW d, Falling(p, fr)
    PROVE  Falling(p, [fr EXCEPT ![Len(fr)].rest = @ \ {d}])
<1> DEFINE calls == [fr EXCEPT ![Len(fr)].rest = @ \ {d}]
<1>1. DOMAIN calls = DOMAIN fr /\ \A m \in DOMAIN fr : calls[m].node = fr[m].node
  BY SeenShape
<1> HIDE DEF calls
<1>2. Falling(p, calls)
  BY <1>1 DEF Falling
<1>3. QED
  BY <1>2 DEF calls

(* The innermost call returns. *)
LEMMA ReturnedShape ==
    ASSUME NEW fr \in Seq(Frame), fr # <<>>, NEW st \in Seq(Nodes)
    PROVE  LET calls == SubSeq(fr, 1, Len(fr) - 1)
               n == fr[Len(fr)].node
           IN  /\ calls \in Seq(Frame)
               /\ DOMAIN fr = DOMAIN calls \cup {Len(fr)}
               /\ Len(fr) \notin DOMAIN calls
               /\ Len(fr) \in Nat /\ DOMAIN fr = 1..Len(fr)
               /\ \A m \in DOMAIN calls : calls[m] = fr[m]
               /\ n \in Nodes
               /\ Append(st, n) \in Seq(Nodes)
               /\ Len(st) \in Nat /\ DOMAIN st = 1..Len(st)
               /\ DOMAIN Append(st, n) = DOMAIN st \cup {Len(st) + 1}
               /\ \A j \in DOMAIN st : Append(st, n)[j] = st[j]
               /\ Append(st, n)[Len(st) + 1] = n
<1> DEFINE calls == SubSeq(fr, 1, Len(fr) - 1)
           n == fr[Len(fr)].node
<1>1. Len(fr) \in Nat /\ Len(fr) # 0 /\ DOMAIN fr = 1..Len(fr) /\ \A m \in DOMAIN fr : fr[m] \in Frame
  OBVIOUS
<1>2. n \in Nodes
  BY <1>1 DEF Frame
<1>3. calls = [m \in 1..(Len(fr) - 1) |-> fr[m]]
  BY <1>1
<1>4. /\ calls \in Seq(Frame)
      /\ DOMAIN calls = 1..(Len(fr) - 1)
      /\ \A m \in DOMAIN calls : calls[m] = fr[m]
  BY <1>1, <1>3
<1> HIDE DEF calls, n
<1>5. /\ Append(st, n) \in Seq(Nodes)
      /\ Len(st) \in Nat /\ DOMAIN st = 1..Len(st)
      /\ DOMAIN Append(st, n) = DOMAIN st \cup {Len(st) + 1}
      /\ \A j \in DOMAIN st : Append(st, n)[j] = st[j]
      /\ Append(st, n)[Len(st) + 1] = n
  BY <1>2
<1>6. DOMAIN fr = DOMAIN calls \cup {Len(fr)} /\ Len(fr) \notin DOMAIN calls
  BY <1>1, <1>4
<1>7. QED
  BY <1>1, <1>2, <1>4, <1>5, <1>6 DEF calls, n

LEMMA ReturnedApart ==
    ASSUME NEW fr \in Seq(Frame), fr # <<>>, NEW st \in Seq(Nodes), NEW v,
           Apart(fr, v, st), IsInjective(st)
    PROVE  LET n == fr[Len(fr)].node
           IN  /\ Apart(SubSeq(fr, 1, Len(fr) - 1), v, Append(st, n))
               /\ IsInjective(Append(st, n))
<1> DEFINE calls == SubSeq(fr, 1, Len(fr) - 1)
           n == fr[Len(fr)].node
           stk == Append(st, n)
<1>1. /\ DOMAIN fr = DOMAIN calls \cup {Len(fr)}
      /\ Len(fr) \notin DOMAIN calls
      /\ \A m \in DOMAIN calls : calls[m] = fr[m]
      /\ DOMAIN stk = DOMAIN st \cup {Len(st) + 1}
      /\ \A j \in DOMAIN st : stk[j] = st[j]
      /\ stk[Len(st) + 1] = n
  <2>1. /\ DOMAIN fr = DOMAIN calls \cup {Len(fr)}
        /\ Len(fr) \notin DOMAIN calls
        /\ \A m \in DOMAIN calls : calls[m] = fr[m]
    BY ReturnedShape
  <2>2. /\ DOMAIN stk = DOMAIN st \cup {Len(st) + 1}
        /\ \A j \in DOMAIN st : stk[j] = st[j]
        /\ stk[Len(st) + 1] = n
    BY ReturnedShape
  <2>3. QED
    BY <2>1, <2>2
<1> HIDE DEF calls, stk
<1>2. n \notin Range(st)
  BY <1>1 DEF Apart
<1>3. Range(stk) = Range(st) \cup {n}
  BY <1>1 DEF Range
<1>4. {fr[m].node : m \in DOMAIN fr} = {calls[m].node : m \in DOMAIN calls} \cup {n}
  <2> DEFINE A == {fr[m].node : m \in DOMAIN fr}
             B == {calls[m].node : m \in DOMAIN calls}
  <2>1. \A x : x \in A <=> x \in B \cup {n}
    <3>1. ASSUME NEW x \in A PROVE x \in B \cup {n}
      <4>1. PICK m \in DOMAIN fr : x = fr[m].node
        BY <3>1
      <4>2. CASE m = Len(fr)
        BY <4>1, <4>2
      <4>3. CASE m \in DOMAIN calls
        <5>1. x = calls[m].node
          BY <1>1, <4>1, <4>3
        <5>2. QED
          BY <4>3, <5>1
      <4>4. QED
        BY <1>1, <4>2, <4>3
    <3>2. ASSUME NEW x \in B \cup {n} PROVE x \in A
      <4>1. CASE x = n
        BY <1>1, <4>1
      <4>2. CASE x \in B
        <5>1. PICK m \in DOMAIN calls : x = calls[m].node
          BY <4>2
        <5>2. m \in DOMAIN fr /\ x = fr[m].node
          BY <1>1, <5>1
        <5>3. QED
          BY <5>2
      <4>3. QED
        BY <3>2, <4>1, <4>2
    <3>3. QED
      BY <3>1, <3>2
  <2>2. QED
    BY <2>1
<1>5. n \notin {calls[m].node : m \in DOMAIN calls}
  BY <1>1 DEF Apart
<1>6. \A m, l \in DOMAIN calls : calls[m].node = calls[l].node => m = l
  BY <1>1 DEF Apart
<1> DEFINE A == {fr[m].node : m \in DOMAIN fr}
           B == {calls[m].node : m \in DOMAIN calls}
<1>7. A \cap Range(st) = {} /\ A \cup Range(st) = v /\ A = B \cup {n} /\ n \notin B
  BY <1>4, <1>5 DEF Apart
<1> HIDE DEF n, A, B
<1>8. B \cap Range(stk) = {} /\ B \cup Range(stk) = v
  BY <1>3, <1>7
<1>9. Apart(calls, v, stk)
  BY <1>6, <1>8 DEF Apart, B
<1>10. IsInjective(stk)
  <2>1. \A j \in DOMAIN st : st[j] # n
    BY <1>2 DEF Range
  <2>2. QED
    BY <1>1, <2>1 DEF IsInjective
<1>11. QED
  BY <1>9, <1>10 DEF calls, stk, n

LEMMA ReturnedRest ==
    ASSUME NEW p, NEW fr \in Seq(Frame), fr # <<>>, NEW v, RestLeft(p, fr, v)
    PROVE  RestLeft(p, SubSeq(fr, 1, Len(fr) - 1), v)
<1>1. <<>> \in Seq(Nodes)
  OBVIOUS
<1>2. QED
  BY <1>1, ReturnedShape DEF RestLeft

LEMMA ReturnedFalling ==
    ASSUME NEW p, NEW fr \in Seq(Frame), fr # <<>>, Falling(p, fr)
    PROVE  Falling(p, SubSeq(fr, 1, Len(fr) - 1))
<1>1. <<>> \in Seq(Nodes)
  OBVIOUS
<1>2. QED
  BY <1>1, ReturnedShape DEF Falling

(* Its dependencies have been entered, and none of them is a call around   *)
(* it, whose ranks are higher: they have returned.                         *)
LEMMA ReturnedAscending ==
    ASSUME NEW p \in Inputs, Promise!Orderable(p),
           NEW fr \in Seq(Frame), fr # <<>>, NEW st \in Seq(Nodes), NEW v,
           Apart(fr, v, st), RestLeft(p, fr, v), Falling(p, fr), Ascending(p, st),
           fr[Len(fr)].rest = {}
    PROVE  Ascending(p, Append(st, fr[Len(fr)].node))
<1> DEFINE n == fr[Len(fr)].node
           stk == Append(st, n)
<1>1. /\ Len(fr) \in Nat /\ DOMAIN fr = 1..Len(fr) /\ Len(fr) \in DOMAIN fr
      /\ Len(st) \in Nat /\ DOMAIN st = 1..Len(st)
      /\ DOMAIN stk = DOMAIN st \cup {Len(st) + 1}
      /\ \A j \in DOMAIN st : stk[j] = st[j]
      /\ stk[Len(st) + 1] = n
  BY ReturnedShape
<1>2. \A d \in Edges(p, n) : d = n \/ d \in Range(st)
  <2>1. SUFFICES ASSUME NEW d \in Edges(p, n), d # n, d \notin Range(st) PROVE FALSE
    OBVIOUS
  <2>2. d \in v
    BY <1>1 DEF RestLeft
  <2>3. PICK m \in DOMAIN fr : fr[m].node = d
    BY <2>1, <2>2 DEF Apart
  <2>4. m < Len(fr)
    BY <1>1, <2>1, <2>3
  <2>5. Rank(p, n) < Rank(p, d)
    BY <1>1, <2>3, <2>4 DEF Falling
  <2>6. Rank(p, d) < Rank(p, n)
    BY <2>1, RankFalls
  <2>7. Rank(p, d) \in Nat /\ Rank(p, n) \in Nat
    BY RankOfAt
  <2>8. QED
    BY <2>5, <2>6, <2>7
<1> HIDE DEF n, stk
<1>3. Ascending(p, stk)
  <2>1. SUFFICES ASSUME NEW j \in DOMAIN stk, NEW d \in Edges(p, stk[j]), d # stk[j]
                 PROVE  \E l \in DOMAIN stk : l < j /\ stk[l] = d
    BY DEF Ascending
  <2>2. CASE j \in DOMAIN st
    <3>1. PICK l \in DOMAIN st : l < j /\ st[l] = d
      BY <1>1, <2>1, <2>2 DEF Ascending
    <3>2. QED
      BY <1>1, <3>1
  <2>3. CASE j = Len(st) + 1
    <3>1. PICK l \in DOMAIN st : st[l] = d
      BY <1>1, <1>2, <2>1, <2>3 DEF Range
    <3>2. l < j
      BY <1>1, <2>3
    <3>3. QED
      BY <1>1, <3>1, <3>2
  <2>4. QED
    BY <1>1, <2>2, <2>3
<1>4. QED
  BY <1>3 DEF stk, n

-----------------------------------------------------------------------------
LEMMA EachOnceApart ==
    EachOnce <=> IsInjective(stack) /\ Apart(frames, visited, stack)
BY DEF EachOnce, Apart, IsInjective

LEMMA AllReturned ==
    ASSUME EachOnce, frames = <<>>
    PROVE  Range(stack) = visited
<1>1. DOMAIN frames = {}
  OBVIOUS
<1>2. {frames[m].node : m \in DOMAIN frames} = {}
  BY <1>1
<1>3. QED
  BY <1>2 DEF EachOnce

LEMMA InitInv == Init => SortInv
<1> SUFFICES ASSUME Init PROVE SortInv
  OBVIOUS
<1> USE DEF Init
<1>1. TypeOK
  BY GraphType DEF TypeOK
<1>2. EachOnce
  BY DEF EachOnce, IsInjective, Range
<1>3. Covered
  BY DEF Covered
<1>4. RestLeft(given, frames, visited)
  BY DEF RestLeft
<1>5. Settled
  BY DEF Settled, Falling, Ascending
<1>6. HandedOver
  BY DEF HandedOver
<1>7. QED
  BY <1>1, <1>2, <1>3, <1>4, <1>5, <1>6 DEF SortInv

LEMMA PickInv ==
    ASSUME SortInv, NEW n \in Nodes, Pick(n)
    PROVE  SortInv'
<1>1. /\ given \in Inputs /\ frames \in Seq(Frame) /\ frames = <<>> /\ stack \in Seq(Nodes)
      /\ status = "parsing" /\ sorted = <<>>
  BY DEF SortInv, TypeOK, Frame, Pick, HandedOver
<1>2. /\ given' = given /\ status' = status /\ sorted' = sorted /\ stack' = stack
      /\ pending' = pending \ {n}
  BY DEF Pick
<1>3. /\ Apart(frames, visited, stack) /\ IsInjective(stack)
      /\ RestLeft(given, frames, visited)
  BY EachOnceApart DEF SortInv
<1>4. CASE n \in visited
  <2>1. visited' = visited /\ frames' = frames
    BY <1>4 DEF Pick
  <2>2. TypeOK' /\ EachOnce'
    BY <1>1, <1>2, <2>1 DEF SortInv, TypeOK, EachOnce
  <2>3. Covered'
    BY <1>2, <1>4, <2>1 DEF SortInv, Covered
  <2>4. RestLeft(given, frames, visited)' /\ Settled'
    BY <1>2, <2>1 DEF SortInv, Settled
  <2>5. HandedOver'
    BY <1>1, <1>2, <2>1 DEF SortInv, HandedOver
  <2>6. QED
    BY <2>2, <2>3, <2>4, <2>5 DEF SortInv
<1>5. CASE n \notin visited
  <2>1. /\ visited' = visited \cup {n}
        /\ frames' = Append(frames, [node |-> n, rest |-> Edges(given, n)])
    BY <1>1, <1>5 DEF Pick, Enter
  <2>2. TypeOK'
    <3>1. frames' \in Seq(Frame)
      BY <1>1, <2>1, EnteredShape
    <3>2. QED
      BY <1>1, <1>2, <2>1, <3>1 DEF SortInv, TypeOK, Frame
  <2>3. EachOnce'
    <3>1. Apart(frames', visited', stack)
      BY <1>1, <1>3, <1>5, <2>1, EnteredApart
    <3>2. QED
      BY <1>2, <1>3, <3>1 DEF EachOnce, Apart, IsInjective
  <2>4. Covered'
    BY <1>2, <2>1 DEF SortInv, Covered
  <2>5. RestLeft(given, frames, visited)'
    <3>1. RestLeft(given, frames, visited')
      BY <1>1 DEF RestLeft
    <3>2. RestLeft(given, frames', visited')
      BY <1>1, <2>1, <3>1, EnteredRest
    <3>3. QED
      BY <1>2, <3>2
  <2>6. Settled'
    <3>1. SUFFICES ASSUME Promise!Orderable(given)
                   PROVE  Falling(given, frames') /\ Ascending(given, stack)
      BY <1>2 DEF Settled
    <3>2. QED
      BY <1>1, <2>1, <3>1, EnteredFalling DEF SortInv, Settled
  <2>7. HandedOver'
    BY <1>1, <1>2 DEF HandedOver
  <2>8. QED
    BY <2>2, <2>3, <2>4, <2>5, <2>6, <2>7 DEF SortInv
<1>6. QED
  BY <1>4, <1>5

LEMMA DescendInv ==
    ASSUME SortInv, NEW d \in Nodes, Descend(d)
    PROVE  SortInv'
<1> DEFINE calls == [frames EXCEPT ![Len(frames)].rest = @ \ {d}]
           top == frames[Len(frames)]
<1>1. /\ given \in Inputs /\ frames \in Seq(Frame) /\ frames # <<>> /\ stack \in Seq(Nodes)
      /\ status = "parsing" /\ sorted = <<>>
      /\ d \in top.rest
  BY DEF SortInv, TypeOK, Frame, Descend, HandedOver, Depth
<1>2. /\ given' = given /\ status' = status /\ sorted' = sorted /\ stack' = stack
      /\ pending' = pending
  BY DEF Descend
<1>3. /\ Apart(frames, visited, stack) /\ IsInjective(stack)
      /\ RestLeft(given, frames, visited)
  BY EachOnceApart DEF SortInv
<1>4. /\ calls \in Seq(Frame)
      /\ Apart(calls, visited, stack)
      /\ RestLeft(given, calls, visited \cup {d})
      /\ Promise!Orderable(given) => Falling(given, calls)
  <2>1. calls \in Seq(Frame)
    BY <1>1, SeenShape
  <2>2. Apart(calls, visited, stack)
    BY <1>1, <1>3, SeenApart
  <2>3. RestLeft(given, calls, visited \cup {d})
    BY <1>1, <1>3, SeenRest
  <2>4. Promise!Orderable(given) => Falling(given, calls)
    BY <1>1, SeenFalling DEF SortInv, Settled
  <2>5. QED
    BY <2>1, <2>2, <2>3, <2>4
<1>5. calls # <<>> /\ calls[Len(calls)].node = top.node /\ Len(frames) \in DOMAIN frames
  <2>1. Len(frames) \in DOMAIN frames
    BY <1>1
  <2>2. Len(calls) = Len(frames) /\ DOMAIN calls = DOMAIN frames
        /\ calls[Len(frames)].node = top.node
    BY <1>1, <2>1, SeenShape
  <2>3. QED
    BY <2>1, <2>2
<1>6. d \in Edges(given, top.node)
  BY <1>1, <1>3, <1>5 DEF RestLeft
<1>7. /\ d \in visited => frames' = calls /\ visited' = visited
      /\ d \notin visited => /\ frames' = Append(calls, [node |-> d, rest |-> Edges(given, d)])
                             /\ visited' = visited \cup {d}
  BY DEF Descend, Enter, Depth
<1>8. top.node \in visited
  BY <1>3, <1>5 DEF Apart
<1> HIDE DEF calls, top
<1>9. /\ frames' \in Seq(Frame)
      /\ Apart(frames', visited', stack)
      /\ visited' = visited \cup {d}
      /\ RestLeft(given, frames', visited')
      /\ Promise!Orderable(given) => Falling(given, frames')
  <2>1. CASE d \in visited
    <3>1. visited \cup {d} = visited
      BY <2>1
    <3>2. QED
      BY <1>4, <1>7, <2>1, <3>1
  <2>2. CASE d \notin visited
    <3>1. frames' \in Seq(Frame)
      BY <1>1, <1>4, <1>7, <2>2, EnteredShape
    <3>2. Apart(frames', visited', stack)
      BY <1>1, <1>4, <1>7, <2>2, EnteredApart
    <3>3. RestLeft(given, frames', visited')
      BY <1>1, <1>4, <1>7, <2>2, EnteredRest
    <3>4. Promise!Orderable(given) => Falling(given, frames')
      BY <1>1, <1>4, <1>5, <1>6, <1>7, <1>8, <2>2, EnteredFalling
    <3>5. QED
      BY <1>7, <2>2, <3>1, <3>2, <3>3, <3>4
  <2>3. QED
    BY <2>1, <2>2
<1>10. TypeOK'
  BY <1>1, <1>2, <1>9 DEF SortInv, TypeOK, Frame
<1>11. EachOnce'
  BY <1>2, <1>3, <1>9 DEF EachOnce, Apart, IsInjective
<1>12. Covered'
  BY <1>2, <1>9 DEF SortInv, Covered
<1>13. RestLeft(given, frames, visited)' /\ Settled'
  BY <1>2, <1>9 DEF SortInv, Settled
<1>14. HandedOver'
  BY <1>1, <1>2 DEF HandedOver
<1>15. QED
  BY <1>10, <1>11, <1>12, <1>13, <1>14 DEF SortInv

LEMMA ReturnInv ==
    ASSUME SortInv, Return
    PROVE  SortInv'
<1> DEFINE n == frames[Len(frames)].node
<1>1. /\ given \in Inputs /\ frames \in Seq(Frame) /\ frames # <<>> /\ stack \in Seq(Nodes)
      /\ status = "parsing" /\ sorted = <<>>
      /\ frames[Len(frames)].rest = {}
  BY DEF SortInv, TypeOK, Frame, Return, HandedOver, Depth
<1>2. /\ given' = given /\ status' = status /\ sorted' = sorted
      /\ pending' = pending /\ visited' = visited
      /\ stack' = Append(stack, n)
      /\ frames' = SubSeq(frames, 1, Len(frames) - 1)
  BY DEF Return, Depth
<1>3. /\ Apart(frames, visited, stack) /\ IsInjective(stack)
      /\ RestLeft(given, frames, visited)
  BY EachOnceApart DEF SortInv
<1>4. TypeOK'
  <2>1. frames' \in Seq(Frame) /\ stack' \in Seq(Nodes)
    BY <1>1, <1>2, ReturnedShape
  <2>2. QED
    BY <1>1, <1>2, <2>1 DEF SortInv, TypeOK, Frame
<1>5. EachOnce'
  <2>1. Apart(frames', visited, stack') /\ IsInjective(stack')
    BY <1>1, <1>2, <1>3, ReturnedApart
  <2>2. QED
    BY <1>2, <2>1 DEF EachOnce, Apart, IsInjective
<1>6. Covered'
  BY <1>2 DEF SortInv, Covered
<1>7. RestLeft(given, frames, visited)'
  BY <1>1, <1>2, <1>3, ReturnedRest
<1>8. Settled'
  <2>1. SUFFICES ASSUME Promise!Orderable(given)
                 PROVE  Falling(given, frames') /\ Ascending(given, stack')
    BY <1>2 DEF Settled
  <2>2. Falling(given, frames) /\ Ascending(given, stack)
    BY <2>1 DEF SortInv, Settled
  <2>3. Falling(given, frames')
    BY <1>1, <1>2, <2>2, ReturnedFalling
  <2>4. Ascending(given, stack')
    BY <1>1, <1>2, <1>3, <2>1, <2>2, ReturnedAscending
  <2>5. QED
    BY <2>3, <2>4
<1>9. HandedOver'
  BY <1>1, <1>2 DEF HandedOver
<1>10. QED
  BY <1>4, <1>5, <1>6, <1>7, <1>8, <1>9 DEF SortInv

(* When everything is sorted, what is assembled is as PlanOrder promises.  *)
LEMMA SortedWell ==
    ASSUME SortInv, AllSorted
    PROVE  LET q == Assembled(given, stack)
           IN  /\ q \in Seq(MainCfg)
               /\ q \in Promise!Orders(Promise!Kept(given))
               /\ Promise!LooseLast(q)
               /\ Promise!Orderable(given) => DependenciesFirst(q)
<1>1. given \in Inputs /\ stack \in Seq(Nodes) /\ IsInjective(stack)
  BY DEF SortInv, TypeOK, EachOnce
<1>2. GraphIfaces(given) \subseteq Range(stack)
  <2>1. Range(stack) = visited
    BY AllReturned DEF SortInv, AllSorted
  <2>2. QED
    BY <2>1 DEF SortInv, AllSorted, Covered
<1>3. Promise!Orderable(given) => Ascending(given, stack)
  BY DEF SortInv, Settled
<1>4. QED
  BY <1>1, <1>2, <1>3, AssembledOrder, AssembledDependencies

LEMMA EndInv ==
    ASSUME SortInv, Accept \/ Reject
    PROVE  SortInv'
<1> USE DEF Accept, Reject
<1>1. /\ given' = given /\ pending' = pending /\ visited' = visited
      /\ frames' = frames /\ stack' = stack /\ AllSorted
  OBVIOUS
<1>2. TypeOK'
  <2>1. status' \in {"parsing", "accepted", "rejected"}
    OBVIOUS
  <2>2. sorted' \in Seq(MainCfg)
    BY <1>1, SortedWell DEF SortInv, TypeOK
  <2>3. QED
    BY <1>1, <2>1, <2>2 DEF SortInv, TypeOK
<1>3. EachOnce' /\ Covered' /\ RestLeft(given, frames, visited)' /\ Settled'
  BY <1>1 DEF SortInv, EachOnce, Covered, Settled
<1>4. HandedOver'
  BY <1>1 DEF SortInv, HandedOver, AllSorted, UniqueNames, UniqueIfaces
<1>5. QED
  BY <1>2, <1>3, <1>4 DEF SortInv

LEMMA NextInv == SortInv /\ [Next]_vars => SortInv'
<1> SUFFICES ASSUME SortInv, [Next]_vars PROVE SortInv'
  OBVIOUS
<1>1. ASSUME NEW n \in Nodes, Pick(n) PROVE SortInv'
  BY <1>1, PickInv
<1>2. ASSUME NEW n \in Nodes, Descend(n) PROVE SortInv'
  BY <1>2, DescendInv
<1>3. CASE Return
  BY <1>3, ReturnInv
<1>4. CASE Accept \/ Reject
  BY <1>4, EndInv
<1>5. CASE UNCHANGED vars
  BY <1>5 DEF vars, SortInv, TypeOK, EachOnce, Covered, RestLeft, Settled, HandedOver,
              UniqueNames, UniqueIfaces
<1>6. QED
  BY <1>1, <1>2, <1>3, <1>4, <1>5 DEF Next

LEMMA SortInvariant == Spec => []SortInv
BY InitInv, NextInv, PTL DEF Spec

(* The shapes of the sort's local variables; what is handed over are       *)
(* connections.                                                            *)
THEOREM SortTyped == Spec => []TypeOK
<1>1. SortInv => TypeOK
  BY DEF SortInv
<1>2. QED
  BY <1>1, SortInvariant, PTL

(* No node is entered twice, circular dependencies or not.                 *)
THEOREM EnteredOnce == Spec => []EachOnce
<1>1. SortInv => EachOnce
  BY DEF SortInv
<1>2. QED
  BY <1>1, SortInvariant, PTL

-----------------------------------------------------------------------------
(* What every configuration of the dictionary meets, those handed over do. *)
LEMMA HandedWellFormed ==
    ASSUME NEW p \in Inputs, NEW q, Range(q) \subseteq Range(p)
    PROVE  \A m \in Places(q) : WellFormed(CfgAt(q, m))
<1>1. SUFFICES ASSUME NEW n \in DOMAIN q, NEW j \in {0} \cup DOMAIN q[n].slaves
               PROVE  WellFormed(CfgAt(q, <<n, j>>))
  BY DEF Places
<1>2. PICK k \in DOMAIN p : p[k] = q[n]
  BY DEF Range
<1>3. <<k, j>> \in Places(p)
  BY <1>1, <1>2 DEF Places
<1>4. CfgAt(p, <<k, j>>) = CfgAt(q, <<n, j>>)
  BY <1>2 DEF CfgAt
<1>5. QED
  BY <1>3, <1>4, InputType

(* What parse accepts is what nmcli_apply's runs take for granted.         *)
THEOREM PlansAreReady == Spec => []PlanReady
<1>1. SortInv => PlanReady
  <2>1. SUFFICES ASSUME SortInv, status = "accepted", Promise!Orderable(given)
                 PROVE  ParsedPlan(sorted)
    BY DEF PlanReady
  <2>2. given \in Inputs /\ stack \in Seq(Nodes) /\ IsInjective(stack)
    BY <2>1 DEF SortInv, TypeOK, EachOnce
  <2>3. /\ sorted = Assembled(given, stack) /\ UniqueNames(sorted) /\ UniqueIfaces(sorted)
        /\ frames = <<>> /\ pending = {}
    BY <2>1 DEF SortInv, HandedOver
  <2>4. GraphIfaces(given) \subseteq Range(stack)
    <3>1. Range(stack) = visited
      BY <2>1, <2>3, AllReturned DEF SortInv
    <3>2. QED
      BY <2>1, <2>3, <3>1 DEF SortInv, Covered
  <2>5. DependenciesFirst(sorted)
    <3>1. Ascending(given, stack)
      BY <2>1 DEF SortInv, Settled
    <3>2. QED
      BY <2>2, <2>3, <2>4, <3>1, AssembledDependencies
  <2>6. Range(sorted) \subseteq Range(given)
    <3>1. sorted \in Promise!Orders(Promise!Kept(given))
      BY <2>2, <2>3, <2>4, AssembledOrder
    <3>2. Range(sorted) \subseteq Promise!Kept(given)
      BY <3>1 DEF Promise!Orders, Range
    <3>3. QED
      BY <3>2 DEF Promise!Kept, Range
  <2>7. QED
    BY <2>2, <2>3, <2>5, <2>6, HandedWellFormed DEF ParsedPlan
<1>2. QED
  BY <1>1, SortInvariant, PTL

(* The sort implements PlanOrder, whatever the order of iteration.         *)
THEOREM OrderPromised == Spec => Promised
<1>1. Init => Promise!Init
  BY DEF Init, Promise!Init
<1>2. SortInv /\ [Next]_vars => [Promise!Next]_(Promise!planVars)
  <2> SUFFICES ASSUME SortInv, [Next]_vars
               PROVE  Promise!Next \/ UNCHANGED Promise!planVars
    OBVIOUS
  <2>1. ASSUME NEW n \in Nodes, Pick(n) \/ Descend(n) PROVE UNCHANGED Promise!planVars
    BY <2>1 DEF Pick, Descend, Promise!planVars
  <2>2. CASE Return \/ UNCHANGED vars
    BY <2>2 DEF Return, vars, Promise!planVars
  <2>3. CASE Accept
    <3> DEFINE q == Assembled(given, stack)
    <3>1. /\ AllSorted /\ UniqueNames(q) /\ UniqueIfaces(q) /\ sorted' = q
          /\ status = "parsing" /\ status' = "accepted" /\ given' = given
      BY <2>3 DEF Accept, AllSorted
    <3>2. /\ q \in Promise!Orders(Promise!Kept(given))
          /\ Promise!LooseLast(q)
          /\ Promise!Orderable(given) => Promise!DependenciesFirst(q)
      BY <3>1, SortedWell, SameWords
    <3>3. ~Promise!Conflict(q)
      BY <3>1, SameWords DEF Promise!Conflict
    <3>4. Promise!Good(given, q)
      BY <3>2, <3>3 DEF Promise!Good
    <3>5. Promise!Accept
      BY <3>1, <3>2, <3>4 DEF Promise!Accept
    <3>6. QED
      BY <3>5 DEF Promise!Next
  <2>4. CASE Reject
    <3> DEFINE q == Assembled(given, stack)
    <3>1. /\ AllSorted /\ ~(UniqueNames(q) /\ UniqueIfaces(q))
          /\ status = "parsing" /\ status' = "rejected" /\ given' = given /\ sorted' = sorted
      BY <2>4 DEF Reject, AllSorted
    <3>2. q \in Promise!Orders(Promise!Kept(given))
      BY <3>1, SortedWell
    <3>3. Promise!Conflict(q)
      BY <3>1, SameWords DEF Promise!Conflict
    <3>4. Promise!Reject
      BY <3>1, <3>2, <3>3 DEF Promise!Reject
    <3>5. QED
      BY <3>4 DEF Promise!Next
  <2>5. QED
    BY <2>1, <2>2, <2>3, <2>4 DEF Next
<1>3. QED
  BY <1>1, <1>2, SortInvariant, PTL DEF Spec, Promised, Promise!Spec
================================================================================

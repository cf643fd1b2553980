---------------------------- MODULE NmTargetProofs ----------------------------
(***************************************************************************)
(* Facts about the operators that the runs are built from.  The addressing *)
(* (IpSettings): the arguments of IPConnectionArgsBuilder, for every       *)
(* configuration and every profile: when they are usable they establish    *)
(* what the configuration describes, there is nothing left to change       *)
(* afterwards, and exactly when they are not.  Then the choice of targets  *)
(* and of the connections to delete, for every snapshot and configuration. *)
(***************************************************************************)
EXTENDS NmTarget, SequenceTheorems, WellFoundedInduction, TLAPS

(* A configuration has an address just when it is static. *)
LEMMA ConfigFacts ==
    ASSUME NEW c \in IpConfig
    PROVE  /\ c.mode \in {"auto", "manual"}
           /\ c.mode = "manual" => c.ip \in Address /\ c.ip # None
           /\ c.mode = "auto" => c.ip = None /\ c.gw = None
           /\ c.gw \in Gateway \cup {None}
           /\ c.dns \in Seq(Server)
           /\ c.routes \in Seq(Route)
           /\ c.disable_default_route \in {"yes", "no", "unset"}
BY DEF IpConfig

LEMMA FreshType == Fresh \in IpSetting
<1>1. <<>> \in Seq(Address) /\ <<>> \in Seq(Server) /\ <<>> \in Seq(Route)
  OBVIOUS
<1>2. QED
  BY <1>1 DEF Fresh, IpSetting, Methods

LEMMA ReadType ==
    ASSUME NEW cur \in IpSetting \cup {None}
    PROVE  Read(cur) \in IpSetting
BY FreshType DEF Read

(* What a configuration describes is a profile's addressing. *)
LEMMA DescribedType ==
    ASSUME NEW c \in IpConfig \cup {None}
    PROVE  Described(c) \in IpSetting
<1>1. CASE c = None
  BY <1>1, FreshType DEF Described, IpSetting, Methods
<1>2. CASE c # None
  <2>1. c \in IpConfig
    BY <1>2
  <2>2. (IF c.mode = "manual" THEN <<c.ip>> ELSE <<>>) \in Seq(Address)
    BY <2>1, ConfigFacts
  <2>3. QED
    BY <1>2, <2>1, <2>2, ConfigFacts DEF Described, IpSetting, Methods
<1>3. QED
  BY <1>1, <1>2

-----------------------------------------------------------------------------
(* Field by field, an argument that is emitted, or the value that is left, *)
(* is the one that the configuration describes.                            *)
LEMMA MethodBuilt ==
    ASSUME NEW c \in IpConfig \cup {None}, NEW cur \in IpSetting \cup {None}
    PROVE  Written(MethodArg(c, cur), Read(cur).method) = Described(c).method
BY ConfigFacts
   DEF Written, MethodArg, MethodChanges, Read, Fresh, Target, Described

LEMMA ShortSeq ==
    ASSUME NEW S, NEW s \in Seq(S), ~(Len(s) > 1), s # <<>>
    PROVE  s[1] \in S /\ s = <<s[1]>>
<1>1. Len(s) \in Nat /\ Len(s) # 0
  BY EmptySeq, LenProperties
<1>2. Len(s) = 1
  BY <1>1
<1>3. QED
  BY <1>2

LEMMA AddressBuilt ==
    ASSUME NEW c \in IpConfig \cup {None}, NEW cur \in IpSetting \cup {None}
    PROVE  Written(AddressArg(c, cur), Read(cur).addresses)
             = Described(c).addresses
<1> DEFINE now == Read(cur).addresses
           first == IF now = <<>> THEN None ELSE now[1]
           static == Target(c) = "manual"
           wanted == IF static THEN c.ip ELSE None
           described == IF static THEN <<c.ip>> ELSE <<>>
<1>1. now \in Seq(Address) /\ (cur = None => now = <<>>)
  BY ReadType DEF IpSetting, Read, Fresh
<1>2. Described(c).addresses = described
  BY DEF Described, Fresh, Target
<1>3. static => c.ip # None
  BY ConfigFacts DEF Target
<1>4. AddressArg(c, cur) \in {<<>>, <<described>>}
  BY DEF AddressArg, Turns
<1>5. CASE AddressArg(c, cur) = <<described>>
  BY <1>2, <1>5 DEF Written
<1>6. CASE AddressArg(c, cur) = <<>>
  <2>1. ~(Len(now) > 1)
    BY <1>6 DEF AddressArg
  <2>2. first = wanted
    BY <1>6 DEF AddressArg
  <2>3. now = described
    <3>1. CASE now = <<>>
      BY <1>3, <2>2, <3>1
    <3>2. CASE now # <<>>
      <4>1. now[1] \in Address /\ now = <<now[1]>>
        BY <1>1, <2>1, <3>2, ShortSeq
      <4>2. now[1] = wanted /\ now[1] # None
        BY <2>2, <3>2, <4>1, IpAssumption
      <4>3. QED
        BY <4>1, <4>2
    <3>3. QED
      BY <3>1, <3>2
  <2>4. QED
    BY <1>2, <1>6, <2>3 DEF Written
<1>7. QED
  BY <1>4, <1>5, <1>6

LEMMA GatewayBuilt ==
    ASSUME NEW c \in IpConfig \cup {None}, NEW cur \in IpSetting \cup {None}
    PROVE  Written(GatewayArg(c, cur), Read(cur).gateway) = Described(c).gateway
<1> DEFINE wanted == IF Target(c) = "manual" THEN c.gw ELSE None
<1>1. Described(c).gateway = wanted
  BY ConfigFacts DEF Described, Fresh, Target
<1>2. Turns(c, cur, {"disabled", "auto"}) => wanted = None
  BY DEF Turns
<1>3. QED
  BY <1>1, <1>2 DEF GatewayArg, Written

(* DNS servers and routes *)
LEMMA ListBuilt ==
    ASSUME NEW c, NEW cur, NEW now, NEW configured
    PROVE  Written(ListArg(c, cur, now, configured), now)
             = IF Target(c) \in {"manual", "auto"} THEN configured ELSE <<>>
<1> DEFINE wanted == IF Target(c) \in {"manual", "auto"} THEN configured ELSE <<>>
<1>1. Turns(c, cur, {"disabled"}) => wanted = <<>>
  BY DEF Turns
<1>2. QED
  BY <1>1 DEF ListArg, Written

LEMMA ListsBuilt ==
    ASSUME NEW c \in IpConfig \cup {None}, NEW cur \in IpSetting \cup {None}
    PROVE  /\ Written(DnsArg(c, cur), Read(cur).dns) = Described(c).dns
           /\ Written(RoutesArg(c, cur), Read(cur).routes) = Described(c).routes
BY ListBuilt, ConfigFacts DEF DnsArg, RoutesArg, Described, Fresh, Target

LEMMA NeverBuilt ==
    ASSUME NEW c \in IpConfig \cup {None}, NEW cur \in IpSetting \cup {None},
           Usable(c, cur)
    PROVE  Written(NeverDefaultArg(c, cur), Read(cur).never_default)
             = Described(c).never_default
<1>1. Described(c).never_default = NeverWanted(c)
  BY DEF Described, Fresh, NeverWanted
<1>2. NeverCleared(c, cur) => NeverWanted(c) = "no"
  BY ConfigFacts DEF NeverCleared, Target, NeverWanted
<1>3. NeverDiffers(c, cur) /\ ~NeverCleared(c, cur)
        => c # None /\ c.disable_default_route = NeverWanted(c)
  BY ConfigFacts DEF Usable, BuildRaises, BuildRejected, NeverWanted
<1>4. QED
  BY <1>1, <1>2, <1>3 DEF NeverDefaultArg, Written, NeverDiffers

-----------------------------------------------------------------------------
(* BuiltAsDescribed: from any profile, and for a new connection,           *)
(* IPConnectionArgsBuilder's arguments, when nmcli takes them, leave the   *)
(* addressing that the configuration describes, with nothing of what was   *)
(* there before: no second address, no gateway of another method.          *)
THEOREM BuiltAsDescribed ==
    ASSUME NEW c \in IpConfig \cup {None}, NEW cur \in IpSetting \cup {None},
           Usable(c, cur)
    PROVE  Built(c, cur) = Described(c)
<1>1. Described(c) \in IpSetting
  BY DescribedType
<1>2. Built(c, cur) =
        [method        |-> Described(c).method,
         addresses     |-> Described(c).addresses,
         gateway       |-> Described(c).gateway,
         dns           |-> Described(c).dns,
         routes        |-> Described(c).routes,
         never_default |-> Described(c).never_default]
  BY MethodBuilt, AddressBuilt, GatewayBuilt, ListsBuilt, NeverBuilt DEF Built
<1>3. QED
  BY <1>1, <1>2 DEF IpSetting

(* NothingLeftToBuild: over a profile that holds what the configuration    *)
(* describes the builder emits no argument and cannot fail, so a second    *)
(* run of nmcli_apply leaves its addressing alone.                         *)
THEOREM NothingLeftToBuild ==
    ASSUME NEW c \in IpConfig \cup {None}
    PROVE  NoArgs(c, Described(c)) /\ Usable(c, Described(c))
<1> DEFINE d == Described(c)
<1>1. d \in IpSetting
  BY DescribedType
<1>2. d # None => Read(d) = d
  BY DEF Read
<1>3. d.method = Target(c)
  BY DEF Described, Fresh, Target
<1>4. d # None
  BY <1>1, IpAssumption
<1>5. ~MethodChanges(c, d)
  BY <1>3, <1>4 DEF MethodChanges
<1>6. ~NeverDiffers(c, d)
  BY <1>2, <1>4 DEF NeverDiffers, NeverWanted, Described, Fresh
<1>7. MethodArg(c, d) = <<>> /\ NeverDefaultArg(c, d) = <<>> /\ Usable(c, d)
  BY <1>5, <1>6
     DEF MethodArg, NeverDefaultArg, NeverCleared, Usable, BuildRaises, BuildRejected
<1>8. d.addresses = IF Target(c) = "manual" THEN <<c.ip>> ELSE <<>>
  BY DEF Described, Fresh, Target
<1>9. AddressArg(c, d) = <<>>
  <2>1. ~Turns(c, d, {"disabled", "auto"})
    BY <1>5 DEF Turns
  <2>2. CASE Target(c) = "manual"
    <3>1. d.addresses = <<c.ip>> /\ d.addresses # <<>> /\ ~(Len(d.addresses) > 1)
      BY <1>8, <2>2
    <3>2. d.addresses[1] = c.ip
      BY <3>1
    <3>3. Read(d) = d /\ d # None
      BY <1>2, <1>4
    <3> HIDE DEF d
    <3>4. QED
      BY <2>1, <2>2, <3>1, <3>2, <3>3 DEF AddressArg
  <2>3. CASE Target(c) # "manual"
    <3>1. d.addresses = <<>> /\ ~(Len(d.addresses) > 1)
      BY <1>8, <2>3
    <3>2. Read(d) = d /\ d # None
      BY <1>2, <1>4
    <3> HIDE DEF d
    <3>3. QED
      BY <2>1, <2>3, <3>1, <3>2 DEF AddressArg
  <2>4. QED
    BY <2>2, <2>3
<1>10. d.gateway = IF Target(c) = "manual" THEN c.gw ELSE None
  BY ConfigFacts DEF Described, Fresh, Target
<1>11. GatewayArg(c, d) = <<>>
  BY <1>2, <1>4, <1>10 DEF GatewayArg
<1>12. DnsArg(c, d) = <<>> /\ RoutesArg(c, d) = <<>>
  BY <1>2, <1>4, ConfigFacts DEF DnsArg, RoutesArg, ListArg, Described, Fresh, Target
<1>13. QED
  BY <1>7, <1>9, <1>11, <1>12 DEF NoArgs

(* UnusableExactly: the builder has no usable arguments in two cases only: *)
(* the default route is off in a profile and the configuration does not    *)
(* say whether it is to be, or the configuration has no addressing and the *)
(* profile was disabled already.                                           *)
THEOREM UnusableExactly ==
    ASSUME NEW c \in IpConfig \cup {None}, NEW cur \in IpSetting \cup {None}
    PROVE  ~Usable(c, cur) <=>
             /\ cur # None
             /\ cur.never_default = "yes"
             /\ \/ c = None /\ cur.method = "disabled"
                \/ c # None /\ c.disable_default_route = "unset"
<1>1. cur = None => ~NeverDiffers(c, cur) \/ (c # None /\ c.disable_default_route = "yes")
  BY DEF NeverDiffers, Read, Fresh, NeverWanted
<1>2. c = None => NeverWanted(c) = "no" /\ Target(c) = "disabled"
  BY DEF NeverWanted, Target
<1>3. cur # None => /\ cur.never_default \in {"yes", "no"}
                    /\ NeverDiffers(c, cur) <=> cur.never_default # NeverWanted(c)
  BY DEF NeverDiffers, Read, IpSetting
<1>4. c # None => (NeverWanted(c) = "yes" <=> c.disable_default_route = "yes")
  BY DEF NeverWanted
<1>5. NeverWanted(c) \in {"yes", "no"}
  BY DEF NeverWanted
<1>6. QED
  BY <1>1, <1>2, <1>3, <1>4, <1>5
     DEF Usable, BuildRaises, BuildRejected, NeverCleared, MethodChanges

-----------------------------------------------------------------------------
(* A set of naturals that is not empty has a least element, and Min is it. *)
LEMMA MinOfNats ==
    ASSUME NEW S \in SUBSET Nat, S # {}
    PROVE  Min(S) \in S
<1>1. PICK x \in S : \A y \in S : ~(<<y, x>> \in OpToRel(<, Nat))
  BY NatLessThanWellFounded, WFMin
<1>2. \A y \in S : x <= y
  <2>1. SUFFICES ASSUME NEW y \in S, ~(x <= y) PROVE FALSE
    OBVIOUS
  <2>2. <<y, x>> \in Nat \X Nat /\ y < x
    BY <2>1
  <2>3. <<y, x>> \in OpToRel(<, Nat)
    BY <2>2 DEF OpToRel
  <2>4. QED
    BY <1>1, <2>3
<1>3. QED
  BY <1>2 DEF Min

(* Python's next(..., None) gives a listed connection of the set, or None  *)
(* when there is none.                                                     *)
LEMMA FirstFound ==
    ASSUME NEW s, s.order \in Seq(Uuid), NEW S, S \cap Listed(s) # {}
    PROVE  FirstOf(s, S) \in S \cap Listed(s)
<1> DEFINE hits == {n \in DOMAIN s.order : s.order[n] \in S}
<1>1. hits \in SUBSET Nat /\ hits # {}
  BY DEF Listed, Range
<1>2. Min(hits) \in hits
  BY <1>1, MinOfNats
<1>3. s.order[Min(hits)] \in S \cap Listed(s)
  BY <1>2 DEF Listed, Range
<1>4. QED
  BY <1>1, <1>3 DEF FirstOf

LEMMA FirstOfListed ==
    ASSUME NEW s, s.order \in Seq(Uuid), NEW S
    PROVE  FirstOf(s, S) \in (S \cap Listed(s)) \cup {None}
<1>1. CASE S \cap Listed(s) # {}
  BY <1>1, FirstFound
<1>2. CASE S \cap Listed(s) = {}
  <2>1. {n \in DOMAIN s.order : s.order[n] \in S} = {}
    BY <1>2 DEF Listed, Range
  <2>2. QED
    BY <2>1 DEF FirstOf
<1>3. QED
  BY <1>1, <1>2

-----------------------------------------------------------------------------
(* The connection found by name is a candidate, with that name and type. *)
LEMMA NamedTarget ==
    ASSUME NEW s, s.order \in Seq(Uuid), NEW name, NEW type, NEW among,
           FirstNamed(s, among, name, type) # None
    PROVE  FirstNamed(s, among, name, type) \in
               {u \in among : s.prof[u].id = name /\ s.prof[u].type = type}
<1> DEFINE named == {u \in among : s.prof[u].id = name /\ s.prof[u].type = type}
           up == named \cap s.active
           S == IF up # {} THEN up ELSE named
<1>1. FirstNamed(s, among, name, type) = FirstOf(s, S)
  BY DEF FirstNamed
<1>2. FirstOf(s, S) \in (S \cap Listed(s)) \cup {None}
  BY FirstOfListed
<1>3. S \subseteq named
  OBVIOUS
<1> HIDE DEF S
<1>4. FirstNamed(s, among, name, type) \in S
  BY <1>1, <1>2
<1>5. QED
  BY <1>3, <1>4

(* It is the only one with that name and type, when there is only one. *)
LEMMA OnlyOneNamed ==
    ASSUME NEW s, s.order \in Seq(Uuid), NEW name, NEW type, NEW among,
           NEW u \in among \cap Listed(s),
           s.prof[u].id = name /\ s.prof[u].type = type,
           \A w \in among : s.prof[w].id = name /\ s.prof[w].type = type => w = u
    PROVE  FirstNamed(s, among, name, type) = u
<1> DEFINE named == {w \in among : s.prof[w].id = name /\ s.prof[w].type = type}
           up == named \cap s.active
           S == IF up # {} THEN up ELSE named
<1>1. S = {u}
  <2>1. named = {u}
    OBVIOUS
  <2>2. QED
    BY <2>1
<1>2. FirstNamed(s, among, name, type) = FirstOf(s, S)
  BY DEF FirstNamed
<1> HIDE DEF S
<1>3. FirstOf(s, S) \in S
  BY <1>1, FirstFound
<1>4. QED
  BY <1>1, <1>2, <1>3

(* The target of a main configuration is listed, has its type, is not a    *)
(* slave, and has the configuration's name or sits on its interface        *)
(* (build_target_connection_data: "Target connection should be already a   *)
(* main connection [...] of the expected type").                           *)
THEOREM MainTargetFits ==
    ASSUME NEW s, s.order \in Seq(Uuid), NEW c,
           NEW u, u = MainTarget(s, c), u # None
    PROVE  /\ u \in Listed(s)
           /\ s.prof[u].type = c.type
           /\ ~IsSlave(s, u)
           /\ \/ s.prof[u].id = c.name
              \/ c.iface # None /\ s.prof[u].iface = c.iface
<1> DEFINE byName == FirstNamed(s, Mains(s), c.name, c.type)
           S == ActiveOnIface(s, c) \cap Mains(s)
<1>1. CASE byName # None
  <2>1. byName \in {w \in Mains(s) : s.prof[w].id = c.name /\ s.prof[w].type = c.type}
    BY <1>1, NamedTarget
  <2>2. u = byName
    BY <1>1 DEF MainTarget
  <2>3. QED
    BY <2>1, <2>2 DEF Mains
<1>2. CASE byName = None
  <2>1. u = FirstOf(s, S)
    BY <1>2 DEF MainTarget
  <2>2. FirstOf(s, S) \in (S \cap Listed(s)) \cup {None}
    BY FirstOfListed
  <2>3. u \in S
    BY <2>1, <2>2
  <2>4. QED
    BY <2>3 DEF ActiveOnIface, Mains
<1>3. QED
  BY <1>1, <1>2

(* The same of a slave configuration, whose target may be a slave already. *)
LEMMA SlaveTargetFits ==
    ASSUME NEW s, s.order \in Seq(Uuid), NEW c,
           NEW u, u = SlaveTarget(s, c), u # None
    PROVE  /\ u \in Listed(s)
           /\ s.prof[u].type = c.type
           /\ \/ s.prof[u].id = c.name
              \/ c.iface # None /\ s.prof[u].iface = c.iface
<1> DEFINE byName == FirstNamed(s, Listed(s), c.name, c.type)
           S == ActiveOnIface(s, c)
<1>1. CASE byName # None
  <2>1. byName \in {w \in Listed(s) : s.prof[w].id = c.name /\ s.prof[w].type = c.type}
    BY <1>1, NamedTarget
  <2>2. u = byName
    BY <1>1 DEF SlaveTarget
  <2>3. QED
    BY <2>1, <2>2
<1>2. CASE byName = None
  <2>1. u = FirstOf(s, S)
    BY <1>2 DEF SlaveTarget
  <2>2. FirstOf(s, S) \in (S \cap Listed(s)) \cup {None}
    BY FirstOfListed
  <2>3. u \in S
    BY <2>1, <2>2
  <2>4. QED
    BY <2>3 DEF ActiveOnIface
<1>3. QED
  BY <1>1, <1>2

(* The targets of a configuration are listed, hence uuids and not None. *)
LEMMA TargetsListed ==
    ASSUME NEW s, s.order \in Seq(Uuid), NEW c
    PROVE  /\ MainTarget(s, c) \in Listed(s) \cup {None}
           /\ SlaveTarget(s, c) \in Listed(s) \cup {None}
           /\ SlaveTargets(s, c) \subseteq Listed(s)
           /\ TargetUuids(s, c) \subseteq Listed(s)
           /\ Listed(s) \subseteq Uuid
           /\ None \notin Listed(s)
<1>1. MainTarget(s, c) \in Listed(s) \cup {None}
  BY MainTargetFits
<1>2. \A d : SlaveTarget(s, d) \in Listed(s) \cup {None}
  BY SlaveTargetFits
<1>3. Listed(s) \subseteq Uuid
  BY DEF Listed, Range
<1>4. SlaveTargets(s, c) \subseteq Listed(s)
  BY <1>2 DEF SlaveTargets
<1>5. QED
  BY <1>1, <1>2, <1>3, <1>4, UuidAssumption DEF TargetUuids

-----------------------------------------------------------------------------
(* What is deleted for a configuration is listed, and is neither one of    *)
(* its targets, nor configured in the session, nor a target of the         *)
(* configurations that depend on it (build_delete_conn_list: "We should    *)
(* skip connections configured in the same session").                      *)
THEOREM DeleteListSpares ==
    ASSUME NEW s, s.order \in Seq(Uuid), NEW p, NEW c, NEW session
    PROVE  DeleteList(s, p, c, session)
               \subseteq Listed(s) \ Preserved(s, p, c, session)
<1> DEFINE keep == Preserved(s, p, c, session)
           gone == Duplicated(s, c, keep) \cup OwnedUnknown(s, c, keep)
<1>1. gone \subseteq Listed(s) \ keep
  BY DEF Duplicated, OwnedUnknown
<1>2. \A main, t : FreedMain(s, main, t, gone, keep) \subseteq Listed(s) \ keep
  <2> SUFFICES ASSUME NEW main, NEW t
               PROVE FreedMain(s, main, t, gone, keep) \subseteq Listed(s) \ keep
    OBVIOUS
  <2> DEFINE current == FirstOf(s, {m \in Listed(s) : IsMainOf(s, m, t)})
  <2>1. current \in Listed(s) \cup {None}
    BY FirstOfListed
  <2>2. FreedMain(s, main, t, gone, keep) \subseteq {current} \ keep
    BY DEF FreedMain
  <2>3. current = None => FreedMain(s, main, t, gone, keep) = {}
    BY DEF FreedMain
  <2>4. QED
    BY <2>1, <2>2, <2>3
<1>3. SlavesRelated(s, c, gone, keep) \subseteq Listed(s) \ keep
  BY <1>2 DEF SlavesRelated
<1>4. QED
  BY <1>1, <1>3 DEF DeleteList

(* A slave that is filed under m is listed, and m is its main. *)
LEMMA GroupHasMain ==
    ASSUME NEW s, s.order \in Seq(Uuid), NEW m \in Listed(s), NEW u \in Group(s, m)
    PROVE  u \in Listed(s) /\ IsMainOf(s, m, u)
<1> DEFINE S == {w \in Mains(s) : IsMainOf(s, w, u)}
<1>1. u \in Listed(s) /\ m = FirstOf(s, S)
  BY DEF Group, MainUuidOf
<1>2. FirstOf(s, S) \in (S \cap Listed(s)) \cup {None}
  BY FirstOfListed
<1>3. m # None
  BY TargetsListed
<1>4. QED
  BY <1>1, <1>2, <1>3

(* What is deleted for a configuration has its name, or sits or has a VLAN *)
(* on an interface it relates to, or shares the interface of a slave that  *)
(* it takes over, or is the main or a slave of some connection             *)
(* (build_delete_conn_list: "to avoid interfering with the target one").   *)
THEOREM DeleteListRelated ==
    ASSUME NEW s, s.order \in Seq(Uuid), NEW p, NEW c, NEW session,
           NEW u \in DeleteList(s, p, c, session)
    PROVE  \/ s.prof[u].id = c.name
           \/ s.prof[u].iface \in RelatedIfaces(c)
           \/ s.prof[u].parent \in RelatedIfaces(c)
           \/ \E t \in SlaveTargets(s, c) : /\ s.prof[t].iface # None
                                             /\ s.prof[u].iface = s.prof[t].iface
           \/ \E x \in Listed(s) : IsMainOf(s, x, u) \/ IsMainOf(s, u, x)
<1> DEFINE keep == Preserved(s, p, c, session)
           gone == Duplicated(s, c, keep) \cup OwnedUnknown(s, c, keep)
           main == MainTarget(s, c)
<1>1. CASE u \in Duplicated(s, c, keep)
  BY <1>1 DEF Duplicated
<1>2. CASE u \in OwnedUnknown(s, c, keep)
  <2>1. \/ s.prof[u].iface \in RelatedIfaces(c)
        \/ s.prof[u].parent \in RelatedIfaces(c)
        \/ u \in Listed(s) /\ Group(s, u) # {}
    BY <1>2 DEF OwnedUnknown
  <2>2. ASSUME u \in Listed(s), Group(s, u) # {}
        PROVE  \E x \in Listed(s) : IsMainOf(s, u, x)
    BY <2>2, GroupHasMain
  <2>3. QED
    BY <2>1, <2>2
<1>3. CASE u \in SlavesRelated(s, c, gone, keep)
  <2>1. \/ \E t \in SlaveTargets(s, c) : /\ s.prof[t].iface # None
                                          /\ s.prof[u].iface = s.prof[t].iface
        \/ \E t \in SlaveTargets(s, c) : u \in FreedMain(s, main, t, gone, keep)
        \/ main # None /\ IsMainOf(s, main, u)
    BY <1>3 DEF SlavesRelated
  <2>2. ASSUME NEW t \in SlaveTargets(s, c), u \in FreedMain(s, main, t, gone, keep)
        PROVE  \E x \in Listed(s) : IsMainOf(s, u, x)
    <3> DEFINE S == {m \in Listed(s) : IsMainOf(s, m, t)}
    <3>1. u = FirstOf(s, S) /\ u # None
      BY <2>2 DEF FreedMain
    <3>2. FirstOf(s, S) \in (S \cap Listed(s)) \cup {None}
      BY FirstOfListed
    <3>3. t \in Listed(s)
      BY TargetsListed
    <3>4. QED
      BY <3>1, <3>2, <3>3
  <2>3. main \in Listed(s) \cup {None}
    BY TargetsListed
  <2>4. QED
    BY <2>1, <2>2, <2>3
<1>4. QED
  BY <1>1, <1>2, <1>3 DEF DeleteList

(* The connections that are deleted for themselves, and not because what   *)
(* was attached to them goes                                               *)
InTheWay(s, c, u) ==
    \/ s.prof[u].id = c.name
    \/ s.prof[u].iface \in RelatedIfaces(c)
    \/ s.prof[u].parent \in RelatedIfaces(c)
    \/ \E t \in SlaveTargets(s, c) : /\ s.prof[t].iface # None
                                      /\ s.prof[u].iface = s.prof[t].iface
    \/ MainTarget(s, c) # None /\ IsMainOf(s, MainTarget(s, c), u)

LEMMA InTheWayDeleted ==
    ASSUME NEW s, NEW p, NEW c, NEW session,
           NEW u \in Listed(s) \ Preserved(s, p, c, session), InTheWay(s, c, u)
    PROVE  u \in DeleteList(s, p, c, session)
<1> DEFINE keep == Preserved(s, p, c, session)
           gone == Duplicated(s, c, keep) \cup OwnedUnknown(s, c, keep)
<1>1. u \in Listed(s) \ keep
  OBVIOUS
<1>2. DeleteList(s, p, c, session) = gone \cup SlavesRelated(s, c, gone, keep)
  BY DEF DeleteList
<1> HIDE DEF keep
<1>3. CASE s.prof[u].id = c.name
  BY <1>1, <1>2, <1>3 DEF Duplicated
<1>4. CASE s.prof[u].iface \in RelatedIfaces(c) \/ s.prof[u].parent \in RelatedIfaces(c)
  BY <1>1, <1>2, <1>4 DEF OwnedUnknown
<1>5. CASE \/ \E t \in SlaveTargets(s, c) : /\ s.prof[t].iface # None
                                             /\ s.prof[u].iface = s.prof[t].iface
           \/ MainTarget(s, c) # None /\ IsMainOf(s, MainTarget(s, c), u)
  <2>1. u \in SlavesRelated(s, c, gone, keep)
    BY <1>1, <1>5 DEF SlavesRelated
  <2>2. QED
    BY <1>2, <2>1
<1>6. QED
  BY <1>3, <1>4, <1>5 DEF InTheWay

(* When none is, and the slaves that are taken over are already attached,  *)
(* nothing is deleted.                                                     *)
LEMMA NothingToDelete ==
    ASSUME NEW s, NEW p, NEW c, NEW session,
           \A u \in Listed(s) \ Preserved(s, p, c, session) : ~InTheWay(s, c, u),
           \A t \in SlaveTargets(s, c) :
              MainTarget(s, c) # None /\ IsMainOf(s, MainTarget(s, c), t)
    PROVE  DeleteList(s, p, c, session) = {}
<1> DEFINE keep == Preserved(s, p, c, session)
           gone == Duplicated(s, c, keep) \cup OwnedUnknown(s, c, keep)
           main == MainTarget(s, c)
<1>1. /\ \A u \in Listed(s) \ keep : ~InTheWay(s, c, u)
      /\ DeleteList(s, p, c, session) = gone \cup SlavesRelated(s, c, gone, keep)
  BY DEF DeleteList
<1> HIDE DEF keep
<1>2. Duplicated(s, c, keep) = {}
  BY <1>1 DEF Duplicated, InTheWay
<1>3. OwnedUnknown(s, c, keep) = {}
  <2> DEFINE related == {u \in Listed(s) \ keep :
                           \/ s.prof[u].iface \in RelatedIfaces(c)
                           \/ s.prof[u].parent \in RelatedIfaces(c)}
  <2>1. related = {}
    BY <1>1 DEF InTheWay
  <2>2. {u \in related : IsSlave(s, u)} = {}
    BY <2>1
  <2>3. QED
    BY <2>1, <2>2 DEF OwnedUnknown
<1>4. \A t \in SlaveTargets(s, c) : FreedMain(s, main, t, gone, keep) = {}
  BY DEF FreedMain
<1> HIDE DEF gone
<1>5. SlavesRelated(s, c, gone, keep) = {}
  BY <1>1, <1>4 DEF SlavesRelated, InTheWay
<1>6. QED
  BY <1>1, <1>2, <1>3, <1>5 DEF gone
=============================================================================

------------------------------ MODULE IpSettings ------------------------------
(***************************************************************************)
(* The addressing of a main connection: what a configuration says of it    *)
(* (net_config.IPConfig), what a NetworkManager profile holds, and the     *)
(* arguments that IPConnectionArgsBuilder gives `nmcli connection          *)
(* add/modify' to get from one to the other.  The builder runs the same    *)
(* code for IPv4 and IPv6, on separate fields; one of them is modelled.    *)
(***************************************************************************)
EXTENDS Naturals, Sequences

CONSTANTS
    Address,    \* addresses with their prefix
    Gateway,    \* addresses of gateways
    Server,     \* addresses of DNS servers
    Route,      \* routes: destination, gateway and metric
    None        \* an absent value (Python's None)

(* A profile's method; "other" is any that the collection never sets. *)
Methods == {"disabled", "auto", "manual", "other"}

IpSetting ==
    [method: Methods, addresses: Seq(Address), gateway: Gateway \cup {None},
     dns: Seq(Server), routes: Seq(Route), never_default: {"yes", "no"}]

ASSUME IpAssumption == None \notin Address /\ None \notin IpSetting

(* What NetworkManager gives a new connection of its own accord; also the  *)
(* values the builder reads for a connection that is not there.            *)
Fresh ==
    [method |-> "auto", addresses |-> <<>>, gateway |-> None, dns |-> <<>>,
     routes |-> <<>>, never_default |-> "no"]

(* IPConfig.__parse_config: a static address needs no gateway, an          *)
(* automatic one allows neither; disable-default-route may be left out.    *)
IpConfig ==
    {c \in [mode: {"auto", "manual"}, ip: Address \cup {None},
            gw: Gateway \cup {None}, dns: Seq(Server), routes: Seq(Route),
            disable_default_route: {"yes", "no", "unset"}] :
        /\ c.mode = "manual" <=> c.ip # None
        /\ c.mode = "auto" => c.gw = None}

(* The settings that a configuration describes; a connection without an    *)
(* `ipv4' (`ipv6') section has that version disabled.                      *)
Described(c) ==
    IF c = None
      THEN [Fresh EXCEPT !.method = "disabled"]
      ELSE [method        |-> c.mode,
            addresses     |-> IF c.mode = "manual" THEN <<c.ip>> ELSE <<>>,
            gateway       |-> c.gw,
            dns           |-> c.dns,
            routes        |-> c.routes,
            never_default |-> IF c.disable_default_route = "yes" THEN "yes"
                                                                 ELSE "no"]

-----------------------------------------------------------------------------
(* The builder.  c is the configuration or None, cur the addressing that   *)
(* the snapshot shows, or None for a connection that is not there yet.     *)
(* Each operator returns the argument it emits, <<>> if it emits none and  *)
(* <<v>> if it sets the field to v.                                        *)
Read(cur) == IF cur = None THEN Fresh ELSE cur

Target(c) == IF c = None THEN "disabled" ELSE c.mode

MethodChanges(c, cur) == cur = None \/ cur.method # Target(c)

(* The method changes to one of S: fields that make no sense there are set *)
(* back to their defaults.                                                 *)
Turns(c, cur, S) == MethodChanges(c, cur) /\ Target(c) \in S

MethodArg(c, cur) == IF MethodChanges(c, cur) THEN <<Target(c)>> ELSE <<>>

(* Only the first of the current addresses is compared. *)
AddressArg(c, cur) ==
    LET now == Read(cur).addresses
        first == IF now = <<>> THEN None ELSE now[1]
        static == Target(c) = "manual"
        wanted == IF static THEN c.ip ELSE None
    IN  IF Turns(c, cur, {"disabled", "auto"}) /\ first # wanted
          THEN << <<>> >>
          ELSE IF (cur = None /\ static) \/ Len(now) > 1 \/ first # wanted
                 THEN << IF static THEN <<c.ip>> ELSE <<>> >>
                 ELSE <<>>

GatewayArg(c, cur) ==
    LET now == Read(cur).gateway
        wanted == IF Target(c) = "manual" THEN c.gw ELSE None
    IN  IF now = wanted
          THEN <<>>
          ELSE << IF Turns(c, cur, {"disabled", "auto"}) THEN None ELSE wanted >>

(* DNS servers and routes are built alike. *)
ListArg(c, cur, now, configured) ==
    LET wanted == IF Target(c) \in {"manual", "auto"} THEN configured ELSE <<>>
    IN  IF now = wanted
          THEN <<>>
          ELSE << IF Turns(c, cur, {"disabled"}) THEN <<>> ELSE wanted >>

DnsArg(c, cur) ==
    ListArg(c, cur, Read(cur).dns, IF c = None THEN <<>> ELSE c.dns)

RoutesArg(c, cur) ==
    ListArg(c, cur, Read(cur).routes, IF c = None THEN <<>> ELSE c.routes)

(* An option that is left out counts as no. *)
NeverWanted(c) ==
    IF c # None /\ c.disable_default_route = "yes" THEN "yes" ELSE "no"

NeverDiffers(c, cur) == Read(cur).never_default # NeverWanted(c)

(* Mutant: a connection that goes disabled keeps its never-default *)
Mutant_NeverKept(c, cur) == FALSE

(* The setting goes back to the default with the method. *)
NeverCleared(c, cur) ==
    NeverDiffers(c, cur) /\ MethodChanges(c, cur) /\ Target(c) = "disabled"

(* The last resort of __build_ip_default_route_disable reads the option    *)
(* from the configuration even when there is none: AttributeError.         *)
BuildRaises(c, cur) ==
    c = None /\ NeverDiffers(c, cur) /\ ~NeverCleared(c, cur)

(* ... and does not turn an option that is left out into no:               *)
(* map_to_mcli_boolean_value gives None, which the command runner writes   *)
(* as "None", and nmcli takes no such value.                               *)
BuildRejected(c, cur) ==
    c # None /\ NeverDiffers(c, cur) /\ c.disable_default_route = "unset"

Usable(c, cur) == ~BuildRaises(c, cur) /\ ~BuildRejected(c, cur)

NeverDefaultArg(c, cur) ==
    IF NeverCleared(c, cur)
      THEN <<"no">>
      ELSE IF NeverDiffers(c, cur) THEN <<c.disable_default_route>> ELSE <<>>

(* The field after the command: an argument replaces what it held. *)
Written(arg, held) == IF arg = <<>> THEN held ELSE arg[1]

(* The addressing of a connection after a command with the arguments that  *)
(* the builder emits, when they are usable                                 *)
Built(c, cur) ==
    LET held == Read(cur)
    IN  [method        |-> Written(MethodArg(c, cur), held.method),
         addresses     |-> Written(AddressArg(c, cur), held.addresses),
         gateway       |-> Written(GatewayArg(c, cur), held.gateway),
         dns           |-> Written(DnsArg(c, cur), held.dns),
         routes        |-> Written(RoutesArg(c, cur), held.routes),
         never_default |-> Written(NeverDefaultArg(c, cur), held.never_default)]

(* The builder emits nothing. *)
NoArgs(c, cur) ==
    /\ MethodArg(c, cur) = <<>>
    /\ AddressArg(c, cur) = <<>>
    /\ GatewayArg(c, cur) = <<>>
    /\ DnsArg(c, cur) = <<>>
    /\ RoutesArg(c, cur) = <<>>
    /\ NeverDefaultArg(c, cur) = <<>>

(* The same arguments over a profile that may have changed since it was    *)
(* read: the fields in which want differs from cur are written over held.  *)
Merged(held, cur, want) ==
    LET Now(f) == IF cur[f] # want[f] THEN want[f] ELSE held[f]
    IN  IF held = None \/ cur = None \/ want = None
          THEN IF cur = want THEN held ELSE want
          ELSE [method        |-> Now("method"),
                addresses     |-> Now("addresses"),
                gateway       |-> Now("gateway"),
                dns           |-> Now("dns"),
                routes        |-> Now("routes"),
                never_default |-> Now("never_default")]
=============================================================================

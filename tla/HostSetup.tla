------------------------------- MODULE HostSetup -------------------------------
(***************************************************************************)
(* Plays of the roles networking_setup and firewall_setup over one host,   *)
(* one after the other: each task of the roles that changes the host or    *)
(* the facts, with the two modules that a task runs taken from NftApply    *)
(* and IfacesFile step by step.  A play may fail at any task or be killed, *)
(* the host may reboot, and the next play starts from what is left; facts  *)
(* are kept from an earlier play when Ansible caches them.                 *)
(*                                                                         *)
(* The task that runs nmcli_apply is its outcome: the interface that has   *)
(* the management address afterwards (NmSession has its steps).            *)
(***************************************************************************)
EXTENDS NftApply, IfacesFile

CONSTANTS
    Hosts,      \* hosts before the first play: their interfaces files,
                \* netplan, and the plays that are run on them
    Inventory,  \* what an inventory wants: which interface has the
                \* management address, whether it is static, and whether
                \* SSH tells the address it is reached by
    Home,       \* interfaces that may have the management address
    Address,    \* the management address
    Malformed   \* what the rule template makes of a missing configuration

NoFacts == [conns |-> FALSE, conf |-> None, iface |-> None]

Facts == [conns : BOOLEAN, conf : {Address, None}, iface : Home \cup {None}]

(* build_default_rules_list.yml: the rule that accepts SSH is added for a  *)
(* management interface; its address is that of the connection, and an     *)
(* empty mapping, which is no address, when no connection is known.        *)
Rendered(f) ==
    [ssh |-> f.iface,
     daddr |-> IF f.iface = None THEN None
               ELSE IF f.conf = None THEN Malformed ELSE f.conf]

Plays == [roles : {"networking", "firewall", "both"}, fresh : BOOLEAN,
          wants : Inventory]

ASSUME SetupAssumption ==
    /\ Address # None
    /\ Malformed \notin {Address, None}
    /\ None \notin Home \cup Plays
    /\ Inventory \subseteq [home : Home, static : BOOLEAN, ssh : BOOLEAN]
    /\ Hosts \subseteq [files : Found, netplan : {"absent", "networkd"},
                       plays : SUBSET Plays]
    /\ \A f \in Facts : /\ Rendered(f) \in Rules
                        /\ Rendered(f) \in Accepted
                              <=> Rendered(f).daddr # Malformed

(* The migration is needed for interfaces that are not ignored:            *)
(* pbi_nstp_interfaces_file_ignored_ifaces has what the deletion skips.    *)
Needed == ~(Declared(files) \subseteq Skipped)

VARIABLES
    host,       \* the member of Hosts
    task,       \* the task at hand, "idle" between plays
    play,       \* the play: its roles, its inventory, and whether no fact
                \* was cached when it began
    verdict,    \* how the last play ended, "none" while one is under way
    facts,      \* pbi_network_connections (set or not), _mngt_connection_
                \* config and _mngt_interface
    descr,      \* the descriptor file: the facts it was saved from
    need,       \* pbi_nstp_migrate_from_interfaces_file_need
    nm,         \* who carries each interface
    snap,       \* the connections that the migration has fetched
    yaml,       \* the netplan files: the site's, and the two of the role
    netplan,    \* who renders them, "absent" if netplan is not installed
    found,      \* the netplan files that are left to remove
    home,       \* the interface that has the management address
    served,     \* history: interfaces that ifupdown had brought up
    cut,        \* history: a play has ended between the deletion of
                \* interfaces and their adoption
    doubt,      \* history: the address has moved since the descriptor was
                \* saved, or that was saved from cached facts
    calm        \* history: the play repeats the last one, which succeeded

hostVars == <<nm, yaml, netplan, home>>
histVars == <<served, cut, doubt, calm>>
playVars == <<host, task, play, verdict, facts, descr, need, snap, found>>
setupVars == <<nftVars, rewriteVars, hostVars, histVars, playVars>>

Carriers == {"none", "ifupdown", "activating", "active", "kept"}

SetupInit ==
    /\ NftInit
    /\ file \in {Rendered(NoFacts), None}
    /\ IfacesInit
    /\ host \in {h \in Hosts : h.files = files}
    /\ task = "idle"
    /\ play = None
    /\ verdict = "none"
    /\ facts = NoFacts
    /\ descr = None
    /\ need = FALSE
    /\ nm = [f \in Iface |-> IF f \in Declared(files) \ Skipped
                               THEN "ifupdown" ELSE "none"]
    /\ snap = [f \in Iface |-> "none"]
    /\ netplan = host.netplan
    /\ yaml = IF netplan = "absent" THEN {} ELSE {"site"}
    /\ found = {}
    /\ home \in Home
    /\ served = Declared(files) \ Skipped
    /\ cut = FALSE
    /\ doubt = FALSE
    /\ calm = FALSE

StartPlay(p, kept) ==
    /\ task = "idle"
    /\ kept \in {facts, NoFacts}
    /\ p.fresh = (kept = NoFacts)
    /\ play' = p
    /\ facts' = kept
    /\ task' = IF p.roles = "firewall" THEN "load" ELSE "check"
    /\ verdict' = "none"
    /\ calm' = (verdict = "ok" /\ p = play /\ p.fresh)
    /\ UNCHANGED <<nftVars, rewriteVars, hostVars, served, cut, doubt,
                   host, descr, need, snap, found>>

(* A task that leaves the files and the rules alone goes on to another.    *)
GoOn(now, next) ==
    /\ task = now
    /\ task' = next
    /\ UNCHANGED <<nftVars, host, play, verdict, served, calm>>

EndPlay(v) ==
    /\ task' = "idle"
    /\ verdict' = v
    /\ need' = FALSE
    /\ found' = {}
    /\ play' = IF v = "ok" THEN play ELSE None
    /\ UNCHANGED <<host, facts, descr, snap>>

(* What is left when a play ends at a task of the migration.               *)
CutShort ==
    cut' = (\/ cut
            \/ task \in {"restart", "fetch", "prune", "adopt"}
            \/ task = "deleting" /\ files # given)

CheckIfaces ==
    /\ GoOn("check", "renderer")
    /\ ~Broken(files)
    /\ need' = Needed
    /\ UNCHANGED <<rewriteVars, hostVars, cut, doubt, facts, descr, snap,
                   found>>

(* Mutant: the file that the migration removes is looked for *)
Mutant_LooksForOverride == IF "99" \in yaml THEN "nm" ELSE "networkd"

(* netplan get renderer *)
Renderer == IF yaml \cap {"99", "70"} # {} THEN "nm" ELSE "networkd"

Migrate == IF need THEN "delete" ELSE "apply"

CheckRenderer ==
    /\ GoOn("renderer",
            IF netplan # "absent" /\ Renderer # "nm" THEN "override" ELSE Migrate)
    /\ UNCHANGED <<rewriteVars, hostVars, cut, doubt, facts, descr, need,
                   snap, found>>

OverrideRenderer ==
    /\ GoOn("override", "netplan_apply")
    /\ yaml' = yaml \cup {"99"}
    /\ UNCHANGED <<rewriteVars, nm, netplan, home, cut, doubt, facts, descr,
                   need, snap, found>>

(* Mutant: the configuration is generated and not applied *)
Mutant_GeneratesOnly ==
    /\ GoOn("netplan_apply", "clean")
    /\ netplan' = netplan
    /\ found' = yaml
    /\ UNCHANGED <<rewriteVars, nm, yaml, home, cut, doubt, facts, descr,
                   need, snap>>

NetplanApply ==
    /\ GoOn("netplan_apply", "clean")
    /\ netplan' = "nm"
    /\ found' = yaml
    /\ UNCHANGED <<rewriteVars, nm, yaml, home, cut, doubt, facts, descr,
                   need, snap>>

RemoveYaml ==
    /\ GoOn("clean", "clean")
    /\ \E y \in found : yaml' = yaml \ {y} /\ found' = found \ {y}
    /\ UNCHANGED <<rewriteVars, nm, netplan, home, cut, doubt, facts, descr,
                   need, snap>>

OwnYaml ==
    /\ found = {}
    /\ GoOn("clean", Migrate)
    /\ yaml' = yaml \cup {"70"}
    /\ UNCHANGED <<rewriteVars, nm, netplan, home, cut, doubt, facts, descr,
                   need, snap, found>>

DeleteIfaces ==
    /\ GoOn("delete", "deleting")
    /\ Delete
    /\ UNCHANGED <<hostVars, cut, doubt, facts, descr, need, snap, found>>

(* The check has read every line that the deletion reads, and has failed    *)
(* the play for one that would be Unrecognised.                            *)
Deleting ==
    /\ task = "deleting"
    /\ DeleteStep
    /\ UNCHANGED <<nftVars, hostVars, histVars, playVars>>

Deleted ==
    /\ at = "idle"
    /\ ended = "ok"
    /\ GoOn("deleting", "restart")
    /\ UNCHANGED <<rewriteVars, hostVars, cut, doubt, facts, descr, need,
                   snap, found>>

(* networking and NetworkManager restart: NetworkManager takes over what   *)
(* ifupdown has lost, as it is when the interface has an address, or by    *)
(* activating a connection of its own.                                     *)
Restart ==
    /\ GoOn("restart", "fetch")
    /\ nm' \in {m \in [Iface -> Carriers] :
                  \A f \in Iface :
                     IF f \in removed /\ nm[f] = "ifupdown"
                       THEN m[f] \in {"activating", "active"}
                       ELSE m[f] = nm[f]}
    /\ UNCHANGED <<rewriteVars, yaml, netplan, home, cut, doubt, facts,
                   descr, need, snap, found>>

FetchConnections ==
    /\ GoOn("fetch", "prune")
    /\ snap' = nm
    /\ UNCHANGED <<rewriteVars, hostVars, cut, doubt, facts, descr, need,
                   found>>

(* Mutant: the interfaces that are still in the files *)
Mutant_FetchedLeft(state) == {f \in Declared(files) : snap[f] = state}

(* nmcli_filters_connections_by: connections of a device of a removed      *)
(* interface.  Only a connection that is being activated has a device and  *)
(* is not active.                                                          *)
Fetched(state) == {f \in removed : snap[f] = state}

PruneInactive ==
    /\ GoOn("prune", "adopt")
    /\ nm' = [f \in Iface |-> IF f \in Fetched("activating") THEN "none"
                                                             ELSE nm[f]]
    /\ UNCHANGED <<rewriteVars, yaml, netplan, home, cut, doubt, facts,
                   descr, need, snap, found>>

AdoptActive ==
    /\ GoOn("adopt", "apply")
    /\ nm' = [f \in Iface |-> IF f \in Fetched("active") THEN "kept"
                                                         ELSE nm[f]]
    /\ UNCHANGED <<rewriteVars, yaml, netplan, home, cut, doubt, facts,
                   descr, need, snap, found>>

(* A loop tries every item, and fails at its end if one has failed.        *)
LoopFails ==
    /\ task \in {"prune", "adopt"}
    /\ \E done \in SUBSET Fetched(IF task = "prune" THEN "activating"
                                                    ELSE "active") :
          nm' = [f \in Iface |-> IF f \notin done THEN nm[f]
                                 ELSE IF task = "prune" THEN "none"
                                 ELSE "kept"]
    /\ EndPlay("failed")
    /\ CutShort
    /\ UNCHANGED <<nftVars, rewriteVars, yaml, netplan, home, served, doubt,
                   calm>>

(* nmcli_apply: when it fails, the address may have moved or not.          *)
ApplyConnections ==
    /\ GoOn("apply", "set_fact")
    /\ home' = play.wants.home
    /\ doubt' = (doubt \/ home' # home)
    /\ UNCHANGED <<rewriteVars, nm, yaml, netplan, cut, facts, descr, need,
                   snap, found>>

ApplyFails ==
    /\ task = "apply"
    /\ home' \in {home, play.wants.home}
    /\ doubt' = (doubt \/ home' # home)
    /\ EndPlay("failed")
    /\ UNCHANGED <<nftVars, rewriteVars, nm, yaml, netplan, served, cut, calm>>

SetFact ==
    /\ GoOn("set_fact", "detect")
    /\ facts' = [facts EXCEPT !.conns = TRUE]
    /\ UNCHANGED <<rewriteVars, hostVars, cut, doubt, descr, need, snap,
                   found>>

(* The configuration is looked up in every play, as the fact that the role *)
(* tests is not the one it sets; the interface only if it is not known.    *)
DetectConf == IF play.wants.ssh /\ play.wants.static THEN Address ELSE facts.conf

DetectIface ==
    IF play.wants.ssh /\ facts.iface = None THEN home ELSE facts.iface

Detect ==
    /\ GoOn("detect", "save")
    /\ facts' = [facts EXCEPT !.conf = DetectConf, !.iface = DetectIface]
    /\ UNCHANGED <<rewriteVars, hostVars, cut, doubt, descr, need, snap,
                   found>>

(* The first of two values that is there.                                  *)
OrElse(a, b) == IF a = None THEN b ELSE a

(* Mutant: a descriptor that is there is kept *)
Mutant_SavesOnce ==
    /\ GoOn("save", IF play.roles = "both" THEN "load" ELSE "done")
    /\ descr' = OrElse(descr, facts)
    /\ doubt' = ~play.fresh
    /\ UNCHANGED <<rewriteVars, hostVars, cut, facts, need, snap, found>>

SaveDescriptor ==
    /\ GoOn("save", IF play.roles = "both" THEN "load" ELSE "done")
    /\ descr' = facts
    /\ doubt' = ~play.fresh
    /\ UNCHANGED <<rewriteVars, hostVars, cut, facts, need, snap, found>>

(* Mutant: the descriptor is not read for a play of the firewall alone *)
Mutant_LoadsNothing ==
    /\ GoOn("load", "rules")
    /\ facts' = facts
    /\ UNCHANGED <<rewriteVars, hostVars, cut, doubt, descr, need, snap,
                   found>>

(* Facts that the descriptor does not have are left as they are.           *)
LoadDescriptor ==
    /\ GoOn("load", "rules")
    /\ facts' = IF facts.conns \/ descr = None THEN facts
                ELSE [conns |-> TRUE,
                      conf |-> OrElse(descr.conf, facts.conf),
                      iface |-> OrElse(descr.iface, facts.iface)]
    /\ UNCHANGED <<rewriteVars, hostVars, cut, doubt, descr, need, snap,
                   found>>

ApplyRules ==
    /\ task = "rules"
    /\ task' = "loading"
    /\ Call(Rendered(facts))
    /\ UNCHANGED <<rewriteVars, hostVars, histVars, host, play, verdict,
                   facts, descr, need, snap, found>>

ApplyingRules ==
    /\ task = "loading"
    /\ NftStep
    /\ UNCHANGED <<rewriteVars, hostVars, histVars, playVars>>

PlayDone ==
    /\ \/ task = "done"
       \/ task = "loading" /\ step = "idle" /\ result \in {"ok", "changed"}
    /\ EndPlay("ok")
    /\ UNCHANGED <<nftVars, rewriteVars, hostVars, histVars>>

(* A task fails that changes nothing when it does, or a module has failed. *)
PlayFails ==
    /\ task \notin {"idle", "done"}
    /\ task = "deleting" => at = "idle" /\ ended = "failed"
    /\ task = "loading" => step = "idle" /\ result = "failed"
    /\ EndPlay("failed")
    /\ CutShort
    /\ UNCHANGED <<nftVars, rewriteVars, hostVars, served, doubt, calm>>

(* The play dies, with the module that it runs.                            *)
Kill ==
    /\ task # "idle"
    /\ IF at = "idle" THEN UNCHANGED rewriteVars ELSE DeleteKilled
    /\ IF step = "idle" THEN UNCHANGED nftVars ELSE NftKill
    /\ EndPlay("killed")
    /\ CutShort
    /\ UNCHANGED <<hostVars, served, doubt, calm>>

Reboot ==
    /\ NftReboot
    /\ IF at = "idle" THEN UNCHANGED rewriteVars ELSE DeleteKilled
    /\ IF task = "idle" THEN UNCHANGED playVars ELSE EndPlay("killed")
    /\ CutShort
    /\ nm' = [f \in Iface |-> IF nm[f] = "kept" THEN "kept"
                              ELSE IF f \in Declared(files) \ Skipped
                                THEN "ifupdown" ELSE "none"]
    /\ netplan' = IF netplan = "absent" THEN netplan ELSE Renderer
    /\ UNCHANGED <<yaml, home, served, doubt, calm>>

NmActivates(f) ==
    /\ task # "idle"
    /\ nm[f] = "activating"
    /\ nm' = [nm EXCEPT ![f] = "active"]
    /\ UNCHANGED <<nftVars, rewriteVars, yaml, netplan, home, histVars,
                   playVars>>

PlayStep ==
    \/ CheckIfaces \/ CheckRenderer
    \/ OverrideRenderer \/ NetplanApply \/ RemoveYaml \/ OwnYaml
    \/ DeleteIfaces \/ Deleting \/ Deleted \/ Restart
    \/ FetchConnections \/ PruneInactive \/ AdoptActive \/ LoopFails
    \/ ApplyConnections \/ ApplyFails \/ SetFact \/ Detect \/ SaveDescriptor
    \/ LoadDescriptor \/ ApplyRules \/ ApplyingRules
    \/ PlayDone \/ PlayFails

SetupNext ==
    \/ \E p \in host.plays, kept \in {facts, NoFacts} : StartPlay(p, kept)
    \/ PlayStep \/ Kill \/ Reboot
    \/ \E f \in Iface : NmActivates(f)

SetupSpec == SetupInit /\ [][SetupNext]_setupVars

(* A play goes on: each of its tasks returns, with success or failure.     *)
FairSetupSpec == SetupSpec /\ WF_setupVars(PlayStep)

-----------------------------------------------------------------------------

Tasks == {"idle", "check", "renderer", "override", "netplan_apply", "clean",
          "delete", "deleting", "restart", "fetch", "prune", "adopt", "apply",
          "set_fact", "detect", "save", "done", "load", "rules", "loading"}

(* The types, and which module runs at which task.                         *)
SetupTypeOK ==
    /\ NftTypeOK
    /\ IfacesTypeOK
    /\ task \in Tasks
    /\ host \in Hosts
    /\ verdict \in {"none", "ok", "failed", "killed"}
    /\ play \in host.plays \cup {None}
    /\ task # "idle" => verdict = "none"
    /\ task # "idle" \/ verdict = "ok" => play # None
    /\ facts \in Facts
    /\ descr \in Facts \cup {None}
    /\ nm \in [Iface -> Carriers]
    /\ snap \in [Iface -> Carriers]
    /\ yaml \subseteq {"site", "99", "70"}
    /\ found \subseteq {"site", "99", "70"}
    /\ netplan \in {"absent", "networkd", "nm"}
    /\ home \in Home
    /\ at # "idle" => task = "deleting"
    /\ step # "idle" => task = "loading"

(* A play of both roles that succeeds, with no fact cached and nothing     *)
(* left to load by an earlier call, leaves a firewall that accepts SSH at  *)
(* the interface that has the management address after the connections    *)
(* were applied; so it does only if the address is static, as without a   *)
(* configuration the rule is rejected (build_default_rules_list.yml:19).   *)
SshReaches ==
    verdict = "ok" /\ play.roles = "both" /\ play.fresh /\ play.wants.ssh /\ agreed
        => play.wants.static /\ kernel = [ssh |-> home, daddr |-> Address]

(* A play of the firewall alone opens what the descriptor says.            *)
DescriptorUsed ==
    verdict = "ok" /\ play.roles = "firewall" /\ play.fresh /\ agreed
        /\ descr # None
        => kernel = Rendered(descr)

(* The descriptor names the interface that has the management address, or  *)
(* none, except when a play has moved the address and ended before it     *)
(* saved the descriptor, or has saved cached facts                         *)
(* (detect_managment_connection.yml:48).                                   *)
DescriptorTrue ==
    descr # None /\ ~doubt => descr.iface \in {home, None}

(* After a play with networking_setup that succeeds, and no play ended     *)
(* between deletion and adoption, every interface that ifupdown served has *)
(* a permanent connection of NetworkManager, or had one that was being     *)
(* activated when the migration fetched the list                           *)
(* (migration_interfaces_file_to_nm_tasks.yml:71).                         *)
NothingStranded ==
    verdict = "ok" /\ play.roles # "firewall" /\ ~cut
        => \A f \in served : nm[f] = "kept" \/ snap[f] = "activating"

(* After such a play netplan does not render to networkd, unless an        *)
(* earlier play ended between the file that names the renderer and its     *)
(* application: the check then finds nothing to migrate                    *)
(* (migration_netplan_check.yml:22).                                       *)
RendererMoved ==
    verdict = "ok" /\ play.roles # "firewall" /\ netplan = "networkd"
        => "99" \in yaml

(* A play that repeats one that succeeded, with no cached fact, changes no *)
(* file of the host and moves nothing.                                     *)
RerunChangesNothing ==
    [][calm /\ task # "idle"
         => UNCHANGED <<files, yaml, descr, file, home>>]_setupVars

(* A play ends.                                                            *)
PlayEnds == task # "idle" ~> task = "idle"
================================================================================

----------------------------- MODULE HostSetupProofs ---------------------------
(***************************************************************************)
(* Proofs about plays of the two roles, for any hosts and inventories: the *)
(* plays run the two modules as NftApply and IfacesFile describe them, so  *)
(* that what is proved of those holds of the host, however plays fail, are *)
(* killed or the host reboots; and the properties of the roles themselves. *)
(***************************************************************************)
EXTENDS HostSetup, NftApplyProofs, IfacesFileProofs

(* The part of the type invariant that the proofs need.                    *)
PlayTyped ==
    /\ facts \in Facts
    /\ descr \in Facts \cup {None}
    /\ home \in Home
    /\ host \in Hosts
    /\ play \in Plays \cup {None}
    /\ task # "idle" => play # None

LEMMA HostsHavePlays ==
    ASSUME NEW h \in Hosts, NEW p \in h.plays
    PROVE  p \in Plays
  BY SetupAssumption

LEMMA PlayTypedInit == SetupInit => PlayTyped
  BY SetupAssumption DEF SetupInit, PlayTyped, NoFacts, Facts

(* Tasks that keep the facts, and where the address is.                    *)
LEMMA PlayTypedStep ==
    ASSUME PlayTyped, [SetupNext]_setupVars
    PROVE  PlayTyped'
  <1> USE DEF PlayTyped
  <1>1. CASE UNCHANGED setupVars
    BY <1>1 DEF setupVars, playVars, hostVars
  <1>2. ASSUME NEW p \in host.plays, NEW kept \in {facts, NoFacts},
               StartPlay(p, kept)
        PROVE  PlayTyped'
    <2>1. p \in Plays /\ p # None
      BY <1>2, HostsHavePlays, SetupAssumption DEF StartPlay, Plays
    <2>2. NoFacts \in Facts
      BY DEF NoFacts, Facts
    <2> QED
      BY <1>2, <2>1, <2>2 DEF StartPlay, hostVars
  <1>3. CASE PlayStep
    <2>1. CASE \/ CheckIfaces \/ CheckRenderer \/ OverrideRenderer
               \/ NetplanApply \/ RemoveYaml \/ OwnYaml \/ DeleteIfaces
               \/ Deleted \/ Restart \/ FetchConnections \/ PruneInactive
               \/ AdoptActive
      BY <1>3, <2>1
         DEF CheckIfaces, CheckRenderer, OverrideRenderer, NetplanApply,
             RemoveYaml, OwnYaml, DeleteIfaces, Deleted, Restart,
             FetchConnections, PruneInactive, AdoptActive, GoOn, hostVars
    <2>2. CASE Deleting \/ ApplyRules \/ ApplyingRules
      BY <2>2 DEF Deleting, ApplyRules, ApplyingRules, hostVars, playVars
    <2>3. CASE LoopFails \/ PlayDone \/ PlayFails
      BY <2>3 DEF LoopFails, PlayDone, PlayFails, EndPlay, hostVars
    <2>4. CASE ApplyConnections
      BY <2>4, SetupAssumption DEF ApplyConnections, GoOn, Plays
    <2>5. CASE ApplyFails
      BY <2>5, SetupAssumption DEF ApplyFails, EndPlay, Plays
    <2>6. CASE SetFact \/ Detect
      BY <2>6, SetupAssumption
         DEF SetFact, Detect, DetectConf, DetectIface, GoOn, hostVars, Facts
    <2>7. CASE SaveDescriptor
      BY <2>7 DEF SaveDescriptor, GoOn, hostVars
    <2>8. CASE LoadDescriptor
      BY <2>8 DEF LoadDescriptor, OrElse, GoOn, hostVars, Facts
    <2> QED
      BY <1>3, <2>1, <2>2, <2>3, <2>4, <2>5, <2>6, <2>7, <2>8 DEF PlayStep
  <1>4. CASE Kill
    BY <1>4 DEF Kill, EndPlay, hostVars
  <1>5. CASE Reboot
    BY <1>5 DEF Reboot, EndPlay, playVars
  <1>6. CASE \E f \in Iface : NmActivates(f)
    BY <1>6 DEF NmActivates, playVars
  <1> QED
    BY <1>1, <1>2, <1>3, <1>4, <1>5, <1>6 DEF SetupNext

LEMMA PlayTypedInvariance == SetupSpec => []PlayTyped
  BY PlayTypedInit, PlayTypedStep, PTL DEF SetupSpec

-----------------------------------------------------------------------------
(* The modules that the tasks run.                                         *)

(* The rules that a play asks for are rules.                               *)
LEMMA RenderedTyped == PlayTyped => Rendered(facts) \in Rules
  BY SetupAssumption DEF PlayTyped

LEMMA NftSteps ==
    ASSUME PlayTyped, [SetupNext]_setupVars
    PROVE  [NftNext]_nftVars
  <1>1. CASE ApplyRules
    BY <1>1, RenderedTyped DEF ApplyRules, NftNext
  <1>2. CASE ApplyingRules
    BY <1>2 DEF ApplyingRules, NftNext
  <1>3. CASE Kill
    BY <1>3 DEF Kill, NftNext
  <1>4. CASE Reboot
    BY <1>4 DEF Reboot, NftNext
  <1>5. CASE \/ UNCHANGED setupVars
             \/ \E p \in host.plays, kept \in {facts, NoFacts} :
                   StartPlay(p, kept)
             \/ \E f \in Iface : NmActivates(f)
    BY <1>5 DEF setupVars, StartPlay, NmActivates
  <1>6. CASE PlayStep
    <2>1. CASE \/ CheckIfaces \/ CheckRenderer \/ OverrideRenderer
               \/ NetplanApply \/ RemoveYaml \/ OwnYaml \/ DeleteIfaces
               \/ Deleted \/ Restart \/ FetchConnections \/ PruneInactive
               \/ AdoptActive \/ ApplyConnections \/ SetFact \/ Detect
               \/ SaveDescriptor \/ LoadDescriptor
      BY <2>1
         DEF CheckIfaces, CheckRenderer, OverrideRenderer, NetplanApply,
             RemoveYaml, OwnYaml, DeleteIfaces, Deleted, Restart,
             FetchConnections, PruneInactive, AdoptActive, ApplyConnections,
             SetFact, Detect, SaveDescriptor, LoadDescriptor, GoOn
    <2>2. CASE Deleting \/ LoopFails \/ ApplyFails \/ PlayDone \/ PlayFails
      BY <2>2 DEF Deleting, LoopFails, ApplyFails, PlayDone, PlayFails
    <2> QED
      BY <1>1, <1>2, <1>6, <2>1, <2>2 DEF PlayStep
  <1> QED
    BY <1>3, <1>4, <1>5, <1>6 DEF SetupNext

(* A play runs nftables_apply as NftApply has it, and nothing else of the  *)
(* host touches the rules.                                                 *)
THEOREM PlaysRunNft == SetupSpec => NftSpec
  <1>1. SetupInit => NftInit
    BY DEF SetupInit
  <1>2. PlayTyped /\ [SetupNext]_setupVars => [NftNext]_nftVars
    BY NftSteps
  <1> QED
    BY <1>1, <1>2, PlayTypedInvariance, PTL DEF SetupSpec, NftSpec

LEMMA IfacesSteps ==
    ASSUME [SetupNext]_setupVars
    PROVE  [RewriteNext]_rewriteVars
  <1>1. CASE DeleteIfaces
    BY <1>1 DEF DeleteIfaces, RewriteNext
  <1>2. CASE Deleting
    BY <1>2 DEF Deleting, RewriteNext
  <1>3. CASE Kill
    BY <1>3 DEF Kill, RewriteNext
  <1>4. CASE Reboot
    BY <1>4 DEF Reboot, RewriteNext
  <1>5. CASE \/ UNCHANGED setupVars
             \/ \E p \in host.plays, kept \in {facts, NoFacts} :
                   StartPlay(p, kept)
             \/ \E f \in Iface : NmActivates(f)
    BY <1>5 DEF setupVars, StartPlay, NmActivates
  <1>6. CASE PlayStep
    <2>1. CASE \/ CheckIfaces \/ CheckRenderer \/ OverrideRenderer
               \/ NetplanApply \/ RemoveYaml \/ OwnYaml
               \/ Deleted \/ Restart \/ FetchConnections \/ PruneInactive
               \/ AdoptActive \/ ApplyConnections \/ SetFact \/ Detect
               \/ SaveDescriptor \/ LoadDescriptor
      BY <2>1
         DEF CheckIfaces, CheckRenderer, OverrideRenderer, NetplanApply,
             RemoveYaml, OwnYaml, Deleted, Restart, FetchConnections,
             PruneInactive, AdoptActive, ApplyConnections, SetFact, Detect,
             SaveDescriptor, LoadDescriptor
    <2>2. CASE \/ ApplyRules \/ ApplyingRules \/ LoopFails \/ ApplyFails
               \/ PlayDone \/ PlayFails
      BY <2>2
         DEF ApplyRules, ApplyingRules, LoopFails, ApplyFails, PlayDone,
             PlayFails
    <2> QED
      BY <1>1, <1>2, <1>6, <2>1, <2>2 DEF PlayStep
  <1> QED
    BY <1>3, <1>4, <1>5, <1>6 DEF SetupNext

(* And ifaces_file_delete_ifaces as IfacesFile has it.                     *)
THEOREM PlaysRunIfaces == SetupSpec => IfacesSpec
  <1>1. SetupInit => IfacesInit
    BY DEF SetupInit
  <1> QED
    BY <1>1, IfacesSteps, PTL DEF SetupSpec, IfacesSpec

(* What is proved of the modules holds of the plays.                       *)
THEOREM PlaysKeepPromises ==
    SetupSpec => /\ [](SuccessEnforced /\ RewriteExact /\ NothingDeclared)
                 /\ FailureKeepsRules
                 /\ Promised
  BY PlaysRunNft, PlaysRunIfaces, SuccessIsEnforced, FailureIsHarmless,
     PromiseKept, RewriteIsExact, NothingLeftDeclared, PTL

-----------------------------------------------------------------------------
(* The descriptor.                                                         *)

Undetected == {"check", "renderer", "override", "netplan_apply", "clean",
               "delete", "deleting", "restart", "fetch", "prune", "adopt",
               "apply", "set_fact", "detect"}

(* With no fact cached, the interface is looked up after the connections   *)
(* were applied, and saved while the address stays where it is.            *)
DescrInv ==
    /\ task \in Undetected /\ play.fresh => facts.iface = None
    /\ task = "save" /\ play.fresh => facts.iface \in {home, None}
    /\ DescriptorTrue

LEMMA DescrInit == SetupInit => DescrInv
  BY DEF SetupInit, DescrInv, DescriptorTrue, Undetected

LEMMA DescrStep ==
    ASSUME PlayTyped, DescrInv, [SetupNext]_setupVars
    PROVE  DescrInv'
  <1> USE DEF DescrInv, DescriptorTrue, Undetected
  <1>1. CASE UNCHANGED setupVars
    BY <1>1 DEF setupVars, playVars, hostVars, histVars
  <1>2. ASSUME NEW p \in host.plays, NEW kept \in {facts, NoFacts},
               StartPlay(p, kept)
        PROVE  DescrInv'
    <2>1. play' = p /\ facts' = kept /\ task' \in {"load", "check"}
      BY <1>2 DEF StartPlay
    <2>2. p.fresh => kept = NoFacts
      BY <1>2 DEF StartPlay
    <2>3. NoFacts.iface = None
      BY DEF NoFacts
    <2>4. DescriptorTrue'
      BY <1>2 DEF StartPlay, hostVars
    <2> QED
      BY <2>1, <2>2, <2>3, <2>4
  <1>3. CASE PlayStep
    <2>1. CASE \/ CheckIfaces \/ CheckRenderer \/ OverrideRenderer
               \/ NetplanApply \/ RemoveYaml \/ OwnYaml \/ DeleteIfaces
               \/ Deleted \/ Restart \/ FetchConnections \/ PruneInactive
               \/ AdoptActive
      BY <2>1
         DEF CheckIfaces, CheckRenderer, OverrideRenderer, NetplanApply,
             RemoveYaml, OwnYaml, DeleteIfaces, Deleted, Restart,
             FetchConnections, PruneInactive, AdoptActive, GoOn, hostVars,
             Migrate
    <2>2. CASE Deleting \/ ApplyRules \/ ApplyingRules
      BY <2>2 DEF Deleting, ApplyRules, ApplyingRules, hostVars, histVars,
                  playVars
    <2>3. CASE LoopFails \/ PlayDone \/ PlayFails
      BY <2>3 DEF LoopFails, PlayDone, PlayFails, EndPlay, hostVars, histVars
    <2>4. CASE ApplyConnections \/ ApplyFails
      BY <2>4 DEF ApplyConnections, ApplyFails, GoOn, EndPlay
    <2>5. CASE SetFact \/ Detect
      BY <2>5
         DEF PlayTyped, SetFact, Detect, DetectConf, DetectIface, GoOn,
             hostVars, Facts
    <2>6. CASE SaveDescriptor \/ LoadDescriptor
      BY <2>6 DEF SaveDescriptor, LoadDescriptor, GoOn, hostVars
    <2> QED
      BY <1>3, <2>1, <2>2, <2>3, <2>4, <2>5, <2>6 DEF PlayStep
  <1>4. CASE Kill
    BY <1>4 DEF Kill, EndPlay, hostVars
  <1>5. CASE Reboot
    BY <1>5 DEF Reboot, EndPlay, playVars
  <1>6. CASE \E f \in Iface : NmActivates(f)
    BY <1>6 DEF NmActivates, playVars, histVars
  <1> QED
    BY <1>1, <1>2, <1>3, <1>4, <1>5, <1>6 DEF SetupNext

(* The descriptor names the interface that has the management address,     *)
(* however plays end, with the two exceptions that the property names.     *)
THEOREM DescriptorIsTrue == SetupSpec => []DescriptorTrue
  <1>1. DescrInv => DescriptorTrue
    BY DEF DescrInv
  <1>2. PlayTyped /\ DescrInv /\ [SetupNext]_setupVars => DescrInv'
    BY DescrStep
  <1> QED
    BY <1>1, <1>2, DescrInit, PlayTypedInvariance, PTL DEF SetupSpec

-----------------------------------------------------------------------------
(* The renderer of netplan.                                                *)

Renamed == {"delete", "deleting", "restart", "fetch", "prune", "adopt",
            "apply", "set_fact", "detect", "save"}

(* The plays of networking_setup that have passed the check, or succeeded. *)
Checked ==
    \/ task \in Renamed
    \/ task \in {"load", "rules", "loading", "done"} /\ play.roles # "firewall"
    \/ task = "idle" /\ verdict = "ok" /\ play.roles # "firewall"

(* They leave a file that names the renderer; and the file of the role's   *)
(* own is written when netplan has been applied only.                      *)
RendererInv ==
    /\ task # "idle" => verdict = "none"
    /\ netplan = "networkd" => "70" \notin yaml
    /\ task \in {"override", "netplan_apply"} => netplan # "absent"
    /\ task = "clean" => netplan = "nm"
    /\ Checked /\ netplan # "absent" => yaml \cap {"99", "70"} # {}

LEMMA RendererInit == SetupInit => RendererInv
  BY DEF SetupInit, RendererInv, Checked, Renamed

LEMMA RendererStep ==
    ASSUME RendererInv, [SetupNext]_setupVars
    PROVE  RendererInv'
  <1> USE DEF RendererInv, Checked, Renamed
  <1>1. CASE UNCHANGED setupVars
    BY <1>1 DEF setupVars, playVars, hostVars
  <1>2. ASSUME NEW p \in host.plays, NEW kept \in {facts, NoFacts},
               StartPlay(p, kept)
        PROVE  RendererInv'
    BY <1>2 DEF StartPlay, hostVars
  <1>3. CASE PlayStep
    <2>1. CASE \/ DeleteIfaces \/ Deleted \/ Restart \/ FetchConnections
               \/ PruneInactive \/ AdoptActive \/ ApplyConnections
               \/ SetFact \/ Detect \/ SaveDescriptor \/ LoadDescriptor
      BY <2>1
         DEF DeleteIfaces, Deleted, Restart, FetchConnections, PruneInactive,
             AdoptActive, ApplyConnections, SetFact, Detect, SaveDescriptor,
             LoadDescriptor, GoOn, hostVars
    <2>2. CASE Deleting \/ ApplyRules \/ ApplyingRules
      BY <2>2 DEF Deleting, ApplyRules, ApplyingRules, hostVars, playVars
    <2>3. CASE PlayDone
      BY <2>3 DEF PlayDone, EndPlay, hostVars
    <2>4. CASE LoopFails \/ ApplyFails \/ PlayFails
      BY <2>4 DEF LoopFails, ApplyFails, PlayFails, EndPlay, hostVars
    <2>5. CASE CheckIfaces
      BY <2>5 DEF CheckIfaces, GoOn, hostVars
    <2>6. CASE CheckRenderer
      BY <2>6 DEF CheckRenderer, Renderer, Migrate, GoOn, hostVars
    <2>7. CASE OverrideRenderer
      BY <2>7 DEF OverrideRenderer, GoOn
    <2>8. CASE NetplanApply
      BY <2>8 DEF NetplanApply, GoOn
    <2>9. CASE RemoveYaml
      BY <2>9 DEF RemoveYaml, GoOn
    <2>10. CASE OwnYaml
      BY <2>10 DEF OwnYaml, Migrate, GoOn
    <2> QED
      BY <1>3, <2>1, <2>2, <2>3, <2>4, <2>5, <2>6, <2>7, <2>8, <2>9, <2>10
         DEF PlayStep
  <1>4. CASE Kill
    BY <1>4 DEF Kill, EndPlay, hostVars
  <1>5. CASE Reboot
    BY <1>5 DEF Reboot, Renderer, EndPlay, playVars
  <1>6. CASE \E f \in Iface : NmActivates(f)
    BY <1>6 DEF NmActivates, playVars
  <1> QED
    BY <1>1, <1>2, <1>3, <1>4, <1>5, <1>6 DEF SetupNext

(* A play of networking_setup that succeeds has moved netplan's renderer   *)
(* away from networkd, but for the exception that the property names.      *)
THEOREM RendererIsMoved == SetupSpec => []RendererMoved
  <1>1. RendererInv => RendererMoved
    BY DEF RendererInv, RendererMoved, Checked
  <1> QED
    BY <1>1, RendererInit, RendererStep, PTL DEF SetupSpec

-----------------------------------------------------------------------------
(* The firewall.                                                           *)

(* The facts of a play of both roles that had none cached, once the        *)
(* management connection has been detected ...                             *)
DetectedFacts ==
    [conns |-> TRUE, conf |-> IF play.wants.static THEN Address ELSE None,
     iface |-> home]

SshPlay == play # None /\ play.roles = "both" /\ play.fresh /\ play.wants.ssh

SshFacts ==
    SshPlay =>
        /\ task \in Undetected => facts.iface = None /\ facts.conf = None
        /\ task = "detect" => facts.conns
        /\ task \notin Undetected => facts = DetectedFacts

(* ... and those of a play of the firewall alone.                          *)
FirewallPlay ==
    play # None /\ play.roles = "firewall"

FirewallFacts ==
    FirewallPlay =>
        /\ task \in {"idle", "load", "rules", "loading"}
        /\ play.fresh =>
             /\ task = "load" => facts = NoFacts
             /\ task # "load" /\ descr # None =>
                   facts.conf = descr.conf /\ facts.iface = descr.iface

(* The call of a play has the rules of its facts, and those of a play that *)
(* succeeded are still the last ones asked for.                            *)
Asking ==
    /\ step # "idle" => task = "loading"
    /\ task # "idle" => verdict = "none"
    /\ verdict = "ok" => play # None
    /\ task = "done" => play.roles = "networking"
    /\ task = "idle" => verdict = "ok" \/ play = None
    /\ task = "loading" /\ result # "failed" =>
          /\ result \in {"none", "ok", "changed"}
          /\ config = Rendered(facts)
          /\ step # "validate" => config \in Accepted
    /\ task = "idle" /\ play # None /\ play.roles # "networking" =>
          /\ result \in {"ok", "changed"}
          /\ config = Rendered(facts)
          /\ config \in Accepted

FirewallInv == SshFacts /\ FirewallFacts /\ Asking

LEMMA FirewallInit == SetupInit => FirewallInv
  BY DEF SetupInit, NftInit, FirewallInv, SshFacts, SshPlay, FirewallFacts,
         FirewallPlay, Asking

LEMMA FirewallStep ==
    ASSUME PlayTyped, NftInv, FirewallInv, [SetupNext]_setupVars
    PROVE  FirewallInv'
  <1> USE DEF FirewallInv, SshFacts, SshPlay, DetectedFacts, FirewallFacts,
              FirewallPlay, Asking, Undetected
  <1>1. CASE UNCHANGED setupVars
    BY <1>1 DEF setupVars, playVars, hostVars, nftVars, Rendered
  <1>2. ASSUME NEW p \in host.plays, NEW kept \in {facts, NoFacts},
               StartPlay(p, kept)
        PROVE  FirewallInv'
    <2>1. p \in Plays /\ p # None
      BY <1>2, HostsHavePlays, SetupAssumption DEF StartPlay, PlayTyped
    <2>2. p.roles \in {"networking", "firewall", "both"}
      BY <2>1 DEF Plays
    <2>3. play' = p /\ facts' = kept /\ verdict' = "none"
      BY <1>2 DEF StartPlay
    <2>4. task' = IF p.roles = "firewall" THEN "load" ELSE "check"
      BY <1>2 DEF StartPlay
    <2>5. p.fresh => kept = NoFacts
      BY <1>2 DEF StartPlay
    <2>6. step = "idle" /\ step' = "idle"
      BY <1>2 DEF StartPlay, nftVars
    <2>7. NoFacts.iface = None /\ NoFacts.conf = None
      BY DEF NoFacts
    <2> QED
      BY <2>1, <2>2, <2>3, <2>4, <2>5, <2>6, <2>7
  <1>3. CASE PlayStep
    <2>1. CASE \/ CheckIfaces \/ CheckRenderer \/ OverrideRenderer
               \/ NetplanApply \/ RemoveYaml \/ OwnYaml \/ DeleteIfaces
               \/ Deleted \/ Restart \/ FetchConnections \/ PruneInactive
               \/ AdoptActive
      BY <2>1
         DEF CheckIfaces, CheckRenderer, OverrideRenderer, NetplanApply,
             RemoveYaml, OwnYaml, DeleteIfaces, Deleted, Restart,
             FetchConnections, PruneInactive, AdoptActive, GoOn, hostVars,
             nftVars, Migrate
    <2>2. CASE Deleting
      BY <2>2 DEF Deleting, hostVars, histVars, playVars, nftVars, Rendered
    <2>3. CASE ApplyRules
      BY <2>3 DEF ApplyRules, Call, hostVars, histVars, Rendered
    <2>4. CASE ApplyingRules
      <3>1. /\ task = "loading" /\ task' = task /\ play' = play
            /\ facts' = facts /\ descr' = descr /\ home' = home
            /\ verdict' = verdict /\ NftStep
        BY <2>4 DEF ApplyingRules, hostVars, playVars
      <3>2. /\ result' # "failed" =>
                 /\ result' \in {"none", "ok", "changed"}
                 /\ config' = config
                 /\ step' # "validate" => config \in Accepted
            /\ step # "idle" /\ result = "none"
        <4> USE <3>1 DEF NftInv, NftTypeOK
        <4>1. CASE Validated
          BY <4>1 DEF Validated
        <4>2. CASE Rejected \/ Same
          BY <4>2 DEF Rejected, Same, NftEnd
        <4>3. CASE Absent \/ Differs
          BY <4>3 DEF Absent, Differs
        <4>4. CASE Open \/ Write
          BY <4>4 DEF Open, Write
        <4>5. CASE Load
          BY <4>5 DEF Load, LoadResult, NftEnd
        <4>6. CASE StepFails
          BY <4>6 DEF StepFails, NftEnd
        <4> QED
          BY <4>1, <4>2, <4>3, <4>4, <4>5, <4>6 DEF NftStep
      <3>3. Rendered(facts)' = Rendered(facts)
        BY <3>1 DEF Rendered
      <3> QED
        BY <3>1, <3>2, <3>3 DEF DetectedFacts
    <2>5. CASE PlayDone
      <3>1. /\ task' = "idle" /\ play' = play /\ play # None
            /\ verdict' = "ok" /\ facts' = facts /\ descr' = descr
            /\ home' = home /\ config' = config /\ result' = result
            /\ step' = step /\ Rendered(facts)' = Rendered(facts)
        BY <2>5 DEF PlayDone, EndPlay, hostVars, nftVars, Rendered, PlayTyped
      <3>2. CASE task = "done"
        BY <3>1, <3>2
      <3>3. CASE /\ task = "loading" /\ step = "idle"
                 /\ result \in {"ok", "changed"}
        BY <3>1, <3>3
      <3> QED
        BY <2>5, <3>2, <3>3 DEF PlayDone
    <2>6. CASE LoopFails \/ PlayFails \/ ApplyFails
      BY <2>6 DEF LoopFails, PlayFails, ApplyFails, EndPlay, nftVars
    <2>7. CASE ApplyConnections
      BY <2>7 DEF ApplyConnections, GoOn, nftVars
    <2>8. CASE SetFact
      BY <2>8 DEF SetFact, GoOn, nftVars, hostVars, PlayTyped, Facts
    <2>9. CASE Detect
      BY <2>9 DEF Detect, DetectConf, DetectIface, GoOn, nftVars, hostVars,
                  PlayTyped, Facts
    <2>10. CASE SaveDescriptor
      <3>1. play.roles \in {"networking", "firewall", "both"}
        BY <2>10 DEF SaveDescriptor, GoOn, PlayTyped, Plays
      <3> QED
        BY <2>10, <3>1 DEF SaveDescriptor, GoOn, nftVars, hostVars, PlayTyped
    <2>11. CASE LoadDescriptor
      <3>1. /\ task = "load" /\ task' = "rules" /\ play' = play
            /\ home' = home /\ descr' = descr /\ verdict' = verdict
            /\ step' = step
        BY <2>11 DEF LoadDescriptor, GoOn, nftVars, hostVars
      <3>2. SshFacts'
        BY <2>11, <3>1 DEF LoadDescriptor
      <3>3. FirewallFacts'
        BY <2>11, <3>1 DEF LoadDescriptor, OrElse, NoFacts
      <3> QED
        BY <3>1, <3>2, <3>3
    <2> QED
      BY <1>3, <2>1, <2>2, <2>3, <2>4, <2>5, <2>6, <2>7, <2>8, <2>9, <2>10,
         <2>11
         DEF PlayStep
  <1>4. CASE Kill
    BY <1>4 DEF Kill, EndPlay, hostVars, nftVars, NftKill, NftEnd
  <1>5. CASE Reboot
    BY <1>5 DEF Reboot, NftReboot, NftEnd, EndPlay, playVars, Rendered
  <1>6. CASE \E f \in Iface : NmActivates(f)
    BY <1>6 DEF NmActivates, playVars, histVars, nftVars, Rendered
  <1> QED
    BY <1>1, <1>2, <1>3, <1>4, <1>5, <1>6 DEF SetupNext

LEMMA FirewallInvariance == SetupSpec => [](PlayTyped /\ NftInv /\ FirewallInv)
  <1>1. PlayTyped /\ NftInv /\ FirewallInv /\ [SetupNext]_setupVars
          => FirewallInv'
    BY FirewallStep
  <1>2. SetupSpec => []NftInv
    BY PlaysRunNft, NftInvariance, PTL
  <1> QED
    BY <1>1, <1>2, FirewallInit, PlayTypedInvariance, PTL DEF SetupSpec

(* Both roles and both modules together: a play that succeeds leaves SSH   *)
(* open at the interface that has the management address afterwards.       *)
THEOREM SshIsReached == SetupSpec => []SshReaches
  <1>1. PlayTyped /\ NftInv /\ FirewallInv => SshReaches
    <2> SUFFICES ASSUME PlayTyped, NftInv, FirewallInv, verdict = "ok",
                        play.roles = "both", play.fresh, play.wants.ssh, agreed,
                        task = "idle", play # None
                 PROVE  play.wants.static
                          /\ kernel = [ssh |-> home, daddr |-> Address]
      BY DEF SshReaches, FirewallInv, Asking
    <2>1. facts = DetectedFacts
      BY DEF FirewallInv, SshFacts, SshPlay, Undetected
    <2>2. config = Rendered(facts) /\ config \in Accepted /\ kernel = config
      BY DEF FirewallInv, Asking, NftInv, SuccessEnforced
    <2>3. home # None /\ facts \in Facts /\ Address # None
      BY SetupAssumption DEF PlayTyped
    <2>4. Rendered(facts).daddr # Malformed
      BY <2>2, <2>3, SetupAssumption
    <2> QED
      BY <2>1, <2>2, <2>3, <2>4 DEF Rendered, DetectedFacts
  <1> QED
    BY <1>1, FirewallInvariance, PTL

(* A play of the firewall alone opens what the descriptor says.            *)
THEOREM DescriptorIsUsed == SetupSpec => []DescriptorUsed
  <1>1. PlayTyped /\ NftInv /\ FirewallInv => DescriptorUsed
    <2> SUFFICES ASSUME PlayTyped, NftInv, FirewallInv, verdict = "ok",
                        play.roles = "firewall", play.fresh, agreed,
                        descr # None, task = "idle", play # None
                 PROVE  kernel = Rendered(descr)
      BY DEF DescriptorUsed, FirewallInv, Asking
    <2>1. facts.conf = descr.conf /\ facts.iface = descr.iface
      BY DEF FirewallInv, FirewallFacts, FirewallPlay
    <2>2. kernel = Rendered(facts)
      BY DEF FirewallInv, Asking, NftInv, SuccessEnforced
    <2> QED
      BY <2>1, <2>2 DEF Rendered
  <1> QED
    BY <1>1, FirewallInvariance, PTL

-----------------------------------------------------------------------------
(* The interfaces that ifupdown served.                                    *)

(* Who carries one of them, from the deletion to the adoption, and in any  *)
(* other task.                                                             *)
Carried(f) ==
    CASE task = "deleting" ->
           /\ snap[f] # "activating"
           /\ nm[f] = "kept" \/ (nm[f] = "ifupdown" /\ f \in Declared(given))
      [] task = "restart" ->
           nm[f] = "kept" \/ (nm[f] = "ifupdown" /\ f \in removed)
      [] task = "fetch" ->
           nm[f] = "kept" \/ (nm[f] \in {"activating", "active"} /\ f \in removed)
      [] task \in {"prune", "adopt"} ->
           \/ nm[f] = "kept"
           \/ snap[f] = "activating"
           \/ snap[f] = "active" /\ nm[f] = "active" /\ f \in removed
      [] OTHER ->
           /\ snap[f] = "activating" => ~Needed
           /\ \/ nm[f] = "kept"
              \/ snap[f] = "activating"
              \/ nm[f] = "ifupdown" /\ f \in Declared(files)

BeforeMigration == {"renderer", "override", "netplan_apply", "clean"}

Migrating == {"restart", "fetch", "prune", "adopt"}

(* Plays that have nothing to migrate, or have done it.                    *)
Migrated ==
    \/ task \in Migrating \cup {"apply", "set_fact", "detect", "save"}
    \/ task \in {"load", "rules", "loading", "done"} /\ play.roles # "firewall"
    \/ verdict = "ok" /\ play.roles # "firewall"

CarriedInv ==
    /\ at # "idle" => task = "deleting"
    /\ task # "idle" => verdict = "none"
    /\ nm \in [Iface -> Carriers]
    /\ served \subseteq Iface \ Skipped
    /\ task \in BeforeMigration => need = Needed
    /\ task = "delete" => Needed
    /\ Migrated => ~Needed
    /\ ~cut => \A f \in served : Carried(f)

LEMMA CarriedInit == SetupInit => CarriedInv
  <1> SUFFICES ASSUME SetupInit PROVE CarriedInv
    OBVIOUS
  <1>1. /\ at = "idle" /\ task = "idle" /\ verdict = "none"
        /\ served = Declared(files) \ Skipped
        /\ nm = [f \in Iface |-> IF f \in served THEN "ifupdown" ELSE "none"]
        /\ snap = [f \in Iface |-> "none"]
    BY DEF SetupInit, IfacesInit
  <1>2. served \subseteq Iface
    BY <1>1 DEF Declared
  <1> QED
    BY <1>1, <1>2 DEF CarriedInv, Carried, Carriers, BeforeMigration,
                      Migrated, Migrating

(* A play that ends between two tasks, or in one that leaves the files as  *)
(* they were.                                                              *)
LEMMA EndCarried ==
    ASSUME CarriedInv, task # "idle", CutShort, files' = files, ~cut',
           snap' = snap, served' = served, task' = "idle",
           NEW f \in served, nm'[f] = nm[f]
    PROVE  Carried(f)'
  <1>1. /\ ~cut /\ task \notin Migrating
        /\ task = "deleting" => files = given
    BY DEF CutShort, Migrating
  <1>2. Needed' = Needed /\ Declared(files)' = Declared(files)
    BY DEF Needed, Declared, Included
  <1>3. CASE task = "deleting"
    <2>1. snap[f] # "activating"
            /\ (nm[f] = "kept" \/ (nm[f] = "ifupdown" /\ f \in Declared(files)))
      BY <1>1, <1>3 DEF CarriedInv, Carried
    <2> QED
      BY <1>2, <2>1 DEF Carried
  <1>4. CASE task # "deleting"
    <2>1. Carried(f)
      BY <1>1 DEF CarriedInv
    <2> QED
      BY <1>1, <1>2, <1>4, <2>1 DEF Carried, Migrating
  <1> QED
    BY <1>3, <1>4

LEMMA CarriedStep ==
    ASSUME PlayTyped, IfacesInv, Collected, NothingDeclared, CarriedInv,
           [SetupNext]_setupVars
    PROVE  CarriedInv'
  <1> USE DEF CarriedInv, BeforeMigration, Migrated, Migrating
  <1>1. ASSUME files' = files PROVE Needed' = Needed
    BY <1>1 DEF Needed, Declared, Included
  <1>2. ASSUME UNCHANGED <<files, given, removed, nm, snap, task>>
        PROVE  \A f : Carried(f)' = Carried(f)
    BY <1>2 DEF Carried, Needed, Declared, Included
  <1>3. ASSUME UNCHANGED <<files, nm, snap>>,
               task \notin Migrating \cup {"deleting"},
               task' \notin Migrating \cup {"deleting"}
        PROVE  \A f : Carried(f)' = Carried(f)
    <2>1. Needed' = Needed /\ Declared(files)' = Declared(files)
      BY <1>3 DEF Needed, Declared, Included
    <2> QED
      BY <1>3, <2>1 DEF Carried
  <1>4. CASE UNCHANGED setupVars
    BY <1>1, <1>2, <1>4 DEF setupVars, playVars, hostVars, histVars, rewriteVars
  <1>5. ASSUME NEW p \in host.plays, NEW kept \in {facts, NoFacts},
               StartPlay(p, kept)
        PROVE  CarriedInv'
    <2>1. /\ UNCHANGED <<files, nm, snap, at, served, cut>> /\ play' = p
          /\ task = "idle" /\ verdict' = "none"
          /\ task' = IF p.roles = "firewall" THEN "load" ELSE "check"
      BY <1>5 DEF StartPlay, hostVars, rewriteVars
    <2> QED
      BY <1>3, <2>1
  <1>6. CASE PlayStep
    <2>1. CASE \/ OverrideRenderer \/ NetplanApply \/ RemoveYaml
               \/ ApplyConnections \/ SetFact \/ Detect \/ SaveDescriptor
               \/ LoadDescriptor
      <3>1. /\ UNCHANGED <<files, nm, snap, at, served, cut, need, play, verdict>>
            /\ task \in {"override", "netplan_apply", "clean", "apply",
                         "set_fact", "detect", "save", "load"}
            /\ task' \in {"netplan_apply", "clean", "set_fact", "detect",
                          "save", "load", "done", "rules"}
            /\ task \in {"override", "netplan_apply", "clean"} =>
                  task' \in {"netplan_apply", "clean"}
            /\ task' \in {"netplan_apply", "clean"} =>
                  task \in {"override", "netplan_apply", "clean"}
            /\ task = "load" => task' = "rules"
        BY <2>1
           DEF OverrideRenderer, NetplanApply, RemoveYaml, ApplyConnections,
               SetFact, Detect, SaveDescriptor, LoadDescriptor, GoOn,
               hostVars, rewriteVars
      <3> QED
        BY <1>1, <1>3, <3>1
    <2>2. CASE CheckIfaces
      <3>1. /\ UNCHANGED <<files, nm, snap, at, served, cut, play, verdict>>
            /\ task = "check" /\ task' = "renderer" /\ need' = Needed
        BY <2>2 DEF CheckIfaces, GoOn, hostVars, rewriteVars
      <3> QED
        BY <1>1, <1>3, <3>1
    <2>3. CASE CheckRenderer \/ OwnYaml
      <3>1. /\ UNCHANGED <<files, nm, snap, at, served, cut, need, play, verdict>>
            /\ task \in {"renderer", "clean"}
            /\ task' = "override" \/ task' = Migrate
        BY <2>3 DEF CheckRenderer, OwnYaml, GoOn, hostVars, rewriteVars
      <3> QED
        BY <1>1, <1>3, <3>1 DEF Migrate
    <2>4. CASE DeleteIfaces
      <3>1. /\ UNCHANGED <<files, nm, snap, served, cut, play, verdict>>
            /\ task = "delete" /\ task' = "deleting" /\ given' = files
        BY <2>4 DEF DeleteIfaces, Delete, GoOn, hostVars
      <3>2. \A f \in served : Carried(f) => Carried(f)'
        BY <3>1 DEF Carried, Declared, Included
      <3> QED
        BY <3>1, <3>2
    <2>5. CASE Deleting
      <3>1. /\ UNCHANGED <<nm, snap, served, cut, play, verdict, task>>
            /\ task = "deleting" /\ given' = given
        BY <2>5 DEF Deleting, DeleteStep, NextFile, KeepComment, KeepDirective,
                    KeepIface, DeleteIface, DeleteAuto, OtherLine, Advance,
                    FileDone, OpenFile, WriteFile, DumpFails, AllFiles, hostVars,
                    histVars, playVars
      <3>2. \A f : Carried(f)' = Carried(f)
        BY <3>1 DEF Carried, Declared, Included
      <3>3. verdict = "none"
        BY <3>1
      <3> QED
        BY <3>1, <3>2, <3>3
    <2>6. CASE Deleted
      <3>1. /\ UNCHANGED <<files, at, nm, snap, served, cut, play, verdict, removed>>
            /\ task = "deleting" /\ task' = "restart"
            /\ at = "idle" /\ ended = "ok"
        BY <2>6 DEF Deleted, GoOn, hostVars, rewriteVars
      <3>2. ~Needed
        BY <3>1 DEF NothingDeclared, Needed
      <3>3. \A f \in served : Carried(f) => Carried(f)'
        BY <3>1, DeclaredCollected DEF Carried
      <3> QED
        BY <1>1, <3>1, <3>2, <3>3
    <2>7. CASE Restart
      <3>1. /\ UNCHANGED <<files, at, snap, served, cut, play, verdict, removed>>
            /\ task = "restart" /\ task' = "fetch"
            /\ nm' \in [Iface -> Carriers]
            /\ \A f \in Iface : IF f \in removed /\ nm[f] = "ifupdown"
                                  THEN nm'[f] \in {"activating", "active"}
                                  ELSE nm'[f] = nm[f]
        BY <2>7 DEF Restart, GoOn, rewriteVars
      <3>2. \A f \in served : Carried(f) => Carried(f)'
        BY <3>1 DEF Carried
      <3> QED
        BY <1>1, <3>1, <3>2
    <2>8. CASE FetchConnections
      <3>1. /\ UNCHANGED <<files, at, nm, served, cut, play, verdict, removed>>
            /\ task = "fetch" /\ task' = "prune" /\ snap' = nm
        BY <2>8 DEF FetchConnections, GoOn, hostVars, rewriteVars
      <3>2. \A f \in served : Carried(f) => Carried(f)'
        BY <3>1 DEF Carried
      <3> QED
        BY <1>1, <3>1, <3>2
    <2>9. CASE PruneInactive
      <3>1. /\ UNCHANGED <<files, at, snap, served, cut, play, verdict, removed>>
            /\ task = "prune" /\ task' = "adopt"
            /\ nm' = [f \in Iface |-> IF f \in Fetched("activating")
                                          THEN "none" ELSE nm[f]]
        BY <2>9 DEF PruneInactive, GoOn, rewriteVars
      <3>2. \A f \in served : Carried(f) => Carried(f)'
        BY <3>1 DEF Carried, Fetched
      <3>3. nm' \in [Iface -> Carriers]
        BY <3>1 DEF Carriers
      <3> QED
        BY <1>1, <3>1, <3>2, <3>3
    <2>10. CASE AdoptActive
      <3>1. /\ UNCHANGED <<files, at, snap, served, cut, play, verdict, removed>>
            /\ task = "adopt" /\ task' = "apply"
            /\ nm' = [f \in Iface |-> IF f \in Fetched("active")
                                          THEN "kept" ELSE nm[f]]
        BY <2>10 DEF AdoptActive, GoOn, rewriteVars
      <3>2. ~Needed'
        BY <1>1, <3>1
      <3>3. \A f \in served : Carried(f) => Carried(f)'
        BY <3>1, <3>2 DEF Carried, Fetched
      <3>4. nm' \in [Iface -> Carriers]
        BY <3>1 DEF Carriers
      <3> QED
        BY <3>1, <3>2, <3>3, <3>4
    <2>11. CASE LoopFails
      <3>1. /\ UNCHANGED <<files, at, served>> /\ task' = "idle"
            /\ task \in {"prune", "adopt"} /\ verdict' = "failed" /\ cut'
        BY <2>11 DEF LoopFails, EndPlay, CutShort, rewriteVars
      <3>2. nm' \in [Iface -> Carriers]
        BY <2>11 DEF LoopFails, Carriers
      <3> QED
        BY <3>1, <3>2
    <2>12. CASE ApplyFails
      <3>1. /\ UNCHANGED <<files, nm, snap, at, served, cut>> /\ task = "apply"
            /\ task' = "idle" /\ verdict' = "failed"
        BY <2>12 DEF ApplyFails, EndPlay, rewriteVars
      <3> QED
        BY <1>3, <3>1
    <2>13. CASE ApplyRules \/ ApplyingRules
      <3>1. /\ UNCHANGED <<files, nm, snap, at, served, cut, play, verdict>>
            /\ task \in {"rules", "loading"} /\ task' = "loading"
        BY <2>13 DEF ApplyRules, ApplyingRules, hostVars, histVars, playVars,
                     rewriteVars
      <3> QED
        BY <1>1, <1>3, <3>1
    <2>14. CASE PlayDone
      <3>1. /\ UNCHANGED <<files, nm, snap, at, served, cut, play>>
            /\ task \in {"done", "loading"} /\ task' = "idle"
        BY <2>14 DEF PlayDone, EndPlay, hostVars, histVars, rewriteVars
      <3> QED
        BY <1>1, <1>3, <3>1
    <2>15. CASE PlayFails
      <3>1. /\ UNCHANGED <<files, nm, snap, at, served>> /\ task # "idle"
            /\ task' = "idle" /\ verdict' = "failed" /\ CutShort
            /\ task = "deleting" => at = "idle"
        BY <2>15 DEF PlayFails, EndPlay, hostVars, rewriteVars
      <3> QED
        BY <3>1, EndCarried
    <2> QED
      BY <1>6, <2>1, <2>2, <2>3, <2>4, <2>5, <2>6, <2>7, <2>8, <2>9, <2>10,
         <2>11, <2>12, <2>13, <2>14, <2>15 DEF PlayStep
  <1>7. CASE Kill
    <2>1. /\ UNCHANGED <<files, nm, snap, served>> /\ task # "idle"
          /\ task' = "idle" /\ verdict' = "killed" /\ CutShort /\ at' = "idle"
      BY <1>7 DEF Kill, EndPlay, hostVars, rewriteVars, DeleteKilled, Stop
    <2> QED
      BY <2>1, EndCarried
  <1>8. CASE Reboot
    <2>1. /\ UNCHANGED <<files, snap, served>> /\ CutShort /\ at' = "idle"
          /\ task' = "idle"
          /\ IF task = "idle" THEN UNCHANGED <<play, verdict>>
                              ELSE verdict' = "killed"
      BY <1>8 DEF Reboot, EndPlay, playVars, rewriteVars, DeleteKilled, Stop
    <2>2. nm' = [f \in Iface |-> IF nm[f] = "kept" THEN "kept"
                                ELSE IF f \in Declared(files) \ Skipped
                                  THEN "ifupdown" ELSE "none"]
      BY <1>8 DEF Reboot
    <2>3. Needed' = Needed /\ Declared(files)' = Declared(files)
      BY <2>1 DEF Needed, Declared, Included
    <2>4. ASSUME NEW f \in served, ~cut' PROVE Carried(f)'
      <3>1. /\ ~cut /\ task \notin Migrating
            /\ task = "deleting" => files = given
        BY <2>1, <2>4 DEF CutShort
      <3>2. Carried(f) /\ f \in Iface /\ f \notin Skipped
        BY <3>1, <2>4
      <3>3. /\ snap[f] = "activating" => ~Needed
            /\ \/ nm[f] = "kept" \/ snap[f] = "activating"
               \/ nm[f] = "ifupdown" /\ f \in Declared(files)
        BY <3>1, <3>2 DEF Carried
      <3> QED
        BY <2>1, <2>2, <2>3, <3>2, <3>3 DEF Carried
    <2>5. nm' \in [Iface -> Carriers]
      BY <2>2 DEF Carriers
    <2> QED
      BY <2>1, <2>3, <2>4, <2>5
  <1>9. ASSUME NEW g \in Iface, NmActivates(g)
        PROVE  CarriedInv'
    <2>1. /\ UNCHANGED <<files, given, removed, snap, at, served, cut, task,
                         need, play, verdict>>
          /\ nm[g] = "activating" /\ nm' = [nm EXCEPT ![g] = "active"]
      BY <1>9 DEF NmActivates, rewriteVars, histVars, playVars
    <2>2. \A f \in served : Carried(f) => Carried(f)'
      <3>1. Needed' = Needed /\ Declared(files)' = Declared(files)
              /\ Declared(given)' = Declared(given)
        BY <2>1 DEF Needed, Declared, Included
      <3>2. \A f \in served :
               \/ nm'[f] = nm[f]
               \/ nm[f] = "activating" /\ nm'[f] = "active"
        BY <2>1
      <3> QED
        BY <2>1, <3>1, <3>2 DEF Carried
    <2>3. nm' \in [Iface -> Carriers]
      BY <2>1 DEF Carriers
    <2> QED
      BY <1>1, <2>1, <2>2, <2>3
  <1> QED
    BY <1>4, <1>5, <1>6, <1>7, <1>8, <1>9 DEF SetupNext

LEMMA CarriedInvariance == SetupSpec => []CarriedInv
  <1>1. SetupSpec => [](IfacesInv /\ Collected)
    BY PlaysRunIfaces, CollectedInvariance, PTL
  <1>2. SetupSpec => []NothingDeclared
    BY PlaysKeepPromises, PTL
  <1>3. PlayTyped /\ IfacesInv /\ Collected /\ NothingDeclared /\ CarriedInv
          /\ [SetupNext]_setupVars => CarriedInv'
    BY CarriedStep
  <1> QED
    BY <1>1, <1>2, <1>3, CarriedInit, PlayTypedInvariance, PTL
       DEF SetupSpec

(* Every interface that ifupdown served has a permanent connection after a *)
(* play that succeeds, with the exceptions that the property names,        *)
(* whatever plays failed, were killed or cut by a reboot before.           *)
THEOREM NoneIsStranded == SetupSpec => []NothingStranded
  <1>1. CarriedInv => NothingStranded
    <2> SUFFICES ASSUME CarriedInv, verdict = "ok", play.roles # "firewall", ~cut,
                        NEW f \in served
                 PROVE  nm[f] = "kept" \/ snap[f] = "activating"
      BY DEF NothingStranded
    <2>1. task = "idle" /\ ~Needed /\ Carried(f) /\ f \notin Skipped
      BY DEF CarriedInv, Migrated
    <2> QED
      BY <2>1 DEF Carried, Needed
  <1> QED
    BY <1>1, CarriedInvariance, PTL

-----------------------------------------------------------------------------
(* A play that repeats one that succeeded.                                 *)

(* The facts that a play with none cached saves ...                        *)
Saved ==
    [conns |-> TRUE,
     conf |-> IF play.wants.ssh /\ play.wants.static THEN Address ELSE None,
     iface |-> IF play.wants.ssh THEN play.wants.home ELSE None]

(* ... and those that it has at its end.                                   *)
Final ==
    IF play.roles # "firewall" THEN Saved
    ELSE IF descr = None THEN NoFacts
    ELSE [conns |-> TRUE, conf |-> descr.conf, iface |-> descr.iface]

Known ==
    play # None =>
        /\ task \in {"load", "rules", "loading"} => play.roles # "networking"
        /\ play.fresh =>
             /\ task \in Undetected => facts.iface = None /\ facts.conf = None
             /\ task = "detect" => facts.conns
             /\ task = "load" /\ play.roles = "firewall" => facts = NoFacts
             /\ \/ task \in {"set_fact", "detect"}
                \/ task \notin Undetected /\ play.roles # "firewall"
                => home = play.wants.home
             /\ task \notin Undetected
                    /\ (play.roles # "firewall" \/ task # "load")
                => facts = Final
             /\ task \notin Undetected \cup {"save"} /\ play.roles # "firewall"
                => descr = Saved

(* What the play it repeats has left, while it finds nothing to do.        *)
Repeated ==
    calm /\ task # "idle" =>
        /\ play.fresh
        /\ play.roles # "firewall" =>
              /\ ~Needed
              /\ netplan # "absent" => Renderer = "nm"
              /\ home = play.wants.home
              /\ descr = Saved
        /\ play.roles # "networking" => file = Rendered(Final)
        /\ task \notin {"override", "netplan_apply", "clean", "delete",
                        "deleting", "restart", "fetch", "prune", "adopt"}
        /\ step \notin {"open", "write", "load"}

(* What the invariants of the other theorems say of a play.                *)
Around ==
    /\ PlayTyped
    /\ NftInv
    /\ Stored
    /\ FirewallInv
    /\ RendererInv
    /\ CarriedInv

LEMMA KnownStep ==
    ASSUME Around, Known, [SetupNext]_setupVars
    PROVE  Known'
  <1> USE DEF Known, Undetected
  <1>1. ASSUME UNCHANGED <<play, descr>>
        PROVE  Final' = Final /\ Saved' = Saved
    BY <1>1 DEF Final, Saved
  <1>2. CASE UNCHANGED setupVars
    BY <1>1, <1>2 DEF setupVars, playVars, hostVars
  <1>3. ASSUME NEW p \in host.plays, NEW kept \in {facts, NoFacts},
               StartPlay(p, kept)
        PROVE  Known'
    <2>1. /\ play' = p /\ facts' = kept /\ (p.fresh => kept = NoFacts)
          /\ task' = IF p.roles = "firewall" THEN "load" ELSE "check"
      BY <1>3 DEF StartPlay
    <2>2. NoFacts.iface = None /\ NoFacts.conf = None
      BY DEF NoFacts
    <2> QED
      BY <2>1, <2>2
  <1>4. CASE PlayStep
    <2>1. CASE \/ CheckIfaces \/ CheckRenderer \/ OverrideRenderer
               \/ NetplanApply \/ RemoveYaml \/ OwnYaml \/ DeleteIfaces
               \/ Deleted \/ Restart \/ FetchConnections \/ PruneInactive
               \/ AdoptActive
      <3>1. /\ UNCHANGED <<play, facts>>
            /\ task' \in {"renderer", "override", "netplan_apply", "clean",
                          "delete", "deleting", "restart", "fetch", "prune",
                          "adopt", "apply"}
            /\ task \in Undetected
        BY <2>1
           DEF CheckIfaces, CheckRenderer, OverrideRenderer, NetplanApply,
               RemoveYaml, OwnYaml, DeleteIfaces, Deleted, Restart,
               FetchConnections, PruneInactive, AdoptActive, GoOn, Migrate
      <3> QED
        BY <3>1
    <2>2. CASE Deleting \/ ApplyRules \/ ApplyingRules
      <3>1. UNCHANGED <<play, descr, facts, home>>
              /\ (task' = task \/ (task = "rules" /\ task' = "loading"))
        BY <2>2 DEF Deleting, ApplyRules, ApplyingRules, hostVars, playVars
      <3> QED
        BY <1>1, <3>1
    <2>3. CASE LoopFails \/ PlayFails \/ ApplyFails
      BY <2>3 DEF LoopFails, PlayFails, ApplyFails, EndPlay
    <2>4. CASE PlayDone
      <3>1. UNCHANGED <<play, descr, facts, home>>
              /\ task \in {"done", "loading"} /\ task' = "idle"
        BY <2>4 DEF PlayDone, EndPlay, hostVars
      <3> QED
        BY <1>1, <3>1
    <2>5. CASE ApplyConnections \/ SetFact
      BY <2>5 DEF ApplyConnections, SetFact, GoOn, hostVars, Around, PlayTyped,
                  Facts
    <2>6. CASE Detect
      <3>1. /\ UNCHANGED <<play, descr, home>> /\ task = "detect" /\ task' = "save"
            /\ facts' = [facts EXCEPT !.conf = DetectConf, !.iface = DetectIface]
            /\ facts \in Facts
        BY <2>6 DEF Detect, GoOn, hostVars, Around, PlayTyped
      <3>2. play # None /\ play.roles # "firewall"
        BY <3>1 DEF Around, PlayTyped, FirewallInv, FirewallFacts, FirewallPlay
      <3>3. play.fresh => facts' = Saved
        BY <3>1, <3>2 DEF DetectConf, DetectIface, Saved, Facts
      <3> QED
        BY <1>1, <3>1, <3>2, <3>3 DEF Final
    <2>7. CASE SaveDescriptor
      <3>1. /\ UNCHANGED <<play, facts, home>> /\ task = "save" /\ descr' = facts
            /\ task' = IF play.roles = "both" THEN "load" ELSE "done"
        BY <2>7 DEF SaveDescriptor, GoOn, hostVars
      <3>2. play # None /\ play.roles # "firewall"
        BY <3>1 DEF Around, PlayTyped, FirewallInv, FirewallFacts, FirewallPlay
      <3>3. Saved' = Saved /\ Final = Saved /\ Final' = Saved
        BY <3>1, <3>2 DEF Saved, Final
      <3> QED
        BY <3>1, <3>2, <3>3
    <2>8. CASE LoadDescriptor
      <3>1. /\ UNCHANGED <<play, descr, home>> /\ task = "load" /\ task' = "rules"
            /\ facts' = IF facts.conns \/ descr = None THEN facts
                        ELSE [conns |-> TRUE,
                              conf |-> OrElse(descr.conf, facts.conf),
                              iface |-> OrElse(descr.iface, facts.iface)]
        BY <2>8 DEF LoadDescriptor, GoOn, hostVars
      <3>2. ASSUME play # None, play.fresh, play.roles = "firewall"
            PROVE  facts' = Final
        <4>1. facts = NoFacts
          BY <3>1, <3>2
        <4> QED
          BY <3>1, <3>2, <4>1 DEF Final, OrElse, NoFacts
      <3>3. ASSUME play # None, play.fresh, play.roles # "firewall"
            PROVE  facts' = Final
        <4>1. facts = Final
          BY <3>1, <3>3
        <4> QED
          BY <3>1, <3>3, <4>1 DEF Final, Saved
      <3> QED
        BY <1>1, <3>1, <3>2, <3>3
    <2> QED
      BY <1>4, <2>1, <2>2, <2>3, <2>4, <2>5, <2>6, <2>7, <2>8 DEF PlayStep
  <1>5. CASE Kill
    BY <1>5 DEF Kill, EndPlay
  <1>6. CASE Reboot
    BY <1>1, <1>6 DEF Reboot, EndPlay, playVars
  <1>7. CASE \E f \in Iface : NmActivates(f)
    BY <1>1, <1>7 DEF NmActivates, playVars
  <1> QED
    BY <1>2, <1>3, <1>4, <1>5, <1>6, <1>7 DEF SetupNext

(* A task runs in a play, and the history of the play stays.               *)
LEMMA PlayStepRuns ==
    ASSUME Around, PlayStep
    PROVE  task # "idle" /\ calm' = calm
  <1>1. CASE \/ CheckIfaces \/ CheckRenderer \/ OverrideRenderer
             \/ NetplanApply \/ RemoveYaml \/ OwnYaml \/ DeleteIfaces
             \/ Deleted \/ Restart \/ FetchConnections \/ PruneInactive
             \/ AdoptActive \/ ApplyConnections \/ SetFact \/ Detect
             \/ SaveDescriptor \/ LoadDescriptor
    BY <1>1
       DEF CheckIfaces, CheckRenderer, OverrideRenderer, NetplanApply,
           RemoveYaml, OwnYaml, DeleteIfaces, Deleted, Restart,
           FetchConnections, PruneInactive, AdoptActive, ApplyConnections,
           SetFact, Detect, SaveDescriptor, LoadDescriptor, GoOn
  <1>2. CASE \/ Deleting \/ ApplyRules \/ ApplyingRules \/ LoopFails
             \/ ApplyFails \/ PlayDone \/ PlayFails
    BY <1>2 DEF Deleting, ApplyRules, ApplyingRules, LoopFails, ApplyFails,
                PlayDone, PlayFails, histVars
  <1> QED
    BY <1>1, <1>2 DEF PlayStep

LEMMA RepeatedStep ==
    ASSUME Around, Known, Repeated, [SetupNext]_setupVars
    PROVE  Repeated'
  <1>1. ASSUME UNCHANGED <<play, descr, files, home, netplan, yaml, file, step>>,
               ~calm' \/ (calm /\ task # "idle"),
               task' \notin {"override", "netplan_apply", "clean", "delete",
                            "deleting", "restart", "fetch", "prune", "adopt"}
        PROVE  Repeated'
    BY <1>1 DEF Repeated, Final, Saved, Needed, Declared, Included, Renderer
  <1>2. CASE UNCHANGED setupVars
    BY <1>2 DEF setupVars, playVars, hostVars, histVars, nftVars, rewriteVars,
                Repeated, Final, Saved, Needed, Declared, Included, Renderer
  <1>3. ASSUME NEW p \in host.plays, NEW kept \in {facts, NoFacts},
               StartPlay(p, kept), calm'
        PROVE  Repeated'
    <2>1. /\ UNCHANGED <<play, descr, files, home, netplan, yaml, file, step>>
          /\ task = "idle" /\ verdict = "ok" /\ play.fresh
          /\ task' \in {"load", "check"}
      BY <1>3 DEF StartPlay, hostVars, nftVars, rewriteVars
    <2>2. play # None /\ play \in Plays /\ step = "idle"
      BY <2>1 DEF Around, PlayTyped, FirewallInv, Asking
    <2>3. play.roles # "firewall" =>
             /\ ~Needed
             /\ netplan # "absent" => Renderer = "nm"
             /\ home = play.wants.home
             /\ descr = Saved
      BY <2>1, <2>2
         DEF Around, CarriedInv, Migrated, RendererInv, Checked, Renderer, Known,
             Undetected
    <2>4. facts = Final
      BY <2>1, <2>2 DEF Known, Undetected
    <2>5. play.roles # "networking" => file = Rendered(Final)
      BY <2>1, <2>2, <2>4, RenderedTyped DEF Around, FirewallInv, Asking, Stored
    <2> QED
      BY <2>1, <2>2, <2>3, <2>5
         DEF Repeated, Final, Saved, Needed, Declared, Included, Renderer
  <1>4. CASE PlayStep /\ calm /\ task # "idle"
    <2> USE <1>4
    <2>1. CASE CheckIfaces
      BY <1>1, <2>1 DEF CheckIfaces, GoOn, hostVars, nftVars, rewriteVars
    <2>2. CASE CheckRenderer
      <3>1. task = "renderer" /\ play # None /\ play.roles # "firewall"
        BY <2>2 DEF CheckRenderer, GoOn, Around, PlayTyped, FirewallInv,
                    FirewallFacts, FirewallPlay
      <3>2. ~need /\ (netplan # "absent" => Renderer = "nm")
        BY <3>1 DEF Around, CarriedInv, BeforeMigration, Repeated
      <3>3. task' = "apply"
        BY <2>2, <3>2 DEF CheckRenderer, GoOn, Migrate
      <3> QED
        BY <1>1, <2>2, <3>3 DEF CheckRenderer, GoOn, hostVars, nftVars, rewriteVars
    <2>3. CASE \/ OverrideRenderer \/ NetplanApply \/ RemoveYaml \/ OwnYaml
               \/ DeleteIfaces \/ Deleting \/ Deleted \/ Restart
               \/ FetchConnections \/ PruneInactive \/ AdoptActive \/ LoopFails
      BY <2>3
         DEF OverrideRenderer, NetplanApply, RemoveYaml, OwnYaml, DeleteIfaces,
             Deleting, Deleted, Restart, FetchConnections, PruneInactive,
             AdoptActive, LoopFails, GoOn, Repeated
    <2>4. CASE ApplyConnections
      <3>1. play # None /\ play.roles # "firewall"
        BY <2>4 DEF ApplyConnections, GoOn, Around, PlayTyped, FirewallInv,
                    FirewallFacts, FirewallPlay
      <3>2. home' = home
        BY <2>4, <3>1 DEF ApplyConnections, Repeated
      <3> QED
        BY <1>1, <2>4, <3>2 DEF ApplyConnections, GoOn, nftVars, rewriteVars
    <2>5. CASE ApplyFails \/ PlayDone \/ PlayFails
      BY <2>5 DEF ApplyFails, PlayDone, PlayFails, EndPlay, Repeated
    <2>6. CASE SetFact \/ Detect \/ LoadDescriptor
      BY <1>1, <2>6 DEF SetFact, Detect, LoadDescriptor, GoOn, hostVars, nftVars,
                        rewriteVars
    <2>7. CASE SaveDescriptor
      <3>1. task = "save" /\ play # None /\ play.roles # "firewall"
        BY <2>7 DEF SaveDescriptor, GoOn, Around, PlayTyped, FirewallInv,
                    FirewallFacts, FirewallPlay
      <3>2. play.fresh /\ descr = Saved /\ facts = Saved
        BY <3>1 DEF Repeated, Known, Undetected, Final
      <3> QED
        BY <1>1, <2>7, <3>2 DEF SaveDescriptor, GoOn, hostVars, nftVars, rewriteVars
    <2>8. CASE ApplyRules
      <3>1. /\ UNCHANGED <<play, descr, files, home, netplan, yaml, file, calm>>
            /\ task' = "loading" /\ step' = "validate"
        BY <2>8 DEF ApplyRules, Call, hostVars, histVars, rewriteVars
      <3> QED
        BY <3>1 DEF Repeated, Final, Saved, Needed, Declared, Included, Renderer
    <2>9. CASE ApplyingRules
      <3>1. /\ UNCHANGED <<play, descr, files, home, netplan, yaml, calm>>
            /\ task = "loading" /\ task' = "loading" /\ NftStep
        BY <2>9 DEF ApplyingRules, hostVars, histVars, playVars, rewriteVars
      <3>2. play # None /\ play.roles # "networking" /\ play.fresh
        BY <3>1 DEF Around, PlayTyped, Known, Repeated
      <3>3. step # "idle"
        BY <3>1 DEF NftStep, Validated, Rejected, Absent, Same, Differs, Open,
                    Write, Load, StepFails
      <3>4. config \in Rules /\ result = "none"
        BY <3>3 DEF Around, NftInv, NftTypeOK
      <3>5. facts = Final /\ config = Rendered(facts) /\ file = config
        BY <3>1, <3>2, <3>4 DEF Around, FirewallInv, Asking, Known, Undetected,
                                Repeated
      <3>6. file' = file /\ step' \notin {"open", "write", "load"}
        BY <3>1, <3>4, <3>5, NftAssumption
           DEF Repeated, NftStep, Validated, Rejected, Absent, Same, Differs,
               Open, Write, Load, StepFails, NftEnd
      <3> QED
        BY <3>1, <3>6 DEF Repeated, Final, Saved, Needed, Declared, Included,
                          Renderer
    <2> QED
      BY <2>1, <2>2, <2>3, <2>4, <2>5, <2>6, <2>7, <2>8, <2>9 DEF PlayStep
  <1>5. CASE PlayStep /\ ~(calm /\ task # "idle")
    <2>1. task # "idle" \/ task' = "idle"
      BY <1>5, PlayStepRuns
    <2>2. calm' = calm
      BY <1>5, PlayStepRuns
    <2> QED
      BY <1>5, <2>1, <2>2 DEF Repeated
  <1>6. CASE Kill \/ Reboot
    BY <1>6 DEF Kill, Reboot, EndPlay, playVars, Repeated
  <1>7. CASE \E f \in Iface : NmActivates(f)
    BY <1>1, <1>7 DEF NmActivates, playVars, histVars, nftVars, rewriteVars, Repeated
  <1> QED
    BY <1>2, <1>3, <1>4, <1>5, <1>6, <1>7 DEF SetupNext, Repeated, StartPlay

(* A play that repeats one that succeeded, with no fact cached, changes no *)
(* file and moves nothing, whatever fails in it.                           *)
THEOREM RerunIsIdle == SetupSpec => RerunChangesNothing
  <1> DEFINE Changed ==
        calm /\ task # "idle" => UNCHANGED <<files, yaml, descr, file, home>>
  <1>1. Around /\ Known /\ Repeated /\ Repeated' /\ [SetupNext]_setupVars
          => Changed
    <2> SUFFICES ASSUME Around, Known, Repeated, [SetupNext]_setupVars, calm,
                        task # "idle"
                 PROVE  UNCHANGED <<files, yaml, descr, file, home>>
      OBVIOUS
    <2>1. CASE \/ OverrideRenderer \/ NetplanApply \/ RemoveYaml \/ OwnYaml
               \/ DeleteIfaces \/ Deleting \/ Deleted \/ Restart
               \/ FetchConnections \/ PruneInactive \/ AdoptActive \/ LoopFails
      BY <2>1
         DEF OverrideRenderer, NetplanApply, RemoveYaml, OwnYaml, DeleteIfaces,
             Deleting, Deleted, Restart, FetchConnections, PruneInactive,
             AdoptActive, LoopFails, GoOn, Repeated
    <2>2. CASE \/ CheckIfaces \/ CheckRenderer \/ SetFact \/ Detect
               \/ LoadDescriptor \/ ApplyRules \/ PlayDone \/ PlayFails
      BY <2>2
         DEF CheckIfaces, CheckRenderer, SetFact, Detect, LoadDescriptor,
             ApplyRules, Call, PlayDone, PlayFails, GoOn, EndPlay, hostVars,
             nftVars, rewriteVars
    <2>3. CASE ApplyConnections \/ ApplyFails
      <3>1. task = "apply" /\ play # None /\ play.roles # "firewall"
        BY <2>3 DEF ApplyConnections, ApplyFails, GoOn, Around, PlayTyped,
                    FirewallInv, FirewallFacts, FirewallPlay
      <3>2. home = play.wants.home
        BY <3>1 DEF Repeated
      <3> QED
        BY <2>3, <3>2 DEF ApplyConnections, ApplyFails, GoOn, EndPlay, nftVars,
                          rewriteVars
    <2>4. CASE SaveDescriptor
      <3>1. task = "save" /\ play # None /\ play.roles # "firewall"
        BY <2>4 DEF SaveDescriptor, GoOn, Around, PlayTyped, FirewallInv,
                    FirewallFacts, FirewallPlay
      <3>2. descr = Saved /\ facts = Saved
        BY <3>1 DEF Repeated, Known, Undetected, Final
      <3> QED
        BY <2>4, <3>2 DEF SaveDescriptor, GoOn, hostVars, nftVars, rewriteVars
    <2>5. CASE ApplyingRules
      <3>1. UNCHANGED <<files, yaml, descr, home>> /\ NftStep
        BY <2>5 DEF ApplyingRules, hostVars, playVars, rewriteVars
      <3>2. step \notin {"open", "write", "load"}
        BY DEF Repeated
      <3> QED
        BY <3>1, <3>2 DEF NftStep, Validated, Rejected, Absent, Same, Differs,
                          Open, Write, Load, StepFails
    <2>6. CASE Kill \/ Reboot
      BY <2>6 DEF Kill, Reboot, EndPlay, hostVars, nftVars, rewriteVars,
                  DeleteKilled, NftKill, NftReboot
    <2>7. CASE \/ UNCHANGED setupVars
               \/ \E p \in host.plays, kept \in {facts, NoFacts} :
                     StartPlay(p, kept)
               \/ \E f \in Iface : NmActivates(f)
      BY <2>7 DEF setupVars, hostVars, playVars, nftVars, rewriteVars, StartPlay,
                  NmActivates
    <2> QED
      BY <2>1, <2>2, <2>3, <2>4, <2>5, <2>6, <2>7 DEF SetupNext, PlayStep
  <1>2. SetupInit => Known /\ Repeated
    BY DEF SetupInit, Known, Repeated
  <1>3. Around /\ Known /\ Repeated /\ [SetupNext]_setupVars
          => Known' /\ Repeated'
    BY KnownStep, RepeatedStep
  <1>4. SetupSpec => [](NftInv /\ Stored)
    BY PlaysRunNft, StoredInvariance, PTL
  <1>5. SetupSpec => []RendererInv
    BY RendererInit, RendererStep, PTL DEF SetupSpec
  <1>6. SetupSpec => []Around
    BY <1>4, <1>5, PlayTypedInvariance, FirewallInvariance, CarriedInvariance,
       PTL DEF Around
  <1>7. SetupSpec => [][Changed]_setupVars
    BY <1>1, <1>2, <1>3, <1>6, PTL DEF SetupSpec
  <1> QED
    BY <1>7 DEF RerunChangesNothing
-----------------------------------------------------------------------------
(* Types.                                                                  *)

(* What is left of the type invariant.                                     *)
HostTyped ==
    /\ task \in Tasks
    /\ verdict \in {"none", "ok", "failed", "killed"}
    /\ play \in host.plays \cup {None}
    /\ snap \in [Iface -> Carriers]
    /\ yaml \subseteq {"site", "99", "70"}
    /\ found \subseteq {"site", "99", "70"}
    /\ netplan \in {"absent", "networkd", "nm"}

LEMMA HostTypedStep ==
    ASSUME PlayTyped, CarriedInv, HostTyped, [SetupNext]_setupVars
    PROVE  HostTyped'
  <1> USE DEF HostTyped, Tasks
  <1>1. CASE UNCHANGED setupVars
    BY <1>1 DEF setupVars, playVars, hostVars
  <1>2. ASSUME NEW p \in host.plays, NEW kept \in {facts, NoFacts},
               StartPlay(p, kept)
        PROVE  HostTyped'
    BY <1>2 DEF StartPlay, hostVars
  <1>3. CASE PlayStep
    <2>1. CASE \/ CheckIfaces \/ CheckRenderer \/ DeleteIfaces \/ Deleted
               \/ ApplyConnections \/ SetFact \/ Detect \/ SaveDescriptor
               \/ LoadDescriptor
      BY <2>1
         DEF CheckIfaces, CheckRenderer, DeleteIfaces, Deleted,
             ApplyConnections, SetFact, Detect, SaveDescriptor, LoadDescriptor,
             GoOn, Migrate, hostVars
    <2>2. CASE OverrideRenderer \/ NetplanApply \/ RemoveYaml \/ OwnYaml
      BY <2>2 DEF OverrideRenderer, NetplanApply, RemoveYaml, OwnYaml, GoOn, Migrate
    <2>3. CASE Restart \/ PruneInactive \/ AdoptActive
      BY <2>3 DEF Restart, PruneInactive, AdoptActive, GoOn
    <2>4. CASE FetchConnections
      BY <2>4 DEF FetchConnections, GoOn, hostVars, CarriedInv
    <2>5. CASE Deleting \/ ApplyRules \/ ApplyingRules
      BY <2>5 DEF Deleting, ApplyRules, ApplyingRules, hostVars, playVars
    <2>6. CASE LoopFails \/ ApplyFails \/ PlayDone \/ PlayFails
      BY <2>6 DEF LoopFails, ApplyFails, PlayDone, PlayFails, EndPlay, hostVars
    <2> QED
      BY <1>3, <2>1, <2>2, <2>3, <2>4, <2>5, <2>6 DEF PlayStep
  <1>4. CASE Kill
    BY <1>4 DEF Kill, EndPlay, hostVars
  <1>5. CASE Reboot
    BY <1>5 DEF Reboot, EndPlay, playVars, Renderer
  <1>6. CASE \E f \in Iface : NmActivates(f)
    BY <1>6 DEF NmActivates, playVars
  <1> QED
    BY <1>1, <1>2, <1>3, <1>4, <1>5, <1>6 DEF SetupNext

(* The type invariant of the plays, which also says which module runs at   *)
(* which task.                                                             *)
THEOREM PlaysTyped == SetupSpec => []SetupTypeOK
  <1>1. SetupInit => HostTyped
    BY SetupAssumption DEF SetupInit, HostTyped, Tasks, Carriers
  <1>2. PlayTyped /\ CarriedInv /\ HostTyped /\ [SetupNext]_setupVars
          => HostTyped'
    BY HostTypedStep
  <1>3. NftInv /\ IfacesInv /\ PlayTyped /\ FirewallInv /\ CarriedInv /\ HostTyped
          => SetupTypeOK
    BY DEF NftInv, IfacesInv, PlayTyped, FirewallInv, Asking, CarriedInv,
           HostTyped, SetupTypeOK
  <1>4. SetupSpec => []IfacesInv
    BY PlaysRunIfaces, IfacesInvariance, PTL
  <1> QED
    BY <1>1, <1>2, <1>3, <1>4, PlayTypedInvariance, FirewallInvariance,
       CarriedInvariance, PTL DEF SetupSpec
================================================================================

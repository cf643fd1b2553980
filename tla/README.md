# A formal model of pbtn.common

`pbtn.common` is an Ansible collection that sets up hosts. Its own logic is in
`src/plugins`: modules that Ansible copies to a host and runs there, one
process per task. The largest of them, `nmcli_apply`, brings NetworkManager
from whatever it holds to a declared set of connections; that is the core of
the collection and of this project.

This directory holds TLA+ modules translated from the source, TLC
configurations that check them on small instances, and TLAPS proofs. Paths
below are relative to `src/plugins` unless they start with `roles/`.

## 1. Inventory

### nmcli_apply

| Part (source) | State it keeps | Operations | Uses |
|---|---|---|---|
| **Configuration** (`module_utils/net/net_config.py`) | list of parsed connections | `parse()`: build each connection, sort by dependencies, validate | the links of the host, for MAC addresses |
| **Target selection** (`nmcli_interface_target_connection.py`, `nmcli_filters.py`) | snapshot of all connections, taken once per run | `build_target_connection_data`, `build_delete_conn_list` | the configuration and the session |
| **Configurator** (`nmcli_interface.py`) | none between calls | `configure()`: delete, validate, add/modify main and slaves, enforce states, poll | nmcli, target selection, builders, validator |
| **Session** (`nmcli_interface_types.py`) | results of the configurations applied so far | `add_result`, `uuids` | read by target selection |
| **Builders** (`nmcli_interface_args_builders.py`) | none | `build(current, main uuid)`: the arguments that differ | nmcli's parsed output |
| **Link validator** (`nmcli_interface_link_validator.py`) | none | `validate_mandatory_links` | `ip -j link` |
| **Querier** (`nmcli_querier.py`) | none | `get_connections`, `get_connection_details` | nmcli's text output |
| **NetworkManager** (external) | profiles, activation | add, modify, delete, up, down, show | activates and deactivates on its own |

`modules/nmcli_apply.py` wires them: it takes the snapshot, parses, calls
`configure` for each connection in order, adds each result to the session, and
reports `changed`. Nothing is persisted but what NetworkManager holds, so a
run that fails, times out or is killed is repaired, if at all, by running the
task again. The hard behaviours:

- the snapshot is read once and used until the end of the run, while the run
  itself deletes, creates and re-parents connections;
- three things protect a connection from deletion (being a target, having been
  configured in this run, being the target of a later configuration), and each
  is computed in a different way;
- a connection is matched by name and type, or by being active on the
  interface, so several configurations may want one connection;
- failures leave the host between two configurations, and the next run decides
  from what it finds;
- NetworkManager changes activation between any two reads; activation is
  asynchronous and polled with a budget.

What makes it correct: a run never deletes what it has configured or is going
to configure; it leaves other people's connections alone; when it succeeds
every configuration has a connection of its own that carries it, and states
are reached; `changed` tells the truth; repeating it does nothing; it ends.
For `parse()`: dependencies before dependents, whatever the set's order;
conflicts rejected; nothing lost.

### The rest

| Component | State | Operations | Hard behaviour | Correct when | Modelled in |
|---|---|---|---|---|---|
| `modules/nftables_apply.py` | rules file, the kernel's rule set | validate, compare, write, `nft -f`, roll back | failure or death between write and load; a roll-back that fails | a success that began with file and kernel in agreement leaves both with the candidate; a failure leaves the kernel alone | `NftApply` |
| `modules/ifaces_file_*.py` | the interfaces files | list the declared interfaces; comment out all but the skipped ones | a scanner with state; several files, one of which fails | exactly the stanzas go, and the second module then finds nothing to migrate | `IfacesFile` |
| `roles/networking_setup` | netplan and interfaces files, connections, facts, the descriptor file | two migrations to NetworkManager, application, detection of the management connection | a failure between two tasks, and checks that then skip the rest; facts cached from another play | no interface is left to nobody; the descriptor is true; a rerun does nothing | `HostSetup` |
| `roles/firewall_setup` | the rules file | load the descriptor, add the rule for SSH, apply | facts that an earlier play left | SSH stays open where the management address is | `HostSetup` |
| `modules/script.py` | child process, pipes, reader threads, log files | start, capture, wait with timeout, terminate | threads racing with the main thread; pipes held by a process left behind | logs are whole; the result of a timed call is printed; the module ends | `ScriptRun` |
| `modules/proxmox_node_storage.py`, `module_utils/proxmox` | volumes of a server | check, delete, create, wait for the task | check-then-act against other clients; a task that outlives its call | present/absent holds on success; nothing else changes | `ProxmoxStorage` |
| `filter/networks_filters.py` | none | look connections up by address and interface | none of its own | | what the role takes from it, in `HostSetup` |
| other roles | that of external modules | packages, certificates, time servers | none of their own | | not modelled |

`PROJECT.json` lists each component with its status, and every hazard with its
line and the properties that watch over it.

## 2. Plan

1. **Done.** `NetConfig`, `NmTarget`, `NmSession`: the runs of `nmcli_apply`;
   proofs of all its safety properties but two, which do not hold of every plan.
2. **Done.** `ConnSort` refining `PlanOrder`: the sort of `parse()`; the refinement proved.
3. **Done.** `IpSettings`: the addressing of a connection and the arguments of
   its builder, taken into the session in place of an opaque setting; proofs
   that the arguments do what the configuration says.
4. **Done.** `NftApply` refining `FirewallRules`, proved.
5. **Done.** `IfacesFile`, both modules of the pair; proofs for any files.
6. **Done.** `HostSetup`: the plays of the two roles, composed from `NftApply`
   and `IfacesFile`; proofs that it implements both, and of all its safety properties.
7. **Done.** `ScriptRun`: threads, pipes, timeout, liveness; the logs proved.
8. **Done.** `ProxmoxStorage`, proved.
9. **Done.** From which plans and stores a run that succeeds leaves everything as its plan wants
   it (`Converged`), so that its repetition does nothing; proved, with the exceptions in section 4.
10. Open: the querier as a listing of text in which names repeat and values
    change their type, so that a snapshot may be wrong (two hazards).

## 3. Modules

| Module | Extends | Contents |
|---|---|---|
| `IpSettings` | | addressing: what a configuration describes, what a profile holds, the builder's arguments |
| `NetConfig` | `IpSettings` | a parsed connection; dependencies, related interfaces, validations of `parse()` |
| `NmTarget` | `NetConfig` | which connection is taken over, which are deleted, as functions of a snapshot |
| `NmSession` | `NmTarget` | the state machine: NetworkManager and one run after the other |
| `PlanOrder` | `NetConfig` | abstract: what `parse()` promises, with no algorithm |
| `ConnSort` | `NetConfig` | the depth-first sort and the validations, step by step |
| `FirewallRules` | | abstract: what applying a firewall promises |
| `NftApply` | | the steps of `nftables_apply`; implements `FirewallRules` |
| `IfacesFile` | | the two modules over the interfaces files |
| `HostSetup` | `NftApply`, `IfacesFile` | plays of the roles `networking_setup` and `firewall_setup` |
| `ScriptRun` | | one call of `script`: threads, pipes and processes |
| `ProxmoxStorage` | | calls of `proxmox_node_storage` and the server |
| `MC...` | the module of that name | plans, stores, hosts and catalogues for TLC |
| `...Proofs` | the module of that name | lemmas, inductive invariants and theorems (`NmTargetProofs` has those of `IpSettings` too, `NmSessionProofs` extends `NmTargetProofs`) |

Definitions named `Mutant_...` are slips of the kind a change of the code could
introduce. No specification uses them: each property of a passing run is paired
(in `PROJECT.json`) with one that violates it, as evidence that the property
can fail.

### IpSettings

`IpConfig` is the set of addressings that `IPConfig` accepts, `IpSetting` the
fields of a profile. `Described` says what a configuration means, without the
builder. The operators that follow are the methods of `IPConnectionArgsBuilder`, one per
field: each returns the argument that it emits, or none; a change of method
resets the fields that make no sense under the new one. The builder fails in two
ways: over a profile that is disabled and keeps its default route off, it
raises when the configuration has no addressing either (`BuildRaises`); and a
`disable-default-route` that is left out is written as "None" where the profile
has one to clear (`BuildRejected`), which nmcli does not take.

### NetConfig

A connection is a record: name, type, interface, parent and VLAN id, state,
startup, `ip` (its addressing, or none) and, for a main connection, its slaves.
`DependsOn` and `RelatedIfaces` are the attributes of the same names with
what `__parse_config` adds for the slaves. `Places` and `CfgAt` number the
configurations of a plan: `<<n, 0>>` the n-th connection, `<<n, j>>` its j-th
slave.

### NmTarget

Everything `TargetConnectionDataFactory` computes from a snapshot `s`: the
listing order matters (Python's `next(...)`), so `s.order` is a sequence. The
master of a profile is a uuid, an interface name or nothing, as nmcli accepts both.
`DeleteList` is `build_delete_conn_list`; its parts carry the names of the
private methods they stand for.

### NmSession

| Variables | Code |
|---|---|
| `live`, `prof`, `active`, `stale` | NetworkManager: the connections, their profiles, `general.state`, and which active ones have been modified since their activation |
| `plan`, `i` | `config_handler.connections` and the position in the loop of `main()` |
| `snap` | `TargetConnectionDataFactory.__connections` |
| `pc`, `todel`, `k` | the statement of `configure()`, the rest of the delete list, the slave or result at hand |
| `res`, `results` | `MainConfigurationResult` under construction; `ConfigurationSession` |
| `remaining` | `remaining_time_secs`, in poll periods |
| `outcome`, `flips`, `settled` | how the last run ended; NetworkManager's own changes in this run (bounded by `FlipMax`); whether the last run succeeded, its configurations are not in each other's way (`~Shared`, `Tidy`), and nothing has happened since |

The actions in the order of a run: `Start` (snapshot in any listing order of the
stored connections), `ChooseTarget`, `Delete`/`DeleteFails`/`DeletesDone`,
`Validate`/`ValidateFails`, `AddMain`/`ModifyMain`/`KeepMain`/`MainFails`/`MainRaises`, the
same for slaves (whose addressing is never built) and `SlavesDone`, `EnforceMissing`/`EnforceSkip`/`EnforceNeeded`,
`CommandUp`/`CommandDown`/`CommandFails`, `PollReached`/`PollWait`/`PollTimeout`,
`ConnDone`, `RunDone`; `Kill` at any point; `NmUp` and `NmDown` are
NetworkManager's own, taken at the points where a step reads activation (a change
elsewhere is indistinguishable from one at the next such point).

Assumptions about NetworkManager, all of them external: commands are atomic; a
command may fail without effect; activation of a connection deactivates the
others of its device; `up` may return before the connection is active; a
modified profile takes effect at its next activation. Nobody but this module and
NetworkManager's own activation changes the connections during a run.

### ConnSort and PlanOrder

`ConnSort` has the loops and the recursion of `__sort_connections` as a stack of
frames. `Pick` and `Descend` choose any remaining member, since Python's sets of
strings iterate in an order that differs between processes. `Accept` and
`Reject` are the end of `parse()`. `PlanOrder` says in one step what the result
must be. `Promised` is the refinement: the variables `given`, `status` and `sorted`
are shared, every step of the sort is a stutter of `PlanOrder`, and the last step is
its `Accept` or `Reject`.

`PlanReady` links the two halves: what the sort accepts is a plan that
`NmSession` assumes (`ParsedPlan`), whenever dependencies are not circular.

### NftApply and FirewallRules

| Variables | Code |
|---|---|
| `file`, `kernel` | the target file; what the kernel enforces |
| `step`, `restoring` | the statement of `main()` or `__write_apply_rules_content`, which also runs in the except branch |
| `config`, `saved` | the candidate rules, `current_rules_content` |
| `result`, `agreed` | how the last call ended; history: there was no file, or it was enforced, when the call began |

`Call`, then `Validated`/`Rejected` (`nft -c`), `Absent`/`Same`/`Differs` (the
comparison with the file), `Open` (which truncates), `Write`, `Load`, and `StepFails`,
which begins the roll-back or ends the call. `NftKill` and `NftReboot` come
between any two. `FirewallRules` has no file and no steps: a store that a boot
loads, and a kernel that gets whole rule sets from it. `Promised` maps `asked` to
`config`, `stored` to what a boot makes of the file, `former` to what it would
make of `saved`. It promises no more than the code keeps: rules found in the
file count as enforced, which is why `SuccessEnforced` needs `agreed`.

External: `nft -f` is atomic and starts with a flush; a truncated file changes
nothing when it is loaded.

### IfacesFile

A file is a sequence of lines, a line its first word and the interface it names.
`Declared`, `Broken` and `Included` are `ifaces_file_get_ifaces` with its
inclusions; `NextFile`, the actions over lines, `FileDone`, `OpenFile` and `WriteFile` are
`ifaces_file_delete_ifaces`, with `inside` the scanner's `iface_to_delete`, `off` the
lines it has marked in the file at hand and `removed` the keys it returns. A file
that cannot be opened, a failed write, or a kill leaves the files before it rewritten. `Doomed` and
`Rewritten` define what should go without a scan: a directive about the
interface, or a line that `InStanza` finds below its stanza.

### HostSetup

A play runs the tasks of `networking_setup`, of `firewall_setup`, or of both. The
variables are NftApply's, IfacesFile's, and:

| Variables | Code |
|---|---|
| `host`, `task`, `play`, `verdict` | the host as it was found; the task at hand; what the play is given; how the last one ended |
| `facts`, `descr`, `need` | the facts that the two roles share, the descriptor file, the fact set by the check of the interfaces file |
| `nm`, `snap` | who carries each interface; the connections as the migration fetched them |
| `yaml`, `netplan`, `found` | netplan's files, who renders them, what the cleaning loop has left |
| `home` | the interface that has the management address |
| `served`, `cut`, `doubt`, `calm` | history, for the properties that name their exceptions |

One action per task, in the order of the roles' files: the two checks, the
netplan migration (`OverrideRenderer`, `NetplanApply`, `RemoveYaml`, `OwnYaml`), the
interfaces migration (`DeleteIfaces`, `Deleting`, `Deleted`, `Restart`,
`FetchConnections`, `PruneInactive`, `AdoptActive`, `LoopFails`), `ApplyConnections`,
`SetFact`, `Detect`, `SaveDescriptor`, and the firewall's `LoadDescriptor`,
`ApplyRules`, `ApplyingRules`. `Deleting` and `ApplyingRules` are a step of the module
that the task runs. A play fails at any task, is killed or cut by a reboot; the next one starts
from what is left, with the facts of the last one if Ansible caches them, and without them otherwise. Between
tasks NetworkManager finishes activations (`NmActivates`).

The composition is by shared variables: a step of a play is a step of `NftSpec`
and of `IfacesSpec`, or leaves their variables alone. `nmcli_apply` enters by its outcome,
where the management address is afterwards: its configurations and the roles' facts have
nothing else in common. External: after the restart NetworkManager takes over
every interface that ifupdown lost, active or still activating; a boot brings up what
the files declare.

### ScriptRun

The main thread (`Popen`, `Wait`, `TakeErr`, `Terminate`, `ClosePipe`, `PrintResult`, `CloseFile`,
`Join`), a reader thread per pipe (`Fill`, `Append`, `Log`, `EndOfFile`), the command
(`Intend`, `Put`, `PipeBreaks`, `ScriptEnds`) and a process that it may leave in the background
and that holds its pipes. Lines are numbers, so `written`, `taken`, `output` and `logged` are
counters; `ends` and `open` are the write ends and log files that the main thread
has not closed. The main thread reads `output` (into `reported`) as soon as the command is gone: nothing
promises that it is whole then, so no property says so.

### ProxmoxStorage

`Call` takes any request; `Replace`, `CreateNew`, `AsAsked`, `Post`, `TaskDone` and `Fail` are
the call, waiting for the server's task (`task`, `exit`). A call that fails while it waits
leaves its task in `others`, and `RunOther` finishes it during a later
call. `OtherClient` changes any volume at any time. `begun`, `touched` and `again` are history.

## 4. Runs

| Run | Checks | Shows |
|---|---|---|
| `session_reuse` | `TypeOK`, `SessionKept`, `ChangeReported`, `Applied`, `StatesReached`, `AdoptedFirst`, `RerunIsNoop`, `NeverRaises`, `BystandersUntouched` | an interface used as it is, then bridged under the same name, then carrying a VLAN, over five initial stores, in any order of runs, with static, automatic and no addressing; one NetworkManager change and two polls per state change |
| `session_bridge` | `DependentsKept`, `LostMainsGone`, `Converged` | bridges with one and two ports, a VLAN over a bridge, somebody else's bridge, up or down, that loses its only port |
| `session_siblings` | `Applied`, `RunEnds` | plans whose configurations meet: two VLANs over an unmanaged parent, and two connections that have exchanged interfaces, so that both take over one; from nothing, from an installer's connection or from a profile made by hand that the builder raises over |
| `conn_sort` | `TypeOK`, `EachOnce`, `PlanReady`, `Promised` | all sequences of at most three of eight connections, every iteration order |
| `host_setup` | `SetupTypeOK`; of the firewall `SuccessEnforced`, `FailureKeepsRules`, `Promised`; of the interfaces files `RewriteExact`, `NothingDeclared`; of the plays `SshReaches`, `DescriptorUsed`, `DescriptorTrue`, `NothingStranded`, `RendererMoved`, `RerunChangesNothing`, `PlayEnds` | plays of the two roles over four hosts, in any order, with and without cached facts |
| `script_run` | `ScriptTypeOK`, `LogsWhole`, `ModuleEnds`, `TimeLimitReports`, `ScriptUnblocked` | every interleaving of the threads and processes of one call |
| `proxmox_storage` | `ProxmoxTypeOK`, `SuccessTrue`, `OnlyAsked`, `AgainUnchanged` | any sequence of calls next to other clients and forgotten tasks |
| `siblings_lost` | `FutureTargetsKept` violated | finding 1 |
| `settings_run` | `SettingsRun` violated | finding 2 |
| `rebridge` | `NoEmptiedMain` violated | finding 3 |
| `startup` | `RerunIsNoop` violated | finding 4 |
| `conn_sort_dropped` | `NothingDropped` violated | finding 5 |

**Exceptions that properties name.** Some properties of the plays hold with an
exception, which is behaviour of the code and is written into the property:
`SshReaches` says that a play that renders the SSH rule for a dynamic management address
cannot succeed, as the rule is malformed; `DescriptorTrue` does not cover an
address that moved in a play that ended before it saved the descriptor, nor one
saved from cached facts; `NothingStranded` does not cover plays that ended between
deletion and adoption, nor a connection that was still activating when the list was fetched, which the role
deletes; `RendererMoved` does not cover a play that ended between the file that names the
renderer and its application. Without its exception each of them has a
counterexample in the same instance. The properties of `ProxmoxStorage` except a
file that is uploaded under its own name although another was asked for.

Of the session, `Applied`, `ChangeReported`, `StatesReached` and `LostMainsGone` leave out runs in
which two configurations take over one connection (`Shared`). An example is in
`session_siblings`: the installer's `wired` is active on `eth0`, and the plan puts `a` on `eth0` and
`wired` on `eth1`. `a` finds no connection of its name and takes the one of its interface, `wired` finds
the same one by its name and rewrites it; the run succeeds, with one connection where two were
configured. Among the slaves of one bridge, `update_slave` moreover replaces the first result by the
second, so that a change may go unreported. `LostMainsGone` covers a connection whose slaves all sit on
interfaces of one configuration: if each of two Ethernet configurations takes a port, none of them sees the bridge
become empty (the symptom of finding 3). `StatesReached` tells a main connection's final state only
if no other connection of the run sits on its interface (`AloneOnIface`): a configuration that names no
interface keeps the one that its connection has, which may be another configuration's, and of two connections
on one interface the one that is activated later takes the other down. Only finding 1 has a run of its own,
as the others contradict no document, comment or test.

`DependentsKept` is what the code keeps of `FutureTargetsKept`: among the later configurations it protects those that
depend on the interface of the current one, and no others (finding 1).

`Converged` says what a run that succeeds leaves to the next one, `AsConfigured`: every configuration finds a connection
that carries it and is in its state, and nothing is to be deleted. `RerunIsNoop` follows from it (section 5); `session_bridge`
checks the one, `session_reuse` the other. Neither holds of every plan over every store. `settled` leaves out
the runs that are `Shared`, and those that are not `Tidy`, which is decided by the plan and the snapshot of the run:

- `OwnIfaces`: two of its connections end up on one interface, one because its configuration names none and
  keeps what the connection had. One takes the other down, or is deleted for it.
- `OutOfTheWay`: a later connection ends up on an interface that an earlier configuration cleans up, and is not
  its child. The repetition deletes it (finding 1, met by a plan's own connection).
- `NamedApart`: a connection that nothing takes over or cleans up has the name and type of a slave. Duplicates are looked
  for by the names of main connections only, so the snapshot's order decides which of the two is taken over.
- `NoForeignSlaves`: such a connection names as its master the interface of a main connection that the snapshot does not know
  as its main: a new bridge, or one that changes its interface. Only the repetition sees it as a
  slave that the configuration does not list.
- `DownStaysDown`: a slave that is to be down is new to a main connection that goes up. It is activated as adopted, and
  taken down by the repetition.

In the instances of the passing runs every run that succeeds undisturbed and is not `Shared` is `Tidy`, so they lose nothing by
it; each of the five was found by TLC over wider sets of plans and stores, and without any one of them it finds a counterexample there. `startup` (finding 4) is no such
exception: there the violation is of what the repository promises.

**Bounds of the session and the sort.** Three to five uuids: the largest plan
needs three connections, and the others
let connections that are not the plan's exist next to them. Two physical
interfaces, one bridge, two VLAN names. `PollMax` is 0 or 1: with 0 only the first
read can succeed, with 1 every branch of the polling loop is taken; further
periods repeat the same step. `FlipMax` is 1 per run where the state of the connections
matters most (`session_reuse`, `session_siblings`), and runs repeat without
bound, so a change may fall anywhere in any run; it is 0 in `session_bridge`, whose
initial stores have the connections both up and down instead. The number of runs, failures
and kills is not bounded. In `conn_sort` three connections give chains, cycles
of length two, self-dependencies through a slave, shared dependencies and
conflicts between main connections and slaves.

**Bounds of the other runs.** `host_setup`: two interfaces and the loopback, a main file and
one that it includes; the rule sets are those that the role can render. The hosts are
one with the usual files, one with a line that the parser does not recognise, one rendered
by netplan, all three with plays of networking alone, and a
migrated one with plays of every kind: after a migration every host is the last one.
Plays, failures, kills and reboots are not bounded. `script_run`: pipes of one
line, up to three lines of stdout and two of stderr, so that the command fills a pipe, blocks and
goes on, and a line arrives behind every close; the first line of stdout decodes or not.
`proxmox_storage`: two names, a download and a file of the same base name, so that the asked
and the uploaded name may differ and one may be the other's; calls are not bounded.

**Symmetry.** The session runs without liveness permute uuids. `Init` takes the
stores from a set that names uuids only to tell connections apart; no property
compares uuids with constants. `session_siblings` also checks liveness and uses
no symmetry, nor do the other runs.

**Fairness.** `FairSpec` adds `WF_vars(RunNext)`: the run is a sequential program, and
each of its commands returns with success or failure; nmcli is called without a
timeout, so a command that never returns is outside the model. There is no fairness
for NetworkManager, for `Kill` or for the start of a run. `RunEnds` therefore rests
on the poll budget alone. `FairSetupSpec` likewise says only that each task of a
play returns. `ScriptFairness` is weak fairness of the main thread, of each reader, of a
write that finds room or a broken pipe, and of the end of a command that ends by
itself: what the scheduler of the host gives. Nothing is assumed of the background
process, so `ModuleEnds` has its end as a hypothesis; `TimeLimitReports` and `ScriptUnblocked`
do not need it.

**Deadlock** is checked for the session, for `host_setup` and for `proxmox_storage`: an idle
system can always start a run, a play or a call. `ConnSort` ends after `Accept` or `Reject`
and `ScriptRun` with the module, so their configurations switch the
check off; that the sort gets there follows from `EachOnce`, which bounds the recursion, and
the module's end is `ModuleEnds`.

### Findings

1. *Sibling VLANs* (`nmcli_interface_target_connection.py:218`). Two VLANs over a
   parent that the plan does not manage: the second run deletes the second VLAN's connection
   while configuring the first, and then fails to modify it.
2. *Settings that never run* (`nmcli_interface.py:199`). A run that dies between
   `modify` and `up` is not repaired by the next one.
3. *Emptied bridge* (`nmcli_interface_target_connection.py:320`). A port that moves to a
   bridge that does not exist yet leaves its former bridge behind, empty.
4. *startup is never idempotent* (`nmcli_interface_args_builders.py:118`). The querier
   turns `yes` into `True`, the builder expects the text.
5. *Dropped connection* (`net_config.py:791`). Two main connections over one
   interface: the first one disappears before the validation looks.

## 5. Proofs

Checked by TLAPS for all values of the constants, from the named assumptions of
the modules: `IpAssumption`, `NoneAssumption`, `UuidAssumption` and `SessionAssumption`
(names, interfaces and uuids differ from None and from each other where the code compares
them; plans are those that `parse()` hands over; stores are finite and well typed; None is no result),
`InputsAssumption` (a dictionary has each name once, and the constructors accept each connection),
`NftAssumption` (a truncated file is no rule set), `IfacesAssumption` (files are
sequences of lines), `SetupAssumption` (the rules that the role renders are rule sets, and those
without an address are not accepted), `ScriptAssumption`, `ProxmoxAssumption`. TLC
evaluates each of them in a run.

- `NmTargetProofs`
  - `BuiltAsDescribed`: from any profile, and for a new connection, usable arguments
    leave exactly the addressing that the configuration describes.
  - `NothingLeftToBuild`: over such a profile the builder emits nothing.
  - `UnusableExactly`: when it raises or is rejected, and no other time.
  - `MainTargetFits`: what a main configuration takes over is listed, is no slave
    and has its type.
  - `DeleteListSpares`: nothing preserved is deleted.
  - `DeleteListRelated`: everything deleted is related to the configuration by
    name, interface, parent or mastership.
- `NmSessionProofs`
  - `TypeCorrect`: `Spec => []TypeOK`.
  - `SessionSafe`: `Spec => []SessionKept`.
  - `DependentsSpared`: `Spec => []DependentsKept`.
  - `BystandersSafe`: `Spec => BystandersUntouched`.
  - `ChangesReported`: `Spec => []ChangeReported`.
  - `AdoptedGoFirst`: `Spec => []AdoptedFirst`.
  - `AppliedInFull`: `Spec => []Applied`.
  - `EmptyMainsGo`: `Spec => []LostMainsGone`.
  - `StatesAsAsked`: `Spec => []StatesReached`.
  - `RaisesNever`: `Spec /\ []~Shared => []NeverRaises`, over stores none of whose profiles is disabled
    and keeps its default route off. Both hypotheses are needed: such a profile may have been made by hand
    (`session_siblings` starts from one), and two configurations that take over one connection put one together,
    as each compares with the snapshot and writes only what differs from it.
  - `NothingLeftToDo`: a run whose snapshot shows everything as the plan wants it
    (`AsConfigured`) deletes, changes, commands and reports nothing.
  - `WhatIsLeftIsWanted`: `Spec => []Converged`, and
  - `RepetitionIsIdle`: `Spec => []RerunIsNoop`, both when no configuration gives `startup` (`NoStartup`: an argument
    that is given is written by every run, finding 4).
- `ConnSortProofs`
  - `SortTyped`, `EnteredOnce`: `Spec => []TypeOK`, `Spec => []EachOnce`.
  - `PlansAreReady`: `Spec => []PlanReady`; what `parse()` accepts is what the session assumes.
  - `OrderPromised`: `Spec => Promised`, the refinement of `PlanOrder`.
- `NftApplyProofs`
  - `SuccessIsEnforced`, `FailureIsHarmless`: the two properties of the same content.
  - `PromiseKept`: `NftSpec => Promised`, the refinement.
- `IfacesFileProofs`
  - `RewriteIsExact`: the scanner comments out what the definition says, for any files.
  - `NothingLeftDeclared`: after a success the module of the check finds skipped
    interfaces only.
- `HostSetupProofs`
  - `PlaysRunNft`, `PlaysRunIfaces`: plays are behaviours of `NftSpec` and of
    `IfacesSpec`; so, with the theorems above, `PlaysKeepPromises`.
  - `DescriptorIsTrue`, `RendererIsMoved`, `SshIsReached`, `DescriptorIsUsed`,
    `NoneIsStranded`: the properties of a play, over any hosts and inventories.
  - `RerunIsIdle`: a repeated play changes none of the host's files.
  - `PlaysTyped`: the type invariant.
- `ScriptRunProofs`: `ScriptTyped`, `LogsAreWhole`.
- `ProxmoxStorageProofs`: `StorageTyped`, `SuccessIsTrue`, `OnlyWhatIsAsked`,
  `AgainNothing`.

**The session.** `SessionKept` and `TypeOK` are not inductive. `IInv` adds `Shape`
(where in a run each variable has a meaning: the plan's position, the result under
construction, uuids in results are real uuids), `DeletesPlanned` (what is still
to be deleted is part of the delete list of the configuration at hand, computed
from the snapshot and the session), and `EnforcedLive`/`CurLive` (the results under construction
name connections that exist or are about to be found missing). `DeletesPlanned` is the heart: with
`DeleteListSpares` it says that no deletion touches the session, even though the list was made from
a snapshot that is older than the connections of the session. There is one lemma per action or
family of actions, then `NextInv`, `Invariance` and the theorems. `BystandersSafe`
uses `IInv` and `DeleteListRelated`: a bystander is none of the things by which a
connection gets into a delete list, and is no target, so no `modify` reaches it.
`ChangesReported` adds `Quiet`: as long as no result reports a change, the connections are those of
the snapshot. Each action that changes one puts a change into the result at hand, so what remains to be
shown is that no change is lost on its way into the session: `SlavesTraced` says which configuration a
slave's result came from, so that the result of another slave replaces it only if both took over one connection.

*A run that succeeds.* The properties of a successful run rest on one invariant, `MarksInv`. Every result of the run
leaves a mark: configuration, slave, connection. A mark's connection is the one that its configuration found in the snapshot, or
one that the snapshot does not list (`Originated`); no two marks share a connection (`OfTheirOwn`, unless
`Shared`); what has no mark is as the snapshot shows it or gone (`Untouched`), so that a builder, which compares
with the snapshot, compares with what is there; therefore what has a mark carries its configuration
(`Fitting`), and every configuration whose turn has passed has one (`Complete`). `AppliedInFull` reads this at the end of the run.
`EmptyMainsGo` adds `Cleared`: once a configuration's clean-up is over, its delete list, less what the run owns by
then, is gone, and nothing that the snapshot lists comes back. `AdoptedGoFirst` adds `AdoptedInv`: a slave that
is new to its main is changed, hence never left alone, hence activated again before the main's turn comes.
`StatesAsAsked` adds `ChangedRestarted`, the same for everything changed, and `AsAsked`: the state that a
connection has reached is disturbed only by an activation on its interface, which, as `MarksInv` tells, is that of a connection with another
mark. `RaisesNever` adds `AllSound`, which the builders keep because no configuration describes a
disabled addressing. `NothingLeftToDo` adds `Unchanging`: over such a snapshot each connection taken over fits already
(`NothingLeftToBuild` for the addressing) and is in its state, so that its result stays unchanged and is left alone, and
nothing is commanded.

*The run after it.* `WhatIsLeftIsWanted` is about two runs: what the first leaves, and what the second's snapshot, in whatever
order, makes of it. `Resting` adds to the marks what a run leaves behind: nothing but marked connections, one for each
place, on the interface and parent that its place ends up with (`IfaceAfter`, `ParentAfter`), and untouched ones, none of them
a slave of a connection that is new. With `AsAsked` for slaves as well as mains, `Cleared`, and `Tidy`, this gives `AtRest`,
the state between the two runs. There each place finds its mark by name
(`NextMain`, `NextSlave`: another connection of that name and type would have a mark and another place, or would have been
deleted); no other connection is in the way (`NextUnowned`: it would have been in the way in the first run too, which
`InTheWayDeleted` deletes); a later configuration's connection is a child, which is preserved, or is out of the way (`NextLater`); so the
delete list is empty (`NothingToDelete`), and each connection is in its state (`NextState`). A step that is not `Start`
changes neither plan nor snapshot while the run goes on, which makes `Converged` inductive with these.

**The sort.** `SortInv` has two halves. The nodes of the calls under way and those on the stack are
different and together those visited (part of `EachOnce`), and each call has ahead of it, or visited, all that its node depends on
(`RestLeft`). That is not enough for the order: a dependency that is visited may be one of the calls around. If the
dependencies are not circular, `Rank` numbers the nodes along an order of the connections, and the ranks fall from each
call to the one inside it (`Falling`); so a dependency that is visited has returned, and the stack has each node after those it
depends on (`Ascending`). `AssembledDependencies` takes that to the connections, of which several may
share a node, the last one standing for it, and some need no order. The rank is a function of a chosen order and needs no
induction over the graph; that is also why the theorem speaks of `Orderable` and not of paths.

**The firewall.** `NftInv` says what the kernel holds at each statement: while a call rolls
back, what was saved, if the call began in agreement; at the load, the file has
been written whole; after a success, the rules are remembered. The refinement needs it at
`Load`, where the abstract kernel gets what is stored.

**The interfaces files.** `Scanned` relates the scanner to the definition: the marked
lines are the doomed ones among those seen, and `inside` is true exactly when
the next line lies in a doomed stanza. The lemma `StanzaStep` unfolds `InStanza`, which quantifies
over earlier lines, by one line; it stands for the induction. `Progress` says
that each file is as it was found or rewritten whole, and which.

**The plays.** Every action either leaves a module's variables alone or is one of
its steps, from `PlayTyped` alone. `DescrInv` adds that the interface among the facts
is the one that has the address, between detection and the end of the play, and `RendererInv` that the
renderer changes only through the file that names it. `FirewallInv` follows the facts of a
play without a cache from detection to the call of nftables_apply: the rules at the call are
those rendered from the facts, and the lemma `StoredInvariance` of `NftApplyProofs` (after a success
the file holds the rules of the call) takes them into the kernel. `CarriedInv` says, per task, who carries
an interface that ifupdown served: ifupdown itself, as long as it is declared; between deletion and
adoption the list of what the deletion removed, which the lemma `CollectedInvariance` of
`IfacesFileProofs` shows to have every declared interface that the scan has passed; then a
permanent connection. For `RerunIsIdle`, `Repeated` says what the successful play left
(nothing declared, the renderer moved, the descriptor of these facts, the file of these rules), so that every
task of the repeating play finds its work done; `Known` says where its facts come from, and `Around`
gathers what the invariants above already say of a play.

**The script.** `ScriptTyped` adds to the types how the counters lie: reported, logged and kept lines never run ahead of those
taken, nor these of those written, and the pipe holds the difference. For the logs: a reader that is alive has logged and kept everything it took, up to the line
at hand; it is done only when all write ends are closed and the pipe is empty, so nothing can be
written afterwards; the module is gone only after all readers.

**The storage.** The invariant follows a call: what it has seen at the list, what its
task will do, and that between its begin and now a volume changed only through that task
or is in `touched`.

**Only model-checked:** liveness (`RunEnds`, `PlayEnds`,
`ModuleEnds`, `TimeLimitReports`, `ScriptUnblocked`), which is beyond the prover.

## 6. Not modelled

- Parsing of the configuration's fields and of nmcli's and ip's text. A plan that
  does not parse, or a listing that fails, ends the run before it touches anything.
- Duplicate connection names in nmcli's listing (`nmcli_querier.py:50`): the model's
  snapshot is exact. Values that look like another type, and letter case of link names, are
  text as well.
- That NetworkManager takes the ports down when their bridge goes: a connection that
  changes its state without a command of the run is one of its bounded changes.
  A failing query of nmcli or ip ends a run as `Kill` does.
- Other users that delete or edit connections during a run; a uuid that cannot
  be found in the output of `add`; the name NetworkManager gives to the device of a VLAN
  configured without one.
- IPv4 and IPv6 side by side: one class builds both, over separate fields. How values are
  written as text.
- Circular plans in the session model: `ParsedPlan` asks for dependencies first.
  `ConnSort` covers how `parse()` treats them. An interface that only a slave
  provides is not ordered by the code, nor here.
- `nftables_apply`: partial writes other than a truncated file, several instances at once,
  the text of nft's errors.
- The interfaces files: `mapping` apart from `source`, paths of inclusions, files that others write
  during a call, the options that `ifaces_file_get_ifaces` returns, and the `changed` flag
  of the deletion, which the role does not read (a listed hazard). In a play the deletion never meets a line
  that it does not recognise, as the check has failed before.
- The roles' tasks that write what no later task reads (dhclient, ini files, sysctl,
  packages, services), and `nmcli_apply` step by step within a play. A netplan file is only who
  renders it.
- `script`: partial lines, a full disk, a command that ignores SIGPIPE, the names of the logs.
  The reported output may be cut (`script.py:89`); the model shows it, and nothing in the
  repository promises otherwise.
- Proxmox: the login, which precedes everything, the wrappers that the module does not use, and
  the library `proxmoxer`.
- Error and result encoding, and the other roles (packages, certificates, time servers, images):
  formatting, and sequences of idempotent tasks whose effects are those of external modules.

# A TLA+ model of salt-formula-nova

The repository is a Salt formula. It has two halves: Python code that runs inside
a Salt minion and drives the Nova API and `nova-manage` (`_states`, `_modules`), and
SLS files that put packages, files, services and database migrations of a Nova node in
order (`nova/`). This directory holds TLA+ modules that model them, TLC configurations
that check the models on small instances, and proofs that TLAPS checks for every
size.

## The system

| Component | State | Operations | What is hard | What makes it correct |
|---|---|---|---|---|
| Call layer (`_modules/novav21/common.py`, `_call_nova_salt_module`, `_error_handler`) | none of its own | one HTTP request per call, after a lookup of the id by name | a refused request and a lost answer look the same to the caller; some errors escape the handler | success is reported only for a request that took effect |
| Flavors (`flavor_present`, `flavor_absent`; `novang.flavor_present`) | Nova's flavor, its id, its extra specs | list, read specs, delete specs one by one, post specs, create, delete | read, decide, write is not atomic; a failure between two calls; ids that go stale | a report of success is true; minions that agree converge |
| Host aggregates (`aggregate_present`, `aggregate_absent`; `novang.aggregate_present`, `availability_zone_present`) | the aggregate, its metadata, its hosts | list, create, set metadata, add and remove hosts, each after its own lookup by name | the same, and exceptions that `_error_handler` does not catch | the same |
| Key pairs (`keypair_present`, `keypair_absent`; `novang.keypair_present`) | the key registered under a name | list, delete, create | a key is replaced by deleting it first | a report of success is true; the key is there in the end |
| Quotas (`quota_present`, `quota_absent`; `novang.quota_present`) | the limits of a project | lookup in Keystone, list, update, "delete" | states of several minions set different limits of one project | no update is lost |
| Compute services (`service_enabled`, `service_disabled`, `wait_for_services`) | status (operator), state (heartbeat) | list, enable, disable, wait | the heartbeat lags behind the process | a node that is reported up is up and back in scheduling |
| Upgrade pipeline (`nova/upgrade`, `nova/db`) | packages, configuration, databases, services, scheduling status | pre, upgrade.pre, upgrade, upgrade.post, verify, post, on every node | Salt goes on after a failed state that nothing requires; nodes run at the same time | hosts leave scheduling before they stop; databases migrate under stopped services; an upgrade that is reported is complete; it ends |
| Node roles (`nova/controller.sls`, `nova/compute.sls`, `nova/_ssl`, `nova/db`) | packages, users, files, services | one graph of states per role, applied again and again | the order comes from requisites in four directions; an application that breaks off leaves files no service has read | services run with the configuration on disk, on migrated databases, and the node gets there |
| Database versions (`api_db_version_present`, `db_version_present`, `online_data_migrations_present`, of both drivers) | two schema versions, the migrated data | read a version, sync, migrate the data, each a shell command | exit codes are not looked at; two versions are read in two commands and used in a third | data migrate over the right schemas only |
| Cells (`cell_present`, `cell_absent`; `map_instances`, `update_cell` of novang) | cell mappings | list, create, discover, map, update, delete, each a shell command | exit codes are not looked at; `awk` matches the name anywhere in the line | reports are true of the cell of that name; no other cell is touched; a cell is created and mapped in the end |
| Servers of both drivers, volumes, floating ips (`_modules/novav21/servers.py`, `instance_present` and `_modules/novang.py`) | servers by name, a volume, an ip | boot, delete, suspend, ...; attach and detach; associate | names that Nova does not keep unique; a check by name before an action; waiting loops over what Nova and Cinder do in between | as many servers of a name as minions at most; reports are true; waits end |

How they interact: a state function (`_states/novav21.py`, `_states/novang.py`) calls
an execution function (`_modules/novav21/*.py`, `_modules/novang.py`), in novav21
through `_call_nova_salt_module`, which turns `result: False` into an exception that
`_error_handler` turns into a report of the state. Minions share nothing but Nova: the
resource of a name, and the databases. The upgrade SLS files call the same state
functions to take a host out of scheduling and to put it back, so `NodeUpgrade` builds
on `ComputeService`, which builds on the call layer. `nova/controller.sls` and
`nova/compute.sls` are the graphs to which `Highstate` applies Salt's rules.

## Modules

| Module | Models | Extends |
|---|---|---|
| `NovaCall` | how a call ends: done, refused, done with its answer lost or unreadable, or with an exception before the request; and what the state function reports | |
| `StateRun` | a run of any state function: begin, next call, return, kill; with the history that the properties need | `NovaCall` |
| `Convergence` | abstract specification: a set of pending differences, which only shrinks and becomes empty | |
| `Flavor`, `HostAggregate`, `Quota` | the state functions of one resource, call by call, of both drivers | `StateRun`; instances of `Convergence` |
| `Keypair` | the same; it does not implement `Convergence`, as replacing a key takes it away first | `StateRun` |
| `SchemaMigration` | abstract specification: schemas, then data, in this order | |
| `NovaManage` | a command of `nova-manage`: its exit code is not looked at, and the history of those that failed unseen | `StateRun` |
| `SchemaVersion` | the states about schema versions and online data migrations, command by command | `NovaManage`; an instance of `SchemaMigration` |
| `CellMapping` | the states about cells, command by command (names begin with `Cell`, so that both can be extended together) | `NovaManage` |
| `LegacyCloud` | servers, a volume and a floating ip; lookups by name; the waiting loops' clock | `StateRun` |
| `Instance`, `Attachment` | the functions for servers, and those for volumes and ips, with Cinder at work between the calls | `LegacyCloud` |
| `Legacy` | their composition: minions that use all of them on the same servers | `Instance`, `Attachment` |
| `ComputeService` | status and heartbeat of the services, `service_enabled`, `service_disabled`, a round of `wait_for_services` | `NovaCall` |
| `NodeUpgrade` | the phases of the upgrade on all nodes, state by state | `ComputeService` |
| `Highstate` | Salt applying a graph of states to a node, with failures, kills and changes of the pillar | |
| `ControllerState`, `ComputeState` | the graphs of `controller.sls` and `compute.sls` | `Highstate` |
| `Flavor_proofs`, `HostAggregate_proofs`, `Keypair_proofs`, `Quota_proofs`, `Legacy_proofs` | theorems about the module of that name | it, `TLAPS` |
| `NovaManage_proofs` | theorems about `SchemaVersion` and `CellMapping` | both, `TLAPS` |
| `NodeUpgrade_proofs` | theorems about `NodeUpgrade` | it, `TLAPS` |
| `Highstate_proofs` | theorems about `Highstate`, and about the graphs of both roles | `ControllerState`, `ComputeState`, `TLAPS` |
| `MC*` | instances for TLC | |

### State functions

`nova` is the resource as Nova has it; `pc[m]` names the call that the run on minion
`m` makes next (one action per call, named after what the code does there);
`want[m]` is the request from the pillar; `report[m]` is which of the helpers at the
end of `novav21.py` (`_created`, `_update_failed`, ...) built the result. The locals
that survive a call (`to_delete`, `hosts_to_add`, ...) are variables of their own. Two
histories serve the properties: `clean[m]`, nobody else changed the resource since the
run listed it, and `touched[m]`, the run changed it. A call that `send` makes ends in
one of the ways of `NovaCall!Answers`; once `stable` holds, only in the one Nova gives.
What Nova does with a request (merge metadata, refuse a name that is taken) is not
in the repository: it is modelled as the code relies on it and marked external.

The two drivers are told apart in the request: `"present"` and `"absent"` are states
of `_states/novav21.py`, `"exists"` and `"one_by_one"` those of `_states/novang.py`,
which check by name, act, and let exceptions through. They share Nova with the others,
so that runs of both drivers interleave.

A command of `nova-manage` ends done, not done, or (only where the shell itself cannot
be run) with an exception; the code sees the difference between the first two nowhere.
`obeyed[m]` is the history of it: every command of the run did what it was told. A
failed command is assumed to print nothing that `awk` matches. A cell is found by its
line (`Line`): its uuid, its name, and, as `cell_present` lists with `--verbose`, its
urls; `Within` says which of these contain which name. The header of the table, which
a cell named after a column would match, is left out.

`LegacyCloud` keeps servers as a sequence, oldest first, since the dictionary of
`server_list` lets the oldest server of a name hide the others. `late[m]` is the clock
of a waiting loop: `Tick` lets its time run out at any moment. `Cinder` carries out what
was asked of it in between, and may end in `error`.

### Upgrade

`phase[n]` and `step[n]` say where node `n` is in the table of README.rst:1171-1228;
`failed[n]` collects the states of the running application that failed. A state is
blocked by a failed one that it requires (`Requisites`), and turned off by
`onlyif: /bin/false` (`Off`). Every state can fail, with or without its effect, and
every application can be killed between two states. Who begins when (`MayBegin`) is
the order that the README asks of the orchestrator, no more.

### Node roles

A role is a graph (`SLSGraph`): the order in which Salt applies the states, and for
each state what it requires and watches, with `require_in` and `watch_in` turned
around as Salt does. `ControllerOrder` and `ComputeOrder` are the order that results
for Debian and Ocata or later: included files first, and each state pulled up by
those that require it. That this is an order Salt can apply (every state is there once
and after all it requires) and that every service watches its configuration is
`GraphAssumption`, which TLC evaluates for the graphs of both roles. States that a loop
repeats, or that always come together, are one. `outdated` are the files that differ
from the pillar, `stale[v]` those that changed since service `v` was started.

## Runs

| Run | Shows | Bounds |
|---|---|---|
| `flavor` | success that is reported is true, also for one of several agreeing minions; a failure has a cause outside of the run; `Convergence` is implemented; the flavor is there in the end | two minions, two extra specs of two values, three ids, one size; six pillars |
| `aggregate` | the same for aggregates, although a creation with metadata always breaks off half way (the one failure without a cause outside) | two minions, two hosts, a zone and a metadata key of two values; five pillars |
| `keypair` | success that is reported is true; a failure has a cause outside of the run; the right key is destroyed only by runs that have read another one; the key that all ask for is there in the end | two minions, two keys, no key, an unreadable file; five pillars |
| `quota` | runs that set different limits lose no update, whichever drivers they use; `Convergence` is implemented | two minions, two limits of two values; four pillars |
| `schema` | reports are true unless a command failed unseen; the data migrate over the right schemas, and in the end they do | two minions, two databases, versions 0 to 2, a version that cannot be read; four pillars |
| `cells` | reports are true unless a command failed unseen or was cut short, and runs touch only cells of their own name, both where the name is in the line of no other cell; a cell gets created and mapped | two minions, two names of which one contains the other, a url that contains one of them, two cells, two urls; three pillars |
| `legacy` | reports of functions that return are true; no more servers of a name than minions; the waits end but for the volumes' defect below | two minions, two names, three servers, one volume, one ip; eleven pillars |
| `upgrade` | order and completeness of the upgrade; what services may start over; it ends | four clouds of three nodes, with up to three disturbances |
| `highstate` | what a successful application guarantees, and that it is reached | controller and compute node, bare and with all optional parts; a change of the pillar and a disturbance at any point |
| `flavor_value_change` | finding: a changed value of an extra spec is reported as no change | one minion |
| `upgrade_sync` | finding: compute nodes migrate the databases | as `upgrade` |
| `cell_update` | finding: a cell with another url is reported as updated and never is | as `cells`, one pillar |

Each resource starts in every state it can have (in `legacy` and `cells` in each of a
few, from which runs reach others), so a run meets leftovers of earlier ones. Two minions
suffice for a run to meet every single change that somebody else can make between two of its calls, since the other one begins again as often as it likes,
with any request of the pillar; what depends on more is proved (below). Two extra
specs, hosts or limits let one be done and the other not. Three ids let an id that a
run has read be used again for another flavor. Pillars with one request are those of
minions that agree; the others make them disagree on everything there is to.
`MaxVersion` is 2, the least for a schema to be left half way by a failed sync.
`MaxServers` is 3, one more than the two minions can overlook; booting beyond it is not
modelled, nor is a cell beyond the two ids of `Id` (creating one then fails).
In `upgrade`, three nodes in three roles meet without disturbances, two with one
disturbance, and one with three, which is enough for a failure in each of two
applications and a kill; every disturbance is a failed state, a lost answer or a kill
at any place. `Retries` is 2, the least for which a round can be followed by another.
In `highstate` one disturbance is enough for an application that breaks off and
the next ones that build on what it left behind.

Deadlock is checked except where a run really ends: a cloud that is upgraded, a node
whose pillar is in effect.

## Fairness

- A run that is not killed makes its next call (weak fairness of `Call(m)`), states are
  applied again and again (of `Apply(m)`), and the cloud becomes reliable at some time
  (`Settle`, `Stabilize`): without that no claim about the end can be made, as every
  call may fail forever.
- Where a pillar holds several states that have to be applied (quotas, versions, cells),
  each of them is applied again and again by some minion: strong fairness of `ApplyFor`
  and `ApplyOne`, as Salt applies all of them in each highstate.
- In `Legacy` also the time of a wait runs out, and Cinder carries out its requests.
- In the upgrade, Salt and the orchestrator carry on on each node, and a service that
  runs sends heartbeats. Nothing is assumed about who is faster. Disturbances are
  bounded by their number instead of by an end.
- In `Highstate`, Salt applies the SLS file until it is in effect.

## Proofs

What TLC shows on the instances above is proved for every value of the constants as
follows; the assumptions are the named `ASSUME`s of the modules (pillars are non-empty
sets of requests; the placeholders for nothing are not values; `GraphAssumption`), which
TLC evaluates for each instance. Every invariant and every action property that a passing
run checks, and the safety half of each abstract specification, is a theorem. Each proof has one step per action, under the type invariant,
which is a theorem of its own (`TypeCorrect`, `CellTypesCorrect`); the runs of
`Flavor`, `HostAggregate`, `Keypair`, `Quota`, `SchemaVersion` and `CellMapping` leave it to the proof.

**State functions** (any number of minions, requests and values). `ReportIsTrue` is not
inductive: it says nothing of a run that has not returned. The strengthening has two
parts for each run. `PhaseFacts` (in `Flavor_proofs`, `PhaseInv` and `IdleInv`): it
makes only the calls of its own state function, and what it has noted down comes from
its request. `TrueFacts` (`NothingForgotten`): what is not as requested is still
among what the run is going to do. The first holds of every run. The second holds of a run that
nobody interfered with, and of all runs if they ask for the same, since then no step of
another run adds a difference (`AggregateStep` and `QuotaStep` say what a step of
another run can do). From it follow

- `ReportsAreTrue` of `Flavor`, `HostAggregate`, `Keypair` and `Quota`, and
  `AgreedReportsAreTrue` of `Flavor`;
- `ImplementsConvergence` of `Flavor`, `HostAggregate` and `Quota`: each step is a step
  of `Convergence!Safe` or leaves the differences as they are.

The other direction, that a run which nobody disturbs in a cloud that works succeeds, is
`FailuresHaveCauses` of `Flavor`, `HostAggregate` and `Keypair`. It needs to know that Nova
has no reason to refuse what the run asks for next: the inductive invariant is
`Ready`, of runs that are clean. Of an extra spec or a host that is to be deleted it says
that it is there, of a host to be added that it is not, and of what is to be created that
there is none. `ReadyStep` says that a call of such a run either leaves it ready or ends
it with success, unless the cloud fails (`ReliableFacts`). The exceptions are in the
properties: a pillar without a key to register, and the creation of an aggregate with
metadata, which fails on its own. Quotas are left out, as Nova refuses no value of
the model.

`RightKeysStay` of `Keypair` follows from `PhaseFacts`: where all minions ask for the
same, a run that reads the right key never goes on to `replace`, and a run past
`replace` only creates the key that all ask for. So the deletion by name
(`novav21.py:262`) destroys the right key only on the strength of an older reading, and
when the runs that have one are over, the key is there for good.

**Database versions and cells.** A step raises at most one schema, and not beyond the
version asked for (`SchemaStep`); so a run that is about to migrate data under an agreed
pillar has read versions that nobody can move away from. `ReportsAreTrue`, and
`DataMigratedInOrder`: `SchemaMigration!Safe` is implemented. What a run about cells
knows (`CellKnown`: the id it has got from nova-manage is that of the cell it has created
and not yet mapped, or of the one and only cell whose line contains the name it looked
for) rests on commands that did what they were asked to and on cells that nobody else has
changed; `CellReportsAreTrue` says that then a report of success is true of the cell of
exactly that name. Its precondition `Apart` (the name is in the line of no other cell) is
where the code needs it: without it TLC refutes the property. `CellOwn`,
the part of the invariant that does without obedient commands, gives
`CellsOfItsNameOnly`: no cell of another name is changed or deleted. Both rest on the type
invariant, `CellTypesCorrect`.

**Servers, volumes and floating ips** (any number of minions, servers, names, volumes and
ips; at the start finitely many minions, servers with ids of their own, no more of a name
than there are minions, within the quota, and nothing that is half attached). The
inductive invariant has four parts. `UniqueIds`: two servers never have the same id, so
what a run does to the server with the id that it has noted is done to no other, wherever
the list has shifted it to. `Settled`: a volume is being attached or detached only if the
pillar asks for it. `PhaseFacts` and `TrueFacts` as above; the second holds of runs that
nobody was in the way of, and if all ask for the same of every run, as what one run does
then makes nothing false that another knows (`Effect`, `AgreementKept`). From these
`TypeCorrect` and `ReportsAreTrue`. `NotMoreInstances` has an invariant of its own,
`Bounded`: if there is a server of a name, the servers of the name and the runs that may
still boot one (`Booting`) are together not more than the minions. A run boots at most
one, and once there is one, no further run finds that there is none.

**Upgrade** (any cloud with one primary controller, any number of disturbances and rounds). The
invariant says for each node what the states before the one at hand have brought about
unless one of them failed (`UpgradeFacts`), what the phases that are over have left
behind (`PastFacts`), and that no node goes on while another is still in `pre`
(`PreOver`). From it `UpgradesAreComplete`, `StoppedOutOfScheduling`, `NothingAutostarts`
and `SyncsAreOffline`. For `StartsAreMigrated` the invariant has to tell the failures
apart: that the packages are new and the databases migrated depends on those states
only (`Migrating`), while policy-rc.d and the configuration need that none failed.

**Node roles** (any graph that satisfies `GraphAssumption`, any number of edits, failures
and kills). The invariant places the application at the k-th state of its order. As long
as nothing failed, the services before it run with what is on disk, and each service
after it that has not read something watches a state that has changed (`LiveFacts`); a
file that is written now is not part of the configuration of a service before it,
because that service requires what it watches. `DoneFacts` says what each state before has
left behind unless it failed. From it `SuccessesAreLive` for every such graph; and what
the requisites bring about: `StartsAreMigrated`, `SyncsAreConfigured` and `IdsAreOfPillar`
say under which hypotheses on the graphs (`MigratesFirst`, `ConfiguresFirst`,
`CreatesUserFirst`, stated with the theorems) the three properties hold. The graphs of both
roles satisfy them whichever optional parts they have (`ControllerRequires`,
`ComputeRequires`): nova.conf and its migration are required in `ControllerRequire`,
`ControllerRequireIn` and `ComputeWatch`, the user in `ControllerRequireIn` and
`ComputeRequireIn`. So `RolesAreInOrder` concludes the three properties for all 80
selections, of which TLC explores four; that all of them satisfy `GraphAssumption` is an
assumption of `MCHighstate`, which TLC evaluates. Drop one of those lines and TLC finds a
property violated.

Model-checked only: every liveness property (`Converges`, `MigrationCompletes`,
`MappedInTheEnd`, `InstanceInTheEnd`, `WaitsEnd`, `UpgradeEnds`, `InEffect`), which no
backend of TLAPS can treat under fairness. The three properties that runs
expect to be violated are refuted by TLC.

## What the model says about the code

Findings, each with a run that shows it:

- `flavor_present` reports no change after it has changed the value of an extra spec
  (`novav21.py:95`).
- A compute node that is upgraded first migrates the databases of the controllers
  (`db/offline_sync.sls:7`, against README.rst:1215).
- `cell_present` never updates a cell but says so, since it unpacks the keys of a dictionary
  (`novav21.py:307`).

What the properties have to leave out, since the code does otherwise (what a docstring or a
message says to the contrary is quoted):

- `cell1` is also found in the line of `cell10`: where only `cell10` is there, `update_cell`
  and `map_instances` of `cell1` change it and `cell_absent` deletes it, and report the
  change of `cell1` (`novang.py:47, 68`, `novav21.py:349`), against "Ensures that the
  nova cell is setup correctly" (`novang.py:62`). Where both are there, the two ids cut the
  rest of the command off. `CellReportIsTrue` and `OwnCellsOnly` are stated for names that
  are `Apart`.
- A sync of a database that fails is reported as an update, as `cmd.shell` raises no
  exception (`novav21.py:379`), against "Ensures that specific db version is present"
  (`novav21.py:397`); in the same way a cell that was not created is reported as created
  (`novav21.py:332`). `ReportIsTrue` and `CellReportIsTrue` leave such runs out (`obeyed`).
- `quota_absent` sends a GET and resets nothing (`quotas.py:22`), against "Ensures that
  the nova quota set to default" (`novav21.py:165`). `ReportIsTrue` of `Quota` says nothing
  of it.
- `volume_attach` and `volume_detach` look at the time only after an exception, and never
  end over a volume in `error` (`novang.py:778, 816`), against their parameter `timeout` and
  "Timed out after {0} seconds" (`novang.py:817`). `WaitsEnd` leaves such a volume out.
- Certificates for libvirt from the pillar (README.rst:1033) require `user_nova_bash`, which
  is there only with `compute.user` (`compute.sls:150-241`); without it the application
  never succeeds. The run `highstate` has no such selection.
- After an application that failed between writing a file and restarting the services
  that watch it, the next one reports success and restarts nothing: `SuccessIsLive` leaves
  out the services that were `behind` when the application began.

Besides, behaviour that no document contradicts but a reader should know of:

- A run that was interfered with may report success falsely if minions disagree:
  `ReportIsTrue` holds of clean runs only, and for quotas also of runs whose
  requests are compatible.
- Creating an aggregate with metadata always ends in an exception: `novav21.py:197` passes
  the name of the aggregate to `_call_nova_salt_module` but not to `aggregate_set_metadata`,
  whose lookup by name takes it from its first argument (`common.py:91`). The aggregate is
  there by then, without metadata and hosts; the next run completes it.
- Metadata that the pillar does not have stays, and makes every run report an update that
  changes nothing (`novav21.py:210`). `aggregate_present` of novang gives the aggregate a
  zone of its name.
- An aggregate that is deleted while a run uses it raises `KeyError` instead of a report of
  failure (`common.py:97`, `novav21.py:56`); `FailureHasCause` allows it only in a run that
  somebody interfered with.
- A key that another minion has just created is deleted by a run that listed the old
  one (`novav21.py:262`).
- `quota_present` of novang sets limit by limit, and if a later call raises, says nothing
  of those set.
- Two minions that boot an instance of one name get two; the older hides the newer, so the
  run that booted it waits until its time is over, and `instance_present` reports
  success all the same. Detaching returns at once from a volume whose attachment is still under way.
- A host that an operator disabled before the upgrade is enabled after it
  (`upgrade/post.sls:11`). In the upgrade, services start even if the migration before
  them failed (`service_running.sls`), unlike in `controller.sls`; `StartsMigrated`
  says that only then, and that such an application is not a success.
- Certificates and keys that no service watches are written after the services have
  started (`controller.sls:89-124, 149-161`).

## Not modelled

- The wrappers of `_modules/novang.py` for images, security groups, networks and
  virtual interfaces, and `flavor_delete` and `keypair_delete`: each is one call whose
  answer is returned, and no state function uses them but for the lookups in
  `instance_present`, which are.
- Arguments, authentication, endpoints and microversions of single requests: they fail
  like any other call. What a server is like (suspended, locked, running) is not told
  apart, nor are the block devices it boots from.
- A `nova-compute` that dies after its last heartbeat (`services.py:68`): the code cannot
  notice it within the time it waits, so no property could ask it to.
- Rendering of SLS files and templates, so also the typo in `controller.sls:350`;
  distributions other than Debian and releases before Ocata, Docker, DPDK, upstart; the
  apache formula that `controller.sls` includes; a node with both roles, and `update_cells`
  in `controller.sls`, whose states are modelled one by one in `CellMapping`.
- The policy grain, the metadata for monitoring and reclass, packaging and tests: data, or
  a single read.
- What commands like `nova-manage` do is modelled only by what the order of the states,
  or the reports about them, depend on.

---------------------------- MODULE NodeUpgrade ----------------------------
(***************************************************************************)
(* The upgrade of a cloud from one OpenStack release to the next: the      *)
(* phases of README.rst:1171-1228 that an orchestrator applies to each     *)
(* node, and the states of nova/upgrade and nova/db that they consist of.  *)
(*                                                                         *)
(* Salt goes on after a state that failed, except with those that require  *)
(* it.  The orchestrator goes on with a node after an application in which *)
(* no state failed, and repeats any other one.  The nodes run at the same  *)
(* time; all of them are through "pre" before the first goes on, and       *)
(* through "verify" before the first applies "post" (README.rst:1198,      *)
(* 1221).                                                                  *)
(***************************************************************************)
EXTENDS ComputeService, Sequences

CONSTANTS
  Roles,             \* the clouds under consideration: roles of the nodes
  Retries,           \* of wait_for_services, at least one
  MaxDisturbances    \* bound on failures, lost answers and kills in each cloud

ASSUME UpgradeAssumption ==
  /\ Roles \subseteq [Node -> Role]
  /\ \A r \in Roles : \E n \in Node : r[n] = "primary" /\ \A m \in Node \ {n} : r[m] # "primary"
  /\ Retries \in Nat \ {0}
  /\ MaxDisturbances \in [Roles -> Nat]

VARIABLES
  policy,         \* nodes with /usr/sbin/policy-rc.d: packages start no service
  upgraded,       \* nodes with the packages of the new release
  rendered,       \* nodes with its configuration
  clouds,         \* nodes with /etc/openstack/clouds.yml, to call Nova
  schema,         \* what has been done to the databases of the cloud
  phase,          \* the phase of each node
  step,           \* the state of the phase that Salt is at, or "idle"
  failed,         \* the states of the running application that failed
  tries,          \* the rounds of wait_for_services so far
  disturbances

disk == <<policy, upgraded, rendered, clouds, schema>>
job == <<phase, step, failed, tries, disturbances>>
vars == <<service, disk, job>>

-----------------------------------------------------------------------------
Phase == <<"pre", "upgrade.pre", "upgrade", "upgrade.post", "verify", "post", "done">>

\* nova.upgrade.upgrade.  Mutated: policy-rc.d is removed before the packages are
\* installed; it is never removed; the services start before the databases migrate.
Upgrade_early ==
  <<"stop", "policy", "unpolicy", "packages", "config", "apidb", "cells", "syncdb", "start">>
Upgrade_dirty ==
  <<"stop", "policy", "packages", "config", "apidb", "cells", "syncdb", "start">>
Upgrade_eager ==
  <<"stop", "policy", "packages", "unpolicy", "config", "start", "apidb", "cells", "syncdb">>
Upgrade ==
  <<"stop", "policy", "packages", "unpolicy", "config", "apidb", "cells", "syncdb", "start">>

\* The states of a phase on node n, in the order of the SLS files, where included
\* ones come first.
States(n, ph) ==
  IF ph = "pre"
  THEN IF role[n] = "compute" THEN <<"config", "clouds">>
                              ELSE <<"online", "config", "check", "clouds">>
  ELSE IF ph = "upgrade.pre" THEN IF role[n] = "compute" THEN <<"disable">> ELSE <<>>
  ELSE IF ph = "upgrade" THEN Upgrade
  ELSE IF ph = "upgrade.post" THEN IF role[n] = "compute" THEN <<"enable">> ELSE <<>>
  ELSE IF ph = "verify" THEN <<"api", "wait">>
  ELSE IF ph = "post"
  THEN IF role[n] = "compute" THEN <<"unclouds">> ELSE <<"check", "unclouds">>
  ELSE <<>>

State == {"online", "config", "check", "clouds", "disable", "stop", "policy", "packages",
          "unpolicy", "apidb", "cells", "syncdb", "start", "enable", "api", "wait",
          "unclouds"}

\* require and require_in: the state on the left needs the one on the right.
Requisites ==
  {<<"packages", "policy">>, <<"unpolicy", "packages">>,
   <<"cells", "apidb">>, <<"syncdb", "apidb">>, <<"syncdb", "cells">>}

\* The states that "onlyif: /bin/false" turns off on node n.  Mutated: the online
\* migrations are off everywhere.
Off_online(n) == {"online"}
Off(n) == IF role[n] = "secondary" THEN {"online", "check", "apidb", "syncdb"} ELSE {}

-----------------------------------------------------------------------------
Init ==
  /\ ServiceInit(Roles)
  /\ policy = {} /\ upgraded = {} /\ rendered = {} /\ clouds = {} /\ schema = {}
  /\ phase = [n \in Node |-> IF role[n] = "other" THEN Len(Phase) ELSE 1]
  /\ step = [n \in Node |-> "idle"]
  /\ failed = [n \in Node |-> {}]
  /\ tries = [n \in Node |-> 0]
  /\ disturbances = 0

PhaseOf(n) == Phase[phase[n]]
StatesOf(n) == States(n, PhaseOf(n))

\* The state that Salt applies after s.
After(n, s) ==
  LET q == StatesOf(n)
      i == CHOOSE i \in DOMAIN q : q[i] = s
  IN  IF i = Len(q) THEN "idle" ELSE q[i + 1]

Blocked(n, s) == \E r \in failed[n] : <<s, r>> \in Requisites

Disturb ==
  /\ disturbances < MaxDisturbances[role]
  /\ disturbances' = disturbances + 1

\* Salt is through with the state s of node n: with the next one, or at the end.
Ends(n, s, ok) ==
  LET now == failed[n] \cup (IF ok THEN {} ELSE {s})
      next == After(n, s)
  IN  /\ tries' = [tries EXCEPT ![n] = 0]
      /\ step' = [step EXCEPT ![n] = next]
      /\ failed' = [failed EXCEPT ![n] = IF next = "idle" THEN {} ELSE now]
      /\ phase' = [phase EXCEPT ![n] = IF next = "idle" /\ now = {} THEN @ + 1 ELSE @]

\* The state s runs.  What it does is done when it succeeds (took); when it fails,
\* it may be done or not.
Executes(n, s, took) ==
  /\ step[n] = s /\ ~Blocked(n, s) /\ s \notin Off(n)
  /\ \/ took /\ Ends(n, s, TRUE) /\ UNCHANGED disturbances
     \/ Disturb /\ Ends(n, s, FALSE)

With(set, n, took) == IF took THEN set \cup {n} ELSE set
Without(set, n, took) == IF took THEN set \ {n} ELSE set

-----------------------------------------------------------------------------
\* The orchestrator applies the phase that is due to node n.
MayBegin(n) ==
  \/ PhaseOf(n) = "pre"
  \/ PhaseOf(n) = "post" /\ \A m \in Node : PhaseOf(m) \in {"post", "done"}
  \/ PhaseOf(n) # "post" /\ \A m \in Node : PhaseOf(m) # "pre"

Begin(n) ==
  /\ step[n] = "idle" /\ PhaseOf(n) # "done" /\ MayBegin(n)
  /\ IF StatesOf(n) = <<>>
     THEN phase' = [phase EXCEPT ![n] = @ + 1] /\ UNCHANGED step
     ELSE step' = [step EXCEPT ![n] = StatesOf(n)[1]] /\ UNCHANGED phase
  /\ UNCHANGED <<service, disk, failed, tries, disturbances>>

\* A state that fails because one it requires has failed, or that is turned off.
Passes(n) ==
  /\ step[n] # "idle"
  /\ Blocked(n, step[n]) \/ step[n] \in Off(n)
  /\ Ends(n, step[n], ~Blocked(n, step[n]))
  /\ UNCHANGED <<service, disk, disturbances>>

\* service_stopped and service_running.
Stop(n) ==
  /\ \E took \in BOOLEAN :
       /\ Executes(n, "stop", took)
       /\ running' = [running EXCEPT ![n] = @ /\ ~took]
  /\ UNCHANGED <<role, heard, status, disk>>

Start(n) ==
  /\ \E took \in BOOLEAN :
       /\ Executes(n, "start", took)
       /\ running' = [running EXCEPT ![n] = @ \/ took]
  /\ UNCHANGED <<role, heard, status, disk>>

\* pkgs_latest: the policy, the packages, and the end of the policy.  Packages start
\* the services they bring, unless the policy forbids it.
Policy(n) ==
  /\ \E took \in BOOLEAN :
       Executes(n, "policy", took) /\ policy' = With(policy, n, took)
  /\ UNCHANGED <<service, upgraded, rendered, clouds, schema>>

Packages(n) ==
  /\ \E took \in BOOLEAN :
       /\ Executes(n, "packages", took)
       /\ upgraded' = With(upgraded, n, took)
       /\ running' = [running EXCEPT ![n] = @ \/ (took /\ n \notin policy \cup upgraded)]
  /\ UNCHANGED <<role, heard, status, policy, rendered, clouds, schema>>

Unpolicy(n) ==
  /\ \E took \in BOOLEAN :
       Executes(n, "unpolicy", took) /\ policy' = Without(policy, n, took)
  /\ UNCHANGED <<service, upgraded, rendered, clouds, schema>>

\* nova.conf, in pre and in render_config.
Config(n) ==
  /\ \E took \in BOOLEAN :
       Executes(n, "config", took) /\ rendered' = With(rendered, n, took)
  /\ UNCHANGED <<service, policy, upgraded, clouds, schema>>

\* The credentials of pre, which post removes.
Clouds(n) ==
  /\ \E took \in BOOLEAN :
       \/ Executes(n, "clouds", took) /\ clouds' = With(clouds, n, took)
       \/ Executes(n, "unclouds", took) /\ clouds' = Without(clouds, n, took)
  /\ UNCHANGED <<service, policy, upgraded, rendered, schema>>

\* nova-manage: what the packages of the node bring about.  The online migrations
\* of the old release, and the schemas and cells of the new one.
Brings(n, s) ==
  IF s = "online" THEN n \notin upgraded ELSE s = "cells" \/ n \in upgraded

Migrate(n) ==
  /\ \E s \in {"online", "apidb", "cells", "syncdb"}, took \in BOOLEAN :
       /\ Executes(n, s, took)
       /\ schema' = With(schema, s, took /\ Brings(n, s))
  /\ UNCHANGED <<service, policy, upgraded, rendered, clouds>>

\* nova-status upgrade check changes nothing.
Check(n) ==
  /\ Executes(n, "check", TRUE)
  /\ UNCHANGED <<service, disk>>

-----------------------------------------------------------------------------
\* The answers to node n's calls of Nova, and whether one of them is unusual.
Valid(n) == Served /\ n \in clouds
Replies(n) == Answers(Valid(n), disturbances = MaxDisturbances[role])
Counted(n, replies) ==
  disturbances' = IF replies \subseteq Answers(Valid(n), TRUE) THEN disturbances
                                                              ELSE disturbances + 1

\* novav21.service_disabled in upgrade.pre, novav21.service_enabled in upgrade.post.
SetStatus(n, s, wanted) ==
  /\ step[n] = s
  /\ \E list, update \in Replies(n) :
       /\ Counted(n, {list, update})
       /\ status' = [status EXCEPT ![n] = NewStatus(n, wanted, list, update)]
       /\ Ends(n, s, StatusReport(n, wanted, list, update) \in SuccessReport)
  /\ UNCHANGED <<role, running, heard, disk>>

\* The create, read and delete calls of verify/_api.sls.
Api(n) ==
  /\ step[n] = "api"
  /\ \E answer \in Replies(n) :
       Counted(n, {answer}) /\ Ends(n, "api", Completes(answer))
  /\ UNCHANGED <<service, disk>>

\* A round of wait_for_services: the list, which must not fail, and a pause if a
\* service of the host is down.  Mutated: one round more.
RoundEnds_more(n, answer) ==
  IF Completes(answer) /\ Down(n) # {} /\ tries[n] < Retries
  THEN tries' = [tries EXCEPT ![n] = @ + 1] /\ UNCHANGED <<phase, step, failed>>
  ELSE Ends(n, "wait", Completes(answer) /\ Down(n) = {})
RoundEnds(n, answer) ==
  IF Completes(answer) /\ Down(n) # {} /\ tries[n] + 1 < Retries
  THEN tries' = [tries EXCEPT ![n] = @ + 1] /\ UNCHANGED <<phase, step, failed>>
  ELSE Ends(n, "wait", Completes(answer) /\ Down(n) = {})

Wait(n) ==
  /\ step[n] = "wait"
  /\ \E answer \in Replies(n) : Counted(n, {answer}) /\ RoundEnds(n, answer)
  /\ UNCHANGED <<service, disk>>

-----------------------------------------------------------------------------
Apply(n) ==
  \/ Begin(n)
  \/ Passes(n)
  \/ Stop(n) \/ Start(n)
  \/ Policy(n) \/ Packages(n) \/ Unpolicy(n)
  \/ Config(n) \/ Clouds(n) \/ Migrate(n) \/ Check(n)
  \/ SetStatus(n, "disable", "disabled") \/ SetStatus(n, "enable", "enabled")
  \/ Api(n) \/ Wait(n)

\* The application is killed between two states.
Kill(n) ==
  /\ step[n] # "idle"
  /\ Disturb
  /\ step' = [step EXCEPT ![n] = "idle"]
  /\ failed' = [failed EXCEPT ![n] = {}]
  /\ tries' = [tries EXCEPT ![n] = 0]
  /\ UNCHANGED <<service, disk, phase>>

Heartbeat(n) == (Beat(n) \/ Expire(n)) /\ UNCHANGED <<disk, job>>

Next == \E n \in Node : Apply(n) \/ Kill(n) \/ Heartbeat(n)

Spec == Init /\ [][Next]_vars

\* The orchestrator and Salt carry on on every node, and services that run beat.
Fairness == \A n \in Node : WF_vars(Apply(n)) /\ WF_vars(Heartbeat(n))

FairSpec == Spec /\ Fairness

-----------------------------------------------------------------------------
TypeOK ==
  /\ ServiceTypeOK
  /\ role \in Roles
  /\ policy \subseteq Node /\ upgraded \subseteq Node
  /\ rendered \subseteq Node /\ clouds \subseteq Node
  /\ schema \subseteq {"online", "apidb", "cells", "syncdb"}
  /\ phase \in [Node -> 1..Len(Phase)]
  /\ step \in [Node -> State \cup {"idle"}]
  /\ failed \in [Node -> SUBSET State]
  /\ tries \in [Node -> 0..(Retries - 1)]
  /\ disturbances \in 0..MaxDisturbances[role]

Past(n, i) == role[n] # "other" /\ phase[n] > i

\* The states without which the databases are not migrated.
Migrating == {"packages", "apidb", "cells", "syncdb"}

\* A node whose upgrade succeeded runs the new release, on the new schema if it is
\* the one to migrate it, and is left without policy-rc.d, whatever failed before;
\* and one that is past verify takes part in scheduling and Nova hears of it.
UpgradeIsComplete ==
  \A n \in Node :
    Past(n, 3) =>
      /\ n \in upgraded \cap rendered /\ n \notin policy
      /\ running[n]
      /\ role[n] = "primary" => {"apidb", "cells", "syncdb"} \subseteq schema
      /\ Past(n, 5) => heard[n] /\ status[n] = "enabled"

\* "make sure node will not participate in resources scheduling" (README.rst:1208):
\* no nova-compute stops while its host is in scheduling.
StopsOutOfScheduling ==
  [][\A n \in Computes : running[n] /\ ~running'[n] => status[n] = "disabled"]_vars

\* "Applying this state will not autostart service." (README.rst:1194): services that
\* were stopped start by service_running only.
NoAutostart ==
  [][\A n \in Node : ~running[n] /\ running'[n] => step[n] = "start"]_vars

\* "run offline dbsync" (README.rst:1215-1216): a node migrates the schema after the
\* online migrations of the old release, and while its own services are down, unless
\* stopping them failed.
SyncIsOffline ==
  [][\A n \in Node :
       (step[n] = "apidb" \/ step[n] = "syncdb") /\ step'[n] # step[n] /\ schema' # schema
         => "online" \in schema /\ (running[n] => "stop" \in failed[n])]_vars

\* service_running (service_running.sls:25) requires nothing: the services of the
\* controller that migrates the databases start over databases that are not migrated
\* only if what was to migrate them has failed in the same application, and that
\* application is repeated.
StartsMigrated ==
  [][\A n \in Node :
       role[n] = "primary" /\ ~running[n] /\ running'[n]
         => \/ {"apidb", "cells", "syncdb"} \subseteq schema
            \/ failed[n] \cap Migrating # {} /\ phase'[n] = phase[n]]_vars

\* The upgrade of the cloud ends, although the calls of the compute nodes need a
\* controller that is not just being upgraded itself.
UpgradeEnds == <>[](\A n \in Node : PhaseOf(n) = "done" /\ clouds = {})

\* "run offline dbsync (for ctl)" (README.rst:1215-1216): only controllers migrate.
SyncByControllers ==
  [][\A n \in Computes :
       (step[n] = "apidb" \/ step[n] = "syncdb") /\ step'[n] # step[n] => schema' = schema]_vars

=============================================================================

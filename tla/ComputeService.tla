--------------------------- MODULE ComputeService ---------------------------
(***************************************************************************)
(* The nova services of the nodes as Nova knows them (os-services): whether *)
(* the operator enabled the nova-compute of a host, and whether its        *)
(* heartbeat is fresh.  With service_enabled and service_disabled          *)
(* (_states/novav21.py) and one round of wait_for_services                 *)
(* (_modules/novav21/services.py).                                         *)
(***************************************************************************)
EXTENDS NovaCall, Naturals

CONSTANT Node

\* The roles of the pillar, and the hosts of the cloud that are not upgraded now.
Role == {"primary", "secondary", "compute", "other"}

VARIABLES
  role,      \* from the pillar, the same all the time
  running,   \* the nova services of the node run
  heard,     \* Nova has a fresh heartbeat of them (state "up")
  status     \* "enabled" hosts take part in scheduling

service == <<role, running, heard, status>>

Controllers == {n \in Node : role[n] \in {"primary", "secondary"}}
Computes == Node \ Controllers

\* The Nova API is served while the services of some controller run.
Served == \E n \in Controllers : running[n]

ServiceInit(roles) ==
  /\ role \in roles
  /\ running = [n \in Node |-> TRUE]
  /\ heard = [n \in Node |-> TRUE]
  /\ status \in [Node -> {"enabled", "disabled"}]
  /\ \A n \in Controllers : status[n] = "enabled"

ServiceTypeOK ==
  /\ role \in [Node -> Role]
  /\ running \in [Node -> BOOLEAN]
  /\ heard \in [Node -> BOOLEAN]
  /\ status \in [Node -> {"enabled", "disabled"}]

-----------------------------------------------------------------------------
\* A running service writes its heartbeat; without one it is down after a while.
Beat(n) ==
  /\ running[n] /\ ~heard[n]
  /\ heard' = [heard EXCEPT ![n] = TRUE]
  /\ UNCHANGED <<role, running, status>>

Expire(n) ==
  /\ ~running[n] /\ heard[n]
  /\ heard' = [heard EXCEPT ![n] = FALSE]
  /\ UNCHANGED <<role, running, status>>

-----------------------------------------------------------------------------
\* The nova-compute services with that status that the state finds for host n
\* in the list of all of them.  Mutated: of any host.
Matching_hosts(n, wanted) == {h \in Computes : status[h] = wanted}
Matching(n, wanted) == {h \in Computes : status[h] = wanted /\ h = n}

\* service_enabled and service_disabled for host n, whose listing and update are
\* answered so: the status they leave and the report.  Mutated: there is no second
\* update to a status that the host has.
NewStatus(n, wanted, list, update) ==
  IF Completes(list) /\ Matching(n, wanted) = {} /\ Applied(update)
  THEN wanted ELSE status[n]

StatusReport_once(n, wanted, list, update) ==
  IF Completes(list) /\ Matching(n, wanted) = {} /\ Completes(update)
  THEN "updated" ELSE "update_failed"
StatusReport(n, wanted, list, update) ==
  IF ~Completes(list) THEN Failed(list, "find_failed")
  ELSE IF Matching(n, wanted) # {} THEN "no_change"
  ELSE IF Completes(update) THEN "updated" ELSE Failed(update, "update_failed")

\* A round of wait_for_services on host n without admin_up_only: the services of
\* the host that are down, whatever their status.
Down(n) == {h \in Node : h = n /\ ~heard[h]}

=============================================================================

----------------------------- MODULE Highstate -----------------------------
(***************************************************************************)
(* One node to which Salt applies an SLS file (nova/controller.sls or      *)
(* nova/compute.sls) again and again, while its pillar changes.  An SLS    *)
(* file is a graph of states:                                              *)
(*                                                                         *)
(*   order      the states, as Salt applies them: in the order of the      *)
(*              files, included ones first, each after those it requires;  *)
(*   later      the same without those of users;                           *)
(*   requires   for each state those it requires or watches, whether it    *)
(*              says so or they do (require_in, watch_in);                 *)
(*   watches    those that make a service restart when they change         *)
(*              something;                                                 *)
(*   files      the states that write a file from the pillar;              *)
(*   services   the states that keep a service running;                    *)
(*   users      the states that are left out if the user nova exists;      *)
(*   sync       the states of nova.db.offline_sync.                        *)
(*                                                                         *)
(* A state that requires one that failed, or one that is not there, fails  *)
(* itself; Salt goes on with the others.                                   *)
(***************************************************************************)
EXTENDS Naturals, Sequences, Functions

CONSTANTS
  SLS,               \* the graphs under consideration
  MaxEdits,          \* bound on the changes of the pillar
  MaxDisturbances    \* bound on failures and kills

\* What the files have only with this feature.
When(feature, features, items) == IF feature \in features THEN items ELSE <<>>

\* The graph of SLS files with these states in this order.  The pairs <<s, r>> of
\* require and watch are written at s, those of requireIn and watchIn at r, and so
\* count only if r is there.
SLSGraph(order, require, requireIn, watch, watchIn, files, services, users, sync) ==
  LET items == Range(order)
      Of(s, pairs) == {p[2] : p \in {q \in pairs : q[1] = s}}
      watches == [s \in items |-> Of(s, watch) \cup (Of(s, watchIn) \cap items)]
  IN  [order |-> order,
       later |-> SelectSeq(order, LAMBDA s : s \notin users),
       requires |-> [s \in items |->
                       UNION {Of(s, require), Of(s, requireIn) \cap items, watches[s]}],
       watches |-> watches,
       files |-> files \cap items,
       services |-> services \cap items,
       users |-> users,
       sync |-> sync]

VARIABLES
  sls,               \* the graph of the node, the same all the time
  todo,              \* the states that the running application still has to apply
  failed, changed,   \* those that failed, and those that changed something
  report,            \* how the last application ended
  outdated,          \* files that are not as the pillar wants them
  running,           \* services that run
  stale,             \* files that changed since each service was started
  installed,         \* the packages are installed
  uid,               \* whose choice the ids of the user nova are
  behind,            \* history: services that had not read their configuration
                     \* when the last application began
  edits, disturbances

vars == <<sls, todo, failed, changed, report, outdated, running, stale, installed,
          uid, behind, edits, disturbances>>

Items == Range(sls.order)

Init ==
  /\ sls \in SLS
  /\ todo = <<>> /\ failed = {} /\ changed = {} /\ report = "none"
  /\ outdated = sls.files
  /\ running = {} /\ stale = [v \in sls.services |-> {}]
  /\ installed = FALSE /\ uid = "none"
  /\ behind = {}
  /\ edits = 0 /\ disturbances = 0

-----------------------------------------------------------------------------
\* A requirement that is not in the files is never met.
Blocked(s) == sls.requires[s] \cap failed # {} \/ ~(sls.requires[s] \subseteq Items)

\* The configuration that a service reads when it starts, as far as it is kept
\* up to date; not the certificates and keys.
Configuration(v) ==
  IF v = "libvirt" THEN {"libvirt_bin", "qemu_conf", "libvirtd_conf"}
  ELSE IF v = "virtlogd" THEN {"virtlogd_conf"}
  ELSE IF v = "apache" THEN {"conf", "paste", "placement_conf"}
  ELSE {"conf", "paste", "default", "logging", "service_logging"}

\* What of it a service that runs has not read.
Unread(v) == stale[v] \cap Configuration(v)

\* The graph is as Salt makes it of SLS files in which services watch their
\* configuration: every state is there once, after those it requires.
Compiled(g) ==
  LET items == Range(g.order)
  IN  /\ \A p \in {g.order, g.later} :
           /\ p \in Seq(items) /\ IsInjective(p)
           /\ items \ g.users \subseteq Range(p)
           /\ \A i, j \in DOMAIN p : p[j] \in g.requires[p[i]] => j < i
      /\ g.files \subseteq items /\ g.services \subseteq items
      /\ g.services \cap UNION {g.files, g.users, {"packages", "user_nova_bash"}} = {}
      /\ g.files \cap UNION {g.users, {"packages", "user_nova_bash"}} = {}
      /\ "packages" \notin g.users
      /\ \A v \in g.services : /\ g.watches[v] \subseteq g.requires[v]
                              /\ Configuration(v) \cap g.files \subseteq g.watches[v]

ASSUME GraphAssumption ==
  /\ \A g \in SLS : Compiled(g)
  /\ MaxEdits \in Nat /\ MaxDisturbances \in Nat

\* Salt renders the file: what it says of the user depends on whether it exists.
Plan == IF uid = "none" THEN sls.order ELSE sls.later

Begin ==
  /\ todo = <<>> /\ ~(report = "success" /\ outdated = {})
  /\ todo' = Plan
  /\ failed' = {} /\ changed' = {} /\ report' = "none"
  /\ behind' = {v \in sls.services : Unread(v) # {}}
  /\ UNCHANGED <<sls, outdated, running, stale, installed, uid, edits, disturbances>>

\* The state at hand is through.
Ends(s, ok, change) ==
  /\ todo' = Tail(todo)
  /\ failed' = IF ok THEN failed ELSE failed \cup {s}
  /\ changed' = IF change THEN changed \cup {s} ELSE changed
  /\ report' = IF Tail(todo) # <<>> THEN report
               ELSE IF failed' = {} THEN "success" ELSE "failure"
  /\ UNCHANGED <<sls, behind, edits>>

\* The state at hand runs, and succeeds, or fails with or without its effect (took).
Executes(s, took, change) ==
  /\ ~Blocked(s)
  /\ \/ took /\ Ends(s, TRUE, change) /\ UNCHANGED disturbances
     \/ /\ disturbances < MaxDisturbances
        /\ disturbances' = disturbances + 1
        /\ Ends(s, FALSE, FALSE)

Pass(s) ==
  /\ Blocked(s)
  /\ Ends(s, FALSE, FALSE)
  /\ UNCHANGED <<outdated, running, stale, installed, uid, disturbances>>

\* file.managed: a service that runs has not read what is written now.
File(s) ==
  /\ s \in sls.files
  /\ \E took \in BOOLEAN :
       LET writes == took /\ s \in outdated
       IN  /\ Executes(s, took, writes)
           /\ outdated' = IF writes THEN outdated \ {s} ELSE outdated
           /\ stale' = [v \in sls.services |->
                          IF writes /\ v \in running THEN stale[v] \cup {s} ELSE stale[v]]
  /\ UNCHANGED <<running, installed, uid>>

\* service.running, and its restart when a state it watches changed something.
\* Mutated: the service is started only.
Restarts_never(s) == s \notin running
Restarts(s) == s \notin running \/ sls.watches[s] \cap changed # {}

Service(s) ==
  /\ s \in sls.services
  /\ \E took \in BOOLEAN :
       LET restarts == took /\ Restarts(s)
       IN  /\ Executes(s, took, restarts)
           /\ running' = IF restarts THEN running \cup {s} ELSE running
           /\ stale' = IF restarts THEN [stale EXCEPT ![s] = {}] ELSE stale
  /\ UNCHANGED <<outdated, installed, uid>>

\* The services that the packages start as soon as they are there.
\* Mutated: all of them, also those this node is not meant to run.
Autostarted_all == {"apache", "services", "libvirt", "virtlogd"}
Autostarted == sls.services

\* pkg.installed: packages create the user nova unless it exists, and start the
\* services they bring.
Packages(s) ==
  /\ s = "packages"
  /\ \E took \in BOOLEAN :
       LET installs == took /\ ~installed
       IN  /\ Executes(s, took, installs)
           /\ installed' = (installed \/ installs)
           /\ running' = IF installs THEN Autostarted ELSE running
           /\ uid' = IF installs /\ uid = "none" THEN "other" ELSE uid
  /\ UNCHANGED <<outdated, stale>>

\* user.present, with the ids of the pillar or, for user_nova_bash, without ids.
User(s) ==
  /\ s \in sls.users \cup {"user_nova_bash"}
  /\ \E took \in BOOLEAN :
       LET creates == took /\ uid = "none"
       IN  /\ Executes(s, took, creates)
           /\ uid' = IF ~creates THEN uid ELSE IF s \in sls.users THEN "pillar" ELSE "other"
  /\ UNCHANGED <<outdated, running, stale, installed>>

\* A command, of which only the result matters here.
Command(s) ==
  /\ s \notin UNION {sls.files, sls.services, sls.users, {"packages", "user_nova_bash"}}
  /\ Executes(s, TRUE, TRUE)
  /\ UNCHANGED <<outdated, running, stale, installed, uid>>

\* The state at hand.
Step ==
  /\ todo # <<>>
  /\ LET s == Head(todo)
     IN  Pass(s) \/ Packages(s) \/ User(s) \/ File(s) \/ Service(s) \/ Command(s)

Apply == Begin \/ Step

-----------------------------------------------------------------------------
\* The application is killed between two states.
Kill ==
  /\ todo # <<>>
  /\ disturbances < MaxDisturbances
  /\ disturbances' = disturbances + 1
  /\ todo' = <<>>
  /\ report' = "failure"
  /\ UNCHANGED <<sls, failed, changed, outdated, running, stale, installed, uid, behind, edits>>

\* The pillar of a file changes; the next application will see it.
Edit ==
  /\ todo = <<>>
  /\ edits < MaxEdits
  /\ edits' = edits + 1
  /\ \E s \in sls.files : outdated' = outdated \cup {s}
  /\ UNCHANGED <<sls, todo, failed, changed, report, running, stale, installed, uid,
                 behind, disturbances>>

Next == Apply \/ Kill \/ Edit

Spec == Init /\ [][Next]_vars

\* Salt applies the file until it is in effect, and carries on within it.
FairSpec == Spec /\ WF_vars(Apply)

-----------------------------------------------------------------------------
\* What is left of the states p from the k-th on.
Left(p, k) == SubSeq(p, k, Len(p))

TypeOK ==
  /\ sls \in SLS
  /\ \E p \in {sls.order, sls.later} : \E k \in 1..(Len(p) + 1) : todo = Left(p, k)
  /\ failed \subseteq Items /\ changed \subseteq Items
  /\ report \in {"none", "success", "failure"}
  /\ outdated \subseteq sls.files
  /\ running \subseteq sls.services
  /\ stale \in [sls.services -> SUBSET sls.files]
  /\ installed \in BOOLEAN /\ uid \in {"none", "pillar", "other"}
  /\ behind \subseteq sls.services
  /\ edits \in 0..MaxEdits /\ disturbances \in 0..MaxDisturbances

\* After an application without a failure every service runs with the configuration
\* on disk, unless an earlier application had written it and came to grief before the
\* service was restarted: Salt restarts only after a change.
SuccessIsLive ==
  report = "success" =>
    \A v \in sls.services : v \in running /\ (Unread(v) # {} => v \in behind)

\* The service state v starts or restarts its service.
Starts(v) ==
  /\ todo # <<>> /\ Head(todo) = v
  /\ \/ v \notin running /\ v \in running'
     \/ stale[v] # {} /\ stale'[v] = {}

\* "require: sls nova.db.offline_sync": Salt starts services only with the present
\* nova.conf and after the databases were migrated in the same application.
StartsOnMigratedDatabase ==
  [][\A v \in sls.services \ {"libvirt", "virtlogd"} :
       Starts(v) => /\ sls.sync \cap (failed \cup Range(todo)) = {}
                    /\ "conf" \notin outdated]_vars

\* The databases are migrated with the present nova.conf and installed packages.
SyncWithConfig ==
  [][\A s \in sls.sync :
       todo # <<>> /\ Head(todo) = s /\ todo' # <<>> /\ s \notin failed'
         => installed /\ "conf" \notin outdated]_vars

\* Where the SLS file creates the user nova with the ids of the pillar, and nothing
\* else does, packages never create it with ids of their own.
IdsFromPillar == sls.users # {} /\ "user_nova_bash" \notin Items => uid # "other"

\* What is asked for is in effect in the end.
InEffect == <>[](report = "success" /\ outdated = {})

=============================================================================

------------------------------ MODULE StateRun ------------------------------
(***************************************************************************)
(* What the runs of all novav21 state functions have in common: Salt       *)
(* applies a state on a minion, the state function makes its calls one by  *)
(* one, and returns a report or is killed.  A component module adds the    *)
(* local variables of its state function and one action per call.          *)
(***************************************************************************)
EXTENDS NovaCall

CONSTANTS
  Minion,    \* the minions that apply the state
  Request,   \* what a pillar may ask for
  Pillars    \* the sets of requests that may be in use together

ASSUME PillarAssumption == Pillars \subseteq (SUBSET Request) \ {{}}

VARIABLES
  pillar,    \* the requests in use, the same all the time
  nova,      \* the resource of the state's name, as Nova has it
  stable,    \* from here on calls are answered and runs are not killed
  pc,        \* the call each run makes next, "idle" between two runs
  want,      \* the request each run applies
  report,    \* what the last run returned
  clean,     \* history: no one else changed the resource since the run listed it
  touched    \* history: the run changed the resource

run == <<pillar, nova, stable, pc, want, report, clean, touched>>

RunInit(resources) ==
  /\ pillar \in Pillars
  /\ nova \in resources
  /\ stable = FALSE
  /\ pc = [m \in Minion |-> "idle"]
  /\ want = [m \in Minion |-> CHOOSE r \in pillar : TRUE]
  /\ report = [m \in Minion |-> NoReport]
  /\ clean = [m \in Minion |-> FALSE]
  /\ touched = [m \in Minion |-> FALSE]

RunTypeOK(resources, calls) ==
  /\ pillar \in Pillars
  /\ nova \in resources
  /\ stable \in BOOLEAN
  /\ pc \in [Minion -> {"idle"} \cup calls]
  /\ want \in [Minion -> pillar]
  /\ report \in [Minion -> Report]
  /\ clean \in [Minion -> BOOLEAN]
  /\ touched \in [Minion -> BOOLEAN]

-----------------------------------------------------------------------------
\* Salt applies the state on minion m.
Begin(m, request) ==
  /\ pc[m] = "idle"
  /\ request \in pillar
  /\ pc' = [pc EXCEPT ![m] = "list"]
  /\ want' = [want EXCEPT ![m] = request]
  /\ report' = [report EXCEPT ![m] = NoReport]
  /\ touched' = [touched EXCEPT ![m] = FALSE]
  /\ UNCHANGED <<pillar, nova, stable, clean>>

\* The run goes on with another call.
GoTo(m, call) ==
  /\ pc' = [pc EXCEPT ![m] = call]
  /\ UNCHANGED <<want, report>>

\* The state function returns.
Return(m, result) ==
  /\ pc' = [pc EXCEPT ![m] = "idle"]
  /\ report' = [report EXCEPT ![m] = result]
  /\ UNCHANGED want

\* What a call that reads leaves alone; the first reading of a run is the one
\* its decisions rest on.
Reads(m) == UNCHANGED <<pillar, nova, stable, clean, touched>>
ReadsFirst(m) ==
  /\ clean' = [clean EXCEPT ![m] = TRUE]
  /\ UNCHANGED <<pillar, nova, stable, touched>>

\* What a call that writes makes of the resource.
Becomes(m, new) ==
  /\ nova' = new
  /\ touched' = [touched EXCEPT ![m] = @ \/ nova # new]
  /\ clean' = [n \in Minion |-> clean[n] /\ (n = m \/ nova = new)]
  /\ UNCHANGED <<pillar, stable>>

\* The salt job is killed between two calls.
Kill(m) ==
  /\ pc[m] # "idle"
  /\ ~stable
  /\ Return(m, NoReport)
  /\ UNCHANGED <<pillar, nova, stable, clean, touched>>

\* The cloud and the minions become reliable.
Settle ==
  /\ ~stable
  /\ stable' = TRUE
  /\ UNCHANGED <<pillar, nova, pc, want, report, clean, touched>>

-----------------------------------------------------------------------------
\* The run of m is over with this step.
Ends(m) == pc[m] # "idle" /\ pc'[m] = "idle"

\* A report is there only between two runs.
IdleInv == \A m \in Minion : report[m] # NoReport => pc[m] = "idle"

\* All minions are asked for the same state.
Agreement == \A r, q \in pillar : r = q

Goal == CHOOSE r \in pillar : TRUE

=============================================================================

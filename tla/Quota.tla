------------------------------- MODULE Quota -------------------------------
(***************************************************************************)
(* quota_present and quota_absent (_states/novav21.py), and quota_present  *)
(* of _states/novang.py ("one_by_one"), for one project, applied by        *)
(* several minions whose pillars may ask for different limits.             *)
(***************************************************************************)
EXTENDS StateRun

CONSTANTS
  Limit,     \* names of limits: cores, ram, instances, ...
  Value,     \* their values
  Unset      \* a limit that a pillar does not ask for

Asked == [Limit -> Value \cup {Unset}]

ASSUME QuotaAssumption ==
  /\ Unset \notin Value
  /\ Request \subseteq [ensure : {"present", "absent", "one_by_one"}, limits : Asked]

VARIABLES
  changes,   \* the limits a run of quota_present has found to differ
  left       \* those that quota_present of novang has still to deal with

local == <<changes, left>>
vars == <<run, local>>

Resource == [Limit -> Value]

-----------------------------------------------------------------------------
Nothing == [l \in Limit |-> Unset]

Named(asked) == {l \in Limit : asked[l] # Unset}

\* The requested limits whose value differs.  Mutated: all limits of the
\* quota that was read, overridden by the requested ones; those the quota does not
\* have.
Changes_whole(quota, asked) ==
  [l \in Limit |-> IF asked[l] # Unset THEN asked[l] ELSE quota[l]]
Changes_missing(quota, asked) ==
  [l \in Limit |-> IF quota[l] = Unset THEN asked[l] ELSE Unset]
Changes(quota, asked) ==
  [l \in Limit |-> IF asked[l] # Unset /\ quota[l] # asked[l] THEN asked[l] ELSE Unset]

\* PUT os-quota-sets changes the limits it names.
Put(quota, new) == [l \in Limit |-> IF new[l] # Unset THEN new[l] ELSE quota[l]]

\* What comes of the lookup of the project in Keystone: its id; nothing, also if
\* the keystone module is not loaded; an exception.
Lookup == {answer \in {"found", "none", "raised"} : stable => answer = "found"}

-----------------------------------------------------------------------------
Init ==
  /\ RunInit(Resource)
  /\ changes = [m \in Minion |-> Nothing]
  /\ left = [m \in Minion |-> {}]

Forget(m) ==
  /\ changes' = [changes EXCEPT ![m] = Nothing]
  /\ left' = [left EXCEPT ![m] = {}]

Finish(m, result) == Return(m, result) /\ Forget(m)

\* quota_list, and the comparison with the pillar.
Compare(m, answer) ==
  IF ~Completes(answer)
  THEN Finish(m, Failed(answer, "find_failed"))
  ELSE LET new == Changes(nova, want[m].limits)
       IN  IF Named(new) # {}
           THEN /\ GoTo(m, "update")
                /\ changes' = [changes EXCEPT ![m] = new]
                /\ UNCHANGED left
           ELSE Finish(m, "no_change")

\* The lookup of the project, and the call that rests on it.
List(m) ==
  /\ pc[m] = "list" /\ want[m].ensure # "one_by_one"
  /\ \E project \in Lookup :
       \/ project = "raised" /\ Finish(m, Exception)
       \/ /\ project = "none"
          /\ Finish(m, IF want[m].ensure = "present" THEN "update_failed" ELSE "delete_failed")
       \/ /\ project = "found" /\ want[m].ensure = "present"
          /\ \E answer \in Answers(TRUE, stable) : Compare(m, answer)
       \/ /\ project = "found" /\ want[m].ensure = "absent"
          /\ GoTo(m, "reset") /\ UNCHANGED local
  /\ ReadsFirst(m)

\* What quota_update posts.  Mutated: the first of the changes only.
Posted_one(m) ==
  LET first == CHOOSE l \in Named(changes[m]) : TRUE
  IN  [l \in Limit |-> IF l = first THEN changes[m][l] ELSE Unset]
Posted(m) == changes[m]

\* quota_update.
UpdateAnswered(m, answer) ==
  /\ Becomes(m, IF Applied(answer) THEN Put(nova, Posted(m)) ELSE nova)
  /\ Finish(m, IF Completes(answer) THEN "updated" ELSE Failed(answer, "update_failed"))

Update(m) ==
  /\ pc[m] = "update"
  /\ \E answer \in Answers(TRUE, stable) : UpdateAnswered(m, answer)

\* quota_delete: the request it sends is a GET.
Reset(m) ==
  /\ pc[m] = "reset"
  /\ \E answer \in Answers(TRUE, stable) :
       Finish(m, IF Completes(answer) THEN "deleted" ELSE Failed(answer, "delete_failed"))
  /\ Reads(m)

-----------------------------------------------------------------------------
\* quota_present of novang, which gets, compares and updates one limit after the
\* other, each with a lookup of the project, and catches nothing.

\* The run is through with limit l, and with the loop if no limit is left.
Through(m, l, all) ==
  IF all = {l}
  THEN Finish(m, IF Named(changes[m]) # {} THEN "updated" ELSE "no_change")
  ELSE GoTo(m, "next") /\ left' = [left EXCEPT ![m] = all \ {l}] /\ UNCHANGED changes

\* quota_get of limit l, and the comparison.
GetAnswered(m, l, all, answer) ==
  IF ~Completes(answer) THEN Finish(m, Exception)
  ELSE IF nova[l] = want[m].limits[l] THEN Through(m, l, all)
  ELSE /\ GoTo(m, "put")
       /\ changes' = [changes EXCEPT ![m][l] = want[m].limits[l]]
       /\ left' = [left EXCEPT ![m] = all]

GetFirst(m) ==
  /\ pc[m] = "list" /\ want[m].ensure = "one_by_one"
  /\ \E l \in Named(want[m].limits), answer \in Answers(TRUE, stable) :
       GetAnswered(m, l, Named(want[m].limits), answer)
  /\ ReadsFirst(m)

GetNext(m) ==
  /\ pc[m] = "next"
  /\ \E l \in left[m], answer \in Answers(TRUE, stable) : GetAnswered(m, l, left[m], answer)
  /\ Reads(m)

\* quota_update of the limit that was found to differ.
PutAnswered(m, l, answer) ==
  /\ Becomes(m, IF Applied(answer) THEN [nova EXCEPT ![l] = want[m].limits[l]] ELSE nova)
  /\ IF Completes(answer) THEN Through(m, l, left[m]) ELSE Finish(m, Exception)

PutOne(m) ==
  /\ pc[m] = "put"
  /\ \E l \in left[m] \cap Named(changes[m]), answer \in Answers(TRUE, stable) :
       PutAnswered(m, l, answer)

-----------------------------------------------------------------------------
Call(m) ==
  \/ List(m) \/ Update(m) \/ Reset(m)
  \/ GetFirst(m) \/ GetNext(m) \/ PutOne(m)

Apply(m) == (\E request \in pillar : Begin(m, request)) /\ UNCHANGED local

Abort(m) == Kill(m) /\ Forget(m)

Stabilize == Settle /\ UNCHANGED local

Next ==
  \/ \E m \in Minion : Apply(m) \/ Call(m) \/ Abort(m)
  \/ Stabilize

Spec == Init /\ [][Next]_vars

\* A run that is not killed makes its next call, the disturbances end, and the
\* states are applied again and again, whatever limit they ask for.
ApplyFor(l) ==
  /\ \E m \in Minion, request \in pillar : l \in Named(request.limits) /\ Begin(m, request)
  /\ UNCHANGED local

Fairness ==
  /\ \A m \in Minion : WF_vars(Call(m))
  /\ \A l \in Limit : SF_vars(ApplyFor(l))
  /\ WF_vars(Stabilize)

FairSpec == Spec /\ Fairness

-----------------------------------------------------------------------------
TypeOK ==
  /\ RunTypeOK(Resource, {"list", "update", "reset", "next", "put"})
  /\ changes \in [Minion -> Asked]
  /\ left \in [Minion -> SUBSET Limit]

\* The limits that differ from those asked for.
Differing(asked) == {l \in Named(asked) : nova[l] # asked[l]}

-----------------------------------------------------------------------------
(***************************************************************************)
(* Several quota states of one project, none of which asks for another     *)
(* value of a limit than any other.  Together they implement Convergence   *)
(* towards all the limits that any of them asks for: no update undoes one  *)
(* that was made since the run read the quota.                             *)
(***************************************************************************)
Compatible ==
  \A r, q \in pillar :
    /\ r.ensure # "absent"
    /\ \A l \in Named(r.limits) \cap Named(q.limits) : r.limits[l] = q.limits[l]

Joint ==
  [l \in Limit |->
     LET asking == {r \in pillar : r.limits[l] # Unset}
     IN  IF asking = {} THEN Unset ELSE (CHOOSE r \in asking : TRUE).limits[l]]

AgreedPending == IF Compatible THEN Differing(Joint) ELSE {}

C == INSTANCE Convergence WITH Item <- Limit,
                               pending <- AgreedPending

\* A run of quota_present that reports success has set every limit it was asked
\* for.  They hold as long as nobody else touches the quota, or for good if no other
\* state asks for another value of them, whatever it does to other limits, and
\* however stale its reading of the quota.
ReportIsTrue ==
  \A m \in Minion :
    report[m] \in SuccessReport /\ want[m].ensure # "absent" /\ (clean[m] \/ Compatible)
      => Differing(want[m].limits) = {}

\* quota_present implements the safety half of Convergence: a run never sets back
\* a limit that another one asked for.
Converging == C!Safe

\* Under fairness every limit that any state asks for is set in the end.
Converges == C!Reached

=============================================================================

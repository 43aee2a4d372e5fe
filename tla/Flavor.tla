------------------------------- MODULE Flavor -------------------------------
(***************************************************************************)
(* flavor_present and flavor_absent (_states/novav21.py), and              *)
(* flavor_present of _states/novang.py ("exists"), for one flavor name,    *)
(* applied by several minions.  A run reads Nova, decides, and then makes  *)
(* one call after the other; other runs, failures and a kill of the run    *)
(* fall between any two of its calls.                                      *)
(***************************************************************************)
EXTENDS StateRun

CONSTANTS
  Key,       \* extra spec keys
  Value,     \* extra spec values
  Size,      \* vcpus, ram and disk, taken together
  Id,        \* flavor ids
  Unset,     \* the value of an extra spec the flavor does not have
  NoFlavor,  \* no flavor has the name
  NoId       \* no id: none is asked for, or the run has not learnt it

Specs == [Key -> Value \cup {Unset}]

ASSUME FlavorAssumption ==
  /\ Unset \notin Value
  /\ NoId \notin Id
  /\ NoFlavor \notin [id : Id, size : Size, specs : Specs]
  /\ Request \subseteq [ensure : {"present", "absent", "exists"}, id : Id \cup {NoId},
                        size : Size, specs : Specs]

VARIABLES
  fid,       \* the id the run read or was given by flavor_create
  toDelete,  \* the extra specs the run has still to delete
  differs    \* to_delete or to_add was not empty

local == <<fid, toDelete, differs>>
vars == <<run, local>>

Resource == {NoFlavor} \cup [id : Id, size : Size, specs : Specs]

-----------------------------------------------------------------------------
\* Sets of extra specs, as the state function computes with them.

KeysOf(specs) == {k \in Key : specs[k] # Unset}

NoSpecs == [k \in Key |-> Unset]

\* to_delete.  Mutated: nothing is ever deleted; everything is deleted before
\* the POST; the difference is taken the wrong way round.
SpecsToDelete_none(have, asked) == {}
SpecsToDelete_all(have, asked) == KeysOf(have)
SpecsToDelete_swapped(have, asked) == KeysOf(asked) \ KeysOf(have)
SpecsToDelete(have, asked) == KeysOf(have) \ KeysOf(asked)

\* to_add.
SpecsToAdd(have, asked) == KeysOf(asked) \ KeysOf(have)

-----------------------------------------------------------------------------
(***************************************************************************)
(* Nova, as the calls use it.  Exists(i): a request that names flavor id i *)
(* finds it.                                                               *)
(***************************************************************************)
Exists(i) == nova # NoFlavor /\ nova.id = i

\* POST os-extra_specs merges the given specs into the flavor's.
Merge(have, asked) ==
  [k \in Key |-> IF asked[k] # Unset THEN asked[k] ELSE have[k]]

\* The id of a flavor that is created: the one asked for, or a new uuid, which
\* is one that neither Nova nor a run knows; which of these makes no difference.
NewId(m) ==
  LET unknown == {i \in Id : ~Exists(i) /\ \A n \in Minion : fid[n] # i}
  IN  IF want[m].id # NoId THEN {want[m].id}
      ELSE IF unknown = {} THEN {} ELSE {CHOOSE i \in unknown : TRUE}

-----------------------------------------------------------------------------
Init ==
  /\ RunInit(Resource)
  /\ fid = [m \in Minion |-> NoId]
  /\ toDelete = [m \in Minion |-> {}]
  /\ differs = [m \in Minion |-> FALSE]

\* The local variables of a run are gone when it ends.
Forget(m) ==
  /\ fid' = [fid EXCEPT ![m] = NoId]
  /\ toDelete' = [toDelete EXCEPT ![m] = {}]
  /\ differs' = [differs EXCEPT ![m] = FALSE]

Finish(m, result) == Return(m, result) /\ Forget(m)

\* flavor_list, and the branch taken on what it returned.
List(m) ==
  /\ pc[m] = "list" /\ want[m].ensure # "exists"
  /\ \E answer \in Answers(TRUE, stable) :
       IF ~Completes(answer)
       THEN Finish(m, Failed(answer, "find_failed"))
       ELSE \/ /\ nova # NoFlavor
               /\ GoTo(m, IF want[m].ensure = "present" THEN "get" ELSE "remove")
               /\ fid' = [fid EXCEPT ![m] = nova.id]
               /\ UNCHANGED <<toDelete, differs>>
            \/ /\ nova = NoFlavor
               /\ want[m].ensure = "present"
               /\ GoTo(m, "create")
               /\ UNCHANGED local
            \/ /\ nova = NoFlavor
               /\ want[m].ensure = "absent"
               /\ Finish(m, "non_existent")
  /\ ReadsFirst(m)

\* flavor_get_extra_specs, and the two set differences.
GetSpecs(m) ==
  /\ pc[m] = "get"
  /\ \E answer \in Answers(Exists(fid[m]), stable) :
       IF ~Completes(answer)
       THEN Finish(m, Failed(answer, "find_failed"))
       ELSE LET deletes == SpecsToDelete(nova.specs, want[m].specs)
                adds == SpecsToAdd(nova.specs, want[m].specs)
            IN  /\ GoTo(m, "delete")
                /\ toDelete' = [toDelete EXCEPT ![m] = deletes]
                /\ differs' = [differs EXCEPT ![m] = deletes \cup adds # {}]
                /\ UNCHANGED fid
  /\ Reads(m)

\* One round of the loop over to_delete; Nova refuses to delete a spec that
\* the flavor does not have.
DeleteAnswered(m, key, answer) ==
  /\ Becomes(m, IF Applied(answer) THEN [nova EXCEPT !.specs[key] = Unset] ELSE nova)
  /\ IF Completes(answer)
     THEN /\ toDelete' = [toDelete EXCEPT ![m] = @ \ {key}]
          /\ UNCHANGED <<pc, want, report, fid, differs>>
     ELSE Finish(m, Failed(answer, "update_failed"))

DeleteSpec(m) ==
  /\ pc[m] = "delete"
  /\ \E key \in toDelete[m] :
     \E answer \in Answers(Exists(fid[m]) /\ nova.specs[key] # Unset, stable) :
       DeleteAnswered(m, key, answer)

\* flavor_create of a flavor without extra specs.
CreateAnswered(m, i, answer) ==
  /\ Becomes(m, IF Applied(answer)
                THEN [id |-> i, size |-> want[m].size, specs |-> NoSpecs]
                ELSE nova)
  /\ IF Completes(answer)
     THEN /\ GoTo(m, "fill")
          /\ fid' = [fid EXCEPT ![m] = i]
          /\ UNCHANGED <<toDelete, differs>>
     ELSE Finish(m, Failed(answer, "create_failed"))

Create(m) ==
  /\ pc[m] = "create"
  /\ \E i \in NewId(m), answer \in Answers(nova = NoFlavor, stable) :
       CreateAnswered(m, i, answer)

\* What flavor_add_extra_specs posts: every requested spec, whatever to_add
\* holds.  Mutated: the keys the flavor lacks only.
Posted_missing_only(m) ==
  [k \in Key |-> IF nova.specs[k] = Unset THEN want[m].specs[k] ELSE Unset]
Posted(m) == want[m].specs

\* The report of a run that has made all its calls.
Result(m) ==
  IF pc[m] = "fill" THEN "created" ELSE IF differs[m] THEN "updated" ELSE "no_change"

\* flavor_add_extra_specs, after the loop or after the creation.
AddAnswered(m, answer) ==
  /\ Becomes(m, IF Applied(answer) THEN [nova EXCEPT !.specs = Merge(@, Posted(m))] ELSE nova)
  /\ Finish(m, IF Completes(answer) THEN Result(m) ELSE Failed(answer, "update_failed"))

AddSpecs(m) ==
  /\ pc[m] = "fill" \/ (pc[m] = "delete" /\ toDelete[m] = {})
  /\ \E answer \in Answers(Exists(fid[m]), stable) : AddAnswered(m, answer)

\* flavor_delete by the id that was listed.
RemoveAnswered(m, answer) ==
  /\ Becomes(m, IF Applied(answer) THEN NoFlavor ELSE nova)
  /\ Finish(m, IF Completes(answer) THEN "deleted" ELSE Failed(answer, "delete_failed"))

Remove(m) ==
  /\ pc[m] = "remove"
  /\ \E answer \in Answers(Exists(fid[m]), stable) : RemoveAnswered(m, answer)

-----------------------------------------------------------------------------
\* flavor_present of novang: flavor_list, where it looks for the name only,
ListNames(m) ==
  /\ pc[m] = "list" /\ want[m].ensure = "exists"
  /\ \E answer \in Answers(TRUE, stable) :
       IF ~Completes(answer) THEN Finish(m, Exception)
       ELSE IF nova # NoFlavor THEN Finish(m, "no_change")
       ELSE GoTo(m, "make") /\ UNCHANGED local
  /\ ReadsFirst(m)

\* and flavor_create; it catches nothing.
MakeAnswered(m, i, answer) ==
  /\ Becomes(m, IF Applied(answer)
                THEN [id |-> i, size |-> want[m].size, specs |-> NoSpecs]
                ELSE nova)
  /\ Finish(m, IF Completes(answer) THEN "created" ELSE Exception)

Make(m) ==
  /\ pc[m] = "make"
  /\ \E i \in NewId(m), answer \in Answers(nova = NoFlavor, stable) :
       MakeAnswered(m, i, answer)

-----------------------------------------------------------------------------
Call(m) ==
  \/ List(m) \/ GetSpecs(m) \/ DeleteSpec(m) \/ Create(m) \/ AddSpecs(m) \/ Remove(m)
  \/ ListNames(m) \/ Make(m)

Apply(m) == (\E request \in pillar : Begin(m, request)) /\ UNCHANGED local

Abort(m) == Kill(m) /\ Forget(m)

Stabilize == Settle /\ UNCHANGED local

Next ==
  \/ \E m \in Minion : Apply(m) \/ Call(m) \/ Abort(m)
  \/ Stabilize

Spec == Init /\ [][Next]_vars

\* A run that is not killed makes its next call, the disturbances end, and
\* the states are applied again and again.
Fairness ==
  /\ \A m \in Minion : WF_vars(Call(m)) /\ WF_vars(Apply(m))
  /\ WF_vars(Stabilize)

FairSpec == Spec /\ Fairness

-----------------------------------------------------------------------------
TypeOK ==
  /\ RunTypeOK(Resource, {"list", "get", "delete", "create", "fill", "remove", "make"})
  /\ fid \in [Minion -> Id \cup {NoId}]
  /\ toDelete \in [Minion -> SUBSET Key]
  /\ differs \in [Minion -> BOOLEAN]

\* The parts of the flavor that a run can put right and that differ from a
\* request: its existence, and each extra spec.
Pending(request) ==
  IF request.ensure = "absent" THEN IF nova = NoFlavor THEN {} ELSE {"flavor"}
  ELSE IF request.ensure = "exists" THEN IF nova = NoFlavor THEN {"flavor"} ELSE {}
  ELSE IF nova = NoFlavor
       THEN {"flavor"} \cup KeysOf(request.specs)
       ELSE {k \in Key : nova.specs[k] # request.specs[k]}

\* A run that reports success (result True) has brought the flavor to the
\* requested state, and it is there as long as nobody else touches it: the
\* loop over to_delete and the final POST of flavor_present leave nothing out.
ReportIsTrue ==
  \A m \in Minion :
    report[m] \in SuccessReport /\ clean[m] => Pending(want[m]) = {}

\* A run that nobody disturbs, in a cloud that works, succeeds: it deletes only extra
\* specs that the flavor has, and names only a flavor that is there, so that Nova
\* refuses none of its requests.
FailureHasCause ==
  [][\A m \in Minion : stable /\ Ends(m) /\ clean'[m] => report'[m] \in SuccessReport]_vars

\* "already is in the desired state" (novav21.py:509), with an empty dictionary
\* of changes: the run changed nothing.
NoChangeMeansUntouched ==
  \A m \in Minion : report[m] = "no_change" => ~touched[m]

-----------------------------------------------------------------------------
(***************************************************************************)
(* Minions that ask for the same state, each with its own, possibly stale, *)
(* reading of Nova, together implement Convergence: no run undoes what     *)
(* another has put right.                                                  *)
(***************************************************************************)
AgreedPending == IF Agreement THEN Pending(Goal) ELSE {}

C == INSTANCE Convergence WITH Item <- Key \cup {"flavor"},
                               pending <- AgreedPending

\* Minions that agree do not even have to be alone: a report of success is
\* true from then on, whatever the other runs of the same states are doing
\* (flavor_present with a stale to_delete or a flavor_create that comes second).
AgreedReportIsTrue ==
  Agreement => \A m \in Minion : report[m] \in SuccessReport => Pending(Goal) = {}

\* flavor_present and flavor_absent implement the safety half of Convergence:
\* from one call to the next, differences only go away.
Converging == C!Safe

\* Under fairness nothing differs in the end, and it stays so.
Converges == C!Reached

-----------------------------------------------------------------------------
(***************************************************************************)
(* What holds between the calls of a run, and makes the reports true.      *)
(***************************************************************************)

\* Each run keeps to the calls of the state function it applies.
PhaseInv ==
  \A m \in Minion :
    /\ pc[m] \in {"get", "delete", "create", "fill"} => want[m].ensure = "present"
    /\ pc[m] = "remove" => want[m].ensure = "absent"
    /\ pc[m] = "make" => want[m].ensure = "exists"

\* Every extra spec that has to go is still in to_delete.
NothingForgotten(m) ==
  /\ Exists(fid[m])
  /\ pc[m] = "delete" => SpecsToDelete(nova.specs, want[m].specs) \subseteq toDelete[m]
  /\ pc[m] = "fill" => SpecsToDelete(nova.specs, want[m].specs) = {}

\* ... in a run that nobody interfered with.
CleanRunInv ==
  \A m \in Minion :
    clean[m] /\ pc[m] \in {"delete", "fill"} => NothingForgotten(m)

ReportInv == IdleInv /\ PhaseInv /\ CleanRunInv /\ ReportIsTrue

\* ... in every run, if the minions agree, and then the run deletes none of
\* the extra specs they ask for.
AgreedRunInv ==
  \A m \in Minion :
    /\ pc[m] = "get" => Exists(fid[m])
    /\ pc[m] \in {"delete", "fill"} => NothingForgotten(m)
    /\ pc[m] = "delete" => toDelete[m] \cap KeysOf(want[m].specs) = {}

AgreedInv == IdleInv /\ PhaseInv /\ (Agreement => AgreedRunInv) /\ AgreedReportIsTrue

=============================================================================

--------------------------- MODULE Flavor_proofs ---------------------------
(***************************************************************************)
(* Proofs about Flavor for any number of minions, extra specs and requests. *)
(***************************************************************************)
EXTENDS Flavor, TLAPS

-----------------------------------------------------------------------------
\* Reports of each kind, and the steps that all state functions share.
LEMMA AnswersFacts ==
  ASSUME NEW valid, NEW reliable, NEW answer \in Answers(valid, reliable)
  PROVE  /\ Applied(answer) => valid
         /\ Completes(answer) => Applied(answer)
BY DEF Answers, Applied, Completes

LEMMA FailedFacts ==
  /\ \A answer : Failed(answer, "find_failed") \in FailureReport
  /\ \A answer : Failed(answer, "create_failed") \in FailureReport
  /\ \A answer : Failed(answer, "update_failed") \in FailureReport
  /\ \A answer : Failed(answer, "delete_failed") \in FailureReport
  /\ FailureReport \subseteq Report
  /\ SuccessReport \subseteq Report
  /\ NoReport \in Report
  /\ (FailureReport \cup {NoReport}) \cap SuccessReport = {}
BY DEF Failed, FailureReport, Exception, Report, SuccessReport, NoReport

\* What a call keeps the types of.
LEMMA ReturnType ==
  ASSUME NEW resources, NEW calls, RunTypeOK(resources, calls),
         NEW m \in Minion, NEW result \in Report, Return(m, result)
  PROVE  /\ pc' \in [Minion -> {"idle"} \cup calls]
         /\ want' \in [Minion -> pillar]
         /\ report' \in [Minion -> Report]
BY DEF RunTypeOK, Return

LEMMA GoToType ==
  ASSUME NEW resources, NEW calls, RunTypeOK(resources, calls),
         NEW m \in Minion, NEW call \in calls, GoTo(m, call)
  PROVE  /\ pc' \in [Minion -> {"idle"} \cup calls]
         /\ want' \in [Minion -> pillar]
         /\ report' \in [Minion -> Report]
BY DEF RunTypeOK, GoTo

LEMMA ReadsType ==
  ASSUME NEW resources, NEW calls, RunTypeOK(resources, calls),
         NEW m \in Minion, Reads(m) \/ ReadsFirst(m)
  PROVE  /\ pillar' = pillar
         /\ nova' \in resources /\ stable' \in BOOLEAN
         /\ clean' \in [Minion -> BOOLEAN] /\ touched' \in [Minion -> BOOLEAN]
BY DEF RunTypeOK, Reads, ReadsFirst

LEMMA BecomesType ==
  ASSUME NEW resources, NEW calls, RunTypeOK(resources, calls),
         NEW m \in Minion, NEW new, Becomes(m, new), nova' \in resources
  PROVE  /\ pillar' = pillar
         /\ nova' \in resources /\ stable' \in BOOLEAN
         /\ clean' \in [Minion -> BOOLEAN] /\ touched' \in [Minion -> BOOLEAN]
BY DEF RunTypeOK, Becomes

LEMMA CommonType ==
  ASSUME NEW resources, NEW calls, "list" \in calls, RunTypeOK(resources, calls),
         \/ \E m \in Minion, request \in pillar : Begin(m, request)
         \/ \E m \in Minion : Kill(m)
         \/ Settle
         \/ UNCHANGED run
  PROVE  RunTypeOK(resources, calls)'
<1> USE DEF RunTypeOK
<1>1. CASE \E m \in Minion, request \in pillar : Begin(m, request)
  BY <1>1, FailedFacts DEF Begin
<1>2. CASE \E m \in Minion : Kill(m)
  BY <1>2, FailedFacts DEF Kill, Return
<1>3. CASE Settle
  BY <1>3 DEF Settle
<1>4. CASE UNCHANGED run
  BY <1>4 DEF run
<1>. QED
  BY <1>1, <1>2, <1>3, <1>4

\* A call that changes the resource takes away the clean mark of other runs.
LEMMA BecomesFrame ==
  ASSUME NEW m \in Minion, NEW n \in Minion, n # m, NEW new, Becomes(m, new)
  PROVE  clean'[n] => clean[n] /\ nova' = nova
BY DEF Becomes

LEMMA WantIsGoal ==
  ASSUME want \in [Minion -> pillar], Agreement, NEW m \in Minion
  PROVE  want[m] = Goal /\ Goal \in pillar
BY DEF Agreement, Goal

-----------------------------------------------------------------------------
\* The values and the reports that the actions can assign.
LEMMA Shapes ==
  /\ NoSpecs \in Specs
  /\ \A have, asked \in Specs : Merge(have, asked) \in Specs
  /\ \A have, asked \in Specs : /\ SpecsToDelete(have, asked) \in SUBSET Key
                                /\ SpecsToAdd(have, asked) \in SUBSET Key
  /\ \A i \in Id, size \in Size, specs \in Specs :
       [id |-> i, size |-> size, specs |-> specs] # NoFlavor
BY FlavorAssumption
   DEF Specs, NoSpecs, Merge, SpecsToDelete, SpecsToAdd, KeysOf

\* A run that ends because a call did not complete.
Fails(m) == \E failure \in FailureReport : Finish(m, failure)

LEMMA FinishFails ==
  ASSUME NEW m, NEW answer
  PROVE  /\ Finish(m, Failed(answer, "find_failed")) => Fails(m)
         /\ Finish(m, Failed(answer, "create_failed")) => Fails(m)
         /\ Finish(m, Failed(answer, "update_failed")) => Fails(m)
         /\ Finish(m, Failed(answer, "delete_failed")) => Fails(m)
BY FailedFacts DEF Fails

LEMMA WantType ==
  ASSUME TypeOK, NEW m \in Minion
  PROVE  /\ want[m].ensure \in {"present", "absent", "exists"}
         /\ want[m].id \in Id \cup {NoId}
         /\ want[m].size \in Size
         /\ want[m].specs \in Specs
         /\ want[m] \in Request
BY FlavorAssumption, PillarAssumption DEF TypeOK, RunTypeOK

LEMMA NewIdType ==
  ASSUME TypeOK, NEW m \in Minion, NEW i \in NewId(m)
  PROVE  i \in Id
BY WantType DEF NewId

\* Every step of a run keeps the types.
LEMMA StepType == TypeOK /\ [Next]_vars => TypeOK'
<1> SUFFICES ASSUME TypeOK, [Next]_vars PROVE TypeOK'
  OBVIOUS
<1> DEFINE calls == {"list", "get", "delete", "create", "fill", "remove", "make"}
           RunVarsOK == /\ pc' \in [Minion -> {"idle"} \cup calls]
                        /\ want' \in [Minion -> pillar]
                        /\ report' \in [Minion -> Report]
           NovaVarsOK == /\ pillar' = pillar
                         /\ nova' \in Resource /\ stable' \in BOOLEAN
                         /\ clean' \in [Minion -> BOOLEAN]
                         /\ touched' \in [Minion -> BOOLEAN]
           LocalVarsOK == /\ fid' \in [Minion -> Id \cup {NoId}]
                          /\ toDelete' \in [Minion -> SUBSET Key]
                          /\ differs' \in [Minion -> BOOLEAN]
<1>a. RunTypeOK(Resource, calls)
  BY DEF TypeOK
<1>b. RunVarsOK /\ NovaVarsOK /\ LocalVarsOK => TypeOK'
  BY DEF TypeOK, RunTypeOK
<1>c. ASSUME NEW m \in Minion, NEW result \in Report, Finish(m, result)
      PROVE  RunVarsOK /\ LocalVarsOK
  BY <1>a, <1>c, ReturnType DEF Finish, Forget, TypeOK
<1>d. ASSUME NEW m \in Minion, NEW call \in calls, GoTo(m, call) PROVE RunVarsOK
  BY <1>a, <1>d, GoToType
<1>e. ASSUME NEW m \in Minion, Fails(m) PROVE RunVarsOK /\ LocalVarsOK
  BY <1>c, <1>e, FailedFacts DEF Fails
<1>1. CASE \E m \in Minion : Apply(m) \/ Abort(m)
  BY <1>1, <1>a, CommonType DEF Apply, Abort, Forget, local, TypeOK
<1>2. ASSUME NEW m \in Minion, List(m) PROVE TypeOK'
  <2>1. NovaVarsOK
    BY <1>2, <1>a, ReadsType DEF List
  <2>2. CASE Fails(m)
    BY <1>b, <1>e, <2>1, <2>2
  <2>3. CASE Finish(m, "non_existent")
    BY <1>b, <1>c, <2>1, <2>3, FailedFacts DEF SuccessReport
  <2>4. CASE ~Fails(m) /\ ~Finish(m, "non_existent")
    <3>1. \E call \in calls : GoTo(m, call)
      BY <1>2, <2>4, FinishFails DEF List
    <3>2. LocalVarsOK
      BY <1>2, <2>4, FinishFails DEF List, local, TypeOK, RunTypeOK, Resource
    <3>. QED BY <1>b, <1>d, <2>1, <3>1, <3>2
  <2>. QED BY <2>2, <2>3, <2>4
<1>3. ASSUME NEW m \in Minion, GetSpecs(m) PROVE TypeOK'
  <2>1. NovaVarsOK
    BY <1>3, <1>a, ReadsType DEF GetSpecs
  <2>2. CASE Fails(m)
    BY <1>b, <1>e, <2>1, <2>2
  <2>3. CASE ~Fails(m)
    <3>. DEFINE deletes == SpecsToDelete(nova.specs, want[m].specs)
                adds == SpecsToAdd(nova.specs, want[m].specs)
    <3>1. nova # NoFlavor
      BY <1>3, <2>3, FinishFails DEF GetSpecs, Exists, Answers, Applied, Completes
    <3>2. deletes \in SUBSET Key /\ adds \in SUBSET Key
      BY <3>1, Shapes, WantType DEF TypeOK, RunTypeOK, Resource
    <3>3. /\ GoTo(m, "delete")
          /\ toDelete' = [toDelete EXCEPT ![m] = deletes]
          /\ differs' = [differs EXCEPT ![m] = (deletes \cup adds # {})]
          /\ UNCHANGED fid
      BY <1>3, <2>3, FinishFails DEF GetSpecs
    <3>. HIDE DEF deletes, adds
    <3>4. LocalVarsOK
      BY <3>2, <3>3 DEF TypeOK
    <3>. QED BY <1>b, <1>d, <2>1, <3>3, <3>4
  <2>. QED BY <2>2, <2>3
<1>4. ASSUME NEW m \in Minion, DeleteSpec(m) PROVE TypeOK'
  <2>1. PICK key \in toDelete[m] :
          \E answer \in Answers(Exists(fid[m]) /\ nova.specs[key] # Unset, stable) :
            DeleteAnswered(m, key, answer)
    BY <1>4 DEF DeleteSpec
  <2>2. PICK answer \in Answers(Exists(fid[m]) /\ nova.specs[key] # Unset, stable) :
          DeleteAnswered(m, key, answer)
    BY <2>1
  <2>3. nova' \in Resource
    <3>1. CASE Applied(answer)
      <4>1. nova # NoFlavor /\ nova' = [nova EXCEPT !.specs[key] = Unset]
        BY <2>2, <3>1, AnswersFacts DEF DeleteAnswered, Becomes, Exists
      <4>. QED BY <4>1 DEF TypeOK, RunTypeOK, Resource, Specs
    <3>2. CASE ~Applied(answer)
      BY <2>2, <3>2, <1>a DEF DeleteAnswered, Becomes, RunTypeOK
    <3>. QED BY <3>1, <3>2
  <2>4. NovaVarsOK
    BY <1>a, <2>2, <2>3, BecomesType DEF DeleteAnswered
  <2>5. CASE Fails(m)
    BY <1>b, <1>e, <2>4, <2>5
  <2>6. CASE ~Fails(m)
    BY <1>b, <2>2, <2>4, <2>6, FinishFails DEF DeleteAnswered, TypeOK, RunTypeOK
  <2>. QED BY <2>5, <2>6
<1>5. ASSUME NEW m \in Minion, Create(m) PROVE TypeOK'
  <2>1. PICK i \in NewId(m), answer \in Answers(nova = NoFlavor, stable) :
          CreateAnswered(m, i, answer)
    BY <1>5 DEF Create
  <2>2. i \in Id
    BY NewIdType
  <2>3. nova' \in Resource
    BY <1>a, <2>1, <2>2, Shapes, WantType DEF CreateAnswered, Becomes, RunTypeOK, Resource
  <2>4. NovaVarsOK
    BY <1>a, <2>1, <2>3, BecomesType DEF CreateAnswered
  <2>5. CASE Fails(m)
    BY <1>b, <1>e, <2>4, <2>5
  <2>6. CASE ~Fails(m)
    <3>1. GoTo(m, "fill") /\ LocalVarsOK
      BY <2>1, <2>2, <2>6, FinishFails DEF CreateAnswered, TypeOK
    <3>. QED BY <1>b, <1>d, <2>4, <3>1
  <2>. QED BY <2>5, <2>6
<1>6. ASSUME NEW m \in Minion, AddSpecs(m) PROVE TypeOK'
  <2>1. PICK answer \in Answers(Exists(fid[m]), stable) : AddAnswered(m, answer)
    BY <1>6 DEF AddSpecs
  <2>2. nova' \in Resource
    <3>1. CASE Applied(answer)
      <4>1. nova # NoFlavor /\ nova' = [nova EXCEPT !.specs = Merge(@, want[m].specs)]
        BY <2>1, <3>1, AnswersFacts DEF AddAnswered, Becomes, Exists, Posted
      <4>. QED BY <4>1, Shapes, WantType DEF TypeOK, RunTypeOK, Resource
    <3>2. CASE ~Applied(answer)
      BY <2>1, <3>2, <1>a DEF AddAnswered, Becomes, RunTypeOK
    <3>. QED BY <3>1, <3>2
  <2>3. NovaVarsOK
    BY <1>a, <2>1, <2>2, BecomesType DEF AddAnswered
  <2>4. \E result \in Report : Finish(m, result)
    <3>1. Result(m) \in Report
      BY FailedFacts DEF Result, SuccessReport
    <3>. QED BY <2>1, <3>1, FailedFacts DEF AddAnswered
  <2>. QED BY <1>b, <1>c, <2>3, <2>4
<1>7. ASSUME NEW m \in Minion, Remove(m) PROVE TypeOK'
  <2>1. PICK answer \in Answers(Exists(fid[m]), stable) : RemoveAnswered(m, answer)
    BY <1>7 DEF Remove
  <2>2. nova' \in Resource
    BY <1>a, <2>1 DEF RemoveAnswered, Becomes, RunTypeOK, Resource
  <2>3. NovaVarsOK
    BY <1>a, <2>1, <2>2, BecomesType DEF RemoveAnswered
  <2>4. \E result \in Report : Finish(m, result)
    BY <2>1, FailedFacts DEF RemoveAnswered, SuccessReport
  <2>. QED BY <1>b, <1>c, <2>3, <2>4
<1>8. CASE Stabilize \/ UNCHANGED vars
  BY <1>8, <1>a, CommonType DEF Stabilize, vars, local, TypeOK
<1>9. ASSUME NEW m \in Minion, ListNames(m) PROVE TypeOK'
  <2>1. NovaVarsOK
    BY <1>9, <1>a, ReadsType DEF ListNames
  <2>2. CASE \E result \in Report : Finish(m, result)
    BY <1>b, <1>c, <2>1, <2>2
  <2>3. CASE ~(\E result \in Report : Finish(m, result))
    <3>1. GoTo(m, "make") /\ UNCHANGED local
      BY <1>9, <2>3, FailedFacts DEF ListNames, FailureReport, SuccessReport
    <3>. QED BY <1>b, <1>d, <2>1, <3>1 DEF local, TypeOK
  <2>. QED BY <2>2, <2>3
<1>10. ASSUME NEW m \in Minion, Make(m) PROVE TypeOK'
  <2>1. PICK i \in NewId(m), answer \in Answers(nova = NoFlavor, stable) :
          MakeAnswered(m, i, answer)
    BY <1>10 DEF Make
  <2>2. i \in Id
    BY NewIdType
  <2>3. nova' \in Resource
    BY <1>a, <2>1, <2>2, Shapes, WantType DEF MakeAnswered, Becomes, RunTypeOK, Resource
  <2>4. NovaVarsOK
    BY <1>a, <2>1, <2>3, BecomesType DEF MakeAnswered
  <2>5. \E result \in Report : Finish(m, result)
    BY <2>1, FailedFacts DEF MakeAnswered, FailureReport, SuccessReport
  <2>. QED BY <1>b, <1>c, <2>4, <2>5
<1>. QED
  BY <1>1, <1>2, <1>3, <1>4, <1>5, <1>6, <1>7, <1>8, <1>9, <1>10 DEF Next, Call

\* The variables of the model stay within their types.
THEOREM TypeCorrect == Spec => []TypeOK
<1>1. Init => TypeOK
  <2> SUFFICES ASSUME Init PROVE TypeOK
    OBVIOUS
  <2>1. (CHOOSE r \in pillar : TRUE) \in pillar
    BY PillarAssumption DEF Init, RunInit
  <2>. QED BY <2>1, FailedFacts DEF Init, TypeOK, RunInit, RunTypeOK
<1>. QED
  BY <1>1, StepType, PTL DEF Spec

-----------------------------------------------------------------------------
\* A step of one run leaves the variables of every other run alone.
LEMMA Frame ==
  ASSUME TypeOK, NEW m \in Minion, NEW n \in Minion, n # m,
         Apply(m) \/ Call(m) \/ Abort(m)
  PROVE  /\ pc'[n] = pc[n]
         /\ want'[n] = want[n]
         /\ fid'[n] = fid[n]
         /\ toDelete'[n] = toDelete[n]
         /\ report'[n] = report[n]
         /\ clean'[n] => clean[n] /\ nova' = nova
<1> USE BecomesFrame DEF TypeOK, RunTypeOK, Resource, Finish, Return, Forget, GoTo, local
<1>1. CASE Apply(m)
  BY <1>1 DEF Apply, Begin
<1>2. CASE List(m)
  BY <1>2 DEF List, ReadsFirst
<1>3. CASE GetSpecs(m)
  BY <1>3 DEF GetSpecs, Reads
<1>4. CASE DeleteSpec(m)
  <2>1. PICK key, answer : DeleteAnswered(m, key, answer)
    BY <1>4 DEF DeleteSpec
  <2>. QED BY <2>1 DEF DeleteAnswered
<1>5. CASE Create(m)
  <2>1. PICK i, answer : CreateAnswered(m, i, answer)
    BY <1>5 DEF Create
  <2>. QED BY <2>1 DEF CreateAnswered
<1>6. CASE AddSpecs(m)
  <2>1. PICK answer : AddAnswered(m, answer)
    BY <1>6 DEF AddSpecs
  <2>. QED BY <2>1 DEF AddAnswered
<1>7. CASE Remove(m)
  <2>1. PICK answer : RemoveAnswered(m, answer)
    BY <1>7 DEF Remove
  <2>. QED BY <2>1 DEF RemoveAnswered
<1>8. CASE Abort(m)
  BY <1>8 DEF Abort, Kill
<1>9. CASE ListNames(m)
  BY <1>9 DEF ListNames, ReadsFirst
<1>10. CASE Make(m)
  <2>1. PICK i, answer : MakeAnswered(m, i, answer)
    BY <1>10 DEF Make
  <2>. QED BY <2>1 DEF MakeAnswered
<1>. QED
  BY <1>1, <1>2, <1>3, <1>4, <1>5, <1>6, <1>7, <1>8, <1>9, <1>10 DEF Call

\* What the POST leaves behind: exactly the specs asked for, if nothing had to
\* be deleted any more.
LEMMA MergeIsExact ==
  ASSUME NEW have \in Specs, NEW asked \in Specs, SpecsToDelete(have, asked) = {}
  PROVE  Merge(have, asked) = asked
BY DEF Merge, SpecsToDelete, KeysOf, Specs

-----------------------------------------------------------------------------
\* The calls of run n are those of the state function it applies ...
PhaseFacts(n) ==
  /\ report[n] # NoReport => pc[n] = "idle"
  /\ pc[n] \in {"get", "delete", "create", "fill"} => want[n].ensure = "present"
  /\ pc[n] = "remove" => want[n].ensure = "absent"
  /\ pc[n] = "make" => want[n].ensure = "exists"

\* ... and it leaves nothing out.
TrueFacts(n) ==
  /\ pc[n] \in {"delete", "fill"} => NothingForgotten(n)
  /\ report[n] \in SuccessReport => Pending(want[n]) = {}

LEMMA ReportInvIsLocal ==
  ReportInv <=> \A n \in Minion : PhaseFacts(n) /\ (clean[n] => TrueFacts(n))
BY DEF ReportInv, IdleInv, PhaseInv, CleanRunInv, ReportIsTrue, PhaseFacts, TrueFacts

\* A run that returns without success.
LEMMA FailedRunFacts ==
  ASSUME TypeOK, NEW m \in Minion, NEW result, result \notin SuccessReport,
         Finish(m, result)
  PROVE  PhaseFacts(m)' /\ TrueFacts(m)'
BY DEF TypeOK, RunTypeOK, Resource, Finish, Return, Forget, PhaseFacts, TrueFacts

\* The steps of the run itself.
LEMMA OwnRunFacts ==
  ASSUME TypeOK, NEW m \in Minion, PhaseFacts(m), Apply(m) \/ Call(m) \/ Abort(m)
  PROVE  PhaseFacts(m)' /\ (TrueFacts(m) => TrueFacts(m)')
<1>f. Fails(m) => PhaseFacts(m)' /\ TrueFacts(m)'
  BY FailedRunFacts, FailedFacts DEF Fails
<1>1. CASE Apply(m)
  BY <1>1 DEF Apply, Begin, PhaseFacts, TrueFacts, TypeOK, RunTypeOK, Resource, NoReport, SuccessReport
<1>2. CASE List(m)
  <2>1. CASE Fails(m)
    BY <2>1, <1>f
  <2>2. CASE Finish(m, "non_existent")
    <3>1. nova' = nova /\ want' = want
      BY <1>2, <2>2 DEF List, ReadsFirst, Finish, Return, Forget
    <3>2. pc'[m] = "idle" /\ report'[m] = "non_existent"
      BY <2>2 DEF Finish, Return, Forget, TypeOK, RunTypeOK, Resource
    <3>a. ~Fails(m)
      BY <3>2 DEF Fails, Finish, Return, Forget, FailureReport, Exception, TypeOK, RunTypeOK, Resource
    <3>3. nova = NoFlavor /\ want[m].ensure = "absent"
      BY <1>2, <3>2, <3>a, FinishFails DEF List, ReadsFirst, GoTo, TypeOK, RunTypeOK, Resource
    <3>. QED BY <3>1, <3>2, <3>3 DEF PhaseFacts, TrueFacts, Pending
  <2>3. CASE ~Fails(m) /\ ~Finish(m, "non_existent")
    <3>1. /\ pc'[m] \in {"get", "remove", "create"}
          /\ pc'[m] \in {"get", "create"} => want[m].ensure = "present"
          /\ pc'[m] = "remove" => want[m].ensure = "absent"
          /\ report' = report /\ want' = want
      BY <1>2, <2>3, WantType, FinishFails DEF List, ReadsFirst, GoTo, TypeOK, RunTypeOK, Resource, local
    <3>2. report[m] = NoReport
      BY <1>2 DEF PhaseFacts, List, ReadsFirst
    <3>. QED BY <3>1, <3>2 DEF PhaseFacts, TrueFacts, NoReport, SuccessReport
  <2>. QED BY <2>1, <2>2, <2>3
<1>3. CASE GetSpecs(m)
  <2>1. CASE Fails(m)
    BY <2>1, <1>f
  <2>2. CASE ~Fails(m)
    <3>1. /\ pc' = [pc EXCEPT ![m] = "delete"] /\ report' = report
          /\ toDelete' = [toDelete EXCEPT ![m] = SpecsToDelete(nova.specs, want[m].specs)]
          /\ UNCHANGED <<want, fid, nova>>
      BY <1>3, <2>2, FinishFails DEF GetSpecs, Reads, GoTo
    <3>2. Exists(fid[m])
      BY <1>3, <2>2, AnswersFacts, FinishFails DEF GetSpecs, Reads
    <3>3. report[m] = NoReport /\ want[m].ensure = "present"
      BY <1>3 DEF PhaseFacts, GetSpecs, Reads
    <3>4. pc'[m] = "delete" /\ toDelete'[m] = SpecsToDelete(nova.specs, want[m].specs)
      BY <3>1 DEF TypeOK, RunTypeOK, Resource
    <3>5. NothingForgotten(m)'
      BY <3>1, <3>2, <3>4 DEF NothingForgotten, Exists
    <3>. QED BY <3>1, <3>3, <3>4, <3>5 DEF PhaseFacts, TrueFacts, NoReport, SuccessReport
  <2>. QED BY <2>1, <2>2
<1>4. CASE DeleteSpec(m)
  <2>1. PICK key \in toDelete[m] :
          \E answer \in Answers(Exists(fid[m]) /\ nova.specs[key] # Unset, stable) :
            DeleteAnswered(m, key, answer)
    BY <1>4 DEF DeleteSpec
  <2>2. PICK answer \in Answers(Exists(fid[m]) /\ nova.specs[key] # Unset, stable) :
          DeleteAnswered(m, key, answer)
    BY <2>1
  <2>3. CASE Fails(m)
    BY <2>3, <1>f
  <2>4. CASE ~Fails(m)
    <3>1. /\ toDelete' = [toDelete EXCEPT ![m] = @ \ {key}]
          /\ UNCHANGED <<pc, want, fid, differs, report>>
          /\ Completes(answer)
      BY <2>2, <2>4, FinishFails DEF DeleteAnswered
    <3>2. /\ Exists(fid[m])
          /\ nova' = [nova EXCEPT !.specs[key] = Unset]
      BY <2>2, <3>1, AnswersFacts DEF DeleteAnswered, Becomes
    <3>3. nova \in [id : Id, size : Size, specs : Specs] /\ key \in Key
      BY <3>2 DEF Exists, TypeOK, RunTypeOK, Resource
    <3>4. /\ nova' \in [id : Id, size : Size, specs : Specs]
          /\ nova'.id = nova.id
          /\ nova'.specs = [nova.specs EXCEPT ![key] = Unset]
      BY <3>2, <3>3 DEF Specs
    <3>5. SpecsToDelete(nova'.specs, want[m].specs)
            = SpecsToDelete(nova.specs, want[m].specs) \ {key}
      BY <3>3, <3>4 DEF SpecsToDelete, KeysOf, Specs
    <3>6. pc[m] = "delete" /\ report[m] = NoReport /\ want[m].ensure = "present"
      BY <1>4 DEF DeleteSpec, PhaseFacts
    <3>7. TrueFacts(m) => NothingForgotten(m)'
      BY <3>1, <3>2, <3>4, <3>5, <3>6, FlavorAssumption
         DEF TrueFacts, NothingForgotten, Exists, TypeOK, RunTypeOK, Resource
    <3>. QED BY <3>1, <3>2, <3>6, <3>7 DEF PhaseFacts, TrueFacts, NoReport, SuccessReport
  <2>. QED BY <2>3, <2>4
<1>5. CASE Create(m)
  <2>1. PICK i \in NewId(m), answer \in Answers(nova = NoFlavor, stable) :
          CreateAnswered(m, i, answer)
    BY <1>5 DEF Create
  <2>2. CASE Fails(m)
    BY <2>2, <1>f
  <2>3. CASE ~Fails(m)
    <3>1. /\ pc' = [pc EXCEPT ![m] = "fill"] /\ report' = report
          /\ fid' = [fid EXCEPT ![m] = i]
          /\ UNCHANGED <<want, toDelete>>
          /\ Completes(answer)
      BY <2>1, <2>3, FinishFails DEF CreateAnswered, GoTo
    <3>2. nova' = [id |-> i, size |-> want[m].size, specs |-> NoSpecs]
      BY <2>1, <3>1, AnswersFacts DEF CreateAnswered, Becomes
    <3>3. pc[m] = "create" /\ report[m] = NoReport /\ want[m].ensure = "present"
      BY <1>5 DEF Create, PhaseFacts
    <3>4. i \in Id
      BY NewIdType
    <3>5. NothingForgotten(m)'
      <4>1. pc'[m] = "fill" /\ fid'[m] = i
        BY <3>1 DEF TypeOK, RunTypeOK, Resource
      <4>2. nova' # NoFlavor
        BY <3>2, <3>4, Shapes, WantType
      <4>3. SpecsToDelete(nova'.specs, want[m].specs) = {}
        BY <3>2 DEF SpecsToDelete, KeysOf, NoSpecs
      <4>. QED BY <3>1, <3>2, <4>1, <4>2, <4>3 DEF NothingForgotten, Exists
    <3>6. pc'[m] = "fill"
      BY <3>1 DEF TypeOK, RunTypeOK, Resource
    <3>. QED BY <3>1, <3>3, <3>5, <3>6 DEF PhaseFacts, TrueFacts, NoReport, SuccessReport
  <2>. QED BY <2>2, <2>3
<1>6. CASE AddSpecs(m)
  <2>1. PICK answer \in Answers(Exists(fid[m]), stable) : AddAnswered(m, answer)
    BY <1>6 DEF AddSpecs
  <2>2. CASE ~Completes(answer)
    BY <2>1, <2>2, <1>f, FailedFacts DEF Fails, AddAnswered
  <2>3. CASE Completes(answer)
    <3>1. /\ Exists(fid[m])
          /\ nova' = [nova EXCEPT !.specs = Merge(@, want[m].specs)]
          /\ Finish(m, Result(m))
      <4>1. Applied(answer) /\ Exists(fid[m])
        BY <2>1, <2>3, AnswersFacts
      <4>2. Becomes(m, [nova EXCEPT !.specs = Merge(@, want[m].specs)])
        BY <2>1, <4>1 DEF AddAnswered, Posted
      <4>. QED BY <2>1, <2>3, <4>1, <4>2 DEF AddAnswered, Becomes
    <3>2. nova \in [id : Id, size : Size, specs : Specs]
      BY <3>1 DEF Exists, TypeOK, RunTypeOK, Resource
    <3>3. want[m].ensure = "present"
      BY <1>6 DEF AddSpecs, PhaseFacts
    <3>4. TrueFacts(m) => SpecsToDelete(nova.specs, want[m].specs) = {}
      BY <1>6 DEF AddSpecs, TrueFacts, NothingForgotten
    <3>5. TrueFacts(m) => nova'.specs = want[m].specs
      BY <3>1, <3>2, <3>4, MergeIsExact, WantType
    <3>6. nova' # NoFlavor
      BY <3>1, <3>2, Shapes, WantType, FlavorAssumption
    <3>7. pc'[m] = "idle" /\ want' = want
      BY <3>1 DEF Finish, Return, Forget, TypeOK, RunTypeOK, Resource
    <3>8. TrueFacts(m) => Pending(want[m])' = {}
      BY <3>1, <3>3, <3>5, <3>6, <3>7 DEF Pending
    <3>. QED BY <3>3, <3>7, <3>8 DEF PhaseFacts, TrueFacts
  <2>. QED BY <2>2, <2>3
<1>7. CASE Remove(m)
  <2>1. PICK answer \in Answers(Exists(fid[m]), stable) : RemoveAnswered(m, answer)
    BY <1>7 DEF Remove
  <2>2. CASE ~Completes(answer)
    BY <2>1, <2>2, <1>f, FailedFacts DEF Fails, RemoveAnswered
  <2>3. CASE Completes(answer)
    <3>1. nova' = NoFlavor /\ Finish(m, "deleted")
      BY <2>1, <2>3, AnswersFacts DEF RemoveAnswered, Becomes
    <3>2. want[m].ensure = "absent"
      BY <1>7 DEF Remove, PhaseFacts
    <3>3. pc'[m] = "idle" /\ want' = want
      BY <3>1 DEF Finish, Return, Forget, TypeOK, RunTypeOK, Resource
    <3>. QED BY <3>1, <3>2, <3>3 DEF PhaseFacts, TrueFacts, Pending
  <2>. QED BY <2>2, <2>3
<1>8. CASE Abort(m)
  BY <1>8, FailedRunFacts DEF Abort, Kill, Finish, SuccessReport, NoReport
<1>e. Finish(m, Exception) => PhaseFacts(m)' /\ TrueFacts(m)'
  BY FailedRunFacts DEF Exception, SuccessReport
<1>9. CASE ListNames(m)
  <2>1. CASE Finish(m, Exception)
    BY <2>1, <1>e
  <2>2. CASE nova # NoFlavor /\ Finish(m, "no_change")
    <3>1. pc'[m] = "idle" /\ want' = want /\ nova' = nova
      BY <1>9, <2>2 DEF ListNames, ReadsFirst, Finish, Return, Forget, TypeOK, RunTypeOK, Resource
    <3>. QED BY <1>9, <2>2, <3>1 DEF ListNames, PhaseFacts, TrueFacts, Pending
  <2>3. CASE GoTo(m, "make")
    <3>1. pc'[m] = "make" /\ want' = want /\ report' = report
      BY <2>3 DEF GoTo, TypeOK, RunTypeOK, Resource
    <3>2. report[m] = NoReport
      BY <1>9 DEF PhaseFacts, ListNames
    <3>. QED BY <1>9, <3>1, <3>2 DEF ListNames, PhaseFacts, TrueFacts, NoReport, SuccessReport
  <2>. QED BY <1>9, <2>1, <2>2, <2>3 DEF ListNames
<1>10. CASE Make(m)
  <2>1. PICK i \in NewId(m), answer \in Answers(nova = NoFlavor, stable) :
          MakeAnswered(m, i, answer)
    BY <1>10 DEF Make
  <2>2. CASE ~Completes(answer)
    BY <1>e, <2>1, <2>2 DEF MakeAnswered
  <2>3. CASE Completes(answer)
    <3>1. nova' = [id |-> i, size |-> want[m].size, specs |-> NoSpecs]
      BY <2>1, <2>3, AnswersFacts DEF MakeAnswered, Becomes
    <3>2. nova' # NoFlavor
      BY <3>1, NewIdType, Shapes, WantType
    <3>3. pc'[m] = "idle" /\ want' = want
      BY <2>1 DEF MakeAnswered, Finish, Return, Forget, TypeOK, RunTypeOK, Resource
    <3>4. want[m].ensure = "exists"
      BY <1>10 DEF Make, PhaseFacts
    <3>. QED BY <3>2, <3>3, <3>4 DEF PhaseFacts, TrueFacts, Pending
  <2>. QED BY <2>2, <2>3
<1>. QED
  BY <1>1, <1>2, <1>3, <1>4, <1>5, <1>6, <1>7, <1>8, <1>9, <1>10 DEF Call

\* A step of another run; and the mark of the run that makes the step.
LEMMA OtherRunFacts ==
  ASSUME TypeOK, NEW m \in Minion, NEW n \in Minion, n # m, PhaseFacts(n),
         Apply(m) \/ Call(m) \/ Abort(m)
  PROVE  PhaseFacts(n)' /\ (clean'[n] => clean[n] /\ (TrueFacts(n) => TrueFacts(n)'))
<1>1. /\ pc'[n] = pc[n] /\ want'[n] = want[n] /\ fid'[n] = fid[n]
      /\ toDelete'[n] = toDelete[n] /\ report'[n] = report[n]
      /\ clean'[n] => clean[n] /\ nova' = nova
  BY Frame
<1>. QED
  BY <1>1 DEF PhaseFacts, TrueFacts, NothingForgotten, Exists, Pending

LEMMA OwnMark ==
  ASSUME TypeOK, NEW m \in Minion, Apply(m) \/ Call(m) \/ Abort(m)
  PROVE  pc[m] = "list" \/ (clean'[m] => clean[m])
BY DEF Apply, Begin, Call, List, ReadsFirst, GetSpecs, Reads, DeleteSpec, DeleteAnswered, Create,
       CreateAnswered, AddSpecs, AddAnswered, Remove, RemoveAnswered, Abort, Kill, Becomes,
       ListNames, Make, MakeAnswered

LEMMA StepReport == TypeOK /\ ReportInv /\ [Next]_vars => ReportInv'
<1> SUFFICES ASSUME TypeOK, [Next]_vars, NEW n \in Minion,
                    \A k \in Minion : PhaseFacts(k) /\ (clean[k] => TrueFacts(k))
             PROVE  PhaseFacts(n)' /\ (clean'[n] => TrueFacts(n)')
  BY ReportInvIsLocal
     DEF ReportInv, IdleInv, PhaseInv, CleanRunInv, ReportIsTrue, PhaseFacts, TrueFacts
<1>1. ASSUME NEW m \in Minion, Apply(m) \/ Call(m) \/ Abort(m)
      PROVE  PhaseFacts(n)' /\ (clean'[n] => TrueFacts(n)')
  <2>1. CASE n # m
    BY <1>1, <2>1, OtherRunFacts
  <2>2. CASE n = m
    <3>1. pc[m] = "list" => TrueFacts(m)
      BY DEF PhaseFacts, TrueFacts, NoReport, SuccessReport
    <3>. QED BY <1>1, <2>2, <3>1, OwnRunFacts, OwnMark
  <2>. QED BY <2>1, <2>2
<1>2. CASE Stabilize
  BY <1>2 DEF Stabilize, Settle, local, PhaseFacts, TrueFacts, NothingForgotten, Exists, Pending
<1>3. CASE UNCHANGED vars
  BY <1>3 DEF vars, run, local, PhaseFacts, TrueFacts, NothingForgotten, Exists, Pending
<1>. QED
  BY <1>1, <1>2, <1>3 DEF Next

LEMMA InitFacts == Init => \A n \in Minion : PhaseFacts(n) /\ TrueFacts(n)
BY DEF Init, RunInit, PhaseFacts, TrueFacts, NoReport, SuccessReport

\* A state function that returns result True tells the truth, if it was alone
\* with the flavor since it listed it.
THEOREM ReportsAreTrue == Spec => []ReportIsTrue
<1>1. Init => ReportInv
  BY InitFacts, ReportInvIsLocal
<1>2. ReportInv => ReportIsTrue
  BY DEF ReportInv
<1>. QED
  BY <1>1, <1>2, StepReport, TypeCorrect, PTL DEF Spec

-----------------------------------------------------------------------------
(***************************************************************************)
(* A run that nobody disturbs asks only for what Nova does.                *)
(***************************************************************************)

\* The next request of run n is one that Nova accepts.
Ready(n) ==
  /\ pc[n] \in {"get", "delete", "fill", "remove"} => Exists(fid[n])
  /\ pc[n] \in {"create", "make"} => nova = NoFlavor
  /\ pc[n] = "delete" => toDelete[n] \subseteq KeysOf(nova.specs)

ReadyInv == TypeOK /\ \A n \in Minion : clean[n] => Ready(n)

LEMMA ReliableFacts ==
  ASSUME stable, NEW valid, valid, NEW answer \in Answers(valid, stable)
  PROVE  Completes(answer)
BY DEF Answers, Completes

LEMMA FinishReady ==
  ASSUME TypeOK, NEW m \in Minion, NEW result, Finish(m, result)
  PROVE  Ready(m)' /\ report'[m] = result
BY DEF TypeOK, RunTypeOK, Finish, Return, Ready

\* A step of a run that is ready leaves it ready, or ends it with success.
ReadyStep(m) == Ready(m)' /\ (stable /\ Ends(m) => report'[m] \in SuccessReport)

LEMMA FailsReady ==
  ASSUME TypeOK, NEW m \in Minion, Fails(m), ~stable
  PROVE  ReadyStep(m)
BY FinishReady DEF Fails, ReadyStep

LEMMA SucceedsReady ==
  ASSUME TypeOK, NEW m \in Minion, NEW result \in SuccessReport, Finish(m, result)
  PROVE  ReadyStep(m)
BY FinishReady DEF ReadyStep

LEMMA GoesOnReady ==
  ASSUME NEW m \in Minion, pc'[m] # "idle", Ready(m)'
  PROVE  ReadyStep(m)
BY DEF ReadyStep, Ends

LEMMA CallReady ==
  ASSUME TypeOK, NEW m \in Minion, Call(m), pc[m] = "list" \/ Ready(m)
  PROVE  ReadyStep(m)
<1>1. CASE List(m)
  <2>1. PICK answer \in Answers(TRUE, stable) :
          IF ~Completes(answer)
          THEN Finish(m, Failed(answer, "find_failed"))
          ELSE \/ /\ nova # NoFlavor
                  /\ GoTo(m, IF want[m].ensure = "present" THEN "get" ELSE "remove")
                  /\ fid' = [fid EXCEPT ![m] = nova.id]
                  /\ UNCHANGED <<toDelete, differs>>
               \/ nova = NoFlavor /\ GoTo(m, "create")
               \/ Finish(m, "non_existent")
    BY <1>1 DEF List
  <2>2. nova' = nova
    BY <1>1 DEF List, ReadsFirst
  <2>3. CASE ~Completes(answer)
    BY <2>1, <2>3, ReliableFacts, FinishFails, FailsReady
  <2>4. CASE Finish(m, "non_existent")
    BY <2>4, SucceedsReady DEF SuccessReport
  <2>5. CASE nova = NoFlavor /\ GoTo(m, "create")
    <3>1. pc'[m] = "create"
      BY <2>5 DEF GoTo, TypeOK, RunTypeOK
    <3>. QED BY <2>2, <2>5, <3>1, GoesOnReady DEF Ready
  <2>6. CASE /\ nova # NoFlavor
             /\ GoTo(m, IF want[m].ensure = "present" THEN "get" ELSE "remove")
             /\ fid' = [fid EXCEPT ![m] = nova.id]
    <3>1. pc'[m] \in {"get", "remove"} /\ fid'[m] = nova.id
      BY <2>6 DEF GoTo, TypeOK, RunTypeOK
    <3>. QED BY <2>2, <2>6, <3>1, GoesOnReady DEF Ready, Exists
  <2>. QED BY <2>1, <2>3, <2>4, <2>5, <2>6
<1>2. CASE GetSpecs(m)
  <2>1. Ready(m) /\ Exists(fid[m]) /\ nova' = nova
    BY <1>2 DEF GetSpecs, Ready, Reads
  <2>2. CASE Fails(m)
    <3>1. ~stable
      BY <1>2, <2>1, <2>2, ReliableFacts, FailedFacts
         DEF GetSpecs, Fails, Finish, Return, GoTo, TypeOK, RunTypeOK
    <3>. QED BY <2>2, <3>1, FailsReady
  <2>3. CASE ~Fails(m)
    <3>1. /\ GoTo(m, "delete") /\ UNCHANGED fid
          /\ toDelete' = [toDelete EXCEPT ![m] = SpecsToDelete(nova.specs, want[m].specs)]
      BY <1>2, <2>3, FinishFails DEF GetSpecs
    <3>2. pc'[m] = "delete" /\ toDelete'[m] = SpecsToDelete(nova.specs, want[m].specs)
      BY <3>1 DEF GoTo, TypeOK, RunTypeOK
    <3>3. toDelete'[m] \subseteq KeysOf(nova.specs)
      BY <3>2 DEF SpecsToDelete
    <3>. QED BY <2>1, <3>1, <3>2, <3>3, GoesOnReady DEF Ready, Exists
  <2>. QED BY <2>2, <2>3
<1>3. CASE DeleteSpec(m)
  <2>1. PICK key \in toDelete[m] :
          \E answer \in Answers(Exists(fid[m]) /\ nova.specs[key] # Unset, stable) :
            DeleteAnswered(m, key, answer)
    BY <1>3 DEF DeleteSpec
  <2>2. PICK answer \in Answers(Exists(fid[m]) /\ nova.specs[key] # Unset, stable) :
          DeleteAnswered(m, key, answer)
    BY <2>1
  <2>3. /\ pc[m] = "delete" /\ Exists(fid[m]) /\ nova.specs[key] # Unset /\ key \in Key
        /\ toDelete[m] \subseteq KeysOf(nova.specs)
    BY <1>3, <2>1 DEF DeleteSpec, Ready, KeysOf
  <2>4. CASE ~Completes(answer)
    BY <2>2, <2>3, <2>4, ReliableFacts, FinishFails, FailsReady DEF DeleteAnswered
  <2>5. CASE Completes(answer)
    <3>1. /\ toDelete'[m] = toDelete[m] \ {key} /\ UNCHANGED <<pc, fid>>
          /\ nova' = [nova EXCEPT !.specs[key] = Unset]
      BY <2>2, <2>5, AnswersFacts DEF DeleteAnswered, Becomes, TypeOK
    <3>2. nova \in [id : Id, size : Size, specs : Specs]
      BY <2>3 DEF Exists, TypeOK, RunTypeOK, Resource
    <3>3. /\ nova' \in [id : Id, size : Size, specs : Specs] /\ nova'.id = nova.id
          /\ nova'.specs = [nova.specs EXCEPT ![key] = Unset]
      BY <3>1, <3>2 DEF Specs
    <3>4. Exists(fid[m])'
      BY <2>3, <3>1, <3>3, FlavorAssumption DEF Exists
    <3>5. toDelete'[m] \subseteq KeysOf(nova'.specs)
      BY <2>3, <3>1, <3>2, <3>3 DEF KeysOf, Specs
    <3>. QED BY <2>3, <3>1, <3>4, <3>5, GoesOnReady DEF Ready
  <2>. QED BY <2>4, <2>5
<1>4. CASE Create(m)
  <2>1. PICK i \in NewId(m), answer \in Answers(nova = NoFlavor, stable) :
          CreateAnswered(m, i, answer)
    BY <1>4 DEF Create
  <2>2. nova = NoFlavor
    BY <1>4 DEF Create, Ready
  <2>3. CASE ~Completes(answer)
    BY <2>1, <2>2, <2>3, ReliableFacts, FinishFails, FailsReady DEF CreateAnswered
  <2>4. CASE Completes(answer)
    <3>1. /\ pc'[m] = "fill" /\ fid'[m] = i
          /\ nova' = [id |-> i, size |-> want[m].size, specs |-> NoSpecs]
      BY <2>1, <2>4, AnswersFacts DEF CreateAnswered, Becomes, GoTo, TypeOK, RunTypeOK
    <3>2. nova' # NoFlavor
      BY <3>1, NewIdType, Shapes, WantType
    <3>. QED BY <3>1, <3>2, GoesOnReady DEF Ready, Exists
  <2>. QED BY <2>3, <2>4
<1>5. CASE AddSpecs(m)
  <2>1. PICK answer \in Answers(Exists(fid[m]), stable) : AddAnswered(m, answer)
    BY <1>5 DEF AddSpecs
  <2>2. Exists(fid[m])
    BY <1>5 DEF AddSpecs, Ready
  <2>3. CASE ~Completes(answer)
    BY <2>1, <2>2, <2>3, ReliableFacts, FinishFails, FailsReady DEF AddAnswered
  <2>4. CASE Completes(answer)
    BY <2>1, <2>4, SucceedsReady DEF AddAnswered, Result, SuccessReport
  <2>. QED BY <2>3, <2>4
<1>6. CASE Remove(m)
  <2>1. PICK answer \in Answers(Exists(fid[m]), stable) : RemoveAnswered(m, answer)
    BY <1>6 DEF Remove
  <2>2. Exists(fid[m])
    BY <1>6 DEF Remove, Ready
  <2>3. CASE ~Completes(answer)
    BY <2>1, <2>2, <2>3, ReliableFacts, FinishFails, FailsReady DEF RemoveAnswered
  <2>4. CASE Completes(answer)
    BY <2>1, <2>4, SucceedsReady DEF RemoveAnswered, SuccessReport
  <2>. QED BY <2>3, <2>4
<1>7. CASE ListNames(m)
  <2>1. PICK answer \in Answers(TRUE, stable) :
          IF ~Completes(answer) THEN Finish(m, Exception)
          ELSE IF nova # NoFlavor THEN Finish(m, "no_change")
          ELSE GoTo(m, "make") /\ UNCHANGED local
    BY <1>7 DEF ListNames
  <2>2. CASE ~Completes(answer)
    BY <2>1, <2>2, ReliableFacts, FailsReady DEF Fails, FailureReport
  <2>3. CASE nova # NoFlavor /\ Finish(m, "no_change")
    BY <2>3, SucceedsReady DEF SuccessReport
  <2>4. CASE nova = NoFlavor /\ GoTo(m, "make")
    <3>1. pc'[m] = "make" /\ nova' = NoFlavor
      BY <1>7, <2>4 DEF ListNames, ReadsFirst, GoTo, TypeOK, RunTypeOK
    <3>. QED BY <3>1, GoesOnReady DEF Ready
  <2>. QED BY <2>1, <2>2, <2>3, <2>4
<1>8. CASE Make(m)
  <2>1. PICK i \in NewId(m), answer \in Answers(nova = NoFlavor, stable) :
          MakeAnswered(m, i, answer)
    BY <1>8 DEF Make
  <2>2. nova = NoFlavor
    BY <1>8 DEF Make, Ready
  <2>3. CASE ~Completes(answer)
    BY <2>1, <2>2, <2>3, ReliableFacts, FailsReady DEF MakeAnswered, Fails, FailureReport
  <2>4. CASE Completes(answer)
    BY <2>1, <2>4, SucceedsReady DEF MakeAnswered, SuccessReport
  <2>. QED BY <2>3, <2>4
<1>. QED
  BY <1>1, <1>2, <1>3, <1>4, <1>5, <1>6, <1>7, <1>8 DEF Call

LEMMA StepReady == ReadyInv /\ TypeOK' /\ [Next]_vars => ReadyInv'
<1> SUFFICES ASSUME ReadyInv, [Next]_vars, NEW n \in Minion, clean'[n]
             PROVE  Ready(n)'
  BY DEF ReadyInv
<1>a. TypeOK /\ (clean[n] => Ready(n))
  BY DEF ReadyInv
<1>1. ASSUME NEW m \in Minion, Apply(m) \/ Call(m) \/ Abort(m)
      PROVE  Ready(n)'
  <2>1. CASE n # m
    BY <1>1, <1>a, <2>1, Frame DEF Ready, Exists
  <2>2. CASE n = m /\ Call(m)
    BY <1>1, <1>a, <2>2, OwnMark, CallReady DEF ReadyStep
  <2>3. CASE n = m /\ (Apply(m) \/ Abort(m))
    <3>1. pc'[m] \in {"idle", "list"}
      BY <1>a, <2>3 DEF Apply, Begin, Abort, Kill, Return, TypeOK, RunTypeOK
    <3>. QED BY <2>3, <3>1 DEF Ready
  <2>. QED BY <1>1, <2>1, <2>2, <2>3
<1>2. CASE Stabilize \/ UNCHANGED vars
  BY <1>2, <1>a DEF Stabilize, Settle, vars, run, local, Ready, Exists
<1>. QED
  BY <1>1, <1>2 DEF Next

\* A run of flavor_present (of either driver) or flavor_absent that nobody disturbs
\* fails only if a call does, and so only in a cloud that does not work.
THEOREM FailuresHaveCauses == Spec => FailureHasCause
<1>1. Init => \A n \in Minion : clean[n] => Ready(n)
  BY DEF Init, RunInit
<1>2. ReadyInv /\ [Next]_vars =>
        [\A m \in Minion : stable /\ Ends(m) /\ clean'[m] => report'[m] \in SuccessReport]_vars
  <2> SUFFICES ASSUME ReadyInv, Next, NEW m \in Minion, stable, Ends(m), clean'[m]
               PROVE  report'[m] \in SuccessReport
    OBVIOUS
  <2>a. TypeOK /\ (clean[m] => Ready(m))
    BY DEF ReadyInv
  <2>1. PICK n \in Minion : Apply(n) \/ Call(n) \/ Abort(n)
    BY DEF Next, Stabilize, Settle, Ends
  <2>2. n = m
    BY <2>1, <2>a, Frame DEF Ends
  <2>3. Call(m)
    BY <2>1, <2>2, <2>a DEF Apply, Begin, Abort, Kill, Ends
  <2>. QED BY <2>a, <2>3, OwnMark, CallReady DEF ReadyStep
<1>. QED
  BY <1>1, <1>2, StepReady, TypeCorrect, PTL DEF Spec, ReadyInv, FailureHasCause

-----------------------------------------------------------------------------
(***************************************************************************)
(* Minions that agree: the refinement of Convergence.                      *)
(***************************************************************************)

\* What a call made for request r may do to the nova.
FlavorStep(r) ==
  \/ nova' = nova
  \/ r.ensure = "absent" /\ nova' = NoFlavor
  \/ r.ensure = "exists" /\ nova = NoFlavor /\ nova' # NoFlavor
  \/ /\ r.ensure = "present"
     /\ nova = NoFlavor /\ nova' # NoFlavor /\ nova'.specs = NoSpecs
  \/ /\ r.ensure = "present"
     /\ nova # NoFlavor /\ nova' # NoFlavor /\ nova'.id = nova.id
     /\ \/ \E key \in Key \ KeysOf(r.specs) :
             nova'.specs = [nova.specs EXCEPT ![key] = Unset]
        \/ nova'.specs = Merge(nova.specs, r.specs)

\* The run does not delete what it asks for.
Considerate(n) == pc[n] = "delete" => toDelete[n] \cap KeysOf(want[n].specs) = {}

LEMMA CallEffect ==
  ASSUME TypeOK, NEW m \in Minion, PhaseFacts(m), Considerate(m),
         Apply(m) \/ Call(m) \/ Abort(m)
  PROVE  FlavorStep(want[m])
<1>1. CASE Apply(m) \/ List(m) \/ ListNames(m) \/ GetSpecs(m) \/ Abort(m)
  BY <1>1 DEF Apply, Begin, List, ListNames, ReadsFirst, GetSpecs, Reads, Abort, Kill, FlavorStep
<1>4. CASE DeleteSpec(m)
  <2>1. PICK key \in toDelete[m] :
          \E answer \in Answers(Exists(fid[m]) /\ nova.specs[key] # Unset, stable) :
            DeleteAnswered(m, key, answer)
    BY <1>4 DEF DeleteSpec
  <2>2. PICK answer \in Answers(Exists(fid[m]) /\ nova.specs[key] # Unset, stable) :
          DeleteAnswered(m, key, answer)
    BY <2>1
  <2>3. CASE Applied(answer)
    <3>1. Exists(fid[m]) /\ nova' = [nova EXCEPT !.specs[key] = Unset]
      BY <2>2, <2>3, AnswersFacts DEF DeleteAnswered, Becomes
    <3>2. nova \in [id : Id, size : Size, specs : Specs] /\ key \in Key
      BY <3>1 DEF Exists, TypeOK, RunTypeOK, Resource
    <3>3. /\ nova' \in [id : Id, size : Size, specs : Specs]
          /\ nova'.id = nova.id
          /\ nova'.specs = [nova.specs EXCEPT ![key] = Unset]
      BY <3>1, <3>2 DEF Specs
    <3>4. want[m].ensure = "present" /\ key \notin KeysOf(want[m].specs)
      BY <1>4, <2>1 DEF DeleteSpec, PhaseFacts, Considerate
    <3>. QED BY <3>1, <3>2, <3>3, <3>4, FlavorAssumption DEF FlavorStep, Exists
  <2>4. CASE ~Applied(answer)
    BY <2>2, <2>4 DEF DeleteAnswered, Becomes, FlavorStep
  <2>. QED BY <2>3, <2>4
<1>5. CASE Create(m)
  <2>1. PICK i \in NewId(m), answer \in Answers(nova = NoFlavor, stable) :
          CreateAnswered(m, i, answer)
    BY <1>5 DEF Create
  <2>2. CASE Applied(answer)
    <3>1. /\ nova = NoFlavor
          /\ nova' = [id |-> i, size |-> want[m].size, specs |-> NoSpecs]
      BY <2>1, <2>2, AnswersFacts DEF CreateAnswered, Becomes
    <3>2. i \in Id
      BY NewIdType
    <3>3. nova' # NoFlavor
      BY <3>1, <3>2, Shapes, WantType
    <3>. QED BY <1>5, <3>1, <3>3 DEF Create, PhaseFacts, FlavorStep
  <2>3. CASE ~Applied(answer)
    BY <2>1, <2>3 DEF CreateAnswered, Becomes, FlavorStep
  <2>. QED BY <2>2, <2>3
<1>6. CASE AddSpecs(m)
  <2>1. PICK answer \in Answers(Exists(fid[m]), stable) : AddAnswered(m, answer)
    BY <1>6 DEF AddSpecs
  <2>2. CASE Applied(answer)
    <3>1. Exists(fid[m])
      BY <2>1, <2>2, AnswersFacts
    <3>2. nova' = [nova EXCEPT !.specs = Merge(@, want[m].specs)]
      BY <2>1, <2>2 DEF AddAnswered, Becomes, Posted
    <3>3. nova \in [id : Id, size : Size, specs : Specs]
      BY <3>1 DEF Exists, TypeOK, RunTypeOK, Resource
    <3>4. /\ nova' \in [id : Id, size : Size, specs : Specs]
          /\ nova'.id = nova.id
          /\ nova'.specs = Merge(nova.specs, want[m].specs)
      BY <3>2, <3>3, Shapes, WantType
    <3>. QED BY <1>6, <3>1, <3>4, FlavorAssumption
             DEF AddSpecs, PhaseFacts, FlavorStep, Exists
  <2>3. CASE ~Applied(answer)
    BY <2>1, <2>3 DEF AddAnswered, Becomes, FlavorStep
  <2>. QED BY <2>2, <2>3
<1>7. CASE Remove(m)
  <2>1. PICK answer \in Answers(Exists(fid[m]), stable) : RemoveAnswered(m, answer)
    BY <1>7 DEF Remove
  <2>2. want[m].ensure = "absent"
    BY <1>7 DEF Remove, PhaseFacts
  <2>. QED BY <2>1, <2>2 DEF RemoveAnswered, Becomes, FlavorStep
<1>8. CASE Make(m)
  <2>1. PICK i \in NewId(m), answer \in Answers(nova = NoFlavor, stable) :
          MakeAnswered(m, i, answer)
    BY <1>8 DEF Make
  <2>2. CASE Applied(answer)
    <3>1. /\ nova = NoFlavor
          /\ nova' = [id |-> i, size |-> want[m].size, specs |-> NoSpecs]
      BY <2>1, <2>2, AnswersFacts DEF MakeAnswered, Becomes
    <3>2. nova' # NoFlavor
      BY <3>1, NewIdType, Shapes, WantType
    <3>. QED BY <1>8, <3>1, <3>2 DEF Make, PhaseFacts, FlavorStep
  <2>3. CASE ~Applied(answer)
    BY <2>1, <2>3 DEF MakeAnswered, Becomes, FlavorStep
  <2>. QED BY <2>2, <2>3
<1>. QED
  BY <1>1, <1>4, <1>5, <1>6, <1>7, <1>8 DEF Call

\* Such a step never adds a difference.
LEMMA EffectShrinks ==
  ASSUME TypeOK, NEW r \in Request, FlavorStep(r)
  PROVE  Pending(r)' \subseteq Pending(r)
<1>1. r.ensure \in {"present", "absent", "exists"} /\ r.specs \in Specs
  BY FlavorAssumption
<1>2. CASE nova = NoFlavor
  BY <1>1, <1>2 DEF FlavorStep, Pending, KeysOf, NoSpecs, Specs
<1>3. CASE nova # NoFlavor
  <2>1. nova.specs \in Specs
    BY <1>3 DEF TypeOK, RunTypeOK, Resource
  <2>. QED BY <1>1, <1>3, <2>1 DEF FlavorStep, Pending, KeysOf, Merge, Specs
<1>. QED BY <1>2, <1>3

\* The part of AgreedInv that speaks of run n.
AgreedFacts(n) ==
  /\ PhaseFacts(n)
  /\ TrueFacts(n)
  /\ pc[n] = "get" => Exists(fid[n])
  /\ Considerate(n)

\* A call that another run makes for the same request.
LEMMA OtherAgreedFacts ==
  ASSUME TypeOK, NEW n \in Minion, AgreedFacts(n), FlavorStep(want[n]),
         pc'[n] = pc[n], want'[n] = want[n], fid'[n] = fid[n],
         toDelete'[n] = toDelete[n], report'[n] = report[n]
  PROVE  AgreedFacts(n)'
<1>1. PhaseFacts(n)' /\ Considerate(n)'
  BY DEF AgreedFacts, PhaseFacts, Considerate
<1>2. report'[n] \in SuccessReport => Pending(want[n])' = {}
  <2>1. want[n] \in Request
    BY WantType
  <2>. QED BY <2>1, EffectShrinks DEF AgreedFacts, TrueFacts, Pending
<1>3. ASSUME pc[n] \in {"get", "delete", "fill"}
      PROVE  /\ Exists(fid[n])'
             /\ SpecsToDelete(nova'.specs, want[n].specs)
                  \subseteq SpecsToDelete(nova.specs, want[n].specs)
  <2>1. nova # NoFlavor /\ nova.id = fid[n]
    BY <1>3 DEF AgreedFacts, TrueFacts, NothingForgotten, Exists
  <2>2. want[n].ensure = "present"
    BY <1>3 DEF AgreedFacts, PhaseFacts
  <2>3. nova.specs \in Specs
    BY <2>1 DEF TypeOK, RunTypeOK, Resource
  <2>4. nova' # NoFlavor /\ nova'.id = nova.id
    BY <2>1, <2>2 DEF FlavorStep
  <2>5. \/ nova'.specs = nova.specs
        \/ \E key \in Key : nova'.specs = [nova.specs EXCEPT ![key] = Unset]
        \/ nova'.specs = Merge(nova.specs, want[n].specs)
    BY <2>1, <2>2 DEF FlavorStep
  <2>6. SpecsToDelete(nova'.specs, want[n].specs)
          \subseteq SpecsToDelete(nova.specs, want[n].specs)
    BY <2>3, <2>5, WantType DEF SpecsToDelete, KeysOf, Merge, Specs
  <2>. QED BY <2>1, <2>4, <2>6 DEF Exists
<1>4. pc'[n] \in {"delete", "fill"} => NothingForgotten(n)'
  BY <1>3 DEF AgreedFacts, TrueFacts, NothingForgotten
<1>. QED
  BY <1>1, <1>2, <1>3, <1>4 DEF AgreedFacts, TrueFacts, Exists, Pending

\* A call of the run itself.
LEMMA OwnAgreedFacts ==
  ASSUME TypeOK, NEW m \in Minion, AgreedFacts(m), Apply(m) \/ Call(m) \/ Abort(m)
  PROVE  AgreedFacts(m)'
<1>1. PhaseFacts(m)' /\ TrueFacts(m)'
  BY OwnRunFacts DEF AgreedFacts
<1>2. pc'[m] = "get" => Exists(fid[m])'
  <2>1. CASE List(m)
    BY <2>1 DEF List, ReadsFirst, Finish, Return, Forget, GoTo, TypeOK, RunTypeOK, Resource, Exists
  <2>2. CASE ~List(m)
    BY <2>2 DEF Apply, Begin, Call, ListNames, Make, MakeAnswered, GetSpecs, Reads, DeleteSpec, DeleteAnswered, Create,
          CreateAnswered, AddSpecs, AddAnswered, Remove, RemoveAnswered, Abort, Kill,
          Finish, Return, Forget, GoTo, TypeOK, RunTypeOK, Resource
  <2>. QED BY <2>1, <2>2
<1>3. Considerate(m)'
  <2>1. CASE Apply(m)
    BY <2>1 DEF Apply, Begin, TypeOK, RunTypeOK, Resource, Considerate
  <2>2. CASE List(m)
    BY <2>2 DEF List, ReadsFirst, Finish, Return, Forget, GoTo, TypeOK, RunTypeOK, Resource, Considerate
  <2>3. CASE GetSpecs(m)
    <3>1. pc'[m] = "delete" => /\ want'[m] = want[m]
                               /\ toDelete'[m] = SpecsToDelete(nova.specs, want[m].specs)
      BY <2>3 DEF GetSpecs, Reads, Finish, Return, Forget, GoTo, TypeOK, RunTypeOK, Resource
    <3>. QED BY <3>1 DEF Considerate, SpecsToDelete
  <2>4. CASE DeleteSpec(m)
    <3>1. want'[m] = want[m] /\ toDelete'[m] \subseteq toDelete[m]
      BY <2>4 DEF DeleteSpec, DeleteAnswered, Finish, Return, Forget, TypeOK, RunTypeOK, Resource
    <3>. QED BY <2>4, <3>1 DEF DeleteSpec, AgreedFacts, Considerate
  <2>5. CASE Create(m) \/ AddSpecs(m) \/ Remove(m) \/ Abort(m) \/ ListNames(m) \/ Make(m)
    BY <2>5 DEF ListNames, Make, MakeAnswered, Create, CreateAnswered, AddSpecs, AddAnswered, Remove, RemoveAnswered,
          Abort, Kill, Finish, Return, Forget, GoTo, TypeOK, RunTypeOK, Resource, Considerate
  <2>. QED BY <2>1, <2>2, <2>3, <2>4, <2>5 DEF Call
<1>. QED
  BY <1>1, <1>2, <1>3 DEF AgreedFacts

LEMMA AllWantGoal ==
  ASSUME TypeOK, Agreement, NEW m \in Minion
  PROVE  want[m] = Goal /\ Goal \in Request
BY WantIsGoal, WantType DEF TypeOK, RunTypeOK

\* The requests in use do not change.
LEMMA PillarFixed == [Next]_vars => pillar' = pillar
BY DEF Next, vars, run, Stabilize, Settle, Apply, Begin, Abort, Kill, Call, List, ReadsFirst,
       GetSpecs, Reads, DeleteSpec, DeleteAnswered, Create, CreateAnswered, AddSpecs,
       AddAnswered, Remove, RemoveAnswered, ListNames, Make, MakeAnswered, Becomes

\* What every step keeps, and the step of Convergence that it is.
LEMMA StepAgreed ==
  ASSUME TypeOK, TypeOK', Agreement, \A n \in Minion : AgreedFacts(n), [Next]_vars
  PROVE  /\ \A n \in Minion : AgreedFacts(n)'
         /\ Pending(Goal)' \subseteq Pending(Goal)
<1>g. Goal' = Goal
  BY PillarFixed DEF Goal
<1>1. ASSUME NEW m \in Minion, Apply(m) \/ Call(m) \/ Abort(m)
      PROVE  /\ \A n \in Minion : AgreedFacts(n)'
             /\ Pending(Goal)' \subseteq Pending(Goal)
  <2>1. FlavorStep(want[m])
    BY <1>1, CallEffect DEF AgreedFacts
  <2>2. FlavorStep(Goal)
    BY <2>1, AllWantGoal
  <2>3. ASSUME NEW n \in Minion, n # m PROVE AgreedFacts(n)'
    <3>1. FlavorStep(want[n])
      BY <2>2, AllWantGoal
    <3>. QED BY <1>1, <2>3, <3>1, Frame, OtherAgreedFacts
  <2>4. AgreedFacts(m)'
    BY <1>1, OwnAgreedFacts
  <2>5. Pending(Goal)' \subseteq Pending(Goal)
    <3>1. Goal \in Request
      BY AllWantGoal
    <3>2. \A r \in Request : FlavorStep(r) => Pending(r)' \subseteq Pending(r)
      BY EffectShrinks
    <3>. QED BY <1>g, <2>2, <3>1, <3>2 DEF Pending
  <2>. QED BY <2>3, <2>4, <2>5
<1>2. CASE Stabilize \/ UNCHANGED vars
  BY <1>2, <1>g DEF Stabilize, Settle, vars, run, local, AgreedFacts, PhaseFacts, TrueFacts, Considerate,
              NothingForgotten, Exists, Pending
<1>. QED
  BY <1>1, <1>2 DEF Next

LEMMA InitAgreed == Init => \A n \in Minion : AgreedFacts(n)
BY DEF Init, RunInit, AgreedFacts, PhaseFacts, TrueFacts, Considerate, NoReport, SuccessReport

\* Minions that agree may run at the same time: a report of success is true
\* from the moment it is made, whatever the others do.
THEOREM AgreedReportsAreTrue == Spec => []AgreedReportIsTrue
<1> DEFINE I == Agreement => \A n \in Minion : AgreedFacts(n)
<1>1. Init => I
  BY InitAgreed
<1>2. TypeOK /\ TypeOK' /\ I /\ [Next]_vars => I'
  BY StepAgreed, PillarFixed DEF Agreement
<1>3. TypeOK /\ I => AgreedReportIsTrue
  BY AllWantGoal DEF AgreedReportIsTrue, AgreedFacts, TrueFacts
<1>. QED
  BY <1>1, <1>2, <1>3, TypeCorrect, PTL DEF Spec

\* flavor_present and flavor_absent, with stale readings, lost answers, kills and
\* concurrent runs, implement Convergence: no call makes wrong what was right.
THEOREM ImplementsConvergence == Spec => Converging
<1> DEFINE I == Agreement => \A n \in Minion : AgreedFacts(n)
<1>1. Init => I
  BY InitAgreed
<1>2. TypeOK /\ TypeOK' /\ I /\ [Next]_vars => I'
  BY StepAgreed, PillarFixed DEF Agreement
<1>3. Init => C!Init
  BY DEF C!Init, AgreedPending, Pending, KeysOf
<1>4. TypeOK /\ TypeOK' /\ I /\ [Next]_vars => [C!Fix]_AgreedPending
  <2> SUFFICES ASSUME TypeOK, TypeOK', I, [Next]_vars, AgreedPending' # AgreedPending
               PROVE  C!Fix
    OBVIOUS
  <2>1. Agreement' <=> Agreement
    BY PillarFixed DEF Agreement
  <2>2. AgreedPending' \subseteq AgreedPending
    BY <2>1, StepAgreed DEF AgreedPending
  <2>. QED BY <2>2 DEF C!Fix
<1>. QED
  BY <1>1, <1>2, <1>3, <1>4, TypeCorrect, PTL DEF Spec, Converging, C!Safe

=============================================================================

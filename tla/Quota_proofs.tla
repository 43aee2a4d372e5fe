---------------------------- MODULE Quota_proofs ----------------------------
(***************************************************************************)
(* Proofs about Quota for any number of minions, limits, values and        *)
(* requests.                                                               *)
(***************************************************************************)
EXTENDS Quota, TLAPS

-----------------------------------------------------------------------------
\* Reports of each kind, and the steps that all state functions share.
LEMMA FailedFacts ==
  /\ \A answer : Failed(answer, "find_failed") \in FailureReport
  /\ \A answer : Failed(answer, "create_failed") \in FailureReport
  /\ \A answer : Failed(answer, "update_failed") \in FailureReport
  /\ \A answer : Failed(answer, "delete_failed") \in FailureReport
  /\ FailureReport \subseteq Report
  /\ SuccessReport \subseteq Report
  /\ NoReport \in Report
  /\ (FailureReport \cup {NoReport}) \cap SuccessReport = {}
BY DEF Failed, FailureReport, Exception, Report, SuccessReport, NoReport

LEMMA CommonType ==
  ASSUME NEW resources, NEW calls, "list" \in calls, RunTypeOK(resources, calls),
         \/ \E m \in Minion, request \in pillar : Begin(m, request)
         \/ \E m \in Minion : Kill(m)
         \/ Settle
         \/ UNCHANGED run
  PROVE  RunTypeOK(resources, calls)'
<1> USE DEF RunTypeOK
<1>1. CASE \E m \in Minion, request \in pillar : Begin(m, request)
  BY <1>1, FailedFacts DEF Begin
<1>2. CASE \E m \in Minion : Kill(m)
  BY <1>2, FailedFacts DEF Kill, Return
<1>3. CASE Settle
  BY <1>3 DEF Settle
<1>4. CASE UNCHANGED run
  BY <1>4 DEF run
<1>. QED
  BY <1>1, <1>2, <1>3, <1>4

-----------------------------------------------------------------------------
\* Run n keeps to the calls of the state function it applies, and whatever it has
\* noted down comes from its request.
PhaseFacts(n) ==
  /\ report[n] # NoReport => pc[n] = "idle"
  /\ pc[n] = "update" => want[n].ensure = "present"
  /\ pc[n] = "reset" => want[n].ensure = "absent"
  /\ pc[n] \in {"next", "put"} => want[n].ensure = "one_by_one"
  /\ left[n] \subseteq Named(want[n].limits)
  /\ \A l \in Limit : changes[n][l] # Unset => changes[n][l] = want[n].limits[l]
  /\ pc[n] \in {"idle", "list"} => changes[n] = Nothing /\ left[n] = {}

\* Every limit that is not as requested is still among those the run will write.
TrueFacts(n) ==
  /\ pc[n] = "update" =>
       \A l \in Named(want[n].limits) : nova[l] = want[n].limits[l] \/ changes[n][l] # Unset
  /\ pc[n] \in {"next", "put"} =>
       \A l \in Named(want[n].limits) \ left[n] : nova[l] = want[n].limits[l]
  /\ report[n] \in SuccessReport /\ want[n].ensure # "absent"
       => Differing(want[n].limits) = {}

IInv ==
  TypeOK /\ \A n \in Minion : PhaseFacts(n) /\ (clean[n] \/ Compatible => TrueFacts(n))

LEMMA WantType ==
  ASSUME TypeOK, NEW m \in Minion
  PROVE  /\ want[m].ensure \in {"present", "absent", "one_by_one"}
         /\ want[m].limits \in Asked
         /\ want[m] \in pillar
<1>1. want[m] \in pillar /\ want[m] \in Request
  BY PillarAssumption DEF TypeOK, RunTypeOK
<1>. QED
  BY <1>1, QuotaAssumption

LEMMA Shapes ==
  /\ Nothing \in Asked
  /\ \A quota \in Resource, asked \in Asked :
       /\ Changes(quota, asked) \in Asked
       /\ Put(quota, asked) \in Resource
BY QuotaAssumption DEF Nothing, Asked, Changes, Put, Resource

-----------------------------------------------------------------------------
\* What a step of run m leaves of the run itself ...
OwnTypes ==
  /\ pc' \in [Minion -> {"idle", "list", "update", "reset", "next", "put"}]
  /\ want' = want
  /\ report' \in [Minion -> Report]
  /\ changes' \in [Minion -> Asked]
  /\ left' \in [Minion -> SUBSET Limit]

OwnFacts(m) == OwnTypes /\ PhaseFacts(m)' /\ (TrueFacts(m) => TrueFacts(m)')

\* ... and of the quota: a limit changes to what the run was asked for, if at all.
QuotaStep(m) ==
  /\ nova' \in Resource
  /\ \A l \in Limit :
       nova'[l] = nova[l]
         \/ (l \in Named(want[m].limits) /\ nova'[l] = want[m].limits[l])

\* Returning, without success or rightly with it.
LEMMA FinishOwn ==
  ASSUME TypeOK, NEW m \in Minion, NEW result \in Report, Finish(m, result),
         \/ result \notin SuccessReport
         \/ want[m].ensure = "absent"
         \/ TrueFacts(m) => \A l \in Named(want[m].limits) : nova'[l] = want[m].limits[l]
  PROVE  OwnFacts(m)
<1>1. OwnTypes
  BY Shapes DEF Finish, Return, Forget, TypeOK, RunTypeOK, OwnTypes
<1>2. /\ pc'[m] = "idle" /\ report'[m] = result /\ want' = want
      /\ changes'[m] = Nothing /\ left'[m] = {}
  BY DEF Finish, Return, Forget, TypeOK, RunTypeOK
<1>3. PhaseFacts(m)'
  BY <1>2 DEF PhaseFacts, Nothing
<1>4. TrueFacts(m) => TrueFacts(m)'
  BY <1>2 DEF TrueFacts, Differing
<1>. QED
  BY <1>1, <1>3, <1>4 DEF OwnFacts

LEMMA FailsOwn ==
  ASSUME TypeOK, NEW m \in Minion, NEW result \in FailureReport \cup {NoReport},
         Finish(m, result)
  PROVE  OwnFacts(m)
BY FinishOwn, FailedFacts

\* Going on in the loop over the limits, or leaving it.
LEMMA ThroughOwn ==
  ASSUME TypeOK, NEW m \in Minion, PhaseFacts(m), pc[m] # "idle",
         want[m].ensure = "one_by_one",
         NEW all \in SUBSET Named(want[m].limits), NEW l \in all, Through(m, l, all),
         TrueFacts(m) => \A k \in Named(want[m].limits) \ (all \ {l}) :
                           nova'[k] = want[m].limits[k]
  PROVE  OwnFacts(m)
<1>1. CASE all = {l}
  BY <1>1, FinishOwn, FailedFacts DEF Through, SuccessReport
<1>2. CASE all # {l}
  <2>1. /\ pc' = [pc EXCEPT ![m] = "next"] /\ UNCHANGED <<want, report, changes>>
        /\ left' = [left EXCEPT ![m] = all \ {l}]
    BY <1>2 DEF Through, GoTo
  <2>2. OwnTypes
    BY <2>1 DEF OwnTypes, TypeOK, RunTypeOK, Named
  <2>3. pc'[m] = "next" /\ left'[m] = all \ {l}
    BY <2>1 DEF TypeOK, RunTypeOK
  <2>4. report[m] = NoReport
    BY DEF PhaseFacts
  <2>5. PhaseFacts(m)'
    BY <2>1, <2>3, <2>4 DEF PhaseFacts
  <2>6. TrueFacts(m) => TrueFacts(m)'
    BY <2>1, <2>3, <2>4 DEF TrueFacts, NoReport, SuccessReport
  <2>. QED BY <2>2, <2>5, <2>6 DEF OwnFacts
<1>. QED
  BY <1>1, <1>2

\* quota_get of one limit, in the first round or a later one.
LEMMA GetOwn ==
  ASSUME TypeOK, NEW m \in Minion, PhaseFacts(m), pc[m] # "idle",
         want[m].ensure = "one_by_one", nova' = nova,
         NEW all \in SUBSET Named(want[m].limits), NEW l \in all, NEW answer,
         GetAnswered(m, l, all, answer),
         TrueFacts(m) => \A k \in Named(want[m].limits) \ all : nova[k] = want[m].limits[k]
  PROVE  OwnFacts(m)
<1>1. CASE ~Completes(answer)
  BY <1>1, FailsOwn, FailedFacts DEF GetAnswered, FailureReport
<1>2. CASE Completes(answer) /\ nova[l] = want[m].limits[l]
  <2>1. Through(m, l, all)
    BY <1>2 DEF GetAnswered
  <2>2. TrueFacts(m) => \A k \in Named(want[m].limits) \ (all \ {l}) :
                          nova'[k] = want[m].limits[k]
    BY <1>2
  <2>. QED BY <2>1, <2>2, ThroughOwn
<1>3. CASE Completes(answer) /\ nova[l] # want[m].limits[l]
  <2>1. /\ pc' = [pc EXCEPT ![m] = "put"] /\ UNCHANGED <<want, report>>
        /\ changes' = [changes EXCEPT ![m][l] = want[m].limits[l]]
        /\ left' = [left EXCEPT ![m] = all]
    BY <1>3 DEF GetAnswered, GoTo
  <2>2. l \in Limit /\ want[m].limits \in Asked
    BY WantType DEF Named
  <2>3. OwnTypes
    BY <2>1, <2>2 DEF OwnTypes, TypeOK, RunTypeOK, Named, Asked
  <2>4. /\ pc'[m] = "put" /\ left'[m] = all
        /\ changes'[m] = [changes[m] EXCEPT ![l] = want[m].limits[l]]
    BY <2>1 DEF TypeOK, RunTypeOK
  <2>5. report[m] = NoReport /\ changes[m] \in Asked
    BY DEF PhaseFacts, TypeOK
  <2>6. PhaseFacts(m)'
    BY <2>1, <2>4, <2>5 DEF PhaseFacts, Asked
  <2>7. TrueFacts(m) => TrueFacts(m)'
    BY <2>1, <2>4, <2>5 DEF TrueFacts, NoReport, SuccessReport
  <2>. QED BY <2>3, <2>6, <2>7 DEF OwnFacts
<1>. QED
  BY <1>1, <1>2, <1>3

LEMMA ListOwn ==
  ASSUME TypeOK, NEW m \in Minion, PhaseFacts(m), List(m)
  PROVE  OwnFacts(m)
<1>1. nova' = nova /\ report[m] = NoReport /\ pc[m] = "list"
  BY DEF List, ReadsFirst, PhaseFacts
<1>f. CASE \E result \in FailureReport : Finish(m, result)
  BY <1>f, FailsOwn
<1>2. CASE want[m].ensure = "absent" /\ GoTo(m, "reset") /\ UNCHANGED local
  BY <1>1, <1>2 DEF GoTo, local, OwnFacts, OwnTypes, TypeOK, RunTypeOK,
                    PhaseFacts, TrueFacts, NoReport, SuccessReport
<1>3. ASSUME want[m].ensure = "present", NEW answer, Compare(m, answer)
      PROVE  OwnFacts(m)
  <2>1. CASE ~Completes(answer)
    BY <1>f, <1>3, <2>1, FailedFacts DEF Compare
  <2>. DEFINE new == Changes(nova, want[m].limits)
  <2>a. /\ new \in Asked
        /\ \A l \in Limit : new[l] = IF want[m].limits[l] # Unset /\ nova[l] # want[m].limits[l]
                                     THEN want[m].limits[l] ELSE Unset
    BY Shapes, WantType DEF Changes, TypeOK, RunTypeOK
  <2>2. CASE Completes(answer) /\ Named(new) # {}
    <3>1. /\ pc' = [pc EXCEPT ![m] = "update"] /\ UNCHANGED <<want, report, left>>
          /\ changes' = [changes EXCEPT ![m] = new]
      BY <1>3, <2>2 DEF Compare, GoTo
    <3>. HIDE DEF new
    <3>2. OwnTypes
      BY <2>a, <3>1 DEF OwnTypes, TypeOK, RunTypeOK
    <3>3. pc'[m] = "update" /\ changes'[m] = new
      BY <3>1 DEF TypeOK, RunTypeOK
    <3>4. PhaseFacts(m)'
      BY <1>1, <1>3, <2>a, <3>1, <3>3 DEF PhaseFacts
    <3>5. TrueFacts(m)'
      BY <1>1, <2>a, <3>1, <3>3 DEF TrueFacts, Named, NoReport, SuccessReport
    <3>. QED BY <3>2, <3>4, <3>5 DEF OwnFacts
  <2>3. CASE Completes(answer) /\ Named(new) = {}
    <3>1. Finish(m, "no_change")
      BY <1>3, <2>3 DEF Compare
    <3>2. \A l \in Named(want[m].limits) : nova[l] = want[m].limits[l]
      <4>. HIDE DEF new
      <4>. QED BY <2>a, <2>3 DEF Named
    <3>. QED BY <1>1, <3>1, <3>2, FinishOwn, FailedFacts DEF SuccessReport
  <2>. QED BY <2>1, <2>2, <2>3
<1>. QED
  BY <1>f, <1>2, <1>3 DEF List, FailureReport

\* Every call of a run.
LEMMA CallOwn ==
  ASSUME TypeOK, NEW m \in Minion, PhaseFacts(m), Call(m)
  PROVE  OwnFacts(m) /\ QuotaStep(m)
<1>q. nova' = nova => QuotaStep(m)
  BY DEF QuotaStep, TypeOK, RunTypeOK
<1>1. CASE List(m)
  BY <1>1, <1>q, ListOwn DEF List, ReadsFirst
<1>2. CASE Update(m)
  <2>1. PICK answer \in Answers(TRUE, stable) : UpdateAnswered(m, answer)
    BY <1>2 DEF Update
  <2>2. changes[m] \in Asked /\ nova \in Resource
    BY DEF TypeOK, RunTypeOK
  <2>3. nova' = nova \/ nova' = Put(nova, changes[m])
    BY <2>1 DEF UpdateAnswered, Becomes, Posted
  <2>4. QuotaStep(m)
    <3>1. nova' \in Resource
      BY <2>2, <2>3, Shapes
    <3>2. ASSUME NEW l \in Limit
          PROVE  nova'[l] = nova[l]
                   \/ (l \in Named(want[m].limits) /\ nova'[l] = want[m].limits[l])
      <4>1. nova'[l] = nova[l] \/ (changes[m][l] # Unset /\ nova'[l] = changes[m][l])
        BY <2>3 DEF Put
      <4>. QED BY <4>1 DEF PhaseFacts, Named
    <3>. QED BY <3>1, <3>2 DEF QuotaStep
  <2>5. CASE ~Completes(answer)
    BY <2>1, <2>4, <2>5, FailsOwn, FailedFacts DEF UpdateAnswered
  <2>6. CASE Completes(answer)
    <3>1. nova' = Put(nova, changes[m]) /\ Finish(m, "updated")
      BY <2>1, <2>6 DEF UpdateAnswered, Becomes, Posted, Applied, Completes
    <3>2. pc[m] = "update"
      BY <1>2 DEF Update
    <3>3. TrueFacts(m) => \A l \in Named(want[m].limits) : nova'[l] = want[m].limits[l]
      BY <3>1, <3>2 DEF TrueFacts, PhaseFacts, Put, Named
    <3>. QED BY <2>4, <3>1, <3>3, FinishOwn, FailedFacts DEF SuccessReport
  <2>. QED BY <2>5, <2>6
<1>3. CASE Reset(m)
  <2>1. nova' = nova /\ want[m].ensure = "absent"
    BY <1>3 DEF Reset, Reads, PhaseFacts
  <2>2. \E result \in Report : Finish(m, result)
    BY <1>3, FailedFacts DEF Reset, SuccessReport
  <2>. QED BY <1>q, <2>1, <2>2, FinishOwn
<1>4. CASE GetFirst(m)
  <2>1. PICK l \in Named(want[m].limits), answer \in Answers(TRUE, stable) :
          GetAnswered(m, l, Named(want[m].limits), answer)
    BY <1>4 DEF GetFirst
  <2>2. nova' = nova /\ want[m].ensure = "one_by_one" /\ pc[m] # "idle"
    BY <1>4 DEF GetFirst, ReadsFirst
  <2>. QED BY <1>q, <2>1, <2>2, GetOwn
<1>5. CASE GetNext(m)
  <2>1. PICK l \in left[m], answer \in Answers(TRUE, stable) :
          GetAnswered(m, l, left[m], answer)
    BY <1>5 DEF GetNext
  <2>2. /\ nova' = nova /\ want[m].ensure = "one_by_one" /\ pc[m] = "next"
        /\ left[m] \in SUBSET Named(want[m].limits)
    BY <1>5 DEF GetNext, Reads, PhaseFacts
  <2>3. TrueFacts(m) => \A k \in Named(want[m].limits) \ left[m] : nova[k] = want[m].limits[k]
    BY <2>2 DEF TrueFacts
  <2>. QED BY <1>q, <2>1, <2>2, <2>3, GetOwn
<1>6. CASE PutOne(m)
  <2>1. PICK l \in left[m] \cap Named(changes[m]), answer \in Answers(TRUE, stable) :
          PutAnswered(m, l, answer)
    BY <1>6 DEF PutOne
  <2>2. /\ want[m].ensure = "one_by_one" /\ pc[m] = "put"
        /\ left[m] \in SUBSET Named(want[m].limits)
        /\ l \in Named(want[m].limits) /\ l \in Limit
    BY <1>6 DEF PutOne, PhaseFacts, Named
  <2>3. nova \in Resource /\ want[m].limits \in Asked
    BY WantType DEF TypeOK, RunTypeOK
  <2>4. nova' = nova \/ nova' = [nova EXCEPT ![l] = want[m].limits[l]]
    BY <2>1 DEF PutAnswered, Becomes
  <2>5. QuotaStep(m)
    BY <2>2, <2>3, <2>4 DEF QuotaStep, Resource, Named, Asked
  <2>6. CASE ~Completes(answer)
    BY <2>1, <2>5, <2>6, FailsOwn, FailedFacts DEF PutAnswered, FailureReport
  <2>7. CASE Completes(answer)
    <3>1. nova' = [nova EXCEPT ![l] = want[m].limits[l]] /\ Through(m, l, left[m])
      BY <2>1, <2>7 DEF PutAnswered, Becomes, Applied, Completes
    <3>2. TrueFacts(m) => \A k \in Named(want[m].limits) \ (left[m] \ {l}) :
                            nova'[k] = want[m].limits[k]
      BY <2>2, <2>3, <3>1 DEF TrueFacts, Resource, Named
    <3>3. l \in left[m] /\ pc[m] # "idle"
      BY <2>2
    <3>. QED BY <2>2, <2>5, <3>1, <3>2, <3>3, ThroughOwn
  <2>. QED BY <2>6, <2>7
<1>. QED
  BY <1>1, <1>2, <1>3, <1>4, <1>5, <1>6 DEF Call

\* A call leaves the other runs alone, and tells them if it changes the quota.
LEMMA CallFrame ==
  ASSUME TypeOK, NEW m \in Minion, Call(m)
  PROVE  /\ pillar' = pillar /\ stable' = stable
         /\ clean' \in [Minion -> BOOLEAN] /\ touched' \in [Minion -> BOOLEAN]
         /\ \A n \in Minion \ {m} :
              /\ pc'[n] = pc[n] /\ report'[n] = report[n]
              /\ changes'[n] = changes[n] /\ left'[n] = left[n]
              /\ clean'[n] => clean[n] /\ nova' = nova
         /\ pc[m] = "list" \/ (clean'[m] => clean[m])
<1> USE DEF TypeOK, RunTypeOK, Finish, Return, Forget, GoTo, local
<1>1. CASE List(m)
  BY <1>1 DEF List, Compare, ReadsFirst
<1>2. CASE Update(m)
  <2>1. PICK answer : UpdateAnswered(m, answer)
    BY <1>2 DEF Update
  <2>. QED BY <2>1 DEF UpdateAnswered, Becomes
<1>3. CASE Reset(m)
  BY <1>3 DEF Reset, Reads
<1>4. CASE GetFirst(m)
  BY <1>4 DEF GetFirst, GetAnswered, Through, ReadsFirst
<1>5. CASE GetNext(m)
  BY <1>5 DEF GetNext, GetAnswered, Through, Reads
<1>6. CASE PutOne(m)
  <2>1. PICK l, answer : PutAnswered(m, l, answer)
    BY <1>6 DEF PutOne
  <2>2. \A n \in Minion \ {m} : clean'[n] => clean[n] /\ nova' = nova
    BY <2>1 DEF PutAnswered, Becomes
  <2>. QED BY <2>1, <2>2 DEF PutAnswered, Through, Becomes
<1>. QED
  BY <1>1, <1>2, <1>3, <1>4, <1>5, <1>6 DEF Call

-----------------------------------------------------------------------------
\* If no two requests contradict each other, the step of one run is right for
\* every other request.
LEMMA StepIsHarmless ==
  ASSUME TypeOK, NEW m \in Minion, QuotaStep(m), Compatible, NEW r \in pillar
  PROVE  \A l \in Named(r.limits) : nova'[l] = nova[l] \/ nova'[l] = r.limits[l]
<1>1. want[m] \in pillar
  BY WantType
<1>2. \A l \in Named(r.limits) \cap Named(want[m].limits) : r.limits[l] = want[m].limits[l]
  BY <1>1 DEF Compatible
<1>. QED
  BY <1>2 DEF QuotaStep, Named

LEMMA PillarFixed == TypeOK /\ [Next]_vars => pillar' = pillar
BY CallFrame DEF Next, vars, run, Apply, Begin, Abort, Kill, Stabilize, Settle

LEMMA StepInv == IInv /\ [Next]_vars => IInv'
<1> SUFFICES ASSUME IInv, [Next]_vars PROVE IInv'
  OBVIOUS
<1>a. TypeOK /\ \A n \in Minion : PhaseFacts(n) /\ (clean[n] \/ Compatible => TrueFacts(n))
  BY DEF IInv
<1>c. Compatible' <=> Compatible
  BY <1>a, PillarFixed DEF Compatible
<1>1. ASSUME NEW m \in Minion, Call(m) PROVE IInv'
  <2>1. OwnFacts(m) /\ QuotaStep(m)
    BY <1>1, <1>a, CallOwn
  <2>2. TypeOK'
    BY <1>1, <1>a, <2>1, CallFrame DEF TypeOK, RunTypeOK, OwnFacts, OwnTypes, QuotaStep
  <2>3. ASSUME NEW n \in Minion, n # m
        PROVE  PhaseFacts(n)' /\ (clean'[n] \/ Compatible' => TrueFacts(n)')
    <3>1. /\ pc'[n] = pc[n] /\ report'[n] = report[n] /\ want' = want
          /\ changes'[n] = changes[n] /\ left'[n] = left[n]
          /\ clean'[n] => clean[n] /\ nova' = nova
      BY <1>1, <1>a, <2>1, <2>3, CallFrame DEF OwnFacts, OwnTypes
    <3>2. PhaseFacts(n)'
      BY <1>a, <3>1 DEF PhaseFacts
    <3>3. CASE clean'[n]
      BY <1>a, <3>1, <3>2, <3>3 DEF TrueFacts, Differing
    <3>4. CASE Compatible
      <4>1. \A l \in Named(want[n].limits) : nova'[l] = nova[l] \/ nova'[l] = want[n].limits[l]
        BY <1>a, <2>1, <3>4, WantType, StepIsHarmless
      <4>2. TrueFacts(n)
        BY <1>a, <3>4
      <4>. QED BY <3>1, <3>2, <4>1, <4>2 DEF TrueFacts, Differing, Named
    <3>. QED BY <1>c, <3>2, <3>3, <3>4
  <2>4. clean'[m] \/ Compatible' => TrueFacts(m)'
    <3>1. pc[m] = "list" => TrueFacts(m)
      BY <1>a DEF PhaseFacts, TrueFacts, NoReport, SuccessReport
    <3>. QED BY <1>1, <1>a, <1>c, <2>1, <3>1, CallFrame DEF OwnFacts
  <2>. QED BY <2>1, <2>2, <2>3, <2>4 DEF IInv, OwnFacts
<1>2. ASSUME NEW m \in Minion, Apply(m) PROVE IInv'
  <2>1. TypeOK'
    BY <1>2, <1>a, CommonType DEF Apply, local, TypeOK
  <2>2. ASSUME NEW n \in Minion PROVE PhaseFacts(n)' /\ (clean'[n] \/ Compatible' => TrueFacts(n)')
    <3>1. CASE n = m
      BY <1>2, <1>a, <3>1
         DEF Apply, Begin, local, TypeOK, RunTypeOK, PhaseFacts, TrueFacts, Nothing, NoReport, SuccessReport
    <3>2. CASE n # m
      BY <1>2, <1>a, <1>c, <3>2
         DEF Apply, Begin, local, TypeOK, RunTypeOK, PhaseFacts, TrueFacts, Differing
    <3>. QED BY <3>1, <3>2
  <2>. QED BY <2>1, <2>2 DEF IInv
<1>3. ASSUME NEW m \in Minion, Abort(m) PROVE IInv'
  <2>1. OwnFacts(m)
    BY <1>3, <1>a, FailsOwn DEF Abort, Kill, Finish
  <2>2. TypeOK'
    BY <1>3, <1>a, <2>1 DEF Abort, Kill, Return, TypeOK, RunTypeOK, OwnFacts, OwnTypes
  <2>3. ASSUME NEW n \in Minion PROVE PhaseFacts(n)' /\ (clean'[n] \/ Compatible' => TrueFacts(n)')
    <3>1. CASE n = m
      BY <1>3, <1>a, <1>c, <2>1, <3>1 DEF Abort, Kill, OwnFacts
    <3>2. CASE n # m
      BY <1>3, <1>a, <1>c, <3>2
         DEF Abort, Kill, Return, Forget, TypeOK, RunTypeOK, PhaseFacts, TrueFacts, Differing
    <3>. QED BY <3>1, <3>2
  <2>. QED BY <2>2, <2>3 DEF IInv
<1>4. CASE Stabilize \/ UNCHANGED vars
  <2>1. TypeOK'
    BY <1>4, <1>a, CommonType DEF Stabilize, vars, local, TypeOK
  <2>. QED BY <1>4, <1>a, <1>c, <2>1
           DEF Stabilize, Settle, vars, run, local, IInv, PhaseFacts, TrueFacts, Differing
<1>. QED
  BY <1>1, <1>2, <1>3, <1>4 DEF Next

LEMMA InitInv == Init => IInv
<1>1. Init => TypeOK
  <2> SUFFICES ASSUME Init PROVE TypeOK
    OBVIOUS
  <2>1. (CHOOSE r \in pillar : TRUE) \in pillar
    BY PillarAssumption DEF Init, RunInit
  <2>. QED BY <2>1, FailedFacts, Shapes DEF Init, TypeOK, RunInit, RunTypeOK
<1>. QED
  BY <1>1 DEF Init, RunInit, IInv, PhaseFacts, TrueFacts, Nothing, NoReport, SuccessReport

\* The variables of the model stay within their types: what is put is always a
\* value that was asked for.
THEOREM TypeCorrect == Spec => []TypeOK
<1>1. IInv => TypeOK
  BY DEF IInv
<1>. QED
  BY <1>1, InitInv, StepInv, PTL DEF Spec

\* quota_present of either driver that reports success has set every limit it was
\* asked for: alone, or beside any number of states that do not contradict it.
THEOREM ReportsAreTrue == Spec => []ReportIsTrue
<1>1. IInv => ReportIsTrue
  BY DEF IInv, TrueFacts, ReportIsTrue
<1>. QED
  BY <1>1, InitInv, StepInv, PTL DEF Spec

-----------------------------------------------------------------------------
\* Every value of the joint request comes from one of the requests.
LEMMA JointFacts ==
  ASSUME NEW l \in Limit, Joint[l] # Unset
  PROVE  \E r \in pillar : r.limits[l] = Joint[l]
<1>. DEFINE asking == {r \in pillar : r.limits[l] # Unset}
            chosen == CHOOSE r \in asking : TRUE
<1>1. asking # {}
  BY DEF Joint
<1>2. chosen \in asking
  BY <1>1
<1>3. Joint[l] = chosen.limits[l]
  BY <1>1 DEF Joint
<1>4. chosen \in pillar
  BY <1>2
<1>. QED
  <2>. HIDE DEF chosen
  <2>. QED BY <1>3, <1>4

\* Quota states that do not contradict each other implement Convergence: no update
\* that rests on an old reading sets back a limit that another state asked for.
THEOREM ImplementsConvergence == Spec => Converging
<1>1. Init => C!Init
  BY DEF C!Init, AgreedPending, Differing, Named
<1>2. IInv /\ [Next]_vars => [C!Fix]_AgreedPending
  <2> SUFFICES ASSUME IInv, [Next]_vars, AgreedPending' # AgreedPending PROVE C!Fix
    OBVIOUS
  <2>1. TypeOK /\ \A n \in Minion : PhaseFacts(n)
    BY DEF IInv
  <2>a. pillar' = pillar
    BY <2>1, PillarFixed
  <2>b. Joint' = Joint
    <3>. DEFINE JointOf(requests) ==
           [l \in Limit |->
              LET asking == {r \in requests : r.limits[l] # Unset}
              IN  IF asking = {} THEN Unset ELSE (CHOOSE r \in asking : TRUE).limits[l]]
    <3>1. Joint = JointOf(pillar) /\ Joint' = JointOf(pillar')
      BY DEF Joint
    <3>. HIDE DEF JointOf
    <3>. QED BY <2>a, <3>1
  <2>2. (Compatible' <=> Compatible) /\ Joint' = Joint
    BY <2>a, <2>b DEF Compatible
  <2>3. Compatible
    BY <2>2 DEF AgreedPending
  <2>4. Differing(Joint)' \subseteq Differing(Joint)
    <3>1. CASE nova' = nova
      BY <2>2, <3>1 DEF Differing
    <3>2. CASE nova' # nova
      <4>1. PICK m \in Minion : Call(m)
        BY <3>2 DEF Next, vars, run, Apply, Begin, Abort, Kill, Stabilize, Settle
      <4>2. QuotaStep(m)
        BY <2>1, <4>1, CallOwn
      <4>3. ASSUME NEW l \in Named(Joint) PROVE nova'[l] = nova[l] \/ nova'[l] = Joint[l]
        <5>1. PICK r \in pillar : r.limits[l] = Joint[l]
          BY JointFacts DEF Named
        <5>. QED BY <2>1, <2>3, <4>2, <5>1, StepIsHarmless DEF Named
      <4>. QED BY <2>2, <4>3 DEF Differing
    <3>. QED BY <3>1, <3>2
  <2>5. AgreedPending' \subseteq AgreedPending
    BY <2>2, <2>3, <2>4 DEF AgreedPending
  <2>. QED BY <2>5 DEF C!Fix
<1>. QED
  BY <1>1, <1>2, InitInv, StepInv, PTL DEF Spec, Converging, C!Safe

=============================================================================

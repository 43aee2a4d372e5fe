--------------------------- MODULE Keypair_proofs ---------------------------
(***************************************************************************)
(* Proofs about Keypair for any number of minions, keys and requests.      *)
(***************************************************************************)
EXTENDS Keypair, TLAPS

-----------------------------------------------------------------------------
\* Reports of each kind, and the steps that all state functions share.
LEMMA FailedFacts ==
  /\ \A answer : Failed(answer, "find_failed") \in FailureReport
  /\ \A answer : Failed(answer, "create_failed") \in FailureReport
  /\ \A answer : Failed(answer, "update_failed") \in FailureReport
  /\ \A answer : Failed(answer, "delete_failed") \in FailureReport
  /\ FailureReport \subseteq Report
  /\ SuccessReport \subseteq Report
  /\ NoReport \in Report
  /\ (FailureReport \cup {NoReport}) \cap SuccessReport = {}
BY DEF Failed, FailureReport, Exception, Report, SuccessReport, NoReport

LEMMA CommonType ==
  ASSUME NEW resources, NEW calls, "list" \in calls, RunTypeOK(resources, calls),
         \/ \E m \in Minion, request \in pillar : Begin(m, request)
         \/ \E m \in Minion : Kill(m)
         \/ Settle
         \/ UNCHANGED run
  PROVE  RunTypeOK(resources, calls)'
<1> USE DEF RunTypeOK
<1>1. CASE \E m \in Minion, request \in pillar : Begin(m, request)
  BY <1>1, FailedFacts DEF Begin
<1>2. CASE \E m \in Minion : Kill(m)
  BY <1>2, FailedFacts DEF Kill, Return
<1>3. CASE Settle
  BY <1>3 DEF Settle
<1>4. CASE UNCHANGED run
  BY <1>4 DEF run
<1>. QED
  BY <1>1, <1>2, <1>3, <1>4

-----------------------------------------------------------------------------
\* Run n keeps to the calls of the state function it applies, and puts a key in
\* place only if there is one to put there.  Types depend on it: without it, what
\* keypair_create registers might be no key.
PhaseFacts(n) ==
  /\ report[n] # NoReport => pc[n] = "idle"
  /\ pc[n] = "replace" => want[n].ensure = "present" /\ want[n].key \in Key
  /\ pc[n] = "create" => want[n].ensure \in {"present", "exists"} /\ want[n].key \in Key
  /\ pc[n] = "delete" => want[n].ensure = "absent"

TrueFacts(n) == report[n] \in SuccessReport => Holds(want[n])

IInv == TypeOK /\ \A n \in Minion : PhaseFacts(n) /\ (clean[n] => TrueFacts(n))

LEMMA WantType ==
  ASSUME TypeOK, NEW m \in Minion
  PROVE  /\ want[m].ensure \in {"present", "absent", "exists"}
         /\ want[m].key \in Key \cup {NoKey, Unreadable}
<1>1. want[m] \in Request
  BY PillarAssumption DEF TypeOK, RunTypeOK
<1>. QED
  BY <1>1, KeypairAssumption

\* A run that returns without success has nothing to be true to.
LEMMA FailedRunFacts ==
  ASSUME TypeOK, NEW m \in Minion, NEW result, result \notin SuccessReport,
         Return(m, result)
  PROVE  PhaseFacts(m)' /\ TrueFacts(m)'
BY DEF TypeOK, RunTypeOK, Return, PhaseFacts, TrueFacts

LEMMA BrokenFacts ==
  ASSUME NEW m, NEW answer
  PROVE  /\ Broken(m, answer, "find_failed") \in FailureReport
         /\ Broken(m, answer, "create_failed") \in FailureReport
BY FailedFacts DEF Broken, FailureReport

-----------------------------------------------------------------------------
\* What the run of m becomes by a call of its own: its types, its phase, and
\* a report of success that is true at this moment.
OwnFacts(m) ==
  /\ pc' \in [Minion -> {"idle", "list", "replace", "create", "delete"}]
  /\ want' = want
  /\ report' \in [Minion -> Report]
  /\ PhaseFacts(m)' /\ TrueFacts(m)'

LEMMA FailsOwn ==
  ASSUME TypeOK, NEW m \in Minion, NEW result \in FailureReport \cup {NoReport},
         Return(m, result)
  PROVE  OwnFacts(m)
<1>1. PhaseFacts(m)' /\ TrueFacts(m)'
  BY FailedRunFacts, FailedFacts
<1>. QED
  BY <1>1, FailedFacts DEF OwnFacts, Return, TypeOK, RunTypeOK

LEMMA SucceedsOwn ==
  ASSUME TypeOK, NEW m \in Minion, NEW result \in SuccessReport,
         Return(m, result), Holds(want[m])'
  PROVE  OwnFacts(m)
BY FailedFacts DEF OwnFacts, Return, TypeOK, RunTypeOK, PhaseFacts, TrueFacts

LEMMA GoesOnOwn ==
  ASSUME TypeOK, NEW m \in Minion, report[m] = NoReport,
         NEW call \in {"replace", "create", "delete"}, GoTo(m, call),
         call = "replace" => want[m].ensure = "present" /\ want[m].key \in Key,
         call = "create" => want[m].ensure \in {"present", "exists"} /\ want[m].key \in Key,
         call = "delete" => want[m].ensure = "absent"
  PROVE  OwnFacts(m)
BY DEF OwnFacts, GoTo, TypeOK, RunTypeOK, PhaseFacts, TrueFacts, NoReport, SuccessReport

LEMMA ListOwn ==
  ASSUME TypeOK, NEW m \in Minion, PhaseFacts(m), List(m)
  PROVE  OwnFacts(m)
<1>1. report[m] = NoReport /\ nova' = nova
  BY DEF List, ReadsFirst, PhaseFacts
<1>a. want' = want
  BY DEF List, Plan, PlanLegacy, Return, GoTo
<1>b. (Holds(want[m]))' <=> Holds(want[m])
  BY <1>1, <1>a DEF Holds
<1>2. CASE \E result \in FailureReport : Return(m, result)
  BY <1>2, FailsOwn
<1>3. CASE want[m].ensure = "present" /\ Plan(m)
  <2>1. Unreadable \notin Key /\ NoKey \notin Key
    BY KeypairAssumption
  <2>2. CASE want[m].key \notin Key
    BY <1>2, <1>3, <2>1, <2>2 DEF Plan, FailureReport
  <2>3. CASE want[m].key \in Key /\ nova = want[m].key
    <3>1. Return(m, "no_change")
      BY <1>3, <2>1, <2>3 DEF Plan, Matches
    <3>. QED BY <1>3, <1>b, <2>3, <3>1, SucceedsOwn DEF Holds, SuccessReport
  <2>4. CASE want[m].key \in Key /\ nova # want[m].key
    <3>1. GoTo(m, "replace") \/ GoTo(m, "create")
      BY <1>3, <2>1, <2>4 DEF Plan, Matches, WriteCall
    <3>. QED BY <1>1, <1>3, <2>4, <3>1, GoesOnOwn
  <2>. QED BY <2>2, <2>3, <2>4
<1>4. CASE want[m].ensure = "exists" /\ PlanLegacy(m)
  <2>1. CASE nova # NoKeypair /\ Return(m, "no_change")
    BY <1>4, <1>b, <2>1, SucceedsOwn DEF Holds, SuccessReport
  <2>2. CASE want[m].key \in Key /\ GoTo(m, "create")
    BY <1>1, <1>4, <2>2, GoesOnOwn
  <2>. QED BY <1>2, <1>4, <2>1, <2>2 DEF PlanLegacy, FailureReport
<1>5. CASE want[m].ensure = "absent" /\ nova # NoKeypair /\ GoTo(m, "delete")
  BY <1>1, <1>5, GoesOnOwn
<1>6. CASE want[m].ensure = "absent" /\ nova = NoKeypair /\ Return(m, "non_existent")
  BY <1>6, <1>b, SucceedsOwn DEF Holds, SuccessReport
<1>. QED
  BY <1>2, <1>3, <1>4, <1>5, <1>6, BrokenFacts DEF List

\* Every call of a run: what it does to the key pair is of the right type ...
LEMMA CallOwn ==
  ASSUME TypeOK, NEW m \in Minion, PhaseFacts(m), Call(m)
  PROVE  OwnFacts(m) /\ nova' \in Resource
<1>1. CASE List(m)
  BY <1>1, ListOwn DEF List, ReadsFirst, TypeOK, RunTypeOK
<1>2. CASE Replace(m)
  <2>1. PICK answer \in Answers(nova # NoKeypair, stable) : ReplaceAnswered(m, answer)
    BY <1>2 DEF Replace
  <2>2. nova' \in Resource
    BY <2>1 DEF ReplaceAnswered, Becomes, DeleteAnswered, Resource, TypeOK, RunTypeOK
  <2>3. report[m] = NoReport /\ want[m].ensure = "present" /\ want[m].key \in Key
    BY <1>2 DEF Replace, PhaseFacts
  <2>4. CASE Completes(answer)
    BY <2>1, <2>2, <2>3, <2>4, GoesOnOwn DEF ReplaceAnswered, GoOn
  <2>5. CASE ~Completes(answer)
    BY <2>1, <2>2, <2>5, FailsOwn, FailedFacts DEF ReplaceAnswered
  <2>. QED BY <2>4, <2>5
<1>3. CASE Create(m)
  <2>1. PICK answer \in Answers(nova = NoKeypair, stable) : CreateAnswered(m, answer)
    BY <1>3 DEF Create
  <2>2. want[m].ensure \in {"present", "exists"} /\ want[m].key \in Key
    BY <1>3 DEF Create, PhaseFacts
  <2>3. nova' \in Resource
    BY <2>1, <2>2 DEF CreateAnswered, Becomes, Resource, TypeOK, RunTypeOK
  <2>4. CASE Completes(answer)
    <3>1. nova' = want[m].key
      BY <2>1, <2>4 DEF CreateAnswered, Becomes, Applied, Completes
    <3>2. Return(m, "created")
      BY <2>1, <2>4 DEF CreateAnswered
    <3>3. Holds(want[m])'
      BY <2>2, <3>1, <3>2, KeypairAssumption DEF Holds, Return
    <3>. QED BY <2>3, <3>2, <3>3, SucceedsOwn DEF SuccessReport
  <2>5. CASE ~Completes(answer)
    BY <2>1, <2>3, <2>5, FailsOwn, BrokenFacts DEF CreateAnswered
  <2>. QED BY <2>4, <2>5
<1>4. CASE Remove(m)
  <2>1. PICK answer \in Answers(nova # NoKeypair, stable) : RemoveAnswered(m, answer)
    BY <1>4 DEF Remove
  <2>2. nova' \in Resource
    BY <2>1 DEF RemoveAnswered, Becomes, DeleteAnswered, Resource, TypeOK, RunTypeOK
  <2>3. want[m].ensure = "absent"
    BY <1>4 DEF Remove, PhaseFacts
  <2>4. CASE Completes(answer)
    <3>1. nova' = NoKeypair /\ Return(m, "deleted")
      BY <2>1, <2>4 DEF RemoveAnswered, Becomes, DeleteAnswered, Applied, Completes
    <3>2. Holds(want[m])'
      BY <2>3, <3>1 DEF Holds, Return
    <3>. QED BY <2>2, <3>1, <3>2, SucceedsOwn DEF SuccessReport
  <2>5. CASE ~Completes(answer)
    BY <2>1, <2>2, <2>5, FailsOwn, FailedFacts DEF RemoveAnswered
  <2>. QED BY <2>4, <2>5
<1>. QED
  BY <1>1, <1>2, <1>3, <1>4 DEF Call

\* ... and it reads, or marks the other runs if it changes the key pair.
LEMMA CallFrame ==
  ASSUME TypeOK, NEW m \in Minion, Call(m)
  PROVE  /\ pillar' = pillar /\ stable' = stable
         /\ clean' \in [Minion -> BOOLEAN] /\ touched' \in [Minion -> BOOLEAN]
         /\ \A n \in Minion \ {m} : /\ pc'[n] = pc[n] /\ report'[n] = report[n]
                                    /\ clean'[n] => clean[n] /\ nova' = nova
<1> USE DEF TypeOK, RunTypeOK, Return, GoTo
<1>1. CASE List(m)
  <2>1. \/ \E call : GoTo(m, call)
        \/ \E result : Return(m, result)
    BY <1>1 DEF List, Plan, PlanLegacy
  <2>. QED BY <1>1, <2>1 DEF List, ReadsFirst
<1>2. CASE Replace(m)
  <2>1. PICK answer : ReplaceAnswered(m, answer)
    BY <1>2 DEF Replace
  <2>. QED BY <2>1 DEF ReplaceAnswered, GoOn, Becomes
<1>3. CASE Create(m)
  <2>1. PICK answer : CreateAnswered(m, answer)
    BY <1>3 DEF Create
  <2>. QED BY <2>1 DEF CreateAnswered, Becomes
<1>4. CASE Remove(m)
  <2>1. PICK answer : RemoveAnswered(m, answer)
    BY <1>4 DEF Remove
  <2>. QED BY <2>1 DEF RemoveAnswered, Becomes
<1>. QED
  BY <1>1, <1>2, <1>3, <1>4 DEF Call

-----------------------------------------------------------------------------
LEMMA StepInv == IInv /\ [Next]_vars => IInv'
<1> SUFFICES ASSUME IInv, [Next]_vars PROVE IInv'
  OBVIOUS
<1>a. TypeOK /\ \A n \in Minion : PhaseFacts(n) /\ (clean[n] => TrueFacts(n))
  BY DEF IInv
<1>1. ASSUME NEW m \in Minion, Call(m) PROVE IInv'
  <2>1. OwnFacts(m) /\ nova' \in Resource
    BY <1>1, <1>a, CallOwn
  <2>2. TypeOK'
    BY <1>1, <1>a, <2>1, CallFrame DEF TypeOK, RunTypeOK, OwnFacts
  <2>3. ASSUME NEW n \in Minion, n # m
        PROVE  PhaseFacts(n)' /\ (clean'[n] => TrueFacts(n)')
    <3>1. /\ pc'[n] = pc[n] /\ report'[n] = report[n] /\ want' = want
          /\ clean'[n] => clean[n] /\ nova' = nova
      BY <1>1, <1>a, <2>1, <2>3, CallFrame DEF OwnFacts
    <3>. QED BY <1>a, <3>1 DEF PhaseFacts, TrueFacts, Holds
  <2>. QED BY <2>1, <2>2, <2>3 DEF IInv, OwnFacts
<1>2. ASSUME NEW m \in Minion, Apply(m) PROVE IInv'
  <2>1. TypeOK'
    BY <1>2, <1>a, CommonType DEF Apply, TypeOK
  <2>2. ASSUME NEW n \in Minion PROVE PhaseFacts(n)' /\ (clean'[n] => TrueFacts(n)')
    <3>1. CASE n = m
      BY <1>2, <1>a, <3>1 DEF Apply, Begin, TypeOK, RunTypeOK, PhaseFacts, TrueFacts, NoReport, SuccessReport
    <3>2. CASE n # m
      BY <1>2, <1>a, <3>2 DEF Apply, Begin, TypeOK, RunTypeOK, PhaseFacts, TrueFacts, Holds
    <3>. QED BY <3>1, <3>2
  <2>. QED BY <2>1, <2>2 DEF IInv
<1>3. ASSUME NEW m \in Minion, Kill(m) PROVE IInv'
  <2>1. TypeOK'
    BY <1>3, <1>a, CommonType DEF TypeOK
  <2>2. ASSUME NEW n \in Minion PROVE PhaseFacts(n)' /\ (clean'[n] => TrueFacts(n)')
    <3>1. CASE n = m
      BY <1>3, <1>a, <3>1, FailedRunFacts, FailedFacts DEF Kill
    <3>2. CASE n # m
      BY <1>3, <1>a, <3>2 DEF Kill, Return, TypeOK, RunTypeOK, PhaseFacts, TrueFacts, Holds
    <3>. QED BY <3>1, <3>2
  <2>. QED BY <2>1, <2>2 DEF IInv
<1>4. CASE Settle \/ UNCHANGED vars
  <2>1. TypeOK'
    BY <1>4, <1>a, CommonType DEF vars, TypeOK
  <2>. QED BY <1>4, <1>a, <2>1 DEF Settle, vars, run, IInv, PhaseFacts, TrueFacts, Holds
<1>. QED
  BY <1>1, <1>2, <1>3, <1>4 DEF Next

LEMMA InitInv == Init => IInv
<1>1. Init => TypeOK
  <2> SUFFICES ASSUME Init PROVE TypeOK
    OBVIOUS
  <2>1. (CHOOSE r \in pillar : TRUE) \in pillar
    BY PillarAssumption DEF Init, RunInit
  <2>. QED BY <2>1, FailedFacts DEF Init, TypeOK, RunInit, RunTypeOK
<1>. QED
  BY <1>1 DEF Init, RunInit, IInv, PhaseFacts, TrueFacts, NoReport, SuccessReport

\* The variables of the model stay within their types; in particular only keys
\* are ever registered (keypair_create is not reached without a key to register).
THEOREM TypeCorrect == Spec => []TypeOK
<1>1. IInv => TypeOK
  BY DEF IInv
<1>. QED
  BY <1>1, InitInv, StepInv, PTL DEF Spec

\* A run of keypair_present (of either driver) or keypair_absent that reports
\* success, undisturbed since it listed the key pairs, has done what it was asked.
THEOREM ReportsAreTrue == Spec => []ReportIsTrue
<1>1. IInv => ReportIsTrue
  BY DEF IInv, TrueFacts, ReportIsTrue
<1>. QED
  BY <1>1, InitInv, StepInv, PTL DEF Spec

-----------------------------------------------------------------------------
(***************************************************************************)
(* A run that nobody disturbs asks only for what Nova does, and the key    *)
(* pair that all ask for, once it is there, is destroyed by nobody who has *)
(* seen it.                                                                *)
(***************************************************************************)

\* The next request of run n is one that Nova accepts.
Ready(n) ==
  /\ pc[n] \in {"replace", "delete"} => nova # NoKeypair
  /\ pc[n] = "create" => nova = NoKeypair

ReadyInv == IInv /\ \A n \in Minion : clean[n] => Ready(n)

LEMMA ReliableFacts ==
  ASSUME stable, NEW valid, valid, NEW answer \in Answers(valid, stable)
  PROVE  Completes(answer) /\ Applied(answer)
BY DEF Answers, Completes, Applied

\* There is a key to register, or none is needed.
Feasible(m) == want[m].ensure = "absent" \/ want[m].key \in Key

\* A step of a run that is ready leaves it ready, or ends it with success.
ReadyStep(m) ==
  /\ Ready(m)'
  /\ stable /\ Ends(m) /\ Feasible(m) => report'[m] \in SuccessReport

LEMMA ReturnReady ==
  ASSUME TypeOK, NEW m \in Minion, NEW result, Return(m, result),
         ~stable \/ result \in SuccessReport \/ ~Feasible(m)
  PROVE  ReadyStep(m)
BY DEF TypeOK, RunTypeOK, Return, Ready, ReadyStep

LEMMA GoesOnReady ==
  ASSUME TypeOK, NEW m \in Minion, NEW call \in {"replace", "create", "delete"}, GoTo(m, call),
         nova' = NoKeypair <=> call = "create"
  PROVE  ReadyStep(m)
BY DEF TypeOK, RunTypeOK, GoTo, Ready, ReadyStep, Ends

LEMMA ListReady ==
  ASSUME TypeOK, NEW m \in Minion, List(m)
  PROVE  ReadyStep(m)
<1>1. nova' = nova
  BY DEF List, ReadsFirst
<1>2. Unreadable \notin Key /\ NoKey \notin Key /\ NoKeypair \notin Key
  BY KeypairAssumption
<1>3. PICK answer \in Answers(TRUE, stable) :
        IF ~Completes(answer)
        THEN Return(m, Broken(m, answer, "find_failed"))
        ELSE \/ want[m].ensure = "present" /\ Plan(m)
             \/ want[m].ensure = "exists" /\ PlanLegacy(m)
             \/ want[m].ensure = "absent" /\ nova # NoKeypair /\ GoTo(m, "delete")
             \/ want[m].ensure = "absent" /\ nova = NoKeypair /\ Return(m, "non_existent")
  BY DEF List
<1>4. CASE ~Completes(answer)
  BY <1>3, <1>4, ReliableFacts, ReturnReady
<1>5. CASE want[m].ensure = "present" /\ Plan(m)
  <2>1. CASE want[m].key \notin Key
    <3>1. ~Feasible(m)
      BY <1>5, <2>1 DEF Feasible
    <3>. QED BY <1>5, <2>1, <3>1, ReturnReady DEF Plan
  <2>2. CASE want[m].key \in Key /\ nova = want[m].key
    <3>1. Return(m, "no_change")
      BY <1>2, <1>5, <2>2 DEF Plan, Matches
    <3>. QED BY <3>1, ReturnReady DEF SuccessReport
  <2>3. CASE want[m].key \in Key /\ nova # want[m].key
    <3>1. GoTo(m, WriteCall(nova))
      BY <1>2, <1>5, <2>3 DEF Plan, Matches
    <3>. QED BY <1>1, <3>1, GoesOnReady DEF WriteCall
  <2>. QED BY <2>1, <2>2, <2>3
<1>6. CASE want[m].ensure = "exists" /\ PlanLegacy(m)
  <2>1. CASE want[m].key \notin Key
    <3>1. ~Feasible(m)
      BY <1>6, <2>1 DEF Feasible
    <3>. QED BY <1>6, <2>1, <3>1, ReturnReady DEF PlanLegacy
  <2>2. CASE want[m].key \in Key
    <3>1. \/ Return(m, "no_change")
          \/ nova = NoKeypair /\ GoTo(m, "create")
      BY <1>2, <1>6, <2>2 DEF PlanLegacy
    <3>. QED BY <1>1, <3>1, ReturnReady, GoesOnReady DEF SuccessReport
  <2>. QED BY <2>1, <2>2
<1>7. CASE nova # NoKeypair /\ GoTo(m, "delete")
  BY <1>1, <1>7, GoesOnReady
<1>8. CASE Return(m, "non_existent")
  BY <1>8, ReturnReady DEF SuccessReport
<1>. QED
  BY <1>3, <1>4, <1>5, <1>6, <1>7, <1>8

LEMMA CallReady ==
  ASSUME TypeOK, NEW m \in Minion, Call(m), pc[m] = "list" \/ Ready(m)
  PROVE  ReadyStep(m)
<1>1. CASE Replace(m)
  <2>1. PICK answer \in Answers(nova # NoKeypair, stable) : ReplaceAnswered(m, answer)
    BY <1>1 DEF Replace
  <2>2. nova # NoKeypair
    BY <1>1 DEF Replace, Ready
  <2>3. CASE ~Completes(answer)
    BY <2>1, <2>2, <2>3, ReliableFacts, ReturnReady DEF ReplaceAnswered
  <2>4. CASE Completes(answer)
    <3>1. GoTo(m, "create") /\ nova' = NoKeypair
      BY <2>1, <2>4 DEF ReplaceAnswered, GoOn, Becomes, DeleteAnswered, Completes, Applied
    <3>. QED BY <3>1, GoesOnReady
  <2>. QED BY <2>3, <2>4
<1>2. CASE Create(m)
  <2>1. PICK answer \in Answers(nova = NoKeypair, stable) : CreateAnswered(m, answer)
    BY <1>2 DEF Create
  <2>2. nova = NoKeypair
    BY <1>2 DEF Create, Ready
  <2>. QED BY <2>1, <2>2, ReliableFacts, ReturnReady DEF CreateAnswered, SuccessReport
<1>3. CASE Remove(m)
  <2>1. PICK answer \in Answers(nova # NoKeypair, stable) : RemoveAnswered(m, answer)
    BY <1>3 DEF Remove
  <2>2. nova # NoKeypair
    BY <1>3 DEF Remove, Ready
  <2>. QED BY <2>1, <2>2, ReliableFacts, ReturnReady DEF RemoveAnswered, SuccessReport
<1>. QED
  BY <1>1, <1>2, <1>3, ListReady DEF Call

\* The first reading makes a run clean; no other step does.
LEMMA OwnMark ==
  ASSUME TypeOK, NEW m \in Minion, Call(m)
  PROVE  pc[m] = "list" \/ (clean'[m] => clean[m])
BY DEF Call, List, Replace, ReplaceAnswered, Create, CreateAnswered, Remove, RemoveAnswered,
       Becomes

LEMMA StepReady == ReadyInv /\ [Next]_vars => ReadyInv'
<1> SUFFICES ASSUME ReadyInv, [Next]_vars, NEW n \in Minion, clean'[n]
             PROVE  Ready(n)'
  BY StepInv DEF ReadyInv
<1>a. TypeOK /\ (clean[n] => Ready(n))
  BY DEF ReadyInv, IInv
<1>1. ASSUME NEW m \in Minion, Call(m)
      PROVE  Ready(n)'
  <2>1. CASE n # m
    BY <1>1, <1>a, <2>1, CallFrame DEF Ready
  <2>2. CASE n = m
    BY <1>1, <1>a, <2>2, OwnMark, CallReady DEF ReadyStep
  <2>. QED BY <2>1, <2>2
<1>2. ASSUME NEW m \in Minion, Apply(m) \/ Kill(m)
      PROVE  Ready(n)'
  BY <1>2, <1>a DEF Apply, Begin, Kill, Return, TypeOK, RunTypeOK, Ready
<1>3. CASE Settle \/ UNCHANGED vars
  BY <1>3, <1>a DEF Settle, vars, run, Ready
<1>. QED
  BY <1>1, <1>2, <1>3 DEF Next

\* A run of keypair_present (of either driver) or keypair_absent that nobody disturbs
\* fails only if a call does, in a cloud that does not work, or if there is no key to
\* register.
THEOREM FailuresHaveCauses == Spec => FailureHasCause
<1>1. Init => ReadyInv
  BY InitInv DEF ReadyInv, Init, RunInit
<1>2. ReadyInv /\ [Next]_vars =>
        [\A m \in Minion :
           stable /\ Ends(m) /\ clean'[m] /\ (want[m].ensure = "absent" \/ want[m].key \in Key)
             => report'[m] \in SuccessReport]_vars
  <2> SUFFICES ASSUME ReadyInv, Next, NEW m \in Minion, stable, Ends(m), clean'[m], Feasible(m)
               PROVE  report'[m] \in SuccessReport
    BY DEF Feasible
  <2>a. TypeOK /\ (clean[m] => Ready(m))
    BY DEF ReadyInv, IInv
  <2>1. PICK n \in Minion : Call(n)
    BY <2>a DEF Next, Apply, Begin, Kill, Settle, Ends, TypeOK, RunTypeOK
  <2>2. n = m
    BY <2>1, <2>a, CallFrame DEF Ends
  <2>. QED BY <2>a, <2>1, <2>2, OwnMark, CallReady DEF ReadyStep
<1>. QED
  BY <1>1, <1>2, StepReady, PTL DEF Spec, FailureHasCause

-----------------------------------------------------------------------------
\* The right key is there, and nobody is about to replace it.
Right == Agreement /\ Holds(Goal) /\ \A n \in Minion : pc[n] # "replace"

LEMMA CallStaysRight ==
  ASSUME IInv, Right, NEW m \in Minion, Call(m)
  PROVE  Holds(Goal)' /\ pc'[m] # "replace"
<1>a. TypeOK /\ PhaseFacts(m)
  BY DEF IInv
<1>1. pillar' = pillar /\ Goal' = Goal /\ want[m] = Goal
  <2>1. pillar' = pillar /\ want[m] \in pillar /\ Goal \in pillar
    BY <1>a, CallFrame, PillarAssumption DEF Goal, TypeOK, RunTypeOK
  <2>. QED BY <2>1 DEF Goal, Right, Agreement
<1>b. NoKeypair \notin Key /\ NoKey \notin Key /\ Unreadable \notin Key
  BY KeypairAssumption
<1>2. CASE List(m)
  <2>1. nova' = nova
    BY <1>2 DEF List, ReadsFirst
  <2>2. GoTo(m, "replace") => want[m].ensure = "present" /\ nova # want[m].key
    BY <1>2, <1>a
       DEF List, Plan, PlanLegacy, Matches, WriteCall, Return, GoTo, TypeOK, RunTypeOK
  <2>3. ~GoTo(m, "replace")
    BY <1>1, <2>2 DEF Right, Holds
  <2>4. pc'[m] # "replace"
    BY <1>2, <1>a, <2>3
       DEF List, Plan, PlanLegacy, WriteCall, Return, GoTo, TypeOK, RunTypeOK
  <2>. QED BY <1>1, <2>1, <2>4 DEF Right, Holds
<1>3. CASE Replace(m)
  BY <1>3 DEF Replace, Right
<1>4. CASE Create(m)
  <2>1. PICK answer \in Answers(nova = NoKeypair, stable) : CreateAnswered(m, answer)
    BY <1>4 DEF Create
  <2>2. want[m].ensure \in {"present", "exists"} /\ want[m].key \in Key
    BY <1>4, <1>a DEF Create, PhaseFacts
  <2>3. nova # NoKeypair
    BY <1>1, <1>b, <2>2 DEF Right, Holds
  <2>4. nova' = nova /\ pc'[m] = "idle"
    BY <2>1, <2>3, <1>a
       DEF Answers, CreateAnswered, Becomes, Return, TypeOK, RunTypeOK
  <2>. QED BY <1>1, <2>4 DEF Right, Holds
<1>5. CASE Remove(m)
  <2>1. PICK answer \in Answers(nova # NoKeypair, stable) : RemoveAnswered(m, answer)
    BY <1>5 DEF Remove
  <2>2. nova = NoKeypair
    BY <1>1, <1>5, <1>a DEF Remove, PhaseFacts, Right, Holds
  <2>3. nova' = nova /\ pc'[m] = "idle"
    BY <2>1, <2>2, <1>a
       DEF RemoveAnswered, DeleteAnswered, Becomes, Return, TypeOK, RunTypeOK
  <2>. QED BY <1>1, <2>3 DEF Right, Holds
<1>. QED
  BY <1>2, <1>3, <1>4, <1>5 DEF Call

\* Where all minions ask for the same, keypair_delete destroys the right key only in
\* runs that have read another one before it was there.
THEOREM RightKeysStay == Spec => RightKeyStays
<1>1. IInv /\ [Next]_vars =>
        [Agreement /\ Holds(Goal) /\ (\A m \in Minion : pc[m] # "replace")
           => Holds(Goal)' /\ \A m \in Minion : pc'[m] # "replace"]_vars
  <2> SUFFICES ASSUME IInv, Next, Right
               PROVE  Holds(Goal)' /\ \A n \in Minion : pc'[n] # "replace"
    BY DEF Right
  <2>1. ASSUME NEW m \in Minion, Call(m)
        PROVE  Holds(Goal)' /\ \A n \in Minion : pc'[n] # "replace"
    BY <2>1, CallStaysRight, CallFrame DEF IInv, Right
  <2>2. ASSUME NEW m \in Minion, Apply(m) \/ Kill(m)
        PROVE  Holds(Goal)' /\ \A n \in Minion : pc'[n] # "replace"
    BY <2>2 DEF Apply, Begin, Kill, Return, IInv, TypeOK, RunTypeOK, Right, Holds, Goal
  <2>3. CASE Settle
    BY <2>3 DEF Settle, Right, Holds, Goal
  <2>. QED BY <2>1, <2>2, <2>3 DEF Next
<1>. QED
  BY <1>1, InitInv, StepInv, PTL DEF Spec, RightKeyStays

=============================================================================

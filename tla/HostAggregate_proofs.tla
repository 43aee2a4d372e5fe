------------------------ MODULE HostAggregate_proofs ------------------------
(***************************************************************************)
(* Proofs about HostAggregate for any number of minions, hosts, metadata   *)
(* keys and requests.                                                      *)
(***************************************************************************)
EXTENDS HostAggregate, TLAPS

-----------------------------------------------------------------------------
\* Reports of each kind, and the steps that all state functions share.
LEMMA AnswersFacts ==
  ASSUME NEW valid, NEW reliable, NEW answer \in Answers(valid, reliable)
  PROVE  /\ Applied(answer) => valid
         /\ Completes(answer) => Applied(answer)
BY DEF Answers, Applied, Completes

LEMMA FailedFacts ==
  /\ \A answer : Failed(answer, "find_failed") \in FailureReport
  /\ \A answer : Failed(answer, "create_failed") \in FailureReport
  /\ \A answer : Failed(answer, "update_failed") \in FailureReport
  /\ \A answer : Failed(answer, "delete_failed") \in FailureReport
  /\ FailureReport \subseteq Report
  /\ SuccessReport \subseteq Report
  /\ NoReport \in Report
  /\ (FailureReport \cup {NoReport}) \cap SuccessReport = {}
BY DEF Failed, FailureReport, Exception, Report, SuccessReport, NoReport

LEMMA CommonType ==
  ASSUME NEW resources, NEW calls, "list" \in calls, RunTypeOK(resources, calls),
         \/ \E m \in Minion, request \in pillar : Begin(m, request)
         \/ \E m \in Minion : Kill(m)
         \/ Settle
         \/ UNCHANGED run
  PROVE  RunTypeOK(resources, calls)'
<1> USE DEF RunTypeOK
<1>1. CASE \E m \in Minion, request \in pillar : Begin(m, request)
  BY <1>1, FailedFacts DEF Begin
<1>2. CASE \E m \in Minion : Kill(m)
  BY <1>2, FailedFacts DEF Kill, Return
<1>3. CASE Settle
  BY <1>3 DEF Settle
<1>4. CASE UNCHANGED run
  BY <1>4 DEF run
<1>. QED
  BY <1>1, <1>2, <1>3, <1>4

LEMMA WantIsGoal ==
  ASSUME want \in [Minion -> pillar], Agreement, NEW m \in Minion
  PROVE  want[m] = Goal /\ Goal \in pillar
BY DEF Agreement, Goal

\* A call that changes the resource takes away the clean mark of other runs.
LEMMA BecomesFrame ==
  ASSUME NEW m \in Minion, NEW n \in Minion, n # m, NEW new, Becomes(m, new)
  PROVE  clean'[n] => clean[n] /\ nova' = nova
BY DEF Becomes

-----------------------------------------------------------------------------
Aggregate == [meta : Meta, hosts : SUBSET Host]

\* Run n keeps to the calls of the state function it applies, and the hosts it
\* means to add and to remove are right for its request.
PhaseFacts(n) ==
  /\ report[n] # NoReport => pc[n] = "idle"
  /\ pc[n] \in {"create", "meta", "fill", "update"} => want[n].ensure = "present"
  /\ pc[n] = "delete" => want[n].ensure = "absent"
  /\ pc[n] \in {"find", "make"} => want[n].ensure = "exists"
  /\ pc[n] = "fill" => KeysOf(want[n].meta) = {}
  /\ toAdd[n] \subseteq want[n].hosts
  /\ toRemove[n] \cap want[n].hosts = {}
  /\ pc[n] = "idle" => toAdd[n] = {} /\ toRemove[n] = {}

\* What is not as requested is still to be done.
TrueFacts(n) ==
  /\ pc[n] \in {"meta", "fill", "update"} =>
       /\ nova # NoAggregate
       /\ want[n].hosts \ nova.hosts \subseteq toAdd[n]
       /\ pc[n] # "fill" => nova.hosts \ want[n].hosts \subseteq toRemove[n]
       /\ pc[n] = "fill" => nova.hosts \subseteq want[n].hosts
       /\ pc[n] = "update" => WrongMeta(nova.meta, want[n].meta) = {}
  /\ report[n] \in SuccessReport => Pending(want[n]) = {}

IInv ==
  TypeOK /\ \A n \in Minion : PhaseFacts(n) /\ (clean[n] \/ Agreement => TrueFacts(n))

LEMMA RequestType ==
  ASSUME NEW r \in Request
  PROVE  r.ensure \in {"present", "absent", "exists"} /\ r.meta \in Meta /\ r.hosts \in SUBSET Host
BY AggregateAssumption

LEMMA WantType ==
  ASSUME TypeOK, NEW m \in Minion
  PROVE  /\ want[m].ensure \in {"present", "absent", "exists"}
         /\ want[m].meta \in Meta
         /\ want[m].hosts \in SUBSET Host
         /\ want[m] \in pillar /\ want[m] \in Request
<1>1. want[m] \in pillar /\ want[m] \in Request
  BY PillarAssumption DEF TypeOK, RunTypeOK
<1>. QED
  BY <1>1, RequestType

LEMMA Shapes ==
  /\ \A have, asked \in Meta : Merge(have, asked) \in Meta
  /\ \A r \in Request : NewAggregate(r) \in Aggregate
  /\ Resource = {NoAggregate} \cup Aggregate
  /\ NoAggregate \notin Aggregate
BY AggregateAssumption, RequestType DEF Aggregate, Meta, Merge, NewAggregate, Resource

LEMMA NamedFacts ==
  ASSUME NEW valid, NEW answer \in NamedAnswers(valid)
  PROVE  /\ Applied(answer) => nova # NoAggregate /\ valid
         /\ Completes(answer) => Applied(answer)
BY DEF NamedAnswers, Answers, Applied, Completes

-----------------------------------------------------------------------------
\* What a call made for request r may do to the aggregate.
AggregateStep(r) ==
  \/ nova' = nova
  \/ r.ensure = "absent" /\ nova' = NoAggregate
  \/ r.ensure # "absent" /\ nova = NoAggregate /\ nova' = NewAggregate(r)
  \/ /\ r.ensure = "present" /\ nova # NoAggregate /\ nova' \in Aggregate
     /\ \/ /\ nova'.meta = nova.meta
           /\ \/ \E host \in r.hosts : nova'.hosts = nova.hosts \cup {host}
              \/ \E host \in Host \ r.hosts : nova'.hosts = nova.hosts \ {host}
        \/ nova'.meta = Merge(nova.meta, r.meta) /\ nova'.hosts = nova.hosts

\* What it leaves of its own run.
OwnTypes ==
  /\ pc' \in [Minion -> {"idle", "list", "create", "meta", "fill", "update", "delete", "find", "make"}]
  /\ want' = want
  /\ report' \in [Minion -> Report]
  /\ toAdd' \in [Minion -> SUBSET Host]
  /\ toRemove' \in [Minion -> SUBSET Host]
  /\ differs' \in [Minion -> BOOLEAN]

OwnFacts(m) == OwnTypes /\ PhaseFacts(m)' /\ (TrueFacts(m) => TrueFacts(m)')

LEMMA StepType ==
  ASSUME TypeOK, NEW r \in Request, AggregateStep(r)
  PROVE  nova' \in Resource
BY Shapes DEF AggregateStep, TypeOK, RunTypeOK

\* Returning, without success or rightly with it.
LEMMA FinishOwn ==
  ASSUME TypeOK, NEW m \in Minion, NEW result \in Report, Finish(m, result),
         result \notin SuccessReport \/ (TrueFacts(m) => Pending(want[m])' = {})
  PROVE  OwnFacts(m)
<1>1. OwnTypes
  BY DEF Finish, Return, Forget, TypeOK, RunTypeOK, OwnTypes
<1>2. /\ pc'[m] = "idle" /\ report'[m] = result /\ want' = want
      /\ toAdd'[m] = {} /\ toRemove'[m] = {}
  BY DEF Finish, Return, Forget, TypeOK, RunTypeOK
<1>3. PhaseFacts(m)'
  BY <1>2 DEF PhaseFacts
<1>4. TrueFacts(m) => TrueFacts(m)'
  BY <1>2 DEF TrueFacts
<1>. QED
  BY <1>1, <1>3, <1>4 DEF OwnFacts

LEMMA FailsOwn ==
  ASSUME TypeOK, NEW m \in Minion, NEW result \in FailureReport \cup {NoReport},
         Finish(m, result)
  PROVE  OwnFacts(m)
BY FinishOwn, FailedFacts

\* Going on with another call, with what is to be done taken down.
LEMMA GoesOnOwn ==
  ASSUME TypeOK, NEW m \in Minion, PhaseFacts(m), pc[m] # "idle",
         NEW call \in {"create", "meta", "fill", "update", "delete", "find", "make"},
         GoTo(m, call),
         NEW adds \in SUBSET want[m].hosts, NEW removes \in SUBSET (Host \ want[m].hosts),
         toAdd' = [toAdd EXCEPT ![m] = adds], toRemove' = [toRemove EXCEPT ![m] = removes],
         differs' \in [Minion -> BOOLEAN],
         call \in {"create", "meta", "fill", "update"} => want[m].ensure = "present",
         call = "delete" => want[m].ensure = "absent",
         call \in {"find", "make"} => want[m].ensure = "exists",
         call = "fill" => KeysOf(want[m].meta) = {},
         TrueFacts(m) /\ call \in {"meta", "fill", "update"} =>
           /\ nova' # NoAggregate
           /\ want[m].hosts \ nova'.hosts \subseteq adds
           /\ call # "fill" => nova'.hosts \ want[m].hosts \subseteq removes
           /\ call = "fill" => nova'.hosts \subseteq want[m].hosts
           /\ call = "update" => WrongMeta(nova'.meta, want[m].meta) = {}
  PROVE  OwnFacts(m)
<1>1. want[m].hosts \in SUBSET Host
  BY WantType
<1>2. OwnTypes
  BY <1>1 DEF OwnTypes, GoTo, TypeOK, RunTypeOK
<1>3. /\ pc'[m] = call /\ want' = want /\ report' = report
      /\ toAdd'[m] = adds /\ toRemove'[m] = removes
  BY DEF GoTo, TypeOK, RunTypeOK
<1>4. report[m] = NoReport
  BY DEF PhaseFacts
<1>5. PhaseFacts(m)'
  BY <1>3, <1>4 DEF PhaseFacts
<1>6. TrueFacts(m) => TrueFacts(m)'
  BY <1>3, <1>4 DEF TrueFacts, NoReport, SuccessReport
<1>. QED
  BY <1>2, <1>5, <1>6 DEF OwnFacts

\* ... or with nothing changed in that.
LEMMA MovesOnOwn ==
  ASSUME TypeOK, NEW m \in Minion, PhaseFacts(m), pc[m] \in {"list"},
         NEW call \in {"create", "delete", "find", "make"},
         GoTo(m, call), UNCHANGED local,
         call = "create" => want[m].ensure = "present",
         call = "delete" => want[m].ensure = "absent",
         call \in {"find", "make"} => want[m].ensure = "exists"
  PROVE  OwnFacts(m)
<1>1. toAdd[m] \in SUBSET want[m].hosts /\ toRemove[m] \in SUBSET (Host \ want[m].hosts)
  BY DEF PhaseFacts, TypeOK
<1>2. toAdd' = [toAdd EXCEPT ![m] = toAdd[m]] /\ toRemove' = [toRemove EXCEPT ![m] = toRemove[m]]
  BY DEF local, TypeOK
<1>3. differs' \in [Minion -> BOOLEAN]
  BY DEF local, TypeOK
<1>. QED
  BY <1>1, <1>2, <1>3, GoesOnOwn

-----------------------------------------------------------------------------
LEMMA ListOwn ==
  ASSUME TypeOK, NEW m \in Minion, PhaseFacts(m), List(m)
  PROVE  OwnFacts(m)
<1>1. nova' = nova /\ pc[m] = "list"
  BY DEF List, ReadsFirst
<1>f. CASE \E result \in FailureReport : Finish(m, result)
  BY <1>f, FailsOwn
<1>2. CASE nova # NoAggregate /\ want[m].ensure = "present" /\ Compare(m)
  <2>. DEFINE adds == HostsToAdd(nova.hosts, want[m].hosts)
              removes == HostsToRemove(nova.hosts, want[m].hosts)
              meta == MetaDiffers(nova.meta, want[m].meta)
  <2>1. nova.hosts \in SUBSET Host /\ nova.meta \in Meta
    BY <1>2 DEF TypeOK, RunTypeOK, Resource
  <2>2. adds \in SUBSET want[m].hosts /\ removes \in SUBSET (Host \ want[m].hosts)
    BY <2>1 DEF HostsToAdd, HostsToRemove
  <2>3. /\ toAdd' = [toAdd EXCEPT ![m] = adds]
        /\ toRemove' = [toRemove EXCEPT ![m] = removes]
        /\ differs' = [differs EXCEPT ![m] = (meta \/ adds \cup removes # {})]
        /\ GoTo(m, IF meta THEN "meta" ELSE "update")
    BY <1>2 DEF Compare
  <2>4. want[m].hosts \ nova.hosts \subseteq adds /\ nova.hosts \ want[m].hosts \subseteq removes
    BY DEF HostsToAdd, HostsToRemove
  <2>5. ~meta => WrongMeta(nova.meta, want[m].meta) = {}
    BY DEF MetaDiffers, WrongMeta
  <2>. HIDE DEF adds, removes, meta
  <2>6. differs' \in [Minion -> BOOLEAN]
    BY <2>3 DEF TypeOK
  <2>7. CASE meta
    BY <1>1, <1>2, <2>2, <2>3, <2>4, <2>6, <2>7, GoesOnOwn
  <2>8. CASE ~meta
    BY <1>1, <1>2, <2>2, <2>3, <2>4, <2>5, <2>6, <2>8, GoesOnOwn
  <2>. QED BY <2>7, <2>8
<1>3. CASE want[m].ensure = "absent" /\ GoTo(m, "delete") /\ UNCHANGED local
  BY <1>1, <1>3, MovesOnOwn
<1>4. CASE want[m].ensure = "present" /\ GoTo(m, "create") /\ UNCHANGED local
  BY <1>1, <1>4, MovesOnOwn
<1>5. CASE nova = NoAggregate /\ want[m].ensure = "absent" /\ Finish(m, "non_existent")
  <2>1. Pending(want[m])' = {}
    BY <1>1, <1>5 DEF Pending, Finish, Return
  <2>. QED BY <1>5, <2>1, FinishOwn, FailedFacts DEF SuccessReport
<1>. QED
  BY <1>f, <1>2, <1>3, <1>4, <1>5, FailedFacts DEF List

LEMMA CreateOwn ==
  ASSUME TypeOK, NEW m \in Minion, PhaseFacts(m), Create(m)
  PROVE  OwnFacts(m) /\ AggregateStep(want[m])
<1>1. PICK answer \in Answers(nova = NoAggregate, stable) : CreateAnswered(m, answer)
  BY DEF Create
<1>2. pc[m] = "create" /\ want[m].ensure = "present"
  BY DEF Create, PhaseFacts
<1>3. AggregateStep(want[m])
  BY <1>1, <1>2, AnswersFacts DEF CreateAnswered, Becomes, AggregateStep
<1>4. CASE ~Completes(answer)
  BY <1>1, <1>3, <1>4, FailsOwn, FailedFacts DEF CreateAnswered
<1>5. CASE Completes(answer)
  <2>1. nova' = NewAggregate(want[m]) /\ AfterCreate(m)
    BY <1>1, <1>5, AnswersFacts DEF CreateAnswered, Becomes
  <2>2. CASE KeysOf(want[m].meta) # {}
    BY <1>3, <2>1, <2>2, FailsOwn DEF AfterCreate, FailureReport
  <2>3. CASE KeysOf(want[m].meta) = {}
    <3>1. GoTo(m, "fill") /\ toAdd' = [toAdd EXCEPT ![m] = want[m].hosts]
      BY <2>1, <2>3 DEF AfterCreate
    <3>2. toRemove' = [toRemove EXCEPT ![m] = toRemove[m]] /\ differs' \in [Minion -> BOOLEAN]
      BY <2>1, <2>3 DEF AfterCreate, TypeOK
    <3>3. toRemove[m] \in SUBSET (Host \ want[m].hosts)
      BY DEF PhaseFacts, TypeOK
    <3>4. nova' # NoAggregate /\ nova'.hosts = {}
      BY <2>1, Shapes, WantType DEF NewAggregate
    <3>. QED BY <1>2, <1>3, <2>3, <3>1, <3>2, <3>3, <3>4, GoesOnOwn
  <2>. QED BY <2>2, <2>3
<1>. QED
  BY <1>4, <1>5

\* Merging in what is asked for leaves nothing wrong.
LEMMA MergeIsRight ==
  ASSUME NEW have \in Meta, NEW asked \in Meta
  PROVE  WrongMeta(Merge(have, asked), asked) = {}
BY DEF WrongMeta, Merge, KeysOf, Meta

LEMMA SetMetaOwn ==
  ASSUME TypeOK, NEW m \in Minion, PhaseFacts(m), SetMeta(m)
  PROVE  OwnFacts(m) /\ AggregateStep(want[m])
<1>1. PICK answer \in NamedAnswers(TRUE) : SetMetaAnswered(m, answer)
  BY DEF SetMeta
<1>2. pc[m] = "meta" /\ want[m].ensure = "present"
  BY DEF SetMeta, PhaseFacts
<1>a. ASSUME Applied(answer)
      PROVE  /\ nova # NoAggregate /\ nova \in Aggregate /\ nova' \in Aggregate
             /\ nova'.meta = Merge(nova.meta, want[m].meta) /\ nova'.hosts = nova.hosts
  <2>1. nova # NoAggregate /\ nova' = [nova EXCEPT !.meta = Merge(@, want[m].meta)]
    BY <1>1, <1>a, NamedFacts DEF SetMetaAnswered, Becomes
  <2>2. nova \in Aggregate
    BY <2>1, Shapes DEF TypeOK, RunTypeOK
  <2>. QED BY <2>1, <2>2, Shapes, WantType DEF Aggregate
<1>3. AggregateStep(want[m])
  BY <1>1, <1>2, <1>a DEF SetMetaAnswered, Becomes, AggregateStep
<1>4. CASE ~Completes(answer)
  BY <1>1, <1>3, <1>4, FailsOwn, FailedFacts DEF SetMetaAnswered
<1>5. CASE Completes(answer)
  <2>1. /\ nova \in Aggregate /\ nova' \in Aggregate
        /\ nova'.meta = Merge(nova.meta, want[m].meta) /\ nova'.hosts = nova.hosts
    BY <1>1, <1>5, <1>a, NamedFacts
  <2>2. nova' # NoAggregate /\ WrongMeta(nova'.meta, want[m].meta) = {}
    BY <2>1, MergeIsRight, WantType, Shapes DEF Aggregate
  <2>3. GoTo(m, "update") /\ UNCHANGED local
    BY <1>1, <1>5 DEF SetMetaAnswered
  <2>4. /\ toAdd' = [toAdd EXCEPT ![m] = toAdd[m]] /\ toRemove' = [toRemove EXCEPT ![m] = toRemove[m]]
        /\ differs' \in [Minion -> BOOLEAN]
    BY <2>3 DEF local, TypeOK
  <2>5. toAdd[m] \in SUBSET want[m].hosts /\ toRemove[m] \in SUBSET (Host \ want[m].hosts)
    BY DEF PhaseFacts, TypeOK
  <2>6. TrueFacts(m) => /\ want[m].hosts \ nova'.hosts \subseteq toAdd[m]
                        /\ nova'.hosts \ want[m].hosts \subseteq toRemove[m]
    BY <1>2, <2>1 DEF TrueFacts
  <2>. QED BY <1>2, <1>3, <2>2, <2>3, <2>4, <2>5, <2>6, GoesOnOwn
<1>. QED
  BY <1>4, <1>5

LEMMA AddOwn ==
  ASSUME TypeOK, NEW m \in Minion, PhaseFacts(m), AddHost(m)
  PROVE  OwnFacts(m) /\ AggregateStep(want[m])
<1>1. PICK host \in toAdd[m] : \E answer \in NamedAnswers(host \notin nova.hosts) :
                                 AddAnswered(m, host, answer)
  BY DEF AddHost
<1>b. PICK answer \in NamedAnswers(host \notin nova.hosts) : AddAnswered(m, host, answer)
  BY <1>1
<1>2. /\ pc[m] \in {"fill", "update"} /\ want[m].ensure = "present"
      /\ host \in want[m].hosts /\ host \in Host /\ report[m] = NoReport
  BY DEF AddHost, PhaseFacts, TypeOK
<1>a. ASSUME Applied(answer)
      PROVE  /\ nova # NoAggregate /\ nova' \in Aggregate
             /\ nova'.meta = nova.meta /\ nova'.hosts = nova.hosts \cup {host}
  <2>1. nova # NoAggregate /\ nova' = [nova EXCEPT !.hosts = @ \cup {host}]
    BY <1>b, <1>a, NamedFacts DEF AddAnswered, Becomes
  <2>2. nova \in Aggregate
    BY <2>1, Shapes DEF TypeOK, RunTypeOK
  <2>. QED BY <1>2, <2>1, <2>2 DEF Aggregate
<1>3. AggregateStep(want[m])
  BY <1>b, <1>2, <1>a DEF AddAnswered, Becomes, AggregateStep
<1>4. CASE ~Completes(answer)
  BY <1>b, <1>3, <1>4, FailsOwn, FailedFacts DEF AddAnswered
<1>5. CASE Completes(answer)
  <2>1. /\ nova' \in Aggregate
        /\ nova'.meta = nova.meta /\ nova'.hosts = nova.hosts \cup {host}
    BY <1>b, <1>5, <1>a, NamedFacts
  <2>2. /\ toAdd' = [toAdd EXCEPT ![m] = @ \ {host}]
        /\ UNCHANGED <<pc, want, report, toRemove, differs>>
    BY <1>b, <1>5 DEF AddAnswered
  <2>3. toAdd'[m] = toAdd[m] \ {host}
    BY <2>2 DEF TypeOK
  <2>4. OwnTypes
    BY <2>2 DEF OwnTypes, TypeOK, RunTypeOK
  <2>5. PhaseFacts(m)'
    BY <1>2, <2>2, <2>3 DEF PhaseFacts
  <2>6. TrueFacts(m) => TrueFacts(m)'
    BY <1>2, <2>1, <2>2, <2>3, Shapes DEF TrueFacts, NoReport, SuccessReport
  <2>. QED BY <1>3, <2>4, <2>5, <2>6 DEF OwnFacts
<1>. QED
  BY <1>4, <1>5

LEMMA RemoveOwn ==
  ASSUME TypeOK, NEW m \in Minion, PhaseFacts(m), RemoveHost(m)
  PROVE  OwnFacts(m) /\ AggregateStep(want[m])
<1>1. PICK host \in toRemove[m] : \E answer \in NamedAnswers(host \in nova.hosts) :
                                    RemoveAnswered(m, host, answer)
  BY DEF RemoveHost
<1>b. PICK answer \in NamedAnswers(host \in nova.hosts) : RemoveAnswered(m, host, answer)
  BY <1>1
<1>2. /\ pc[m] = "update" /\ want[m].ensure = "present"
      /\ host \in Host \ want[m].hosts /\ report[m] = NoReport
  BY DEF RemoveHost, PhaseFacts, TypeOK
<1>a. ASSUME Applied(answer)
      PROVE  /\ nova # NoAggregate /\ nova' \in Aggregate
             /\ nova'.meta = nova.meta /\ nova'.hosts = nova.hosts \ {host}
  <2>1. nova # NoAggregate /\ nova' = [nova EXCEPT !.hosts = @ \ {host}]
    BY <1>b, <1>a, NamedFacts DEF RemoveAnswered, Becomes
  <2>2. nova \in Aggregate
    BY <2>1, Shapes DEF TypeOK, RunTypeOK
  <2>. QED BY <2>1, <2>2 DEF Aggregate
<1>3. AggregateStep(want[m])
  BY <1>b, <1>2, <1>a DEF RemoveAnswered, Becomes, AggregateStep
<1>4. CASE ~Completes(answer)
  BY <1>b, <1>3, <1>4, FailsOwn, FailedFacts DEF RemoveAnswered
<1>5. CASE Completes(answer)
  <2>1. /\ nova' \in Aggregate
        /\ nova'.meta = nova.meta /\ nova'.hosts = nova.hosts \ {host}
    BY <1>b, <1>5, <1>a, NamedFacts
  <2>2. /\ toRemove' = [toRemove EXCEPT ![m] = @ \ {host}]
        /\ UNCHANGED <<pc, want, report, toAdd, differs>>
    BY <1>b, <1>5 DEF RemoveAnswered
  <2>3. toRemove'[m] = toRemove[m] \ {host}
    BY <2>2 DEF TypeOK
  <2>4. OwnTypes
    BY <2>2 DEF OwnTypes, TypeOK, RunTypeOK
  <2>5. PhaseFacts(m)'
    BY <1>2, <2>2, <2>3 DEF PhaseFacts
  <2>6. TrueFacts(m) => TrueFacts(m)'
    BY <1>2, <2>1, <2>2, <2>3, Shapes DEF TrueFacts, NoReport, SuccessReport
  <2>. QED BY <1>3, <2>4, <2>5, <2>6 DEF OwnFacts
<1>. QED
  BY <1>4, <1>5

LEMMA ConcludeOwn ==
  ASSUME TypeOK, NEW m \in Minion, PhaseFacts(m), Conclude(m)
  PROVE  OwnFacts(m) /\ AggregateStep(want[m])
<1>1. /\ pc[m] \in {"fill", "update"} /\ toAdd[m] = {} /\ toRemove[m] = {}
      /\ Finish(m, Result(m)) /\ nova' = nova /\ want' = want
  BY DEF Conclude, Reads, Finish, Return
<1>2. want[m].ensure = "present" /\ (pc[m] = "fill" => KeysOf(want[m].meta) = {})
  BY <1>1 DEF PhaseFacts
<1>3. TrueFacts(m) => Pending(want[m]) = {}
  <2> SUFFICES ASSUME TrueFacts(m) PROVE Pending(want[m]) = {}
    OBVIOUS
  <2>1. nova # NoAggregate /\ WrongHosts(nova.hosts, want[m].hosts) = {}
    BY <1>1 DEF TrueFacts, WrongHosts
  <2>2. WrongMeta(nova.meta, want[m].meta) = {}
    BY <1>1, <1>2 DEF TrueFacts, WrongMeta
  <2>. QED BY <1>2, <2>1, <2>2 DEF Pending
<1>4. TrueFacts(m) => Pending(want[m])' = {}
  BY <1>1, <1>3 DEF Pending
<1>5. Result(m) \in Report
  BY FailedFacts DEF Result, SuccessReport
<1>. QED
  BY <1>1, <1>4, <1>5, FinishOwn DEF AggregateStep

LEMMA DeleteOwn ==
  ASSUME TypeOK, NEW m \in Minion, PhaseFacts(m), Delete(m)
  PROVE  OwnFacts(m) /\ AggregateStep(want[m])
<1>1. PICK answer \in NamedAnswers(TRUE) : DeleteAnswered(m, answer)
  BY DEF Delete
<1>2. want[m].ensure = "absent"
  BY DEF Delete, PhaseFacts
<1>3. AggregateStep(want[m])
  BY <1>1, <1>2 DEF DeleteAnswered, Becomes, AggregateStep
<1>4. CASE ~Completes(answer)
  BY <1>1, <1>3, <1>4, FailsOwn, FailedFacts DEF DeleteAnswered
<1>5. CASE Completes(answer)
  <2>1. nova' = NoAggregate /\ Finish(m, "deleted") /\ want' = want
    BY <1>1, <1>5, NamedFacts DEF DeleteAnswered, Becomes, Finish, Return
  <2>2. Pending(want[m])' = {}
    BY <1>2, <2>1 DEF Pending
  <2>. QED BY <1>3, <2>1, <2>2, FinishOwn, FailedFacts DEF SuccessReport
<1>. QED
  BY <1>4, <1>5

\* The states of novang.
LEMMA LegacyOwn ==
  ASSUME TypeOK, NEW m \in Minion, PhaseFacts(m), ListIds(m) \/ GetName(m) \/ Make(m)
  PROVE  OwnFacts(m) /\ AggregateStep(want[m])
<1>e. Exception \in FailureReport
  BY DEF FailureReport
<1>1. CASE ListIds(m)
  <2>1. nova' = nova /\ pc[m] = "list" /\ want[m].ensure = "exists"
    BY <1>1 DEF ListIds, ReadsFirst
  <2>2. CASE Finish(m, Exception)
    BY <1>e, <2>1, <2>2, FailsOwn DEF AggregateStep
  <2>3. CASE ~Finish(m, Exception)
    <3>1. UNCHANGED local /\ (GoTo(m, "make") \/ GoTo(m, "find"))
      BY <1>1, <2>3 DEF ListIds
    <3>. QED BY <2>1, <3>1, MovesOnOwn DEF AggregateStep
  <2>. QED BY <2>2, <2>3
<1>2. CASE GetName(m)
  <2>1. nova' = nova /\ want[m].ensure = "exists"
    BY <1>2 DEF GetName, Reads, PhaseFacts
  <2>2. CASE Finish(m, Exception)
    BY <1>e, <2>1, <2>2, FailsOwn DEF AggregateStep
  <2>3. CASE ~Finish(m, Exception)
    <3>1. PICK there \in {nova # NoAggregate} \cup (IF clean[m] THEN {} ELSE {FALSE}) :
            \E answer \in Answers(there, stable) :
              Finish(m, IF Completes(answer) THEN "no_change" ELSE Exception)
      BY <1>2 DEF GetName
    <3>2. PICK answer \in Answers(there, stable) :
            Finish(m, IF Completes(answer) THEN "no_change" ELSE Exception)
      BY <3>1
    <3>3. Finish(m, "no_change") /\ there
      BY <2>3, <3>2, AnswersFacts
    <3>4. nova # NoAggregate
      BY <3>3
    <3>5. Pending(want[m])' = {}
      BY <2>1, <3>3, <3>4 DEF Pending, Finish, Return
    <3>. QED BY <2>1, <3>3, <3>5, FinishOwn, FailedFacts DEF SuccessReport, AggregateStep
  <2>. QED BY <2>2, <2>3
<1>3. CASE Make(m)
  <2>1. PICK answer \in Answers(nova = NoAggregate, stable) : MakeAnswered(m, answer)
    BY <1>3 DEF Make
  <2>2. want[m].ensure = "exists"
    BY <1>3 DEF Make, PhaseFacts
  <2>3. AggregateStep(want[m])
    BY <2>1, <2>2, AnswersFacts DEF MakeAnswered, Becomes, AggregateStep
  <2>4. CASE ~Completes(answer)
    BY <1>e, <2>1, <2>3, <2>4, FailsOwn DEF MakeAnswered
  <2>5. CASE Completes(answer)
    <3>1. nova' = NewAggregate(want[m]) /\ Finish(m, "created") /\ want' = want
      BY <2>1, <2>5, AnswersFacts DEF MakeAnswered, Becomes, Finish, Return
    <3>2. nova' # NoAggregate
      BY <3>1, Shapes, WantType
    <3>3. Pending(want[m])' = {}
      BY <2>2, <3>1, <3>2 DEF Pending
    <3>. QED BY <2>3, <3>1, <3>3, FinishOwn, FailedFacts DEF SuccessReport
  <2>. QED BY <2>4, <2>5
<1>. QED
  BY <1>1, <1>2, <1>3

LEMMA CallOwn ==
  ASSUME TypeOK, NEW m \in Minion, PhaseFacts(m), Call(m)
  PROVE  OwnFacts(m) /\ AggregateStep(want[m])
<1>1. CASE List(m)
  BY <1>1, ListOwn DEF List, ReadsFirst, AggregateStep
<1>. QED
  BY <1>1, CreateOwn, SetMetaOwn, AddOwn, RemoveOwn, ConcludeOwn, DeleteOwn, LegacyOwn DEF Call

-----------------------------------------------------------------------------
\* A call leaves the other runs alone, and tells them if it changes the aggregate.
FrameFacts(m) ==
  /\ pillar' = pillar
  /\ clean' \in [Minion -> BOOLEAN] /\ touched' \in [Minion -> BOOLEAN]
  /\ \A n \in Minion \ {m} :
       /\ pc'[n] = pc[n] /\ report'[n] = report[n]
       /\ toAdd'[n] = toAdd[n] /\ toRemove'[n] = toRemove[n]
       /\ clean'[n] => clean[n] /\ nova' = nova
  /\ pc[m] = "list" \/ (clean'[m] => clean[m])
  /\ stable' = stable

LEMMA CallFrame ==
  ASSUME TypeOK, NEW m \in Minion, Call(m)
  PROVE  FrameFacts(m)
<1> USE DEF TypeOK, RunTypeOK, Finish, Return, Forget, GoTo, local, FrameFacts
<1>1. CASE List(m)
  BY <1>1 DEF List, Compare, ReadsFirst
<1>2. CASE Create(m)
  <2>1. PICK answer : CreateAnswered(m, answer)
    BY <1>2 DEF Create
  <2>. QED BY <2>1, BecomesFrame DEF CreateAnswered, AfterCreate, Becomes
<1>3. CASE SetMeta(m)
  <2>1. PICK answer : SetMetaAnswered(m, answer)
    BY <1>3 DEF SetMeta
  <2>. QED BY <2>1, BecomesFrame DEF SetMetaAnswered, Becomes
<1>4. CASE AddHost(m)
  <2>1. PICK host, answer : AddAnswered(m, host, answer)
    BY <1>4 DEF AddHost
  <2>. QED BY <2>1, BecomesFrame DEF AddAnswered, Becomes
<1>5. CASE RemoveHost(m)
  <2>1. PICK host, answer : RemoveAnswered(m, host, answer)
    BY <1>5 DEF RemoveHost
  <2>. QED BY <2>1, BecomesFrame DEF RemoveAnswered, Becomes
<1>6. CASE Conclude(m)
  BY <1>6 DEF Conclude, Reads
<1>7. CASE Delete(m)
  <2>1. PICK answer : DeleteAnswered(m, answer)
    BY <1>7 DEF Delete
  <2>. QED BY <2>1, BecomesFrame DEF DeleteAnswered, Becomes
<1>8. CASE ListIds(m)
  BY <1>8 DEF ListIds, ReadsFirst
<1>9. CASE GetName(m)
  BY <1>9 DEF GetName, Reads
<1>10. CASE Make(m)
  <2>1. PICK answer : MakeAnswered(m, answer)
    BY <1>10 DEF Make
  <2>. QED BY <2>1, BecomesFrame DEF MakeAnswered, Becomes
<1>. QED
  BY <1>1, <1>2, <1>3, <1>4, <1>5, <1>6, <1>7, <1>8, <1>9, <1>10 DEF Call

LEMMA PillarFixed == TypeOK /\ [Next]_vars => pillar' = pillar
BY CallFrame DEF FrameFacts, Next, vars, run, Apply, Begin, Abort, Kill, Stabilize, Settle

\* A call made for request r makes nothing wrong that is right for r.
LEMMA EffectShrinks ==
  ASSUME TypeOK, NEW r \in Request, AggregateStep(r)
  PROVE  Pending(r)' \subseteq Pending(r)
<1>1. r.ensure \in {"present", "absent", "exists"} /\ r.meta \in Meta /\ r.hosts \in SUBSET Host
  BY RequestType
<1>2. CASE nova' = nova
  BY <1>2 DEF Pending
<1>3. CASE r.ensure # "present"
  BY <1>1, <1>3, Shapes DEF AggregateStep, Pending
<1>4. CASE r.ensure = "present" /\ nova = NoAggregate
  <2>1. nova' = nova \/ nova' = NewAggregate(r)
    BY <1>4 DEF AggregateStep
  <2>2. CASE nova' = NewAggregate(r)
    <3>1. nova' # NoAggregate /\ nova'.hosts = {}
      BY <2>2, Shapes DEF NewAggregate
    <3>2. WrongMeta(nova'.meta, r.meta) \subseteq KeysOf(r.meta)
      BY DEF WrongMeta
    <3>3. WrongHosts(nova'.hosts, r.hosts) \subseteq r.hosts
      BY <3>1 DEF WrongHosts
    <3>. QED BY <1>4, <3>1, <3>2, <3>3 DEF Pending
  <2>. QED BY <1>2, <2>1, <2>2
<1>5. CASE r.ensure = "present" /\ nova # NoAggregate /\ nova' # nova
  <2>1. /\ nova' \in Aggregate
        /\ \/ /\ nova'.meta = nova.meta
              /\ \/ \E host \in r.hosts : nova'.hosts = nova.hosts \cup {host}
                 \/ \E host \in Host \ r.hosts : nova'.hosts = nova.hosts \ {host}
           \/ nova'.meta = Merge(nova.meta, r.meta) /\ nova'.hosts = nova.hosts
    BY <1>5 DEF AggregateStep
  <2>2. nova.meta \in Meta
    BY <1>5, Shapes DEF TypeOK, RunTypeOK, Aggregate
  <2>3. WrongMeta(nova'.meta, r.meta) \subseteq WrongMeta(nova.meta, r.meta)
    BY <1>1, <2>1, <2>2, MergeIsRight
  <2>4. WrongHosts(nova'.hosts, r.hosts) \subseteq WrongHosts(nova.hosts, r.hosts)
    BY <2>1 DEF WrongHosts
  <2>5. nova' # NoAggregate
    BY <2>1, Shapes
  <2>. QED BY <1>5, <2>3, <2>4, <2>5 DEF Pending
<1>. QED
  BY <1>2, <1>3, <1>4, <1>5

\* The step of another run, alone with the aggregate or for the same request.
LEMMA OtherFacts ==
  ASSUME TypeOK, NEW n \in Minion, PhaseFacts(n), TrueFacts(n),
         nova' = nova \/ AggregateStep(want[n]),
         pc'[n] = pc[n], report'[n] = report[n], want'[n] = want[n],
         toAdd'[n] = toAdd[n], toRemove'[n] = toRemove[n]
  PROVE  TrueFacts(n)'
<1>1. CASE nova' = nova
  BY <1>1 DEF TrueFacts, Pending
<1>2. CASE nova' # nova /\ AggregateStep(want[n])
  <2>1. report'[n] \in SuccessReport => Pending(want[n])' = {}
    BY <1>2, EffectShrinks, WantType DEF TrueFacts, Pending
  <2>2. ASSUME pc[n] \in {"meta", "fill", "update"}
        PROVE  /\ nova' # NoAggregate
               /\ want[n].hosts \ nova'.hosts \subseteq toAdd[n]
               /\ pc[n] # "fill" => nova'.hosts \ want[n].hosts \subseteq toRemove[n]
               /\ pc[n] = "fill" => nova'.hosts \subseteq want[n].hosts
               /\ pc[n] = "update" => WrongMeta(nova'.meta, want[n].meta) = {}
    <3>1. want[n].ensure = "present" /\ nova # NoAggregate
      BY <2>2 DEF PhaseFacts, TrueFacts
    <3>2. /\ nova' \in Aggregate
          /\ \/ /\ nova'.meta = nova.meta
                /\ \/ \E host \in want[n].hosts : nova'.hosts = nova.hosts \cup {host}
                   \/ \E host \in Host \ want[n].hosts : nova'.hosts = nova.hosts \ {host}
             \/ nova'.meta = Merge(nova.meta, want[n].meta) /\ nova'.hosts = nova.hosts
      BY <1>2, <3>1 DEF AggregateStep
    <3>3. nova.meta \in Meta
      BY <3>1, Shapes DEF TypeOK, RunTypeOK, Aggregate
    <3>4. WrongMeta(nova.meta, want[n].meta) = {} => WrongMeta(nova'.meta, want[n].meta) = {}
      BY <3>2, <3>3, MergeIsRight, WantType
    <3>5. /\ want[n].hosts \ nova.hosts \subseteq toAdd[n]
          /\ pc[n] # "fill" => nova.hosts \ want[n].hosts \subseteq toRemove[n]
          /\ pc[n] = "fill" => nova.hosts \subseteq want[n].hosts
          /\ pc[n] = "update" => WrongMeta(nova.meta, want[n].meta) = {}
      BY <2>2 DEF TrueFacts
    <3>. QED BY <3>2, <3>4, <3>5, Shapes
  <2>. QED BY <2>1, <2>2 DEF TrueFacts, Pending
<1>. QED
  BY <1>1, <1>2

-----------------------------------------------------------------------------
LEMMA StepInv == IInv /\ [Next]_vars => IInv'
<1> SUFFICES ASSUME IInv, [Next]_vars PROVE IInv'
  OBVIOUS
<1>a. TypeOK /\ \A n \in Minion : PhaseFacts(n) /\ (clean[n] \/ Agreement => TrueFacts(n))
  BY DEF IInv
<1>c. Agreement' <=> Agreement
  BY <1>a, PillarFixed DEF Agreement
<1>1. ASSUME NEW m \in Minion, Call(m) PROVE IInv'
  <2>1. OwnFacts(m) /\ AggregateStep(want[m]) /\ FrameFacts(m)
    BY <1>1, <1>a, CallOwn, CallFrame
  <2>a. nova' \in Resource
    BY <1>a, <2>1, StepType, WantType
  <2>2. TypeOK'
    BY <1>a, <2>1, <2>a DEF TypeOK, RunTypeOK, OwnFacts, OwnTypes, FrameFacts
  <2>3. ASSUME NEW n \in Minion, n # m
        PROVE  PhaseFacts(n)' /\ (clean'[n] \/ Agreement' => TrueFacts(n)')
    <3>1. /\ pc'[n] = pc[n] /\ report'[n] = report[n] /\ want'[n] = want[n]
          /\ toAdd'[n] = toAdd[n] /\ toRemove'[n] = toRemove[n]
          /\ clean'[n] => clean[n] /\ nova' = nova
      BY <2>1, <2>3 DEF OwnFacts, OwnTypes, FrameFacts
    <3>2. PhaseFacts(n)'
      BY <1>a, <3>1 DEF PhaseFacts
    <3>3. Agreement => AggregateStep(want[n])
      BY <1>a, <2>1, WantType DEF Agreement
    <3>. QED BY <1>a, <1>c, <3>1, <3>2, <3>3, OtherFacts
  <2>4. clean'[m] \/ Agreement' => TrueFacts(m)'
    <3>1. pc[m] = "list" => TrueFacts(m)
      BY <1>a DEF PhaseFacts, TrueFacts, NoReport, SuccessReport
    <3>. QED BY <1>a, <1>c, <2>1, <3>1 DEF OwnFacts, FrameFacts
  <2>. QED BY <2>1, <2>2, <2>3, <2>4 DEF IInv, OwnFacts
<1>2. ASSUME NEW m \in Minion, Apply(m) PROVE IInv'
  <2>1. TypeOK'
    BY <1>2, <1>a, CommonType DEF Apply, local, TypeOK
  <2>2. ASSUME NEW n \in Minion PROVE PhaseFacts(n)' /\ (clean'[n] \/ Agreement' => TrueFacts(n)')
    <3>1. CASE n = m
      BY <1>2, <1>a, <3>1
         DEF Apply, Begin, local, TypeOK, RunTypeOK, PhaseFacts, TrueFacts, NoReport, SuccessReport
    <3>2. CASE n # m
      <4>1. /\ pc'[n] = pc[n] /\ report'[n] = report[n] /\ want'[n] = want[n]
            /\ toAdd'[n] = toAdd[n] /\ toRemove'[n] = toRemove[n]
            /\ clean' = clean /\ nova' = nova
        BY <1>2, <1>a, <3>2 DEF Apply, Begin, local, TypeOK, RunTypeOK
      <4>2. PhaseFacts(n)'
        BY <1>a, <4>1 DEF PhaseFacts
      <4>. QED BY <1>a, <1>c, <4>1, <4>2, OtherFacts
    <3>. QED BY <3>1, <3>2
  <2>. QED BY <2>1, <2>2 DEF IInv
<1>3. ASSUME NEW m \in Minion, Abort(m) PROVE IInv'
  <2>1. OwnFacts(m)
    BY <1>3, <1>a, FailsOwn DEF Abort, Kill, Finish
  <2>2. TypeOK'
    BY <1>3, <1>a, <2>1 DEF Abort, Kill, Return, TypeOK, RunTypeOK, OwnFacts, OwnTypes
  <2>3. ASSUME NEW n \in Minion PROVE PhaseFacts(n)' /\ (clean'[n] \/ Agreement' => TrueFacts(n)')
    <3>1. CASE n = m
      BY <1>3, <1>a, <1>c, <2>1, <3>1 DEF Abort, Kill, OwnFacts
    <3>2. CASE n # m
      <4>1. /\ pc'[n] = pc[n] /\ report'[n] = report[n] /\ want'[n] = want[n]
            /\ toAdd'[n] = toAdd[n] /\ toRemove'[n] = toRemove[n]
            /\ clean' = clean /\ nova' = nova
        BY <1>3, <1>a, <3>2 DEF Abort, Kill, Return, Forget, TypeOK, RunTypeOK
      <4>2. PhaseFacts(n)'
        BY <1>a, <4>1 DEF PhaseFacts
      <4>. QED BY <1>a, <1>c, <4>1, <4>2, OtherFacts
    <3>. QED BY <3>1, <3>2
  <2>. QED BY <2>2, <2>3 DEF IInv
<1>4. CASE Stabilize \/ UNCHANGED vars
  <2>1. TypeOK'
    BY <1>4, <1>a, CommonType DEF Stabilize, vars, local, TypeOK
  <2>. QED BY <1>4, <1>a, <1>c, <2>1
           DEF Stabilize, Settle, vars, run, local, IInv, PhaseFacts, TrueFacts, Pending
<1>. QED
  BY <1>1, <1>2, <1>3, <1>4 DEF Next

LEMMA InitInv == Init => IInv
<1>1. Init => TypeOK
  <2> SUFFICES ASSUME Init PROVE TypeOK
    OBVIOUS
  <2>1. (CHOOSE r \in pillar : TRUE) \in pillar
    BY PillarAssumption DEF Init, RunInit
  <2>. QED BY <2>1, FailedFacts DEF Init, TypeOK, RunInit, RunTypeOK
<1>. QED
  BY <1>1 DEF Init, RunInit, IInv, PhaseFacts, TrueFacts, NoReport, SuccessReport

\* The variables of the model stay within their types.
THEOREM TypeCorrect == Spec => []TypeOK
<1>1. IInv => TypeOK
  BY DEF IInv
<1>. QED
  BY <1>1, InitInv, StepInv, PTL DEF Spec

\* A run of the aggregate states of either driver that reports success has left
\* nothing out: alone with the aggregate, or beside any number of runs that ask for
\* the same.
THEOREM ReportsAreTrue == Spec => []ReportIsTrue
<1>1. IInv => ReportIsTrue
  BY DEF IInv, TrueFacts, ReportIsTrue
<1>. QED
  BY <1>1, InitInv, StepInv, PTL DEF Spec

\* Minions that ask for the same aggregate implement Convergence, although every run
\* that creates an aggregate with metadata breaks off half way.
THEOREM ImplementsConvergence == Spec => Converging
<1>1. Init => C!Init
  <2> SUFFICES ASSUME Init PROVE AgreedPending \in SUBSET ({<<"aggregate">>}
                 \cup {"meta"} \X MetaKey \cup {"host"} \X Host)
    BY DEF C!Init
  <2>1. TypeOK
    BY InitInv DEF IInv
  <2>2. Goal \in Request
    BY <2>1, PillarAssumption DEF Goal, TypeOK, RunTypeOK
  <2>3. Goal.hosts \in SUBSET Host
    BY <2>2, RequestType
  <2>4. nova # NoAggregate => nova.hosts \in SUBSET Host
    BY <2>1 DEF TypeOK, RunTypeOK, Resource
  <2>5. /\ KeysOf(Goal.meta) \subseteq MetaKey
        /\ WrongMeta(nova.meta, Goal.meta) \subseteq MetaKey
        /\ nova # NoAggregate => WrongHosts(nova.hosts, Goal.hosts) \subseteq Host
    BY <2>3, <2>4 DEF KeysOf, WrongMeta, WrongHosts
  <2>. QED BY <2>3, <2>5 DEF AgreedPending, Pending
<1>2. IInv /\ [Next]_vars => [C!Fix]_AgreedPending
  <2> SUFFICES ASSUME IInv, [Next]_vars, AgreedPending' # AgreedPending PROVE C!Fix
    OBVIOUS
  <2>1. TypeOK /\ \A n \in Minion : PhaseFacts(n)
    BY DEF IInv
  <2>2. pillar' = pillar
    BY <2>1, PillarFixed
  <2>3. (Agreement' <=> Agreement) /\ Goal' = Goal
    BY <2>2 DEF Agreement, Goal
  <2>4. Agreement => Pending(Goal)' \subseteq Pending(Goal)
    <3>1. CASE nova' = nova
      BY <2>3, <3>1 DEF Pending
    <3>2. CASE nova' # nova
      <4>1. PICK m \in Minion : Call(m)
        BY <3>2 DEF Next, vars, run, Apply, Begin, Abort, Kill, Stabilize, Settle
      <4>2. AggregateStep(want[m]) /\ want[m] \in Request
        BY <2>1, <4>1, CallOwn, WantType
      <4>3. Agreement => want[m] = Goal
        BY <2>1, WantIsGoal DEF TypeOK, RunTypeOK
      <4>4. \A r \in Request : AggregateStep(r) => Pending(r)' \subseteq Pending(r)
        BY <2>1, EffectShrinks
      <4>. QED BY <2>3, <4>2, <4>3, <4>4 DEF Pending
    <3>. QED BY <3>1, <3>2
  <2>5. AgreedPending' \subseteq AgreedPending
    BY <2>3, <2>4 DEF AgreedPending
  <2>. QED BY <2>5 DEF C!Fix
<1>. QED
  BY <1>1, <1>2, InitInv, StepInv, PTL DEF Spec, Converging, C!Safe

-----------------------------------------------------------------------------
(***************************************************************************)
(* A run that nobody disturbs asks only for what Nova does.                *)
(***************************************************************************)

\* The next request of run n is one that Nova accepts.
Ready(n) ==
  /\ pc[n] \in {"meta", "fill", "update", "delete", "find"} => nova # NoAggregate
  /\ pc[n] \in {"create", "make"} => nova = NoAggregate
  /\ pc[n] \in {"meta", "fill", "update"} => toAdd[n] \cap nova.hosts = {}
  /\ pc[n] \in {"meta", "update"} => toRemove[n] \subseteq nova.hosts

ReadyInv == IInv /\ \A n \in Minion : clean[n] => Ready(n)

LEMMA ReliableFacts ==
  ASSUME stable, NEW valid, valid
  PROVE  /\ \A answer \in Answers(valid, stable) : Completes(answer)
         /\ nova # NoAggregate => \A answer \in NamedAnswers(valid) : Completes(answer)
BY DEF NamedAnswers, Answers, Completes

\* The run that creates an aggregate with metadata always fails.
CreatesWithMeta(m) ==
  want[m].ensure = "present" /\ KeysOf(want[m].meta) # {} /\ nova = NoAggregate

\* A step of a run that is ready leaves it ready, or ends it with success.
ReadyStep(m) ==
  /\ Ready(m)'
  /\ stable /\ Ends(m) => report'[m] \in SuccessReport \/ CreatesWithMeta(m)

LEMMA FinishReady ==
  ASSUME TypeOK, NEW m \in Minion, NEW result, Finish(m, result),
         ~stable \/ result \in SuccessReport \/ CreatesWithMeta(m)
  PROVE  ReadyStep(m)
BY DEF TypeOK, RunTypeOK, Finish, Return, Ready, ReadyStep

LEMMA GoesOnReady ==
  ASSUME NEW m \in Minion, pc'[m] # "idle", Ready(m)'
  PROVE  ReadyStep(m)
BY DEF ReadyStep, Ends

LEMMA ListReady ==
  ASSUME TypeOK, NEW m \in Minion, List(m) \/ ListIds(m)
  PROVE  ReadyStep(m)
<1>1. nova' = nova
  BY DEF List, ListIds, ReadsFirst
<1>2. CASE ~stable /\ \E result : Finish(m, result)
  BY <1>2, FinishReady
<1>3. CASE Finish(m, "non_existent")
  BY <1>3, FinishReady DEF SuccessReport
<1>4. CASE nova # NoAggregate /\ Compare(m)
  <2>1. /\ pc'[m] \in {"meta", "update"}
        /\ toAdd'[m] = want[m].hosts \ nova.hosts
        /\ toRemove'[m] = nova.hosts \ want[m].hosts
    BY <1>4 DEF Compare, HostsToAdd, HostsToRemove, GoTo, TypeOK, RunTypeOK
  <2>. QED BY <1>1, <1>4, <2>1, GoesOnReady DEF Ready
<1>5. CASE nova # NoAggregate /\ (GoTo(m, "delete") \/ GoTo(m, "find"))
  <2>1. pc'[m] \in {"delete", "find"}
    BY <1>5 DEF GoTo, TypeOK, RunTypeOK
  <2>. QED BY <1>1, <1>5, <2>1, GoesOnReady DEF Ready
<1>6. CASE nova = NoAggregate /\ (GoTo(m, "create") \/ GoTo(m, "make"))
  <2>1. pc'[m] \in {"create", "make"}
    BY <1>6 DEF GoTo, TypeOK, RunTypeOK
  <2>. QED BY <1>1, <1>6, <2>1, GoesOnReady DEF Ready
<1>7. CASE List(m)
  <2>1. PICK answer \in Answers(TRUE, stable) :
          IF ~Completes(answer) THEN Finish(m, Failed(answer, "find_failed"))
          ELSE \/ nova # NoAggregate /\ Compare(m)
               \/ nova # NoAggregate /\ GoTo(m, "delete")
               \/ nova = NoAggregate /\ GoTo(m, "create")
               \/ Finish(m, "non_existent")
    BY <1>7 DEF List
  <2>. QED BY <1>2, <1>3, <1>4, <1>5, <1>6, <2>1, ReliableFacts
<1>8. CASE ListIds(m)
  <2>1. PICK answer \in Answers(TRUE, stable) :
          IF Completes(answer) THEN GoTo(m, IF nova = NoAggregate THEN "make" ELSE "find")
          ELSE Finish(m, Exception)
    BY <1>8 DEF ListIds
  <2>. QED BY <1>2, <1>5, <1>6, <2>1, ReliableFacts
<1>. QED
  BY <1>7, <1>8

LEMMA CreateReady ==
  ASSUME TypeOK, NEW m \in Minion, PhaseFacts(m), Ready(m), Create(m)
  PROVE  ReadyStep(m)
<1>1. PICK answer \in Answers(nova = NoAggregate, stable) : CreateAnswered(m, answer)
  BY DEF Create
<1>2. nova = NoAggregate /\ want[m].ensure = "present"
  BY DEF Create, Ready, PhaseFacts
<1>3. CASE ~Completes(answer)
  BY <1>1, <1>2, <1>3, ReliableFacts, FinishReady DEF CreateAnswered
<1>4. CASE Completes(answer) /\ KeysOf(want[m].meta) # {}
  BY <1>1, <1>2, <1>4, FinishReady DEF CreateAnswered, AfterCreate, CreatesWithMeta
<1>5. CASE Completes(answer) /\ KeysOf(want[m].meta) = {}
  <2>1. nova' = NewAggregate(want[m]) /\ GoTo(m, "fill")
    BY <1>1, <1>5, AnswersFacts DEF CreateAnswered, Becomes, AfterCreate
  <2>2. pc'[m] = "fill"
    BY <2>1 DEF GoTo, TypeOK, RunTypeOK
  <2>3. nova' # NoAggregate /\ nova'.hosts = {}
    BY <2>1, Shapes, WantType DEF NewAggregate
  <2>. QED BY <2>2, <2>3, GoesOnReady DEF Ready
<1>. QED
  BY <1>3, <1>4, <1>5

\* A call that names an aggregate which is there, and leaves it there.
LEMMA ChangesReady ==
  ASSUME TypeOK, NEW m \in Minion, PhaseFacts(m), Ready(m),
         SetMeta(m) \/ AddHost(m) \/ RemoveHost(m)
  PROVE  ReadyStep(m)
<1>1. nova # NoAggregate /\ nova \in Aggregate
  BY Shapes DEF SetMeta, AddHost, RemoveHost, Ready, TypeOK, RunTypeOK
<1>2. CASE SetMeta(m)
  <2>1. PICK answer \in NamedAnswers(TRUE) : SetMetaAnswered(m, answer)
    BY <1>2 DEF SetMeta
  <2>2. CASE ~Completes(answer)
    BY <1>1, <2>1, <2>2, ReliableFacts, FinishReady DEF SetMetaAnswered
  <2>3. CASE Completes(answer)
    <3>1. /\ pc'[m] = "update" /\ UNCHANGED <<toAdd, toRemove>>
          /\ nova' = [nova EXCEPT !.meta = Merge(@, want[m].meta)]
      BY <2>1, <2>3, NamedFacts DEF SetMetaAnswered, Becomes, GoTo, local, TypeOK, RunTypeOK
    <3>2. nova' \in Aggregate /\ nova'.hosts = nova.hosts
      BY <1>1, <3>1, Shapes, WantType DEF Aggregate
    <3>. QED BY <1>1, <1>2, <3>1, <3>2, Shapes, GoesOnReady DEF SetMeta, Ready
  <2>. QED BY <2>2, <2>3
<1>3. CASE AddHost(m)
  <2>1. PICK host \in toAdd[m] : \E answer \in NamedAnswers(host \notin nova.hosts) :
                                   AddAnswered(m, host, answer)
    BY <1>3 DEF AddHost
  <2>2. PICK answer \in NamedAnswers(host \notin nova.hosts) : AddAnswered(m, host, answer)
    BY <2>1
  <2>3. pc[m] \in {"fill", "update"} /\ host \notin nova.hosts /\ host \in Host
    BY <1>3 DEF AddHost, Ready, TypeOK
  <2>4. CASE ~Completes(answer)
    BY <1>1, <2>2, <2>3, <2>4, ReliableFacts, FinishReady DEF AddAnswered
  <2>5. CASE Completes(answer)
    <3>1. /\ toAdd'[m] = toAdd[m] \ {host} /\ UNCHANGED <<pc, toRemove>>
          /\ nova' = [nova EXCEPT !.hosts = @ \cup {host}]
      BY <2>2, <2>5, NamedFacts DEF AddAnswered, Becomes, TypeOK
    <3>2. nova' \in Aggregate /\ nova'.hosts = nova.hosts \cup {host}
      BY <1>1, <2>3, <3>1 DEF Aggregate
    <3>. QED BY <2>3, <3>1, <3>2, Shapes, GoesOnReady DEF Ready
  <2>. QED BY <2>4, <2>5
<1>4. CASE RemoveHost(m)
  <2>1. PICK host \in toRemove[m] : \E answer \in NamedAnswers(host \in nova.hosts) :
                                      RemoveAnswered(m, host, answer)
    BY <1>4 DEF RemoveHost
  <2>2. PICK answer \in NamedAnswers(host \in nova.hosts) : RemoveAnswered(m, host, answer)
    BY <2>1
  <2>3. pc[m] = "update" /\ host \in nova.hosts
    BY <1>4 DEF RemoveHost, Ready
  <2>4. CASE ~Completes(answer)
    BY <1>1, <2>2, <2>3, <2>4, ReliableFacts, FinishReady DEF RemoveAnswered
  <2>5. CASE Completes(answer)
    <3>1. /\ toRemove'[m] = toRemove[m] \ {host} /\ UNCHANGED <<pc, toAdd>>
          /\ nova' = [nova EXCEPT !.hosts = @ \ {host}]
      BY <2>2, <2>5, NamedFacts DEF RemoveAnswered, Becomes, TypeOK
    <3>2. nova' \in Aggregate /\ nova'.hosts = nova.hosts \ {host}
      BY <1>1, <3>1 DEF Aggregate
    <3>. QED BY <2>3, <3>1, <3>2, Shapes, GoesOnReady DEF Ready
  <2>. QED BY <2>4, <2>5
<1>. QED
  BY <1>2, <1>3, <1>4

\* The calls that a run ends with.
LEMMA LastReady ==
  ASSUME TypeOK, NEW m \in Minion, Ready(m), clean[m],
         Conclude(m) \/ Delete(m) \/ GetName(m) \/ Make(m)
  PROVE  ReadyStep(m)
<1>1. CASE Conclude(m)
  BY <1>1, FinishReady DEF Conclude, Result, SuccessReport
<1>2. CASE Delete(m)
  <2>1. PICK answer \in NamedAnswers(TRUE) : DeleteAnswered(m, answer)
    BY <1>2 DEF Delete
  <2>2. nova # NoAggregate
    BY <1>2 DEF Delete, Ready
  <2>. QED BY <2>1, <2>2, ReliableFacts, FinishReady DEF DeleteAnswered, SuccessReport
<1>3. CASE GetName(m)
  <2>1. nova # NoAggregate
    BY <1>3 DEF GetName, Ready
  <2>2. PICK answer \in Answers(nova # NoAggregate, stable) :
          Finish(m, IF Completes(answer) THEN "no_change" ELSE Exception)
    BY <1>3 DEF GetName
  <2>. QED BY <2>1, <2>2, ReliableFacts, FinishReady DEF SuccessReport
<1>4. CASE Make(m)
  <2>1. PICK answer \in Answers(nova = NoAggregate, stable) : MakeAnswered(m, answer)
    BY <1>4 DEF Make
  <2>2. nova = NoAggregate
    BY <1>4 DEF Make, Ready
  <2>. QED BY <2>1, <2>2, ReliableFacts, FinishReady DEF MakeAnswered, SuccessReport
<1>. QED
  BY <1>1, <1>2, <1>3, <1>4

LEMMA CallReady ==
  ASSUME TypeOK, NEW m \in Minion, PhaseFacts(m), Call(m), clean'[m], clean[m] => Ready(m)
  PROVE  ReadyStep(m)
<1>1. CASE List(m) \/ ListIds(m)
  BY <1>1, ListReady
<1>2. CASE ~(List(m) \/ ListIds(m))
  <2>1. pc[m] # "list"
    BY <1>2
       DEF Call, List, ListIds, GetName, Make, Create, SetMeta, AddHost, RemoveHost, Conclude, Delete
  <2>2. clean[m] /\ Ready(m)
    BY <2>1, CallFrame DEF FrameFacts
  <2>. QED BY <1>2, <2>2, CreateReady, ChangesReady, LastReady DEF Call
<1>. QED
  BY <1>1, <1>2

LEMMA StepReady == ReadyInv /\ [Next]_vars => ReadyInv'
<1> SUFFICES ASSUME ReadyInv, [Next]_vars, NEW n \in Minion, clean'[n]
             PROVE  Ready(n)'
  BY StepInv DEF ReadyInv
<1>a. TypeOK /\ PhaseFacts(n) /\ (clean[n] => Ready(n))
  BY DEF ReadyInv, IInv
<1>1. ASSUME NEW m \in Minion, Call(m)
      PROVE  Ready(n)'
  <2>1. CASE n # m
    BY <1>1, <1>a, <2>1, CallFrame DEF FrameFacts, Ready
  <2>2. CASE n = m
    BY <1>1, <1>a, <2>2, CallReady DEF ReadyStep
  <2>. QED BY <2>1, <2>2
<1>2. ASSUME NEW m \in Minion, Apply(m) \/ Abort(m)
      PROVE  Ready(n)'
  BY <1>2, <1>a DEF Apply, Begin, Abort, Kill, Return, Forget, local, TypeOK, RunTypeOK, Ready
<1>3. CASE Stabilize \/ UNCHANGED vars
  BY <1>3, <1>a DEF Stabilize, Settle, vars, run, local, Ready
<1>. QED
  BY <1>1, <1>2, <1>3 DEF Next

\* A run of the aggregate states of either driver that nobody disturbs fails only if a
\* call does, in a cloud that does not work, or if it creates an aggregate with metadata.
THEOREM FailuresHaveCauses == Spec => FailureHasCause
<1>1. Init => ReadyInv
  BY InitInv DEF ReadyInv, Init, RunInit
<1>2. ReadyInv /\ [Next]_vars =>
        [\A m \in Minion :
           stable /\ Ends(m) /\ clean'[m]
             => \/ report'[m] \in SuccessReport
                \/ want[m].ensure = "present" /\ KeysOf(want[m].meta) # {} /\ nova = NoAggregate]_vars
  <2> SUFFICES ASSUME ReadyInv, Next, NEW m \in Minion, stable, Ends(m), clean'[m]
               PROVE  report'[m] \in SuccessReport \/ CreatesWithMeta(m)
    BY DEF CreatesWithMeta
  <2>a. TypeOK /\ PhaseFacts(m) /\ (clean[m] => Ready(m))
    BY DEF ReadyInv, IInv
  <2>1. PICK n \in Minion : Call(n)
    BY <2>a DEF Next, Apply, Begin, Abort, Kill, Stabilize, Settle, Ends, TypeOK, RunTypeOK
  <2>2. n = m
    BY <2>1, <2>a, CallFrame DEF FrameFacts, Ends
  <2>. QED BY <2>a, <2>1, <2>2, CallReady DEF ReadyStep
<1>. QED
  BY <1>1, <1>2, StepReady, PTL DEF Spec, FailureHasCause

=============================================================================

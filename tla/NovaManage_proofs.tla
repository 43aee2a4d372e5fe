------------------------- MODULE NovaManage_proofs -------------------------
(***************************************************************************)
(* Proofs about the states that run nova-manage: SchemaVersion, for any    *)
(* number of minions, schema versions and requests, and CellMapping, for   *)
(* any number of minions, cells and requests.                              *)
(***************************************************************************)
EXTENDS SchemaVersion, CellMapping, FiniteSetTheorems, TLAPS

-----------------------------------------------------------------------------
\* Reports of each kind, and the steps that all state functions share.
LEMMA FailedFacts ==
  /\ \A answer : Failed(answer, "find_failed") \in FailureReport
  /\ \A answer : Failed(answer, "create_failed") \in FailureReport
  /\ \A answer : Failed(answer, "update_failed") \in FailureReport
  /\ \A answer : Failed(answer, "delete_failed") \in FailureReport
  /\ FailureReport \subseteq Report
  /\ SuccessReport \subseteq Report
  /\ NoReport \in Report
  /\ (FailureReport \cup {NoReport}) \cap SuccessReport = {}
BY DEF Failed, FailureReport, Exception, Report, SuccessReport, NoReport

LEMMA CommonType ==
  ASSUME NEW resources, NEW calls, "list" \in calls, RunTypeOK(resources, calls),
         \/ \E m \in Minion, request \in pillar : Begin(m, request)
         \/ \E m \in Minion : Kill(m)
         \/ Settle
         \/ UNCHANGED run
  PROVE  RunTypeOK(resources, calls)' /\ pillar' = pillar
<1> USE DEF RunTypeOK
<1>1. CASE \E m \in Minion, request \in pillar : Begin(m, request)
  BY <1>1, FailedFacts DEF Begin
<1>2. CASE \E m \in Minion : Kill(m)
  BY <1>2, FailedFacts DEF Kill, Return
<1>3. CASE Settle
  BY <1>3 DEF Settle
<1>4. CASE UNCHANGED run
  BY <1>4 DEF run
<1>. QED
  BY <1>1, <1>2, <1>3, <1>4

-----------------------------------------------------------------------------
\* Run n keeps to the calls of the state it applies; it issues a command that
\* writes only if the versions it has to do with are integers.
PhaseFacts(n) ==
  /\ report[n] # NoReport => pc[n] = "idle"
  /\ pc[n] = "sync" => want[n].state \in Db /\ want[n].ask[want[n].state] \in Version
  /\ pc[n] = "second" => want[n].state = "online"
  /\ pc[n] = "migrate" => want[n].state = "online" /\ want[n].ask \in Resource

\* The schemas are still as the run has read them, if nobody has migrated one since.
CleanFacts(n) ==
  /\ pc[n] = "second" => seen[n] \in {Garbage, nova["api_db"]}
  /\ pc[n] = "migrate" => nova = want[n].ask
  /\ report[n] = "updated" /\ want[n].state = "online" /\ obeyed[n] => want[n].ask \in moved

\* A schema that has reached the version asked for stays at it, or beyond.
ReachedFacts(n) ==
  LET state == want[n].state
  IN  report[n] \in SuccessReport /\ obeyed[n] /\ state \in Db /\ IsInteger(want[n].ask[state])
        => nova[state] >= want[n].ask[state]

RunFacts(n) == PhaseFacts(n) /\ ReachedFacts(n) /\ (clean[n] => CleanFacts(n))

IInv == TypeOK /\ \A n \in Minion : RunFacts(n)

LEMMA WantType ==
  ASSUME TypeOK, NEW m \in Minion
  PROVE  /\ want[m] \in pillar
         /\ want[m].state \in Db \cup {"online"}
         /\ want[m].ask \in [Db -> Version \cup {Garbage}]
         /\ \A db \in Db : IsInteger(want[m].ask[db]) => want[m].ask[db] \in Version
         /\ "online" \notin Db
<1>1. want[m] \in pillar /\ want[m] \in DbRequest
  BY DEF TypeOK, RunTypeOK
<1>. QED
  BY <1>1 DEF DbRequest, IsInteger, Db

LEMMA VersionFacts == Version \subseteq Nat /\ Garbage \notin Version
BY SchemaAssumption DEF Version

-----------------------------------------------------------------------------
\* What a step of run m leaves of the schemas: at most one of them is raised, and
\* not beyond the version asked for.
SchemaStep(m) ==
  \/ nova' = nova
  \/ /\ want[m].state \in Db
     /\ \E v \in Version : /\ nova[want[m].state] <= v /\ v <= want[m].ask[want[m].state]
                           /\ nova' = [nova EXCEPT ![want[m].state] = v]

\* ... of the data,
DataStep(m) ==
  moved' = moved \/ (pc[m] = "migrate" /\ moved' = moved \cup {nova} /\ nova' = nova)

\* ... and of the runs.
OwnTypes ==
  /\ pc' \in [Minion -> {"idle", "list", "second", "sync", "migrate"}]
  /\ want' = want
  /\ report' \in [Minion -> Report]
  /\ seen' \in [Minion -> Version \cup {Garbage}]
  /\ obeyed' \in [Minion -> BOOLEAN]

FrameFacts(m) ==
  /\ pillar' = pillar /\ stable' = stable
  /\ clean' \in [Minion -> BOOLEAN] /\ touched' \in [Minion -> BOOLEAN]
  /\ \A n \in Minion \ {m} :
       /\ pc'[n] = pc[n] /\ report'[n] = report[n]
       /\ seen'[n] = seen[n] /\ obeyed'[n] = obeyed[n]
       /\ clean'[n] => clean[n] /\ nova' = nova

OwnFacts(m) == PhaseFacts(m)' /\ ReachedFacts(m)' /\ (clean'[m] => CleanFacts(m)')

CallFacts(m) ==
  OwnTypes /\ FrameFacts(m) /\ SchemaStep(m) /\ DataStep(m) /\ OwnFacts(m)

\* Returning without a report of success.
LEMMA FailsOwn ==
  ASSUME TypeOK, NEW m \in Minion, NEW result \in FailureReport \cup {NoReport},
         Finish(m, result)
  PROVE  OwnFacts(m)
<1>1. pc'[m] = "idle" /\ report'[m] = result
  BY DEF Finish, Return, TypeOK, RunTypeOK
<1>. QED
  BY <1>1, FailedFacts DEF OwnFacts, PhaseFacts, ReachedFacts, CleanFacts, SuccessReport,
                           FailureReport, NoReport, Exception

LEMMA FinishTypes ==
  ASSUME TypeOK, NEW m \in Minion, NEW result \in Report, Finish(m, result),
         obeyed' \in [Minion -> BOOLEAN]
  PROVE  OwnTypes
BY DEF Finish, Return, Forget, TypeOK, RunTypeOK, OwnTypes

LEMMA HeedFacts ==
  ASSUME TypeOK, NEW m \in Minion, NEW answer, Heed(m, answer = "done")
  PROVE  /\ obeyed' \in [Minion -> BOOLEAN]
         /\ obeyed'[m] => answer = "done"
         /\ \A n \in Minion \ {m} : obeyed'[n] = obeyed[n]
BY DEF Heed, TypeOK

LEMMA ListCall ==
  ASSUME TypeOK, NEW m \in Minion, PhaseFacts(m), List(m)
  PROVE  CallFacts(m)
<1>1. PICK answer \in Shell :
        /\ Heed(m, answer = "done")
        /\ IF answer = "raised" THEN Finish(m, Exception)
           ELSE IF want[m].state \in Db THEN Compare(m, answer)
           ELSE /\ GoTo(m, "second")
                /\ seen' = [seen EXCEPT ![m] = Printed("api_db", answer)]
  BY DEF List
<1>2. nova' = nova /\ moved' = moved /\ pc[m] = "list" /\ report[m] = NoReport
  BY DEF List, ReadsFirst, PhaseFacts
<1>3. SchemaStep(m) /\ DataStep(m)
  BY <1>2 DEF SchemaStep, DataStep
<1>4. FrameFacts(m)
  BY <1>1, HeedFacts
     DEF List, ReadsFirst, FrameFacts, Compare, Finish, Return, Forget, GoTo, TypeOK, RunTypeOK
<1>5. CASE answer = "raised"
  BY <1>1, <1>3, <1>4, <1>5, HeedFacts, FailsOwn, FinishTypes, FailedFacts
     DEF CallFacts, FailureReport
<1>6. CASE answer # "raised" /\ want[m].state \in Db
  <2>. DEFINE db == want[m].state
              existing == Printed(db, answer)
              version == want[m].ask[db]
  <2>1. Compare(m, answer)
    BY <1>1, <1>6
  <2>2. CASE ~IsInteger(existing) \/ ~IsInteger(version)
    <3>1. Finish(m, NotInteger(m))
      BY <2>1, <2>2 DEF Compare
    <3>2. NotInteger(m) \in Report
      BY FailedFacts DEF NotInteger, SuccessReport, FailureReport
    <3>3. obeyed'[m] => ~IsInteger(version)
      BY <1>1, <1>6, <2>2, HeedFacts, VersionFacts DEF Printed, IsInteger, TypeOK, RunTypeOK, Resource
    <3>4. pc'[m] = "idle" /\ report'[m] = NotInteger(m) /\ want' = want
      BY <3>1 DEF Finish, Return, TypeOK, RunTypeOK
    <3>5. OwnFacts(m)
      BY <1>2, <1>6, <3>3, <3>4, WantType
         DEF OwnFacts, PhaseFacts, ReachedFacts, CleanFacts, NotInteger, IsInteger
    <3>. QED BY <1>1, <1>3, <1>4, <3>1, <3>2, <3>5, HeedFacts, FinishTypes DEF CallFacts
  <2>3. CASE IsInteger(existing) /\ IsInteger(version) /\ Older(existing, version)
    <3>1. GoTo(m, "sync") /\ UNCHANGED seen
      BY <2>1, <2>3 DEF Compare
    <3>2. pc'[m] = "sync" /\ report' = report /\ want' = want
      BY <3>1 DEF GoTo, TypeOK, RunTypeOK
    <3>3. OwnTypes
      BY <1>1, <3>1, HeedFacts DEF OwnTypes, GoTo, TypeOK, RunTypeOK
    <3>4. OwnFacts(m)
      BY <1>2, <1>6, <2>3, <3>2, WantType
         DEF OwnFacts, PhaseFacts, ReachedFacts, CleanFacts, NoReport, SuccessReport
    <3>. QED BY <1>3, <1>4, <3>3, <3>4 DEF CallFacts
  <2>4. CASE IsInteger(existing) /\ IsInteger(version) /\ ~Older(existing, version)
    <3>1. Finish(m, "no_change")
      BY <2>1, <2>4 DEF Compare
    <3>2. existing = nova[db] /\ nova[db] \in Version /\ version \in Version
      BY <1>6, <2>4, WantType DEF Printed, IsInteger, TypeOK, RunTypeOK, Resource
    <3>3. nova[db] >= version
      <4>1. nova[db] \in Nat /\ version \in Nat
        BY <3>2, VersionFacts
      <4>. QED BY <2>4, <3>2, <4>1 DEF Older
    <3>4. pc'[m] = "idle" /\ report'[m] = "no_change" /\ want' = want
      BY <3>1 DEF Finish, Return, TypeOK, RunTypeOK
    <3>5. OwnFacts(m)
      BY <1>2, <3>3, <3>4 DEF OwnFacts, PhaseFacts, ReachedFacts, CleanFacts, IsInteger
    <3>6. "no_change" \in Report
      BY FailedFacts DEF SuccessReport
    <3>. QED BY <1>1, <1>3, <1>4, <3>1, <3>5, <3>6, HeedFacts, FinishTypes DEF CallFacts
  <2>. QED BY <2>2, <2>3, <2>4
<1>7. CASE answer # "raised" /\ want[m].state \notin Db
  <2>1. GoTo(m, "second") /\ seen' = [seen EXCEPT ![m] = Printed("api_db", answer)]
    BY <1>1, <1>7
  <2>2. Printed("api_db", answer) \in Version \cup {Garbage}
    BY DEF Printed, Db, TypeOK, RunTypeOK, Resource
  <2>3. /\ pc'[m] = "second" /\ report' = report /\ want' = want
        /\ seen'[m] \in {Garbage, nova["api_db"]}
    BY <2>1 DEF GoTo, Printed, TypeOK, RunTypeOK
  <2>4. OwnTypes
    BY <1>1, <2>1, <2>2, HeedFacts DEF OwnTypes, GoTo, TypeOK, RunTypeOK
  <2>5. OwnFacts(m)
    BY <1>2, <1>7, <2>3, WantType
       DEF OwnFacts, PhaseFacts, ReachedFacts, CleanFacts, NoReport, SuccessReport
  <2>. QED BY <1>3, <1>4, <2>4, <2>5 DEF CallFacts
<1>. QED
  BY <1>5, <1>6, <1>7

LEMMA ReadSecondCall ==
  ASSUME TypeOK, NEW m \in Minion, PhaseFacts(m), clean[m] => CleanFacts(m), ReadSecond(m)
  PROVE  CallFacts(m)
<1>. DEFINE ask == want[m].ask
<1>1. PICK answer \in Shell :
        /\ Heed(m, answer = "done")
        /\ IF answer = "raised" THEN Finish(m, Exception)
           ELSE IF \E v \in {seen[m], Printed("db", answer), ask["api_db"], ask["db"]} :
                     ~IsInteger(v)
           THEN Finish(m, NotInteger(m))
           ELSE IF InPlace(seen[m], Printed("db", answer), ask)
           THEN GoTo(m, "migrate") /\ UNCHANGED seen
           ELSE Finish(m, NotInPlace(m))
  BY DEF ReadSecond
<1>2. /\ nova' = nova /\ moved' = moved /\ clean' = clean
      /\ pc[m] = "second" /\ want[m].state = "online" /\ report[m] = NoReport
  BY DEF ReadSecond, Reads, PhaseFacts
<1>3. SchemaStep(m) /\ DataStep(m)
  BY <1>2 DEF SchemaStep, DataStep
<1>4. FrameFacts(m)
  BY <1>1, HeedFacts
     DEF ReadSecond, Reads, FrameFacts, Finish, Return, Forget, GoTo, TypeOK, RunTypeOK
<1>5. ASSUME NEW result \in {Exception, "no_change", "update_failed"}, Finish(m, result)
      PROVE  CallFacts(m)
  <2>1. result \in Report
    BY FailedFacts DEF SuccessReport, FailureReport
  <2>2. pc'[m] = "idle" /\ report'[m] = result /\ want' = want
    BY <1>5 DEF Finish, Return, TypeOK, RunTypeOK
  <2>3. OwnFacts(m)
    BY <1>2, <2>2, WantType DEF OwnFacts, PhaseFacts, ReachedFacts, CleanFacts, Exception
  <2>. QED BY <1>1, <1>3, <1>4, <1>5, <2>1, <2>3, HeedFacts, FinishTypes DEF CallFacts
<1>6. ASSUME answer # "raised",
             \A v \in {seen[m], Printed("db", answer), ask["api_db"], ask["db"]} : IsInteger(v),
             InPlace(seen[m], Printed("db", answer), ask), GoTo(m, "migrate"), UNCHANGED seen
      PROVE  CallFacts(m)
  <2>1. pc'[m] = "migrate" /\ report' = report /\ want' = want
    BY <1>6 DEF GoTo, TypeOK, RunTypeOK
  <2>2. OwnTypes
    BY <1>1, <1>6, HeedFacts DEF OwnTypes, GoTo, TypeOK, RunTypeOK
  <2>3. ask["api_db"] \in Version /\ ask["db"] \in Version /\ ask \in [Db -> Version \cup {Garbage}]
    BY <1>6, WantType DEF Db
  <2>4. ask \in Resource
    BY <2>3 DEF Resource, Db
  <2>5. Printed("db", answer) = nova["db"]
    BY <1>6 DEF Printed, IsInteger
  <2>6. clean[m] => nova["api_db"] = ask["api_db"] /\ nova["db"] = ask["db"]
    BY <1>2, <1>6, <2>5 DEF CleanFacts, InPlace, IsInteger
  <2>7. clean[m] => nova = ask
    BY <2>4, <2>6 DEF TypeOK, RunTypeOK, Resource, Db
  <2>8. OwnFacts(m)
    BY <1>2, <2>1, <2>4, <2>7
       DEF OwnFacts, PhaseFacts, ReachedFacts, CleanFacts, NoReport, SuccessReport
  <2>. QED BY <1>3, <1>4, <2>2, <2>8 DEF CallFacts
<1>. QED
  BY <1>1, <1>5, <1>6 DEF NotInteger, NotInPlace

LEMMA SyncCall ==
  ASSUME TypeOK, NEW m \in Minion, PhaseFacts(m), Sync(m)
  PROVE  CallFacts(m)
<1>. DEFINE db == want[m].state
            version == want[m].ask[db]
<1>1. PICK answer \in Shell :
        /\ \E new \in Synced(db, version, answer) : Becomes(m, new)
        /\ Heed(m, answer = "done")
        /\ Finish(m, ReportOf(answer))
  BY DEF Sync
<1>2. PICK new \in Synced(db, version, answer) : Becomes(m, new)
  BY <1>1
<1>3. /\ nova' = new /\ moved' = moved /\ pc[m] = "sync" /\ want' = want
      /\ db \in Db /\ version \in Version /\ nova[db] \in Version
  BY <1>1, <1>2 DEF Sync, PhaseFacts, Becomes, Finish, Return, TypeOK, RunTypeOK, Resource
<1>4. \/ nova' = nova
      \/ \E v \in Version : /\ nova[db] <= v /\ v <= version
                            /\ nova' = [nova EXCEPT ![db] = v]
  <2>1. CASE answer = "raised" \/ version < nova[db]
    BY <1>2, <1>3, <2>1 DEF Synced
  <2>2. CASE ~(answer = "raised" \/ version < nova[db])
    <3>1. PICK v \in IF answer = "done" THEN {version} ELSE nova[db]..version :
            new = [nova EXCEPT ![db] = v]
      BY <1>2, <2>2 DEF Synced
    <3>2. version \in Nat /\ nova[db] \in Nat /\ nova[db] <= version
      BY <1>3, <2>2, VersionFacts
    <3>3. v \in nova[db]..version
      BY <3>1, <3>2
    <3>4. v \in Version /\ nova[db] <= v /\ v <= version
      BY <1>3, <3>2, <3>3, SchemaAssumption DEF Version
    <3>. QED BY <1>3, <3>1, <3>4
  <2>. QED BY <2>1, <2>2
<1>5. SchemaStep(m) /\ DataStep(m)
  BY <1>3, <1>4 DEF SchemaStep, DataStep
<1>6. obeyed'[m] => nova'[db] >= version
  <2> SUFFICES ASSUME answer = "done" PROVE nova'[db] >= version
    BY <1>1, HeedFacts
  <2>1. version \in Nat /\ nova[db] \in Nat /\ nova \in [Db -> Version]
    BY <1>3, VersionFacts DEF TypeOK, RunTypeOK, Resource
  <2>2. CASE version < nova[db]
    BY <1>2, <1>3, <2>1, <2>2 DEF Synced
  <2>3. CASE ~(version < nova[db])
    <3>1. new = [nova EXCEPT ![db] = version]
      BY <1>2, <2>3 DEF Synced
    <3>. QED BY <1>3, <2>1, <3>1
  <2>. QED BY <2>2, <2>3
<1>7. FrameFacts(m)
  <2>1. \A n \in Minion \ {m} : clean'[n] => clean[n] /\ nova' = nova
    BY <1>2 DEF Becomes
  <2>. QED BY <1>1, <1>2, <2>1, HeedFacts
           DEF FrameFacts, Becomes, Finish, Return, Forget, TypeOK, RunTypeOK
<1>8. ReportOf(answer) \in {"update_failed", "updated"}
  BY DEF ReportOf
<1>9. pc'[m] = "idle" /\ report'[m] = ReportOf(answer)
  BY <1>1 DEF Finish, Return, TypeOK, RunTypeOK
<1>10. OwnFacts(m)
  BY <1>3, <1>6, <1>8, <1>9, WantType
     DEF OwnFacts, PhaseFacts, ReachedFacts, CleanFacts, IsInteger
<1>11. ReportOf(answer) \in Report
  BY <1>8, FailedFacts DEF SuccessReport, FailureReport
<1>. QED
  BY <1>1, <1>5, <1>7, <1>10, <1>11, HeedFacts, FinishTypes DEF CallFacts

LEMMA MigrateCall ==
  ASSUME TypeOK, NEW m \in Minion, PhaseFacts(m), clean[m] => CleanFacts(m), Migrate(m)
  PROVE  CallFacts(m)
<1>1. PICK answer \in Shell :
        /\ moved' = IF answer = "done" THEN moved \cup {nova} ELSE moved
        /\ Heed(m, answer = "done")
        /\ Finish(m, ReportOf(answer))
  BY DEF Migrate
<1>2. /\ nova' = nova /\ clean' = clean /\ pc[m] = "migrate" /\ want[m].state = "online"
      /\ want' = want
  BY <1>1 DEF Migrate, Reads, PhaseFacts, Finish, Return
<1>3. SchemaStep(m) /\ DataStep(m)
  BY <1>1, <1>2 DEF SchemaStep, DataStep
<1>4. FrameFacts(m)
  BY <1>1, HeedFacts DEF Migrate, Reads, FrameFacts, Finish, Return, Forget, TypeOK, RunTypeOK
<1>5. ReportOf(answer) \in {"update_failed", "updated"}
  BY DEF ReportOf
<1>6. pc'[m] = "idle" /\ report'[m] = ReportOf(answer)
  BY <1>1 DEF Finish, Return, TypeOK, RunTypeOK
<1>7. clean[m] /\ obeyed'[m] => want[m].ask \in moved'
  BY <1>1, <1>2, HeedFacts DEF CleanFacts
<1>8. OwnFacts(m)
  BY <1>2, <1>5, <1>6, <1>7, WantType DEF OwnFacts, PhaseFacts, ReachedFacts, CleanFacts
<1>9. ReportOf(answer) \in Report
  BY <1>5, FailedFacts DEF SuccessReport, FailureReport
<1>. QED
  BY <1>1, <1>3, <1>4, <1>8, <1>9, HeedFacts, FinishTypes DEF CallFacts

LEMMA CallIsCallFacts ==
  ASSUME TypeOK, NEW m \in Minion, RunFacts(m), Call(m)
  PROVE  CallFacts(m)
BY ListCall, ReadSecondCall, SyncCall, MigrateCall DEF Call, RunFacts

-----------------------------------------------------------------------------
\* The step keeps the types of the schemas, and lowers none.
LEMMA SchemaRises ==
  ASSUME TypeOK, NEW m \in Minion, SchemaStep(m)
  PROVE  /\ nova' \in Resource
         /\ \A db \in Db : nova'[db] >= nova[db]
<1>1. nova \in Resource /\ \A db \in Db : nova[db] \in Version
  BY DEF TypeOK, RunTypeOK, Resource
<1>2. \A db \in Db : nova[db] \in Nat
  BY <1>1, VersionFacts
<1>3. CASE nova' = nova
  BY <1>1, <1>2, <1>3
<1>4. ASSUME NEW v \in Version, want[m].state \in Db, nova[want[m].state] <= v,
             nova' = [nova EXCEPT ![want[m].state] = v]
      PROVE  nova' \in Resource /\ \A db \in Db : nova'[db] >= nova[db]
  <2>1. v \in Nat
    BY VersionFacts
  <2>. QED BY <1>1, <1>2, <1>4, <2>1 DEF Resource
<1>. QED
  BY <1>3, <1>4 DEF SchemaStep

LEMMA OtherFacts ==
  ASSUME TypeOK, NEW m \in Minion, SchemaStep(m), NEW n \in Minion, RunFacts(n),
         moved \subseteq moved',
         pc'[n] = pc[n], report'[n] = report[n], want'[n] = want[n],
         seen'[n] = seen[n], obeyed'[n] = obeyed[n],
         clean'[n] => clean[n] /\ nova' = nova
  PROVE  RunFacts(n)'
<1>1. PhaseFacts(n)'
  BY DEF RunFacts, PhaseFacts
<1>2. clean'[n] => CleanFacts(n)'
  BY DEF RunFacts, CleanFacts
<1>3. ReachedFacts(n)'
  <2>. DEFINE db == want[n].state
  <2> SUFFICES ASSUME db \in Db, IsInteger(want[n].ask[db]), nova[db] >= want[n].ask[db]
               PROVE  nova'[db] >= want[n].ask[db]
    BY DEF RunFacts, ReachedFacts
  <2>1. nova[db] \in Version /\ nova'[db] \in Version /\ nova'[db] >= nova[db]
    BY SchemaRises DEF TypeOK, RunTypeOK, Resource
  <2>2. want[n].ask[db] \in Version
    BY WantType
  <2>3. nova[db] \in Nat /\ nova'[db] \in Nat /\ want[n].ask[db] \in Nat
    BY <2>1, <2>2, VersionFacts
  <2>. QED BY <2>1, <2>3
<1>. QED
  BY <1>1, <1>2, <1>3 DEF RunFacts

LEMMA NoCallSchema == nova' = nova => \A m : SchemaStep(m)
BY DEF SchemaStep

LEMMA StepInv == IInv /\ [Next]_vars => IInv'
<1> SUFFICES ASSUME IInv, [Next]_vars PROVE IInv'
  OBVIOUS
<1>a. TypeOK /\ \A n \in Minion : RunFacts(n)
  BY DEF IInv
<1>1. ASSUME NEW m \in Minion, Call(m) PROVE IInv'
  <2>1. OwnTypes /\ FrameFacts(m) /\ SchemaStep(m) /\ DataStep(m) /\ OwnFacts(m)
    BY <1>1, <1>a, CallIsCallFacts DEF CallFacts
  <2>2. moved \subseteq moved' /\ moved' \in SUBSET Resource
    BY <1>a, <2>1 DEF DataStep, TypeOK, RunTypeOK
  <2>3. TypeOK'
    BY <1>a, <2>1, <2>2, SchemaRises DEF TypeOK, RunTypeOK, OwnTypes, FrameFacts
  <2>4. ASSUME NEW n \in Minion, n # m PROVE RunFacts(n)'
    <3>1. /\ pc'[n] = pc[n] /\ report'[n] = report[n] /\ want'[n] = want[n]
          /\ seen'[n] = seen[n] /\ obeyed'[n] = obeyed[n]
          /\ clean'[n] => clean[n] /\ nova' = nova
      BY <2>1, <2>4 DEF OwnTypes, FrameFacts
    <3>. QED BY <1>a, <2>1, <2>2, <3>1, OtherFacts
  <2>. QED BY <2>1, <2>3, <2>4 DEF IInv, RunFacts, OwnFacts
<1>2. ASSUME NEW m \in Minion, Apply(m) \/ Abort(m) PROVE IInv'
  <2>1. TypeOK'
    <3>1. CASE Apply(m)
      BY <1>a, <3>1, CommonType DEF Apply, ApplyOne, TypeOK
    <3>2. CASE Abort(m)
      BY <1>a, <3>2, CommonType DEF Abort, Forget, TypeOK
    <3>. QED BY <1>2, <3>1, <3>2
  <2>2. nova' = nova /\ clean' = clean /\ moved' = moved /\ SchemaStep(m)
    BY <1>2, NoCallSchema DEF Apply, ApplyOne, Begin, Abort, Kill
  <2>3. RunFacts(m)'
    <3>1. report'[m] = NoReport /\ pc'[m] \in {"idle", "list"}
      BY <1>2, <1>a DEF Apply, ApplyOne, Begin, Abort, Kill, Return, TypeOK, RunTypeOK
    <3>. QED BY <3>1 DEF RunFacts, PhaseFacts, ReachedFacts, CleanFacts, NoReport, SuccessReport
  <2>4. ASSUME NEW n \in Minion, n # m PROVE RunFacts(n)'
    <3>1. /\ pc'[n] = pc[n] /\ report'[n] = report[n] /\ want'[n] = want[n]
          /\ seen'[n] = seen[n] /\ obeyed'[n] = obeyed[n]
      BY <1>2, <1>a, <2>4
         DEF Apply, ApplyOne, Begin, Abort, Kill, Return, Forget, TypeOK, RunTypeOK
    <3>. QED BY <1>a, <2>2, <3>1, OtherFacts
  <2>. QED BY <2>1, <2>3, <2>4 DEF IInv
<1>3. CASE Stabilize \/ UNCHANGED vars
  <2>1. TypeOK'
    BY <1>3, <1>a, CommonType DEF Stabilize, vars, local, TypeOK
  <2>. QED BY <1>3, <1>a, <2>1 DEF Stabilize, Settle, vars, run, local, IInv, RunFacts,
                                   PhaseFacts, ReachedFacts, CleanFacts
<1>. QED
  BY <1>1, <1>2, <1>3 DEF Next

LEMMA InitInv == Init => IInv
<1>1. Init => TypeOK
  <2> SUFFICES ASSUME Init PROVE TypeOK
    OBVIOUS
  <2>1. (CHOOSE r \in pillar : TRUE) \in pillar
    BY PillarAssumption DEF Init, RunInit
  <2>. QED BY <2>1, FailedFacts DEF Init, TypeOK, RunInit, RunTypeOK
<1>. QED
  BY <1>1 DEF Init, RunInit, IInv, RunFacts, PhaseFacts, ReachedFacts, CleanFacts, NoReport,
              SuccessReport

\* The variables of the model stay within their types.
THEOREM TypeCorrect == Spec => []TypeOK
<1>1. IInv => TypeOK
  BY DEF IInv
<1>. QED
  BY <1>1, InitInv, StepInv, PTL DEF Spec

\* A report of success is true for good if no nova-manage of the run failed unseen.
THEOREM ReportsAreTrue == Spec => []ReportIsTrue
<1>1. IInv => ReportIsTrue
  <2> SUFFICES ASSUME IInv, NEW m \in Minion, report[m] \in SuccessReport, obeyed[m]
               PROVE  LET state == want[m].state
                          ask == want[m].ask
                      IN  /\ state \in Db /\ IsInteger(ask[state]) => nova[state] >= ask[state]
                          /\ state = "online" /\ report[m] = "updated" /\ clean[m] => ask \in moved
    BY DEF ReportIsTrue
  <2>. QED BY DEF IInv, RunFacts, ReachedFacts, CleanFacts
<1>. QED
  BY <1>1, InitInv, StepInv, PTL DEF Spec

-----------------------------------------------------------------------------
(***************************************************************************)
(* States that agree on the versions.                                      *)
(***************************************************************************)

\* What the run has read is still so if it is what the pillar asks for, and the data
\* have been migrated over these schemas only.
InOrder ==
  /\ moved \subseteq {Target}
  /\ moved # {} => nova = Target
  /\ \A n \in Minion :
       /\ pc[n] = "second" /\ seen[n] = Target["api_db"] => nova["api_db"] = Target["api_db"]
       /\ pc[n] = "migrate" => nova = Target

LEMMA TargetFacts ==
  ASSUME TypeOK, Agreed
  PROVE  /\ Target \in Resource
         /\ \A m \in Minion : want[m].ask = Target
<1>1. pillar # {} /\ pillar \subseteq DbRequest
  BY PillarAssumption DEF TypeOK, RunTypeOK
<1>2. PICK r \in pillar : r.ask = Target /\ \A db \in Db : IsInteger(r.ask[db])
  BY <1>1 DEF Agreed
<1>3. r.ask \in [Db -> Version \cup {Garbage}]
  BY <1>1, <1>2 DEF DbRequest
<1>4. Target \in Resource
  BY <1>2, <1>3 DEF IsInteger, Resource
<1>. QED
  BY <1>4, WantType DEF Agreed

LEMMA PillarFixed == IInv /\ [Next]_vars => pillar' = pillar
BY CallIsCallFacts
   DEF IInv, CallFacts, FrameFacts, Next, vars, run, Apply, ApplyOne, Begin, Abort, Kill,
       Stabilize, Settle

\* A schema that has its version keeps it.
LEMMA TargetKept ==
  ASSUME TypeOK, Agreed, NEW m \in Minion, SchemaStep(m),
         NEW db \in Db, nova[db] = Target[db]
  PROVE  nova'[db] = Target[db]
<1>1. Target \in Resource /\ want[m].ask = Target
  BY TargetFacts
<1>2. nova \in Resource
  BY DEF TypeOK, RunTypeOK
<1>3. nova[db] \in Nat /\ nova'[db] >= nova[db] /\ Target[db] \in Nat
  BY <1>1, <1>2, SchemaRises, VersionFacts DEF Resource
<1>4. ASSUME NEW v \in Version, want[m].state \in Db, nova[want[m].state] <= v,
             v <= Target[want[m].state], nova' = [nova EXCEPT ![want[m].state] = v]
      PROVE  nova'[db] = Target[db]
  <2>1. v \in Nat
    BY VersionFacts
  <2>. QED BY <1>2, <1>3, <1>4, <2>1 DEF Resource
<1>. QED
  BY <1>1, <1>4 DEF SchemaStep

LEMMA TargetKeptWhole ==
  ASSUME TypeOK, Agreed, NEW m \in Minion, SchemaStep(m), nova = Target
  PROVE  nova' = Target
<1>1. \A db \in Db : nova'[db] = Target[db]
  BY TargetKept
<1>2. nova' \in Resource /\ Target \in Resource
  BY SchemaRises, TargetFacts
<1>. QED
  BY <1>1, <1>2 DEF Resource

LEMMA CallInOrder ==
  ASSUME IInv, Agreed, InOrder, NEW m \in Minion, Call(m), Target' = Target
  PROVE  InOrder'
<1>a. TypeOK /\ \A n \in Minion : RunFacts(n)
  BY DEF IInv
<1>1. OwnTypes /\ FrameFacts(m) /\ SchemaStep(m) /\ DataStep(m)
  BY <1>a, CallIsCallFacts DEF CallFacts
<1>2. nova = Target => nova' = Target
  BY <1>a, <1>1, TargetKeptWhole
<1>3. moved' \subseteq {Target} /\ (moved' # {} => nova' = Target)
  BY <1>1, <1>2 DEF DataStep, InOrder
<1>4. nova["api_db"] = Target["api_db"] => nova'["api_db"] = Target["api_db"]
  BY <1>a, <1>1, TargetKept DEF Db
<1>5. ASSUME NEW n \in Minion, n # m
      PROVE  /\ pc'[n] = "second" /\ seen'[n] = Target["api_db"] => nova'["api_db"] = Target["api_db"]
             /\ pc'[n] = "migrate" => nova' = Target
  BY <1>1, <1>2, <1>4, <1>5 DEF FrameFacts, InOrder
<1>6. pc'[m] = "second" /\ seen'[m] = Target["api_db"] => nova'["api_db"] = Target["api_db"]
  <2> SUFFICES ASSUME pc'[m] = "second", seen'[m] = Target["api_db"]
               PROVE  nova'["api_db"] = Target["api_db"]
    OBVIOUS
  <2>1. List(m)
    BY DEF Call, ReadSecond, Sync, Migrate, Finish, Return, GoTo, TypeOK, RunTypeOK, IInv
  <2>2. nova' = nova /\ \E answer \in Shell : seen' = [seen EXCEPT ![m] = Printed("api_db", answer)]
    BY <1>a, <2>1 DEF List, ReadsFirst, Compare, Finish, Return, GoTo, TypeOK, RunTypeOK
  <2>3. seen'[m] \in {Garbage, nova["api_db"]}
    BY <1>a, <2>2 DEF Printed, TypeOK
  <2>4. Target["api_db"] # Garbage
    BY <1>a, TargetFacts, VersionFacts DEF Resource, Db
  <2>. QED BY <2>2, <2>3, <2>4
<1>7. pc'[m] = "migrate" => nova' = Target
  <2> SUFFICES ASSUME pc'[m] = "migrate" PROVE nova' = Target
    OBVIOUS
  <2>1. ReadSecond(m)
    BY DEF Call, List, Compare, Sync, Migrate, Finish, Return, GoTo, TypeOK, RunTypeOK, IInv
  <2>2. want[m].ask = Target /\ Target \in Resource
    BY <1>a, TargetFacts
  <2>3. PICK answer \in Shell : InPlace(seen[m], Printed("db", answer), want[m].ask)
    BY <1>a, <2>1 DEF ReadSecond, Finish, Return, TypeOK, RunTypeOK
  <2>4. seen[m] = Target["api_db"] /\ Printed("db", answer) = Target["db"]
    BY <2>2, <2>3 DEF InPlace
  <2>5. nova["db"] = Target["db"]
    BY <2>2, <2>4, VersionFacts DEF Printed, Resource, Db
  <2>6. nova["api_db"] = Target["api_db"] /\ nova' = nova
    BY <2>1, <2>4 DEF InOrder, ReadSecond, Reads
  <2>. QED BY <1>a, <2>2, <2>5, <2>6 DEF TypeOK, RunTypeOK, Resource, Db
<1>. QED
  BY <1>3, <1>5, <1>6, <1>7 DEF InOrder

\* What the steps of the runs keep, and the step of SchemaMigration that each is.
LEMMA StepInOrder ==
  ASSUME IInv, Agreed, InOrder, [Next]_vars, Target' = Target, Agreed'
  PROVE  InOrder' /\ [A!SchemaReached \/ A!DataMigrated]_AgreedStage
<1>a. TypeOK /\ \A n \in Minion : RunFacts(n)
  BY DEF IInv
<1>1. ASSUME NEW m \in Minion, Call(m)
      PROVE  InOrder' /\ (nova = Target => nova' = Target) /\ moved \subseteq moved'
                      /\ (moved' # moved => nova = Target)
  <2>1. SchemaStep(m) /\ DataStep(m)
    BY <1>1, <1>a, CallIsCallFacts DEF CallFacts
  <2>2. InOrder'
    BY <1>1, CallInOrder
  <2>. QED BY <1>a, <2>1, <2>2, TargetKeptWhole DEF DataStep, InOrder
<1>2. ASSUME NEW m \in Minion, Apply(m) \/ Abort(m)
      PROVE  InOrder' /\ nova' = nova /\ moved' = moved
  <2>1. nova' = nova /\ moved' = moved
    BY <1>2 DEF Apply, ApplyOne, Begin, Abort, Kill
  <2>2. pc'[m] \in {"idle", "list"} /\ \A n \in Minion \ {m} : pc'[n] = pc[n] /\ seen'[n] = seen[n]
    BY <1>2, <1>a DEF Apply, ApplyOne, Begin, Abort, Kill, Return, Forget, TypeOK, RunTypeOK
  <2>. QED BY <2>1, <2>2 DEF InOrder
<1>3. CASE Stabilize \/ UNCHANGED vars
  BY <1>3 DEF Stabilize, Settle, vars, run, local, InOrder, AgreedStage, Agreed
<1>4. ASSUME InOrder', nova = Target => nova' = Target, moved \subseteq moved',
             moved' # moved => nova = Target
      PROVE  [A!SchemaReached \/ A!DataMigrated]_AgreedStage
  <2>1. AgreedStage = IF moved # {} THEN "done" ELSE IF nova = Target THEN "data" ELSE "schema"
    BY DEF AgreedStage, InOrder
  <2>2. AgreedStage' = IF moved' # {} THEN "done" ELSE IF nova' = Target THEN "data" ELSE "schema"
    BY <1>4 DEF AgreedStage, InOrder
  <2>. QED BY <1>4, <2>1, <2>2 DEF A!SchemaReached, A!DataMigrated, InOrder
<1>. QED
  BY <1>1, <1>2, <1>3, <1>4 DEF Next

\* The states of the three functions, applied by any number of minions that agree on
\* the versions, implement SchemaMigration: the data are migrated only over the
\* schemas they are meant for, although the versions are read in two commands and
\* used in a third.
THEOREM DataMigratedInOrder == Spec => MigratesInOrder
<1> DEFINE I == Agreed => InOrder
<1>1. Init => I /\ A!Init
  BY DEF Init, RunInit, InOrder, AgreedStage, A!Init, A!Stage
<1>2. IInv /\ [Next]_vars => (Agreed' <=> Agreed) /\ Target' = Target
  BY PillarFixed DEF Agreed, Target
<1>3. IInv /\ I /\ [Next]_vars => I' /\ [A!SchemaReached \/ A!DataMigrated]_AgreedStage
  <2> SUFFICES ASSUME IInv, I, [Next]_vars
               PROVE  I' /\ [A!SchemaReached \/ A!DataMigrated]_AgreedStage
    OBVIOUS
  <2>1. CASE Agreed
    BY <1>2, <2>1, StepInOrder
  <2>2. CASE ~Agreed
    BY <1>2, <2>2 DEF AgreedStage
  <2>. QED BY <2>1, <2>2
<1>. QED
  BY <1>1, <1>3, InitInv, StepInv, PTL DEF Spec, MigratesInOrder, A!Safe

-----------------------------------------------------------------------------
(***************************************************************************)
(* Cells.                                                                  *)
(***************************************************************************)
CellCalls == {"list", "update_none", "create", "discover", "map_new"} \cup States

\* Run n keeps to the calls of the state it applies and reports what this state may report.
CellPhase(n) ==
  /\ report[n] # NoReport => pc[n] = "idle"
  /\ pc[n] \in {"create", "update_none", "discover", "map_new"} => want[n].state = "present"
  /\ pc[n] \in States => pc[n] = want[n].state /\ uuid[n] \in Id
  /\ pc[n] \in {"idle", "list", "create", "discover", "map_new"} => rows[n] = 0
  /\ report[n] = "created" => want[n].state = "present"
  /\ report[n] \in {"non_existent", "deleted"} => want[n].state = "absent"
  /\ report[n] = "updated" => want[n].state # "absent" /\ (obeyed[n] => want[n].state # "present")
  /\ report[n] # "no_change"

\* What a run whose commands did what they were asked to, and that nobody is in the way
\* of, knows of the cells.
CellKnown(n) ==
  LET cell == [name |-> want[n].name, url |-> want[n].url, hosts |-> FALSE, instances |-> FALSE]
  IN  /\ report[n] \in SuccessReport /\ Apart(n) => Promised(n)
      /\ pc[n] = "discover" => uuid[n] \in Id /\ nova[uuid[n]] = cell
      /\ pc[n] = "map_new" => uuid[n] \in Id /\ nova[uuid[n]] = [cell EXCEPT !.hosts = TRUE]
      /\ pc[n] \in States /\ rows[n] = 1 => Found(want[n]) = {uuid[n]}

\* What it knows of the cell whose id it has, even if its commands failed.
CellOwn(n) ==
  /\ pc[n] \in {"discover", "map_new"} /\ uuid[n] \in Id => nova[uuid[n]].name = want[n].name
  /\ pc[n] \in States => uuid[n] \in Found(want[n])

CellRun(n) ==
  /\ CellPhase(n)
  /\ clean[n] => CellOwn(n)
  /\ obeyed[n] /\ clean[n] => CellKnown(n)

CellInv == CellTypeOK /\ \A n \in Minion : CellRun(n)

-----------------------------------------------------------------------------
LEMMA CellWant ==
  ASSUME CellTypeOK, NEW m \in Minion
  PROVE  /\ want[m] \in pillar
         /\ want[m].state \in States /\ want[m].name \in Name /\ want[m].url \in Url
<1>1. want[m] \in pillar /\ want[m] \in CellRequest
  BY DEF CellTypeOK, RunTypeOK
<1>. QED
  BY <1>1 DEF CellRequest

LEMMA NoRows == 0 \in 0..Cardinality(Id)
BY CellAssumption, FS_CardinalityType

LEMMA FoundFacts ==
  ASSUME NEW S, S \subseteq Id
  PROVE  /\ Cardinality(S) \in 0..Cardinality(Id)
         /\ First(S) \subseteq S
         /\ \A i \in S : Cardinality(S) = 1 => S = {i}
<1>1. IsFiniteSet(S) /\ Cardinality(S) <= Cardinality(Id)
  BY CellAssumption, FS_Subset
<1>2. Cardinality(S) \in Nat /\ Cardinality(Id) \in Nat
  BY <1>1, CellAssumption, FS_CardinalityType
<1>3. Cardinality(S) = 1 => \E x : S = {x}
  BY <1>1, FS_Singleton
<1>. QED
  BY <1>1, <1>2, <1>3 DEF First

\* awk finds the cells of the name.
LEMMA NamedFound ==
  ASSUME NEW request, request.name \in Name,
         NEW i \in Id, nova[i] # NoCell, nova[i].name = request.name
  PROVE  i \in Found(request)
<1>1. request.name \in Within[request.name]
  BY CellAssumption
<1>2. nova[i].name \in Line(i, request.state)
  BY DEF Line
<1>. QED
  BY <1>1, <1>2 DEF Found

\* The variables of the runs after a call of run m.
CellRuns(m) ==
  /\ pc' \in [Minion -> {"idle"} \cup CellCalls]
  /\ want' = want
  /\ report' \in [Minion -> Report]
  /\ rows' \in [Minion -> 0..Cardinality(Id)]
  /\ uuid' \in [Minion -> Id \cup {NoId}]
  /\ \A n \in Minion \ {m} :
       /\ pc'[n] = pc[n] /\ report'[n] = report[n]
       /\ rows'[n] = rows[n] /\ uuid'[n] = uuid[n]

LEMMA CellFinishStep ==
  ASSUME CellTypeOK, NEW m \in Minion, NEW result \in Report, CellFinish(m, result)
  PROVE  CellRuns(m) /\ pc'[m] = "idle" /\ report'[m] = result /\ rows'[m] = 0
<1>1. 0 \in 0..Cardinality(Id)
  BY NoRows DEF CellTypeOK
<1>. QED
  BY <1>1
     DEF CellTypeOK, RunTypeOK, CellCalls, CellFinish, Return,
         CellForget, CellRuns

LEMMA CellGoTo ==
  ASSUME CellTypeOK, NEW m \in Minion, NEW call \in CellCalls, GoTo(m, call), rows' = rows,
         NEW id \in Id \cup {NoId}, uuid' = [uuid EXCEPT ![m] = id]
  PROVE  CellRuns(m) /\ pc'[m] = call /\ report'[m] = report[m] /\ rows'[m] = rows[m] /\ uuid'[m] = id
BY DEF CellTypeOK, RunTypeOK, CellCalls, GoTo, CellRuns

LEMMA CellStays ==
  ASSUME CellTypeOK, NEW m \in Minion, NEW call \in CellCalls, GoTo(m, call),
         UNCHANGED <<rows, uuid>>
  PROVE  /\ CellRuns(m) /\ pc'[m] = call /\ report'[m] = report[m]
         /\ rows'[m] = rows[m] /\ uuid'[m] = uuid[m]
BY DEF CellTypeOK, RunTypeOK, CellCalls, GoTo, CellRuns

\* The cells and the marks of the runs after it.
CellFrame(m) ==
  /\ pillar' = pillar /\ stable' \in BOOLEAN
  /\ nova' \in CellResource
  /\ clean' \in [Minion -> BOOLEAN] /\ touched' \in [Minion -> BOOLEAN]
  /\ obeyed' \in [Minion -> BOOLEAN]
  /\ \A n \in Minion \ {m} :
       /\ obeyed'[n] = obeyed[n]
       /\ clean'[n] => clean[n] /\ nova' = nova

LEMMA CellReads ==
  ASSUME CellTypeOK, NEW m \in Minion, Reads(m) \/ ReadsFirst(m),
         NEW done \in BOOLEAN, Heed(m, done)
  PROVE  CellFrame(m) /\ nova' = nova /\ (obeyed'[m] => obeyed[m] /\ done)
BY DEF CellTypeOK, RunTypeOK, Reads, ReadsFirst, Heed,
       CellFrame

LEMMA CellBecomes ==
  ASSUME CellTypeOK, NEW m \in Minion, NEW new \in CellResource, Becomes(m, new),
         NEW done \in BOOLEAN, Heed(m, done)
  PROVE  CellFrame(m) /\ nova' = new /\ (clean'[m] => clean[m]) /\ (obeyed'[m] => obeyed[m] /\ done)
BY DEF CellTypeOK, RunTypeOK, Becomes, Heed, CellFrame

CellDone(m) == CellRuns(m) /\ CellFrame(m) /\ CellRun(m)'

\* A run that fails has nothing to report.
LEMMA CellFails ==
  ASSUME CellTypeOK, NEW m \in Minion, NEW failure \in FailureReport, CellFinish(m,
         failure), CellFrame(m)
  PROVE  CellDone(m)
<1>1. CellRuns(m) /\ pc'[m] = "idle" /\ report'[m] = failure /\ rows'[m] = 0
  BY CellFinishStep, FailedFacts
<1>2. CellPhase(m)'
  BY <1>1 DEF CellPhase, States, FailureReport, Exception
<1>3. CellKnown(m)' /\ CellOwn(m)'
  BY <1>1, FailedFacts DEF CellKnown, CellOwn, States
<1>. QED
  BY <1>1, <1>2, <1>3 DEF CellDone, CellRun

\* Nor has one at a call that rests on nothing.
LEMMA CellGoesOn ==
  ASSUME NEW m \in Minion, pc'[m] \in {"create", "update_none"}, report'[m] = NoReport,
         want'[m].state = "present", rows'[m] = 0
  PROVE  CellRun(m)'
<1>1. CellPhase(m)'
  BY DEF CellPhase, States, NoReport
<1>2. CellKnown(m)' /\ CellOwn(m)'
  BY DEF CellKnown, CellOwn, States, NoReport, SuccessReport
<1>. QED
  BY <1>1, <1>2 DEF CellRun

-----------------------------------------------------------------------------
LEMMA CellListStep ==
  ASSUME CellTypeOK, NEW m \in Minion, CellRun(m), CellList(m)
  PROVE  CellDone(m)
<1>1. PICK answer \in Shell :
        /\ Heed(m, answer = "done")
        /\ IF answer = "raised" THEN CellFinish(m, Exception)
           ELSE Decide(m, IF answer = "done" THEN Found(want[m]) ELSE {})
  BY DEF CellList
<1>2. PICK found : found = IF answer = "done" THEN Found(want[m]) ELSE {}
  OBVIOUS
<1>3. ReadsFirst(m) /\ pc[m] = "list" /\ report[m] = NoReport /\ rows[m] = 0
  BY DEF CellList, CellRun, CellPhase
<1>4. CellFrame(m) /\ nova' = nova /\ (obeyed'[m] => answer = "done")
  BY <1>1, <1>3, CellReads
<1>5. CASE CellFinish(m, Exception)
  BY <1>4, <1>5, CellFails DEF FailureReport
<1>6. CASE Decide(m, found) /\ want[m].state = "present"
  <2>1. \/ CellFinish(m, Exception)
        \/ \E call \in {"create", "update_none"} : GoTo(m, call) /\ UNCHANGED <<rows, uuid>>
    BY <1>6 DEF Decide, Branch
  <2>2. ASSUME NEW call \in {"create", "update_none"}, GoTo(m, call) /\ UNCHANGED <<rows, uuid>>
        PROVE  CellDone(m)
    <3>1. /\ CellRuns(m) /\ pc'[m] = call /\ report'[m] = report[m] /\ rows'[m] = rows[m]
          /\ want' = want
      BY <2>2, CellStays DEF CellCalls, CellRuns
    <3>2. CellRun(m)'
      BY <1>3, <1>6, <3>1, CellGoesOn
    <3>. QED BY <1>4, <3>1, <3>2 DEF CellDone
  <2>. QED BY <1>5, <2>1, <2>2
<1>7. CASE Decide(m, found) /\ want[m].state # "present" /\ found = {}
  <2>1. CellFinish(m, NotFound(m))
    BY <1>7 DEF Decide
  <2>2. CASE want[m].state # "absent"
    BY <1>4, <2>1, <2>2, CellFails DEF NotFound, FailureReport
  <2>3. CASE want[m].state = "absent"
    <3>1. /\ CellRuns(m) /\ pc'[m] = "idle" /\ report'[m] = "non_existent" /\ rows'[m] = 0
          /\ want' = want
      BY <2>1, <2>3, CellFinishStep DEF NotFound, Report, SuccessReport, CellRuns
    <3>2. CellPhase(m)'
      BY <2>3, <3>1 DEF CellPhase, States, NoReport
    <3>3. PICK request \in pillar, name \in Name : request = want[m] /\ name = request.name
      BY CellWant
    <3>4. obeyed'[m] => Found(request) = {}
      BY <1>2, <1>4, <1>7, <3>3
    <3>5. obeyed'[m] => Named(name)' = {}
      BY <1>4, <3>3, <3>4, NamedFound DEF Named, Exists
    <3>6. obeyed'[m] => Promised(m)'
      BY <2>3, <3>1, <3>3, <3>5 DEF Promised
    <3>7. (obeyed'[m] => CellKnown(m)') /\ CellOwn(m)'
      BY <3>1, <3>6 DEF CellKnown, CellOwn, States
    <3>. QED BY <1>4, <3>1, <3>2, <3>7 DEF CellDone, CellRun
  <2>. QED BY <2>2, <2>3
<1>8. CASE Decide(m, found) /\ want[m].state # "present" /\ found # {}
  <2>1. PICK i \in First(found) :
          /\ GoTo(m, want[m].state)
          /\ rows' = [rows EXCEPT ![m] = Cardinality(found)]
          /\ uuid' = [uuid EXCEPT ![m] = i]
    BY <1>8 DEF Decide
  <2>2. found \subseteq Id
    BY <1>2 DEF Found
  <2>3. /\ Cardinality(found) \in 0..Cardinality(Id) /\ i \in found /\ i \in Id
        /\ Cardinality(found) = 1 => found = {i}
    BY <2>1, <2>2, FoundFacts DEF CellTypeOK
  <2>4. PICK state \in States : state = want[m].state
    BY CellWant
  <2>5. /\ CellRuns(m) /\ pc'[m] = state /\ report'[m] = report[m] /\ want' = want
        /\ rows'[m] = Cardinality(found) /\ uuid'[m] = i
    BY <2>1, <2>3, <2>4
       DEF CellTypeOK, RunTypeOK, GoTo, CellRuns, CellCalls
  <2>6. CellPhase(m)'
    BY <1>3, <1>8, <2>3, <2>4, <2>5 DEF CellPhase, NoReport, States
  <2>7. PICK request : request = want[m]
    OBVIOUS
  <2>8. Found(request)' = found
    BY <1>2, <1>4, <1>8, <2>7 DEF Found, Line
  <2>9. (obeyed'[m] => CellKnown(m)') /\ CellOwn(m)'
    BY <1>3, <1>8, <2>3, <2>4, <2>5, <2>7, <2>8
       DEF CellKnown, CellOwn, NoReport, SuccessReport, States
  <2>. QED BY <1>4, <2>5, <2>6, <2>9 DEF CellDone, CellRun
<1>. QED
  BY <1>1, <1>2, <1>5, <1>6, <1>7, <1>8

-----------------------------------------------------------------------------
\* A run that returns a report of success, which is one that its state may return.
MayReport(m, result) ==
  /\ result \in {"created", "updated", "deleted"}
  /\ result = "created" => want[m].state = "present"
  /\ result = "deleted" => want[m].state = "absent"
  /\ result = "updated" => want[m].state # "absent" /\ (obeyed'[m] => want[m].state # "present")

LEMMA CellSucceeds ==
  ASSUME CellTypeOK, NEW m \in Minion, NEW result, MayReport(m, result), CellFinish(m,
         result), CellFrame(m),
         report'[m] = result /\ want' = want /\ obeyed'[m] /\ clean'[m] /\ Apart(m)'
           => Promised(m)'
  PROVE  CellDone(m)
<1>1. result \in Report
  BY DEF MayReport, Report, SuccessReport
<1>2. CellRuns(m) /\ pc'[m] = "idle" /\ report'[m] = result /\ rows'[m] = 0 /\ want' = want
  BY <1>1, CellFinishStep DEF CellRuns
<1>3. CellPhase(m)'
  BY <1>2 DEF CellPhase, States, MayReport
<1>4. (obeyed'[m] /\ clean'[m] => CellKnown(m)') /\ CellOwn(m)'
  BY <1>2 DEF CellKnown, CellOwn, States
<1>. QED
  BY <1>2, <1>3, <1>4 DEF CellDone, CellRun

LEMMA CellUpdateNone ==
  ASSUME CellTypeOK, NEW m \in Minion, CellRun(m), UpdateNone(m)
  PROVE  CellDone(m)
<1>1. PICK answer \in Shell : CellFinish(m, IF answer = "raised" THEN "update_failed" ELSE "updated")
  BY DEF UpdateNone
<1>2. CellFrame(m) /\ ~obeyed'[m]
  BY CellReads DEF UpdateNone
<1>3. want[m].state = "present"
  BY DEF CellRun, CellPhase, UpdateNone
<1>4. CASE answer = "raised"
  BY <1>1, <1>2, <1>4, CellFails DEF FailureReport
<1>5. CASE answer # "raised"
  BY <1>1, <1>2, <1>3, <1>5, CellSucceeds DEF MayReport
<1>. QED
  BY <1>4, <1>5

LEMMA NewIdType == NewId \in Id \cup {NoId}
BY DEF NewId

LEMMA CellChange ==
  ASSUME CellTypeOK, NEW i \in Id, NEW cell \in Cell \cup {NoCell}
  PROVE  [nova EXCEPT ![i] = cell] \in CellResource
BY DEF CellTypeOK, RunTypeOK, CellResource

LEMMA CellCreate ==
  ASSUME CellTypeOK, NEW m \in Minion, CellRun(m), Create(m)
  PROVE  CellDone(m)
<1>. DEFINE new == [name |-> want[m].name, url |-> want[m].url, hosts |-> FALSE, instances |-> FALSE]
<1>1. PICK i \in Id \cup {NoId} : i = NewId
  BY NewIdType
<1>2. PICK answer \in Shell, done \in BOOLEAN :
        /\ done => i # NoId
        /\ Becomes(m, IF done THEN [nova EXCEPT ![i] = new] ELSE nova)
        /\ Heed(m, done)
        /\ IF answer = "raised" THEN CellFinish(m, "create_failed")
           ELSE /\ GoTo(m, "discover")
                /\ uuid' = [uuid EXCEPT ![m] = IF done THEN i ELSE NoId]
                /\ UNCHANGED rows
  BY <1>1 DEF Create
<1>3. want[m].state = "present" /\ report[m] = NoReport /\ rows[m] = 0 /\ want[m] \in pillar
  BY CellWant DEF CellRun, CellPhase, Create
<1>4. PICK cells \in CellResource : cells = IF done THEN [nova EXCEPT ![i] = new] ELSE nova
  <2>1. new \in Cell
    BY CellWant DEF Cell
  <2>2. done => i \in Id
    BY <1>2
  <2>. QED BY <2>1, <2>2, CellChange DEF CellTypeOK, RunTypeOK
<1>5. CellFrame(m) /\ nova' = cells /\ (obeyed'[m] => done)
  BY <1>2, <1>4, CellBecomes
<1>6. CASE answer = "raised"
  BY <1>2, <1>5, <1>6, CellFails DEF FailureReport
<1>7. CASE answer # "raised"
  <2>1. PICK id \in Id \cup {NoId} : id = IF done THEN i ELSE NoId
    OBVIOUS
  <2>2. /\ CellRuns(m) /\ pc'[m] = "discover" /\ report'[m] = report[m]
        /\ rows'[m] = rows[m] /\ uuid'[m] = id /\ want' = want
    BY <1>2, <1>7, <2>1, CellGoTo DEF CellCalls, CellRuns
  <2>3. CellPhase(m)'
    BY <1>3, <2>2 DEF CellPhase, States, NoReport
  <2>4. done => id \in Id /\ nova'[id] = new
    BY <1>2, <1>4, <1>5, <2>1 DEF CellTypeOK, RunTypeOK, CellResource
  <2>5. obeyed'[m] => CellKnown(m)'
    BY <1>3, <1>5, <2>2, <2>4 DEF CellKnown, States, NoReport, SuccessReport
  <2>6. CellOwn(m)'
    BY <1>3, <2>1, <2>2, <2>4, CellAssumption DEF CellOwn, States
  <2>. QED BY <1>5, <2>2, <2>3, <2>5, <2>6 DEF CellDone, CellRun
<1>. QED
  BY <1>6, <1>7

LEMMA CellType ==
  ASSUME CellTypeOK, NEW i, Exists(i)
  PROVE  i \in Id /\ nova[i] \in Cell
BY DEF CellTypeOK, RunTypeOK, CellResource, Exists

LEMMA CellDiscover ==
  ASSUME CellTypeOK, NEW m \in Minion, CellRun(m), Discover(m)
  PROVE  CellDone(m)
<1>1. PICK i \in Id \cup {NoId} : i = uuid[m]
  BY DEF CellTypeOK
<1>2. PICK answer \in Shell, done \in BOOLEAN :
        /\ done => Exists(i)
        /\ Becomes(m, IF done THEN [nova EXCEPT ![i].hosts = TRUE] ELSE nova)
        /\ Heed(m, done)
        /\ IF answer = "raised" THEN CellFinish(m, "create_failed") ELSE AfterDiscover(m)
  BY <1>1 DEF Discover
<1>3. want[m].state = "present" /\ report[m] = NoReport /\ rows[m] = 0 /\ pc[m] = "discover"
  BY DEF CellRun, CellPhase, Discover
<1>4. PICK cells \in CellResource :
        cells = IF done THEN [nova EXCEPT ![i] = [nova[i] EXCEPT !.hosts = TRUE]] ELSE nova
  <2>1. done => i \in Id /\ nova[i] \in Cell
    BY <1>2, CellType
  <2>2. done => [nova[i] EXCEPT !.hosts = TRUE] \in Cell
    BY <2>1 DEF Cell
  <2>. QED BY <2>1, <2>2, CellChange DEF CellTypeOK, RunTypeOK
<1>5. cells = IF done THEN [nova EXCEPT ![i].hosts = TRUE] ELSE nova
  BY <1>4
<1>6. CellFrame(m) /\ nova' = cells /\ (obeyed'[m] => obeyed[m] /\ done) /\ (clean'[m] => clean[m])
  BY <1>2, <1>5, CellBecomes
<1>7. CASE answer = "raised"
  BY <1>2, <1>6, <1>7, CellFails DEF FailureReport
<1>8. CASE answer # "raised"
  <2>1. /\ CellRuns(m) /\ pc'[m] = "map_new" /\ report'[m] = report[m]
        /\ rows'[m] = rows[m] /\ uuid'[m] = i /\ want' = want
    BY <1>1, <1>2, <1>8, CellStays DEF CellCalls, CellRuns, AfterDiscover
  <2>2. CellPhase(m)'
    BY <1>3, <2>1 DEF CellPhase, States, NoReport
  <2>3. ASSUME obeyed'[m], clean'[m]
        PROVE  CellKnown(m)'
    <3>1. done /\ CellKnown(m)
      BY <1>6, <2>3 DEF CellRun
    <3>2. /\ i \in Id
          /\ nova[i] = [name |-> want[m].name, url |-> want[m].url, hosts |-> FALSE, instances |-> FALSE]
      BY <1>1, <1>3, <3>1 DEF CellKnown
    <3>3. nova'[i] = [nova[i] EXCEPT !.hosts = TRUE]
      BY <1>4, <1>6, <3>1, <3>2 DEF CellTypeOK, RunTypeOK, CellResource
    <3>. QED
      BY <1>3, <2>1, <3>2, <3>3 DEF CellKnown, States, NoReport, SuccessReport
  <2>4. ASSUME clean'[m], i \in Id
        PROVE  nova'[i].name = want[m].name
    <3>1. nova[i].name = want[m].name
      BY <1>1, <1>3, <1>6, <2>4 DEF CellRun, CellOwn
    <3>2. CASE done
      <4>1. nova[i] \in Cell
        BY <1>2, <3>2, CellType
      <4>2. nova'[i] = [nova[i] EXCEPT !.hosts = TRUE]
        BY <1>4, <1>6, <2>4, <3>2 DEF CellTypeOK, RunTypeOK, CellResource
      <4>. QED BY <3>1, <4>1, <4>2 DEF Cell
    <3>. QED BY <1>4, <1>6, <3>1, <3>2
  <2>5. clean'[m] => CellOwn(m)'
    BY <2>1, <2>4 DEF CellOwn, States
  <2>. QED BY <1>6, <2>1, <2>2, <2>3, <2>5 DEF CellDone, CellRun
<1>. QED
  BY <1>7, <1>8

\* What nova-manage makes of a cell with map_instances.
LEMMA CellMapStep ==
  ASSUME CellTypeOK, NEW m \in Minion, NEW answer \in Shell, MapsInstances(m, answer)
  PROVE  \E i \in Id \cup {NoId}, done \in BOOLEAN :
           /\ i = uuid[m] /\ (done => Exists(i))
           /\ nova' = IF done THEN [nova EXCEPT ![i] = [nova[i] EXCEPT !.instances = TRUE]] ELSE nova
           /\ CellFrame(m) /\ (clean'[m] => clean[m]) /\ (obeyed'[m] => obeyed[m] /\ done)
<1>1. PICK i \in Id \cup {NoId} : i = uuid[m]
  BY DEF CellTypeOK
<1>2. PICK done \in BOOLEAN : done = (answer = "done" /\ Exists(i))
  OBVIOUS
<1>3. PICK cells \in CellResource :
        cells = IF done THEN [nova EXCEPT ![i] = [nova[i] EXCEPT !.instances = TRUE]] ELSE nova
  <2>1. done => i \in Id /\ nova[i] \in Cell
    BY <1>2, CellType
  <2>2. done => [nova[i] EXCEPT !.instances = TRUE] \in Cell
    BY <2>1 DEF Cell
  <2>. QED BY <2>1, <2>2, CellChange DEF CellTypeOK, RunTypeOK
<1>4. cells = IF done THEN [nova EXCEPT ![i].instances = TRUE] ELSE nova
  BY <1>3
<1>5. PICK well \in BOOLEAN : well = (done /\ rows[m] <= 1)
  OBVIOUS
<1>6. Becomes(m, cells) /\ Heed(m, well)
  BY <1>1, <1>2, <1>4, <1>5 DEF MapsInstances
<1>7. /\ CellFrame(m) /\ nova' = cells /\ (clean'[m] => clean[m])
      /\ (obeyed'[m] => obeyed[m] /\ well)
  BY <1>6, CellBecomes
<1>. QED
  BY <1>1, <1>2, <1>3, <1>5, <1>7

LEMMA CellMapNew ==
  ASSUME CellTypeOK, NEW m \in Minion, CellRun(m), MapNew(m)
  PROVE  CellDone(m)
<1>1. PICK answer \in Shell :
        /\ MapsInstances(m, answer)
        /\ CellFinish(m, IF answer = "raised" THEN "create_failed" ELSE "created")
  BY DEF MapNew
<1>2. PICK i \in Id \cup {NoId}, done \in BOOLEAN :
        /\ i = uuid[m]
        /\ nova' = IF done THEN [nova EXCEPT ![i] = [nova[i] EXCEPT !.instances = TRUE]] ELSE nova
        /\ CellFrame(m) /\ (clean'[m] => clean[m]) /\ (obeyed'[m] => obeyed[m] /\ done)
  BY <1>1, CellMapStep
<1>3. want[m].state = "present" /\ pc[m] = "map_new"
  BY DEF CellRun, CellPhase, MapNew
<1>4. CASE answer = "raised"
  BY <1>1, <1>2, <1>4, CellFails DEF FailureReport
<1>5. CASE answer # "raised"
  <2>1. CellFinish(m, "created")
    BY <1>1, <1>5
  <2>2. MayReport(m, "created")
    BY <1>3 DEF MayReport
  <2>3. ASSUME report'[m] = "created", want' = want, obeyed'[m], clean'[m], Apart(m)'
        PROVE  Promised(m)'
    <3>1. done /\ CellKnown(m)
      BY <1>2, <2>3 DEF CellRun
    <3>2. /\ i \in Id
          /\ nova[i] = [name |-> want[m].name, url |-> want[m].url, hosts |-> TRUE, instances |-> FALSE]
      BY <1>2, <1>3, <3>1 DEF CellKnown
    <3>3. nova'[i] = [nova[i] EXCEPT !.instances = TRUE]
      BY <1>2, <3>1, <3>2 DEF CellTypeOK, RunTypeOK, CellResource
    <3>4. nova'[i] = [name |-> want[m].name, url |-> want[m].url, hosts |-> TRUE, instances |-> TRUE]
      <4>1. PICK name, url, yes, no :
              name = want[m].name /\ url = want[m].url /\ yes = TRUE /\ no = FALSE
        OBVIOUS
      <4>2. nova[i] = [name |-> name, url |-> url, hosts |-> yes, instances |-> no]
        BY <3>2, <4>1
      <4>3. nova'[i] = [nova[i] EXCEPT !.instances = yes]
        BY <3>3, <4>1
      <4>4. nova'[i] = [name |-> name, url |-> url, hosts |-> yes, instances |-> yes]
        BY <4>2, <4>3
      <4>. QED BY <4>1, <4>4
    <3>5. PICK name, url : name = want[m].name /\ url = want[m].url
      OBVIOUS
    <3>6. nova'[i] # NoCell
      <4>1. nova'[i] \in Cell
        BY <3>2, <3>4, CellWant DEF Cell
      <4>. QED BY <4>1, CellAssumption
    <3>7. nova'[i] \in Named(name)'
      BY <3>2, <3>4, <3>5, <3>6 DEF Named, Exists
    <3>. QED
      BY <1>3, <2>3, <3>4, <3>5, <3>7 DEF Promised
  <2>. QED BY <1>2, <2>1, <2>2, <2>3, CellSucceeds
<1>. QED
  BY <1>4, <1>5

LEMMA CellMapInstances ==
  ASSUME CellTypeOK, NEW m \in Minion, CellRun(m), MapInstances(m)
  PROVE  CellDone(m)
<1>1. PICK answer \in Shell :
        /\ MapsInstances(m, answer)
        /\ CellFinish(m, IF answer = "raised" THEN "update_failed" ELSE "updated")
  BY DEF MapInstances
<1>2. PICK i \in Id \cup {NoId}, done \in BOOLEAN :
        /\ i = uuid[m]
        /\ nova' = IF done THEN [nova EXCEPT ![i] = [nova[i] EXCEPT !.instances = TRUE]] ELSE nova
        /\ CellFrame(m) /\ (clean'[m] => clean[m]) /\ (obeyed'[m] => obeyed[m] /\ done)
  BY <1>1, CellMapStep
<1>3. want[m].state = "map" /\ pc[m] = "map"
  BY DEF CellRun, CellPhase, MapInstances, States
<1>4. CASE answer = "raised"
  BY <1>1, <1>2, <1>4, CellFails DEF FailureReport
<1>5. CASE answer # "raised"
  <2>1. CellFinish(m, "updated")
    BY <1>1, <1>5
  <2>2. MayReport(m, "updated")
    BY <1>3 DEF MayReport
  <2>3. ASSUME report'[m] = "updated", want' = want, obeyed'[m], clean'[m], Apart(m)'
        PROVE  Promised(m)'
    <3>1. done /\ CellKnown(m)
      BY <1>2, <2>3 DEF CellRun
    <3>2. PICK request : request = want[m]
      OBVIOUS
    <3>3. i \in Id /\ nova[i] \in Cell /\ i \in Found(request)
      BY <1>2, <1>3, <2>3, <3>2
         DEF CellRun, CellOwn, States, Found, CellTypeOK, RunTypeOK, CellResource
    <3>4. nova'[i] = [nova[i] EXCEPT !.instances = TRUE]
      BY <1>2, <3>1, <3>3 DEF CellTypeOK, RunTypeOK, CellResource
    <3>5. nova'[i] \in Cell /\ nova'[i].name = nova[i].name /\ nova'[i].instances
      BY <3>3, <3>4 DEF Cell
    <3>6. nova'[i] # NoCell
      BY <3>5, CellAssumption
    <3>7. nova'[i].name = request.name
      <4>1. i \in Found(request)'
        BY <3>2, <3>3, <3>5, <3>6, <1>3 DEF Found, Line
      <4>. QED BY <2>3, <3>2, <4>1 DEF Apart
    <3>8. PICK name : name = request.name
      OBVIOUS
    <3>9. nova'[i] \in Named(name)'
      BY <3>3, <3>6, <3>7, <3>8 DEF Named, Exists
    <3>. QED
      BY <1>3, <2>3, <3>2, <3>5, <3>8, <3>9 DEF Promised
  <2>. QED BY <1>2, <2>1, <2>2, <2>3, CellSucceeds
<1>. QED
  BY <1>4, <1>5

LEMMA CellUpdate ==
  ASSUME CellTypeOK, NEW m \in Minion, CellRun(m), UpdateCell(m)
  PROVE  CellDone(m)
<1>1. PICK i \in Id \cup {NoId} : i = uuid[m]
  BY DEF CellTypeOK
<1>2. PICK url \in Url : url = IF rows[m] = 1 THEN want[m].url ELSE Conf
  BY CellWant, CellAssumption
<1>3. PICK answer \in Shell, done \in BOOLEAN :
        /\ done => Exists(i)
        /\ Becomes(m, IF done THEN [nova EXCEPT ![i].url = url] ELSE nova)
        /\ Heed(m, done /\ rows[m] = 1)
        /\ CellFinish(m, IF answer = "raised" THEN "update_failed" ELSE "updated")
  BY <1>1, <1>2 DEF UpdateCell
<1>4. want[m].state = "update" /\ pc[m] = "update"
  BY DEF CellRun, CellPhase, UpdateCell, States
<1>5. PICK cells \in CellResource :
        cells = IF done THEN [nova EXCEPT ![i] = [nova[i] EXCEPT !.url = url]] ELSE nova
  <2>1. done => i \in Id /\ nova[i] \in Cell
    BY <1>3, CellType
  <2>2. done => [nova[i] EXCEPT !.url = url] \in Cell
    BY <2>1 DEF Cell
  <2>. QED BY <2>1, <2>2, CellChange DEF CellTypeOK, RunTypeOK
<1>6. cells = IF done THEN [nova EXCEPT ![i].url = url] ELSE nova
  BY <1>5
<1>7. PICK well \in BOOLEAN : well = (done /\ rows[m] = 1)
  OBVIOUS
<1>8. /\ CellFrame(m) /\ nova' = cells /\ (clean'[m] => clean[m])
      /\ (obeyed'[m] => obeyed[m] /\ well)
  <2>1. Becomes(m, cells) /\ Heed(m, well)
    BY <1>3, <1>6, <1>7
  <2>. QED BY <2>1, CellBecomes
<1>9. CASE answer = "raised"
  BY <1>3, <1>8, <1>9, CellFails DEF FailureReport
<1>10. CASE answer # "raised"
  <2>1. CellFinish(m, "updated")
    BY <1>3, <1>10
  <2>2. MayReport(m, "updated")
    BY <1>4 DEF MayReport
  <2>3. ASSUME report'[m] = "updated", want' = want, obeyed'[m], clean'[m], Apart(m)'
        PROVE  Promised(m)'
    <3>1. done /\ rows[m] = 1 /\ CellKnown(m)
      BY <1>7, <1>8, <2>3 DEF CellRun
    <3>2. PICK request : request = want[m]
      OBVIOUS
    <3>3. i \in Id /\ nova[i] \in Cell /\ i \in Found(request)
      BY <1>1, <1>4, <1>8, <2>3, <3>2
         DEF CellRun, CellOwn, States, Found, CellTypeOK, RunTypeOK, CellResource
    <3>4. nova'[i] = [nova[i] EXCEPT !.url = url]
      BY <1>5, <1>8, <3>1, <3>3 DEF CellTypeOK, RunTypeOK, CellResource
    <3>5. nova'[i] \in Cell /\ nova'[i].name = nova[i].name /\ nova'[i].url = url
      BY <3>3, <3>4 DEF Cell
    <3>6. nova'[i] # NoCell
      BY <3>5, CellAssumption
    <3>7. nova'[i].name = request.name
      <4>1. i \in Found(request)'
        BY <3>2, <3>3, <3>5, <3>6, <1>4 DEF Found, Line
      <4>. QED BY <2>3, <3>2, <4>1 DEF Apart
    <3>8. PICK name : name = request.name
      OBVIOUS
    <3>9. nova'[i] \in Named(name)'
      BY <3>3, <3>6, <3>7, <3>8 DEF Named, Exists
    <3>10. url = want'[m].url
      BY <1>2, <2>3, <3>1
    <3>. QED
      BY <1>4, <2>3, <3>2, <3>5, <3>8, <3>9, <3>10 DEF Promised
  <2>. QED BY <1>8, <2>1, <2>2, <2>3, CellSucceeds
<1>. QED
  BY <1>9, <1>10

LEMMA CellDelete ==
  ASSUME CellTypeOK, NEW m \in Minion, CellRun(m), Delete(m)
  PROVE  CellDone(m)
<1>1. PICK i \in Id \cup {NoId} : i = uuid[m]
  BY DEF CellTypeOK
<1>2. PICK answer \in Shell, done \in BOOLEAN :
        /\ done => Exists(i)
        /\ Becomes(m, IF done THEN [nova EXCEPT ![i] = NoCell] ELSE nova)
        /\ Heed(m, done /\ rows[m] = 1)
        /\ CellFinish(m, IF answer = "raised" THEN "delete_failed" ELSE "deleted")
  BY <1>1 DEF Delete, MayDelete
<1>3. want[m].state = "absent" /\ pc[m] = "absent"
  BY DEF CellRun, CellPhase, Delete, States
<1>4. PICK cells \in CellResource : cells = IF done THEN [nova EXCEPT ![i] = NoCell] ELSE nova
  <2>1. done => i \in Id
    BY <1>2, CellType
  <2>. QED BY <2>1, CellChange DEF CellTypeOK, RunTypeOK
<1>5. PICK well \in BOOLEAN : well = (done /\ rows[m] = 1)
  OBVIOUS
<1>6. /\ CellFrame(m) /\ nova' = cells /\ (clean'[m] => clean[m])
      /\ (obeyed'[m] => obeyed[m] /\ well)
  <2>1. Becomes(m, cells) /\ Heed(m, well)
    BY <1>2, <1>4, <1>5
  <2>. QED BY <2>1, CellBecomes
<1>7. CASE answer = "raised"
  BY <1>2, <1>6, <1>7, CellFails DEF FailureReport
<1>8. CASE answer # "raised"
  <2>1. CellFinish(m, "deleted")
    BY <1>2, <1>8
  <2>2. MayReport(m, "deleted")
    BY <1>3 DEF MayReport
  <2>3. ASSUME report'[m] = "deleted", want' = want, obeyed'[m], clean'[m], Apart(m)'
        PROVE  Promised(m)'
    <3>1. done /\ rows[m] = 1 /\ CellKnown(m)
      BY <1>5, <1>6, <2>3 DEF CellRun
    <3>2. PICK request \in pillar, name \in Name : request = want[m] /\ name = request.name
      BY CellWant
    <3>3. Found(request) = {i} /\ i \in Id
      BY <1>1, <1>3, <3>1, <3>2 DEF CellKnown, States, Found
    <3>4. nova' = [nova EXCEPT ![i] = NoCell]
      BY <1>4, <1>6, <3>1
    <3>5. \A j \in Id : nova'[j] = IF j = i THEN NoCell ELSE nova[j]
      BY <3>4 DEF CellTypeOK, RunTypeOK, CellResource
    <3>6. \A j \in Id : nova[j] # NoCell /\ nova[j].name = name => j = i
      BY <3>2, <3>3, NamedFound
    <3>7. Named(name)' = {}
      BY <3>3, <3>5, <3>6 DEF Named, Exists
    <3>. QED
      BY <1>3, <2>3, <3>2, <3>7 DEF Promised
  <2>. QED BY <1>6, <2>1, <2>2, <2>3, CellSucceeds
<1>. QED
  BY <1>7, <1>8

LEMMA CellCallDone ==
  ASSUME CellTypeOK, NEW m \in Minion, CellRun(m), CellCall(m)
  PROVE  CellDone(m)
BY CellListStep, CellUpdateNone, CellCreate, CellDiscover, CellMapNew, CellMapInstances,
   CellUpdate, CellDelete DEF CellCall

-----------------------------------------------------------------------------
\* What a run knows is not touched by another one, unless this changes a cell.
LEMMA OthersKnow ==
  ASSUME NEW n, CellPhase(n), pc'[n] = pc[n], report'[n] = report[n], want'[n] = want[n],
         rows'[n] = rows[n], uuid'[n] = uuid[n], obeyed'[n] = obeyed[n],
         CellRun(n), clean'[n] => clean[n] /\ nova' = nova
  PROVE  CellRun(n)'
<1>1. CellPhase(n)'
  BY DEF CellPhase
<1>2. ASSUME obeyed'[n], clean'[n]
      PROVE  CellKnown(n)'
  <2>1. nova' = nova /\ CellKnown(n)
    BY <1>2 DEF CellRun
  <2>2. PICK request : request = want[n]
    OBVIOUS
  <2>3. Found(request)' = Found(request)
    BY <2>1 DEF Found, Line
  <2>4. Promised(n)' = Promised(n)
    BY <2>1 DEF Promised, Named, Exists
  <2>5. Apart(n)' = Apart(n)
    BY <2>1, <2>2, <2>3 DEF Apart
  <2>. QED
    BY <2>1, <2>2, <2>3, <2>4, <2>5 DEF CellKnown
<1>3. ASSUME clean'[n]
      PROVE  CellOwn(n)'
  <2>1. nova' = nova /\ CellOwn(n)
    BY <1>3 DEF CellRun
  <2>2. PICK request : request = want[n]
    OBVIOUS
  <2>3. Found(request)' = Found(request)
    BY <2>1 DEF Found, Line
  <2>. QED
    BY <2>1, <2>2, <2>3 DEF CellOwn
<1>. QED
  BY <1>1, <1>2, <1>3 DEF CellRun

LEMMA CellCallStep ==
  ASSUME CellInv, NEW m \in Minion, CellCall(m)
  PROVE  CellInv'
<1>1. CellDone(m)
  BY CellCallDone DEF CellInv
<1>2. CellTypeOK'
  BY <1>1
     DEF CellInv, CellTypeOK, RunTypeOK, CellDone, CellRuns, CellFrame,
         CellCalls
<1>3. ASSUME NEW n \in Minion, n # m
      PROVE  CellRun(n)'
  <2>1. /\ pc'[n] = pc[n] /\ report'[n] = report[n] /\ want'[n] = want[n]
        /\ rows'[n] = rows[n] /\ uuid'[n] = uuid[n] /\ obeyed'[n] = obeyed[n]
        /\ clean'[n] => clean[n] /\ nova' = nova
    <3>1. n \in Minion \ {m}
      BY <1>3
    <3>2. /\ pc'[n] = pc[n] /\ report'[n] = report[n] /\ want'[n] = want[n]
          /\ rows'[n] = rows[n] /\ uuid'[n] = uuid[n]
      BY <1>1, <3>1 DEF CellDone, CellRuns
    <3>3. obeyed'[n] = obeyed[n] /\ (clean'[n] => clean[n] /\ nova' = nova)
      BY <1>1, <3>1 DEF CellDone, CellFrame
    <3>. QED BY <3>2, <3>3
  <2>2. CellRun(n) /\ CellPhase(n)
    BY DEF CellInv, CellRun
  <2>. QED BY <2>1, <2>2, OthersKnow
<1>. QED
  BY <1>1, <1>2, <1>3 DEF CellInv, CellDone

\* A run that begins or is killed knows nothing.
LEMMA KnowsNothing ==
  ASSUME NEW m, pc'[m] \in {"idle", "list"}, report'[m] = NoReport, rows'[m] = 0
  PROVE  CellRun(m)'
BY DEF CellRun, CellPhase, CellKnown, CellOwn, States, NoReport, SuccessReport

LEMMA CellApplyStep ==
  ASSUME CellInv, NEW m \in Minion, CellApply(m)
  PROVE  CellInv'
<1>1. PICK request \in pillar : Begin(m, request)
  BY DEF CellApply, CellApplyOne
<1>2. obeyed' = [obeyed EXCEPT ![m] = TRUE] /\ UNCHANGED <<rows, uuid>>
  BY DEF CellApply, CellApplyOne
<1>3. CellTypeOK'
  BY <1>1, <1>2, FailedFacts DEF CellInv, CellTypeOK, RunTypeOK, Begin
<1>4. CellRun(m)'
  <2>1. pc[m] = "idle" /\ rows[m] = 0
    BY <1>1 DEF Begin, CellInv, CellRun, CellPhase
  <2>2. pc'[m] = "list" /\ report'[m] = NoReport /\ rows'[m] = 0
    BY <1>1, <1>2, <2>1 DEF Begin, CellInv, CellTypeOK, RunTypeOK
  <2>. QED BY <2>2, KnowsNothing
<1>5. ASSUME NEW n \in Minion, n # m
      PROVE  CellRun(n)'
  <2>1. /\ pc'[n] = pc[n] /\ report'[n] = report[n] /\ want'[n] = want[n]
        /\ rows'[n] = rows[n] /\ uuid'[n] = uuid[n] /\ obeyed'[n] = obeyed[n]
        /\ clean'[n] => clean[n] /\ nova' = nova
    BY <1>1, <1>2, <1>5 DEF Begin, CellInv, CellTypeOK, RunTypeOK
  <2>2. CellRun(n) /\ CellPhase(n)
    BY DEF CellInv, CellRun
  <2>. QED BY <2>1, <2>2, OthersKnow
<1>. QED
  BY <1>3, <1>4, <1>5 DEF CellInv

LEMMA CellAbortStep ==
  ASSUME CellInv, NEW m \in Minion, CellAbort(m)
  PROVE  CellInv'
<1>0. 0 \in 0..Cardinality(Id)
  BY NoRows DEF CellInv, CellTypeOK
<1>1. CellTypeOK'
  BY <1>0, FailedFacts
     DEF CellInv, CellTypeOK, RunTypeOK, CellAbort, Kill,
         Return, CellForget
<1>2. CellRun(m)'
  <2>1. pc'[m] = "idle" /\ report'[m] = NoReport /\ rows'[m] = 0
    BY DEF CellInv, CellTypeOK, RunTypeOK, CellAbort, Kill,
           Return, CellForget
  <2>. QED BY <2>1, KnowsNothing
<1>3. ASSUME NEW n \in Minion, n # m
      PROVE  CellRun(n)'
  <2>1. /\ pc'[n] = pc[n] /\ report'[n] = report[n] /\ want'[n] = want[n]
        /\ rows'[n] = rows[n] /\ uuid'[n] = uuid[n] /\ obeyed'[n] = obeyed[n]
        /\ clean'[n] => clean[n] /\ nova' = nova
    BY <1>3
       DEF CellInv, CellTypeOK, RunTypeOK, CellAbort, Kill,
           Return, CellForget
  <2>2. CellRun(n) /\ CellPhase(n)
    BY DEF CellInv, CellRun
  <2>. QED BY <2>1, <2>2, OthersKnow
<1>. QED
  BY <1>1, <1>2, <1>3 DEF CellInv

LEMMA CellQuiet ==
  ASSUME CellInv, CellStabilize \/ UNCHANGED cellVars
  PROVE  CellInv'
<1>1. /\ stable' \in BOOLEAN
      /\ UNCHANGED <<pillar, nova, pc, want, report, clean, touched, rows, uuid, obeyed>>
  BY DEF CellInv, CellTypeOK, RunTypeOK, CellStabilize, Settle,
         cellLocal, cellVars, run
<1>2. CellTypeOK'
  BY <1>1 DEF CellInv, CellTypeOK, RunTypeOK
<1>3. ASSUME NEW n \in Minion
      PROVE  CellRun(n)'
  BY <1>1, OthersKnow DEF CellInv, CellRun
<1>. QED
  BY <1>2, <1>3 DEF CellInv

LEMMA CellStart ==
  ASSUME CellInit
  PROVE  CellInv
<1>0. 0 \in 0..Cardinality(Id)
  BY NoRows
<1>1. CellTypeOK
  <2>1. (CHOOSE r \in pillar : TRUE) \in pillar
    BY PillarAssumption DEF CellInit, RunInit
  <2>. QED
    BY <1>0, <2>1, FailedFacts, CellAssumption
       DEF CellInit, RunInit, CellTypeOK, RunTypeOK
<1>2. ASSUME NEW n \in Minion
      PROVE  CellRun(n)
  BY DEF CellInit, RunInit, CellRun, CellPhase, CellKnown, CellOwn, States,
         NoReport, SuccessReport
<1>. QED
  BY <1>1, <1>2 DEF CellInv

LEMMA CellInvariant == CellSpec => []CellInv
<1>1. CellInv /\ [CellNext]_cellVars => CellInv'
  BY CellCallStep, CellApplyStep, CellAbortStep, CellQuiet DEF CellNext
<1>. QED
  BY CellStart, <1>1, PTL DEF CellSpec

\* The variables of CellMapping keep their types.
THEOREM CellTypesCorrect == CellSpec => []CellTypeOK
<1>1. CellInv => CellTypeOK
  BY DEF CellInv, CellTypeOK
<1>. QED
  BY CellInvariant, <1>1, PTL

\* A run of cell_present, cell_absent, map_instances or update_cell that reports success
\* has brought about what it was asked for of the cell of its name, and that holds as
\* long as nobody else changes a cell: provided that the name is in the line of no other
\* cell, and that each of the run's nova-manage commands did what it was asked to.
THEOREM CellReportsAreTrue == CellSpec => []CellReportIsTrue
<1>1. CellInv => CellReportIsTrue
  BY DEF CellInv, CellRun, CellKnown, CellReportIsTrue
<1>. QED
  BY CellInvariant, <1>1, PTL

-----------------------------------------------------------------------------
\* A command writes to the cell whose id the run has, or creates one.
LEMMA CellWrites ==
  ASSUME CellTypeOK, NEW m \in Minion, CellCall(m), NEW i \in Id, Exists(i), nova'[i] # nova[i]
  PROVE  i = uuid[m] /\ pc[m] \in {"discover", "map_new"} \cup States
<1>. USE DEF Becomes, CellTypeOK, RunTypeOK, CellResource
<1>1. CASE CellList(m) \/ UpdateNone(m)
  BY <1>1 DEF CellList, UpdateNone, Reads, ReadsFirst
<1>2. CASE Create(m)
  <2>1. PICK k, new : /\ (k = NoId \/ nova[k] = NoCell)
                      /\ nova' = nova \/ (k # NoId /\ nova' = [nova EXCEPT ![k] = new])
    BY <1>2 DEF Create, NewId
  <2>. QED BY <2>1 DEF Exists
<1>3. CASE Discover(m)
  BY <1>3 DEF Discover
<1>4. CASE MapNew(m) \/ MapInstances(m)
  BY <1>4 DEF MapNew, MapInstances, MapsInstances, States
<1>5. CASE UpdateCell(m)
  BY <1>5 DEF UpdateCell, States
<1>6. CASE Delete(m)
  BY <1>6 DEF Delete, States
<1>. QED
  BY <1>1, <1>2, <1>3, <1>4, <1>5, <1>6 DEF CellCall

\* A run changes and deletes only cells of the name it asks for, even if its commands
\* fail: provided that the name is in the line of no other cell, and that nobody else
\* has changed a cell since it listed them.
THEOREM CellsOfItsNameOnly == CellSpec => OwnCellsOnly
<1>. DEFINE Own(m) == pc'[m] # pc[m] /\ clean[m] /\ Apart(m) =>
              \A i \in Id : Exists(i) /\ nova'[i] # nova[i] => nova[i].name = want[m].name
<1>1. ASSUME CellInv, [CellNext]_cellVars, NEW m \in Minion
      PROVE  Own(m)
  <2>1. CASE CellCall(m)
    <3> SUFFICES ASSUME clean[m], Apart(m), NEW i \in Id, Exists(i), nova'[i] # nova[i]
                 PROVE  nova[i].name = want[m].name
      OBVIOUS
    <3>1. i = uuid[m] /\ pc[m] \in {"discover", "map_new"} \cup States
      BY <1>1, <2>1, CellWrites DEF CellInv
    <3>2. CellOwn(m)
      BY <1>1 DEF CellInv, CellRun
    <3>. QED BY <3>1, <3>2 DEF CellOwn, Apart
  <2>2. ASSUME NEW n \in Minion, n # m, CellCall(n)
        PROVE  Own(m)
    <3>1. CellDone(n)
      BY <1>1, <2>2, CellCallDone DEF CellInv
    <3>. QED BY <2>2, <3>1 DEF CellDone, CellRuns
  <2>3. CASE (\E n \in Minion : CellApply(n) \/ CellAbort(n)) \/ CellStabilize \/ UNCHANGED cellVars
    BY <2>3 DEF CellApply, CellApplyOne, Begin, CellAbort, Kill, CellStabilize, Settle,
                cellVars, run
  <2>. QED BY <1>1, <2>1, <2>2, <2>3 DEF CellNext
<1>2. CellInv /\ [CellNext]_cellVars =>
        [\A m \in Minion : pc'[m] # pc[m] /\ clean[m] /\ Apart(m) =>
           \A i \in Id : Exists(i) /\ nova'[i] # nova[i] => nova[i].name = want[m].name]_cellVars
  BY <1>1
<1>. QED
  BY CellInvariant, <1>2, PTL DEF CellSpec, OwnCellsOnly

=============================================================================

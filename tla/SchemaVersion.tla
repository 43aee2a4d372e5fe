--------------------------- MODULE SchemaVersion ---------------------------
(***************************************************************************)
(* api_db_version_present, db_version_present and                          *)
(* online_data_migrations_present, in novav21 and in novang, applied by    *)
(* several minions to the databases they share.                            *)
(***************************************************************************)
EXTENDS NovaManage, Naturals

CONSTANTS
  MaxVersion,   \* the newest version of a schema
  Garbage       \* what is printed, or asked for, is no integer

Db == {"api_db", "db"}
Version == 0..MaxVersion

ASSUME SchemaAssumption ==
  /\ MaxVersion \in Nat
  /\ Garbage \notin Nat

\* The states of this module that a pillar may ask for.
DbRequest == [driver : {"novav21", "novang"}, state : Db \cup {"online"},
              ask : [Db -> Version \cup {Garbage}]]

VARIABLES
  seen,      \* the version of api_db the run has read, before it reads that of db
  moved      \* history: the versions at which the online data migrations were made

local == <<seen, moved, obeyed>>
vars == <<run, local>>

Resource == [Db -> Version]

-----------------------------------------------------------------------------
\* nova-manage api_db version, nova-manage db version.
Printed(db, answer) == IF answer = "done" THEN nova[db] ELSE Garbage

\* The schemas after nova-manage sync --version: the scripts between the two
\* versions are applied one by one, and a failure leaves those that were.  It
\* does not go back to an older version.
Synced(db, version, answer) ==
  IF answer = "raised" \/ version < nova[db] THEN {nova}
  ELSE {[nova EXCEPT ![db] = v] :
          v \in IF answer = "done" THEN {version} ELSE nova[db]..version}

\* int() succeeds.
IsInteger(v) == v # Garbage

\* Whether the schema has to be migrated.  Mutated: the comparison is turned
\* round; it leaves out the last version.
Older_newer(existing, version) == existing > version
Older_one(existing, version) == existing + 1 < version
Older(existing, version) == existing < version

\* Whether the online data migrations may be made over the schemas that were
\* read.  Mutated: only db is compared.
InPlace_db(api, db, ask) == db = ask["db"]
InPlace(api, db, ask) == api = ask["api_db"] /\ db = ask["db"]

\* The report if a version is no integer; novang takes it for a node without
\* nova.
NotInteger(m) == IF want[m].driver = "novang" THEN "no_change" ELSE "update_failed"

\* The report if the schemas are not at the versions that the online data
\* migrations are for.
NotInPlace(m) == IF want[m].driver = "novang" THEN "no_change" ELSE "update_failed"

\* What is reported after a command.
ReportOf(answer) == IF answer = "raised" THEN "update_failed" ELSE "updated"

-----------------------------------------------------------------------------
Init ==
  /\ RunInit(Resource) /\ pillar \subseteq DbRequest
  /\ seen = [m \in Minion |-> Garbage]
  /\ moved = {}
  /\ obeyed = [m \in Minion |-> TRUE]

Forget(m) == seen' = [seen EXCEPT ![m] = Garbage]

Finish(m, result) == Return(m, result) /\ Forget(m)

\* The version command of _db_version_update, and the comparison.
Compare(m, answer) ==
  LET db == want[m].state
      existing == Printed(db, answer)
      version == want[m].ask[db]
  IN  IF ~IsInteger(existing) \/ ~IsInteger(version) THEN Finish(m, NotInteger(m))
      ELSE IF Older(existing, version) THEN GoTo(m, "sync") /\ UNCHANGED seen
      ELSE Finish(m, "no_change")

\* The first command of each of the states.
List(m) ==
  /\ pc[m] = "list"
  /\ \E answer \in Shell :
       /\ Heed(m, answer = "done")
       /\ IF answer = "raised" THEN Finish(m, Exception)
          ELSE IF want[m].state \in Db THEN Compare(m, answer)
          ELSE /\ GoTo(m, "second")
               /\ seen' = [seen EXCEPT ![m] = Printed("api_db", answer)]
  /\ ReadsFirst(m)
  /\ UNCHANGED moved

\* nova-manage db version in online_data_migrations_present, and the comparison.
ReadSecond(m) ==
  /\ pc[m] = "second"
  /\ \E answer \in Shell :
       LET db == Printed("db", answer)
           ask == want[m].ask
       IN  /\ Heed(m, answer = "done")
           /\ IF answer = "raised" THEN Finish(m, Exception)
              ELSE IF \E v \in {seen[m], db, ask["api_db"], ask["db"]} : ~IsInteger(v)
              THEN Finish(m, NotInteger(m))
              ELSE IF InPlace(seen[m], db, ask) THEN GoTo(m, "migrate") /\ UNCHANGED seen
              ELSE Finish(m, NotInPlace(m))
  /\ Reads(m)
  /\ UNCHANGED moved

\* nova-manage sync --version of _db_version_update.
Sync(m) ==
  /\ pc[m] = "sync"
  /\ \E answer \in Shell :
       /\ \E new \in Synced(want[m].state, want[m].ask[want[m].state], answer) : Becomes(m, new)
       /\ Heed(m, answer = "done")
       /\ Finish(m, ReportOf(answer))
  /\ UNCHANGED moved

\* nova-manage db online_data_migrations, over the schemas as they are by now.
Migrate(m) ==
  /\ pc[m] = "migrate"
  /\ \E answer \in Shell :
       /\ moved' = IF answer = "done" THEN moved \cup {nova} ELSE moved
       /\ Heed(m, answer = "done")
       /\ Finish(m, ReportOf(answer))
  /\ Reads(m)

Call(m) == List(m) \/ ReadSecond(m) \/ Sync(m) \/ Migrate(m)

ApplyOne(m, state) ==
  /\ \E request \in pillar : request.state = state /\ Begin(m, request)
  /\ obeyed' = [obeyed EXCEPT ![m] = TRUE]
  /\ UNCHANGED <<seen, moved>>

Apply(m) == \E state \in Db \cup {"online"} : ApplyOne(m, state)

Abort(m) == Kill(m) /\ Forget(m) /\ UNCHANGED <<moved, obeyed>>

Stabilize == Settle /\ UNCHANGED local

Next ==
  \/ \E m \in Minion : Apply(m) \/ Call(m) \/ Abort(m)
  \/ Stabilize

Spec == Init /\ [][Next]_vars

\* A run that is not killed goes on, the disturbances end, and each of the
\* states is applied again and again by some minion.
Fairness ==
  /\ \A m \in Minion : WF_vars(Call(m))
  /\ \A state \in Db \cup {"online"} : SF_vars(\E m \in Minion : ApplyOne(m, state))
  /\ WF_vars(Stabilize)

FairSpec == Spec /\ Fairness

-----------------------------------------------------------------------------
TypeOK ==
  /\ RunTypeOK(Resource, {"list", "second", "sync", "migrate"}) /\ pillar \subseteq DbRequest
  /\ seen \in [Minion -> Version \cup {Garbage}]
  /\ moved \in SUBSET Resource
  /\ obeyed \in [Minion -> BOOLEAN]

\* A run that reports success has found or brought the schema at least to the
\* version it was asked for, and that is true for good, whatever the other runs
\* do since, unless a nova-manage of the run failed; so nothing but an exit code
\* that is not looked at makes a report of success false.  The same of the online data
\* migrations, as long as nobody else migrates a schema.
ReportIsTrue ==
  \A m \in Minion :
    report[m] \in SuccessReport /\ obeyed[m] =>
      LET state == want[m].state
          ask == want[m].ask
      IN  /\ state \in Db /\ IsInteger(ask[state]) => nova[state] >= ask[state]
          /\ state = "online" /\ report[m] = "updated" /\ clean[m] => ask \in moved

-----------------------------------------------------------------------------
(***************************************************************************)
(* The states of one pillar that agree on the versions.                    *)
(***************************************************************************)
Target == (CHOOSE r \in pillar : TRUE).ask

Agreed == \A r \in pillar : r.ask = Target /\ \A db \in Db : IsInteger(r.ask[db])

AgreedStage ==
  IF ~Agreed THEN "schema"
  ELSE IF moved \ {Target} # {} THEN "misplaced"
  ELSE IF moved # {} THEN "done"
  ELSE IF nova = Target THEN "data"
  ELSE "schema"

A == INSTANCE SchemaMigration WITH stage <- AgreedStage

\* "Runs online_data_migrations if databases are of specific versions"
\* (novav21.py:403): the versions are read by two commands and used by a third, and
\* still the data are never migrated over any other schemas, however many runs
\* migrate them at the same time or break off half way.
MigratesInOrder == A!Safe

\* Under fairness the schemas get there and the data are migrated, unless a
\* schema is newer from the start.
MigrationCompletes ==
  /\ Agreed
  /\ {r.state : r \in pillar} = Db \cup {"online"}
  /\ \A db \in Db : nova[db] <= Target[db]
  => A!Completed

=============================================================================

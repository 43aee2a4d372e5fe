-------------------------- MODULE SchemaMigration --------------------------
(***************************************************************************)
(* What a pillar that asks for one version of each database, and for the   *)
(* online data migrations between these two, promises: first both schemas  *)
(* are there, then the data are migrated, once and for all, and never over *)
(* any other schema.                                                       *)
(***************************************************************************)

VARIABLE stage

Stage == {"schema", "data", "done"}

Init == stage \in Stage \ {"done"}

\* The last schema gets its version; the data are migrated.
SchemaReached == stage = "schema" /\ stage' = "data"
DataMigrated == stage = "data" /\ stage' = "done"

Safe == Init /\ [][SchemaReached \/ DataMigrated]_stage

Completed == <>[](stage = "done")

=============================================================================

-------------------------- MODULE MCSchemaVersion --------------------------
(* Instances of SchemaVersion for TLC. *)
EXTENDS SchemaVersion, TLC

CONSTANTS m1, m2

MCMinion == {m1, m2}

Ask(api, db) == "api_db" :> api @@ "db" :> db
Request3(driver, ask) == {[driver |-> driver, state |-> s, ask |-> ask] : s \in Db \cup {"online"}}

\* Minions that agree on the versions, with either driver; minions that do not; a
\* version that is no integer.
MCPillars ==
  {Request3("novav21", Ask(1, 2)),
   {r \in Request3("novang", Ask(1, 2)) : r.state = "online"}
     \cup {r \in Request3("novav21", Ask(1, 2)) : r.state # "online"},
   {r \in Request3("novav21", Ask(1, 1)) : r.state # "api_db"}
     \cup {r \in Request3("novang", Ask(2, 2)) : r.state = "api_db"},
   {[driver |-> d, state |-> "db", ask |-> Ask(1, Garbage)] : d \in {"novav21", "novang"}}}

MCRequest == UNION MCPillars

=============================================================================

------------------------------ MODULE Instance ------------------------------
(***************************************************************************)
(* instance_present (_states/novang.py), boot and the functions for one    *)
(* server (suspend, resume, lock, delete) of _modules/novang.py, and those *)
(* of _modules/novav21/servers.py.                                         *)
(***************************************************************************)
EXTENDS LegacyCloud

CONSTANT MaxServers   \* the quota of the project: a bound

InstanceOps == {"instance", "boot"}
ServerOps == {"suspend", "resume", "lock", "delete"}

\* What instance_present looks up after it found no server of the name, one by one.
Lookups == {"flavor", "image", "groups", "network"}

AfterLookup(call) ==
  IF call = "flavor" THEN "image" ELSE IF call = "image" THEN "groups"
  ELSE IF call = "groups" THEN "network" ELSE "boot"

\* What comes of a missing one: a report, except that image_list(name) raises
\* KeyError before the test that would have found an empty list.  Mutated: a report
\* that does not exist.
Missing_unknown(call) == IF call = "image" THEN Exception ELSE "not_found"
Missing(call) == IF call = "image" THEN Exception ELSE "create_failed"

\* Whether a server has the name.  Mutated: whether one has another name; whether
\* none has it.
Known_other(name) == \E s \in Range(nova.servers) : s.name # name
Known_not(name) == ByName(name) = NoServer
Known(name) == ByName(name) # NoServer

-----------------------------------------------------------------------------
\* server_list in instance_present.
ListServers(m) ==
  /\ pc[m] = "list" /\ want[m].op = "instance"
  /\ \E answer \in Reading :
       IF answer = "raised" THEN Finish(m, Exception)
       ELSE IF Known(want[m].name) THEN Finish(m, "no_change")
       ELSE GoTo(m, "flavor") /\ UNCHANGED local
  /\ ReadsFirst(m)

\* flavor_list, image_list, secgroup_list, network_show.
Lookup(m) ==
  /\ pc[m] \in Lookups
  /\ \E answer \in {"found", "missing", "raised"} :
       /\ stable => answer = "found"
       /\ IF answer = "found" THEN GoTo(m, AfterLookup(pc[m])) /\ UNCHANGED local
          ELSE Finish(m, IF answer = "missing" THEN Missing(pc[m]) ELSE Exception)
  /\ Reads(m)

\* servers.create; Nova does not mind a name that is taken.
Boot(m) ==
  /\ pc[m] = "boot" \/ (pc[m] = "list" /\ want[m].op = "boot")
  /\ LET ids == NewServerIds
         id == IF ids = {} THEN NoServer ELSE CHOOSE i \in ids : TRUE
         server == [id |-> id, name |-> want[m].name]
     IN  Requests(m, ids # {} /\ Len(nova.servers) < MaxServers,
                  [nova EXCEPT !.servers = Append(@, server)], "show_booted", id, NoVolume)

\* What is reported if the time is over: boot returns False, which instance_present
\* does not look at.
BootTimedOut(m) == IF want[m].op = "instance" THEN "created" ELSE "create_failed"

\* server_show_libcloud in the loop of boot.
ShowBooted(m) ==
  /\ pc[m] = "show_booted"
  /\ \E answer \in Reading :
       Round(m, answer = "ok" /\ Shown(held[m]), TRUE, "created", BootTimedOut(m))
  /\ Reads(m)

-----------------------------------------------------------------------------
\* server_get, which turns a name into the id for the functions for one server.
GetServer(m) ==
  /\ pc[m] = "list" /\ want[m].op \in ServerOps
  /\ \E answer \in Reading :
       IF answer = "raised" THEN Finish(m, Exception)
       ELSE GoesOn(m, "act", ByName(want[m].name), NoVolume)
  /\ ReadsFirst(m)

\* suspend, resume, lock and delete return True as soon as Nova accepts, and so do
\* those of novav21.
Act(m) ==
  /\ pc[m] = "act"
  /\ Requests(m, Exists(held[m]),
              IF want[m].op \in {"delete", "v21_delete"} THEN Without(held[m]) ELSE nova, "done",
              NoServer, NoVolume)

-----------------------------------------------------------------------------
\* The server that get_by_name_or_uuid finds: the only one of the name.  Mutated:
\* the first of them.
OnlyOne_first(name) == ByName(name)
OnlyOne(name) == IF Cardinality(Named(name)) = 1 THEN ByName(name) ELSE NoServer

\* The lookup of novav21; a list that failed has no body, which is a KeyError.
GetByName(m) ==
  /\ pc[m] = "list" /\ want[m].op \in {"v21_delete", "v21_act"}
  /\ \E answer \in Reading :
       IF answer = "raised" THEN Finish(m, Exception)
       ELSE IF OnlyOne(want[m].name) = NoServer THEN Finish(m, "update_failed")
       ELSE GoesOn(m, "act", OnlyOne(want[m].name), NoVolume)
  /\ ReadsFirst(m)

\* create of novav21, which does not wait.
Post(m) ==
  /\ pc[m] = "list" /\ want[m].op = "v21_create"
  /\ LET ids == NewServerIds
         server == [id |-> CHOOSE i \in ids : TRUE, name |-> want[m].name]
         valid == ids # {} /\ Len(nova.servers) < MaxServers
     IN  Requests(m, valid, IF valid THEN [nova EXCEPT !.servers = Append(@, server)] ELSE nova,
                  "done", NoServer, NoVolume)

InstanceCall(m) ==
  \/ ListServers(m) \/ Lookup(m) \/ Boot(m) \/ ShowBooted(m)
  \/ GetServer(m) \/ Act(m)
  \/ GetByName(m) \/ Post(m)

=============================================================================

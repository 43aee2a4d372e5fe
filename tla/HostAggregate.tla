--------------------------- MODULE HostAggregate ---------------------------
(***************************************************************************)
(* aggregate_present and aggregate_absent (_states/novav21.py), and        *)
(* aggregate_present and availability_zone_present of _states/novang.py    *)
(* ("exists"), for one aggregate name, applied by several minions.         *)
(*                                                                         *)
(* Every call of novav21 but the listing and the creation looks the name   *)
(* up first (get_by_name_or_uuid).  Lookup and request are one step here: what may  *)
(* happen between them is that the aggregate goes away, and then Nova      *)
(* refuses the request.                                                    *)
(***************************************************************************)
EXTENDS StateRun

CONSTANTS
  Host,         \* compute hosts
  MetaKey,      \* metadata keys
  Zone,         \* the metadata key of the availability zone
  Value,        \* metadata values
  Unset,        \* the value of a key the aggregate does not have
  NoAggregate   \* no aggregate has the name

Meta == [MetaKey -> Value \cup {Unset}]

ASSUME AggregateAssumption ==
  /\ Unset \notin Value
  /\ Zone \in MetaKey
  /\ NoAggregate \notin [meta : Meta, hosts : SUBSET Host]
  /\ Request \subseteq [ensure : {"present", "absent", "exists"}, meta : Meta,
                        hosts : SUBSET Host]

VARIABLES
  toAdd,     \* hosts_to_add, as far as they are not added yet
  toRemove,  \* hosts_to_remove, likewise
  differs    \* changes is not empty

local == <<toAdd, toRemove, differs>>
vars == <<run, local>>

Resource == {NoAggregate} \cup [meta : Meta, hosts : SUBSET Host]

-----------------------------------------------------------------------------
KeysOf(meta) == {k \in MetaKey : meta[k] # Unset}

\* Nova merges the posted metadata into the aggregate's.
Merge(have, asked) ==
  [k \in MetaKey |-> IF asked[k] # Unset THEN asked[k] ELSE have[k]]

\* A new aggregate has the metadata of its availability zone only.
NewAggregate(request) ==
  [meta |-> [k \in MetaKey |-> IF k = Zone THEN request.meta[k] ELSE Unset],
   hosts |-> {}]

\* existing_meta and requested_meta differ in an item.  Mutated: in a key.
MetaDiffers_keys(have, asked) == KeysOf(have) # KeysOf(asked)
MetaDiffers(have, asked) == have # asked

\* hosts_to_add.  Mutated: the difference is taken the wrong way round.
HostsToAdd_swapped(have, asked) == have \ asked
HostsToAdd(have, asked) == asked \ have

\* hosts_to_remove.  Mutated: everything is removed.
HostsToRemove_all(have, asked) == have
HostsToRemove(have, asked) == have \ asked

\* The outcomes of a call that names the aggregate.  If the lookup finds none,
\* the wrapper returns a dictionary without status_code, and reading it raises
\* KeyError in _call_nova_salt_module.
NamedAnswers(valid) ==
  Answers(nova # NoAggregate /\ valid, stable)
    \cup (IF nova = NoAggregate THEN {"raised"} ELSE {})

-----------------------------------------------------------------------------
Init ==
  /\ RunInit(Resource)
  /\ toAdd = [m \in Minion |-> {}]
  /\ toRemove = [m \in Minion |-> {}]
  /\ differs = [m \in Minion |-> FALSE]

Forget(m) ==
  /\ toAdd' = [toAdd EXCEPT ![m] = {}]
  /\ toRemove' = [toRemove EXCEPT ![m] = {}]
  /\ differs' = [differs EXCEPT ![m] = FALSE]

Finish(m, result) == Return(m, result) /\ Forget(m)

\* The update branch, decided on the aggregate that was listed.
Compare(m) ==
  LET request == want[m]
      adds == HostsToAdd(nova.hosts, request.hosts)
      removes == HostsToRemove(nova.hosts, request.hosts)
      meta == MetaDiffers(nova.meta, request.meta)
  IN  /\ GoTo(m, IF meta THEN "meta" ELSE "update")
      /\ toAdd' = [toAdd EXCEPT ![m] = adds]
      /\ toRemove' = [toRemove EXCEPT ![m] = removes]
      /\ differs' = [differs EXCEPT ![m] = meta \/ adds \cup removes # {}]

\* aggregate_list, and the branch taken on what it returned.
List(m) ==
  /\ pc[m] = "list" /\ want[m].ensure # "exists"
  /\ \E answer \in Answers(TRUE, stable) :
       IF ~Completes(answer)
       THEN Finish(m, Failed(answer, "find_failed"))
       ELSE \/ nova # NoAggregate /\ want[m].ensure = "present" /\ Compare(m)
            \/ /\ nova # NoAggregate /\ want[m].ensure = "absent"
               /\ GoTo(m, "delete") /\ UNCHANGED local
            \/ /\ nova = NoAggregate /\ want[m].ensure = "present"
               /\ GoTo(m, "create") /\ UNCHANGED local
            \/ /\ nova = NoAggregate /\ want[m].ensure = "absent"
               /\ Finish(m, "non_existent")
  /\ ReadsFirst(m)

\* What follows a creation: the call of aggregate_set_metadata lacks the name,
\* so that get_by_name_or_uuid raises IndexError if there is any metadata to
\* set.
AfterCreate(m) ==
  IF KeysOf(want[m].meta) # {}
  THEN Finish(m, Exception)
  ELSE /\ GoTo(m, "fill")
       /\ toAdd' = [toAdd EXCEPT ![m] = want[m].hosts]
       /\ UNCHANGED <<toRemove, differs>>

\* aggregate_create with the availability zone.
CreateAnswered(m, answer) ==
  /\ Becomes(m, IF Applied(answer) THEN NewAggregate(want[m]) ELSE nova)
  /\ IF Completes(answer)
     THEN AfterCreate(m)
     ELSE Finish(m, Failed(answer, "create_failed"))

Create(m) ==
  /\ pc[m] = "create"
  /\ \E answer \in Answers(nova = NoAggregate, stable) : CreateAnswered(m, answer)

\* aggregate_set_metadata of the update branch.
SetMetaAnswered(m, answer) ==
  /\ Becomes(m, IF Applied(answer) THEN [nova EXCEPT !.meta = Merge(@, want[m].meta)] ELSE nova)
  /\ IF Completes(answer)
     THEN GoTo(m, "update") /\ UNCHANGED local
     ELSE Finish(m, Failed(answer, "update_failed"))

SetMeta(m) ==
  /\ pc[m] = "meta"
  /\ \E answer \in NamedAnswers(TRUE) : SetMetaAnswered(m, answer)

\* One round of the loop over the hosts to add, of either branch; Nova refuses
\* a host that the aggregate has.
AddAnswered(m, host, answer) ==
  /\ Becomes(m, IF Applied(answer) THEN [nova EXCEPT !.hosts = @ \cup {host}] ELSE nova)
  /\ IF Completes(answer)
     THEN /\ toAdd' = [toAdd EXCEPT ![m] = @ \ {host}]
          /\ UNCHANGED <<pc, want, report, toRemove, differs>>
     ELSE Finish(m, Failed(answer, "update_failed"))

AddHost(m) ==
  /\ pc[m] \in {"fill", "update"}
  /\ \E host \in toAdd[m] :
     \E answer \in NamedAnswers(host \notin nova.hosts) : AddAnswered(m, host, answer)

\* One round of the loop over hosts_to_remove, after the other loop.
RemoveAnswered(m, host, answer) ==
  /\ Becomes(m, IF Applied(answer) THEN [nova EXCEPT !.hosts = @ \ {host}] ELSE nova)
  /\ IF Completes(answer)
     THEN /\ toRemove' = [toRemove EXCEPT ![m] = @ \ {host}]
          /\ UNCHANGED <<pc, want, report, toAdd, differs>>
     ELSE Finish(m, Failed(answer, "update_failed"))

RemoveHost(m) ==
  /\ pc[m] = "update" /\ toAdd[m] = {}
  /\ \E host \in toRemove[m] :
     \E answer \in NamedAnswers(host \in nova.hosts) : RemoveAnswered(m, host, answer)

\* The report of a run whose loops are over.
Result(m) ==
  IF pc[m] = "fill" THEN "created" ELSE IF differs[m] THEN "updated" ELSE "no_change"

Conclude(m) ==
  /\ pc[m] \in {"fill", "update"} /\ toAdd[m] = {} /\ toRemove[m] = {}
  /\ Finish(m, Result(m))
  /\ Reads(m)

\* aggregate_delete by name.
DeleteAnswered(m, answer) ==
  /\ Becomes(m, IF Applied(answer) THEN NoAggregate ELSE nova)
  /\ Finish(m, IF Completes(answer) THEN "deleted" ELSE Failed(answer, "delete_failed"))

Delete(m) ==
  /\ pc[m] = "delete"
  /\ \E answer \in NamedAnswers(TRUE) : DeleteAnswered(m, answer)

-----------------------------------------------------------------------------
\* The states of novang catch nothing.  They list the ids of all aggregates first,
ListIds(m) ==
  /\ pc[m] = "list" /\ want[m].ensure = "exists"
  /\ \E answer \in Answers(TRUE, stable) :
       IF Completes(answer)
       THEN GoTo(m, IF nova = NoAggregate THEN "make" ELSE "find") /\ UNCHANGED local
       ELSE Finish(m, Exception)
  /\ ReadsFirst(m)

\* get each of them, which fails if one has gone since, also if there is another one
\* of the name by now,
GetName(m) ==
  /\ pc[m] = "find"
  /\ \E there \in {nova # NoAggregate} \cup (IF clean[m] THEN {} ELSE {FALSE}) :
     \E answer \in Answers(there, stable) :
       Finish(m, IF Completes(answer) THEN "no_change" ELSE Exception)
  /\ Reads(m)

\* and make an aggregate, with an availability zone of its name, if none has it.
MakeAnswered(m, answer) ==
  /\ Becomes(m, IF Applied(answer) THEN NewAggregate(want[m]) ELSE nova)
  /\ Finish(m, IF Completes(answer) THEN "created" ELSE Exception)

Make(m) ==
  /\ pc[m] = "make"
  /\ \E answer \in Answers(nova = NoAggregate, stable) : MakeAnswered(m, answer)

-----------------------------------------------------------------------------
Call(m) ==
  \/ ListIds(m) \/ GetName(m) \/ Make(m)
  \/ List(m) \/ Create(m) \/ SetMeta(m) \/ AddHost(m) \/ RemoveHost(m)
  \/ Conclude(m) \/ Delete(m)

Apply(m) == (\E request \in pillar : Begin(m, request)) /\ UNCHANGED local

Abort(m) == Kill(m) /\ Forget(m)

Stabilize == Settle /\ UNCHANGED local

Next ==
  \/ \E m \in Minion : Apply(m) \/ Call(m) \/ Abort(m)
  \/ Stabilize

Spec == Init /\ [][Next]_vars

\* A run that is not killed makes its next call, the disturbances end, and
\* the states are applied again and again.
Fairness ==
  /\ \A m \in Minion : WF_vars(Call(m)) /\ WF_vars(Apply(m))
  /\ WF_vars(Stabilize)

FairSpec == Spec /\ Fairness

-----------------------------------------------------------------------------
TypeOK ==
  /\ RunTypeOK(Resource, {"list", "create", "meta", "fill", "update", "delete", "find", "make"})
  /\ toAdd \in [Minion -> SUBSET Host]
  /\ toRemove \in [Minion -> SUBSET Host]
  /\ differs \in [Minion -> BOOLEAN]

\* The parts of the aggregate that a run can put right and that differ from a
\* request: its existence, the metadata asked for, and the hosts.  Metadata that
\* nobody asked for cannot be put right: Nova merges what is posted.
WrongMeta(meta, asked) == {k \in KeysOf(asked) : meta[k] # asked[k]}
WrongHosts(hosts, asked) == (hosts \ asked) \cup (asked \ hosts)

Pending(request) ==
  IF request.ensure # "present"
  THEN IF (nova = NoAggregate) <=> (request.ensure = "absent") THEN {} ELSE {<<"aggregate">>}
  ELSE IF nova = NoAggregate
       THEN {<<"aggregate">>} \cup {"meta"} \X KeysOf(request.meta) \cup {"host"} \X request.hosts
       ELSE {"meta"} \X WrongMeta(nova.meta, request.meta)
              \cup {"host"} \X WrongHosts(nova.hosts, request.hosts)

\* A run that reports success has brought the aggregate to the requested state:
\* between the listing and the last round of the two loops of aggregate_present
\* nothing is left out.  That holds as long as nobody else touches the aggregate,
\* or for good if the minions agree, even with other runs between the rounds of
\* the loops.
ReportIsTrue ==
  \A m \in Minion :
    report[m] \in SuccessReport /\ (clean[m] \/ Agreement) => Pending(want[m]) = {}

\* A run that nobody disturbs, in a cloud that works, succeeds: it adds no host that
\* the aggregate has and removes none that it lacks, which Nova would refuse.  Only
\* the run that creates an aggregate with metadata fails, after the creation.
FailureHasCause ==
  [][\A m \in Minion :
       stable /\ Ends(m) /\ clean'[m]
         => \/ report'[m] \in SuccessReport
            \/ want[m].ensure = "present" /\ KeysOf(want[m].meta) # {} /\ nova = NoAggregate]_vars

(***************************************************************************)
(* Minions that ask for the same aggregate together implement Convergence. *)
(***************************************************************************)
AgreedPending == IF Agreement THEN Pending(Goal) ELSE {}

C == INSTANCE Convergence
       WITH Item <- {<<"aggregate">>} \cup {"meta"} \X MetaKey \cup {"host"} \X Host,
            pending <- AgreedPending

\* aggregate_present and aggregate_absent implement the safety half of
\* Convergence: an aggregate left behind by a run that broke off is still there
\* for the next run to complete, and no call takes away the aggregate, a host or
\* a metadata item that was asked for.
Converging == C!Safe

\* Under fairness nothing differs in the end, although the run that creates an
\* aggregate with metadata always breaks off: the next one takes the update
\* branch.
Converges == C!Reached

=============================================================================

---------------------------- MODULE LegacyCloud ----------------------------
(***************************************************************************)
(* What the functions of SaltNova (_modules/novang.py) that find a server  *)
(* by its name, or wait for a server or a volume, have in common; and the  *)
(* servers, the volume and the floating ip that they work on.  Instance    *)
(* and Attachment add the functions.                                       *)
(***************************************************************************)
EXTENDS StateRun, Naturals, Sequences, SequencesExt

CONSTANTS
  Name,        \* the names of servers
  ServerId,
  VolumeId,
  NoServer, NoVolume, NoIp,
  Initial      \* what there may be from the start

Server == [id : ServerId, name : Name]

\* The volume of the one name in use; by: history, whose request Cinder carries out.
Volume == [id : VolumeId, server : ServerId \cup {NoServer}, by : Minion,
           status : {"available", "attaching", "in-use", "detaching", "error"}]

Resource == [servers : Seq(Server), volume : Volume \cup {NoVolume},
             ip : ServerId \cup {NoServer, NoIp}]

\* Nothing is in progress from the start.
ASSUME CloudAssumption ==
  /\ {NoServer, NoIp} \cap ServerId = {}
  /\ NoServer # NoIp
  /\ NoVolume \notin Volume
  /\ NoVolume \notin VolumeId
  /\ Initial \subseteq Resource
  /\ \A c \in Initial : /\ \A j, k \in DOMAIN c.servers : c.servers[j].id = c.servers[k].id => j = k
                        /\ c.volume # NoVolume => c.volume.status \notin {"attaching", "detaching"}

VARIABLES
  held,      \* the id of the server that a run has found or booted
  volume,    \* the id of the volume that a run has found or created
  late       \* the time of a run that waits is over

local == <<held, volume, late>>
vars == <<run, local>>

-----------------------------------------------------------------------------
\* Servers, oldest first, with ids of their own.  Nova lists the latest first, and
\* server_list makes a dictionary of the list, in which the oldest of several
\* servers of one name hides the others.
Named(name) == {k \in DOMAIN nova.servers : nova.servers[k].name = name}
ByName(name) ==
  IF Named(name) = {} THEN NoServer ELSE nova.servers[Min(Named(name))].id

\* server_show finds the server of an id in the dictionary of the detailed list.
Shown(id) == \E name \in Name : ByName(name) = id /\ id # NoServer

Exists(id) == \E s \in Range(nova.servers) : s.id = id

\* Cinder lists an attachment from the moment it is made until it is gone.
Attached == nova.volume # NoVolume /\ nova.volume.status \in {"in-use", "detaching"}

\* Ids that nobody knows yet.
NewServerIds ==
  {i \in ServerId : ~Exists(i) /\ nova.ip # i /\ \A m \in Minion : held[m] # i}
NewVolumeIds == {i \in VolumeId : \A m \in Minion : volume[m] # i}

\* The cloud without the server: its volume is detached, its floating ip free.
Without(id) ==
  LET v == nova.volume
      place == CHOOSE k \in DOMAIN nova.servers : nova.servers[k].id = id
  IN  [servers |-> RemoveAt(nova.servers, place),
       volume |-> IF v # NoVolume /\ v.server = id
                  THEN [v EXCEPT !.server = NoServer, !.status = "available"] ELSE v,
       ip |-> IF nova.ip = id THEN NoServer ELSE nova.ip]

-----------------------------------------------------------------------------
CloudInit ==
  /\ RunInit(Initial)
  /\ held = [m \in Minion |-> NoServer]
  /\ volume = [m \in Minion |-> NoVolume]
  /\ late = [m \in Minion |-> FALSE]

Forget(m) ==
  /\ held' = [held EXCEPT ![m] = NoServer]
  /\ volume' = [volume EXCEPT ![m] = NoVolume]
  /\ late' = [late EXCEPT ![m] = FALSE]

Finish(m, result) == Return(m, result) /\ Forget(m)

\* Nothing that novaclient raises is caught, but within the loops that wait; the
\* functions of novav21 go through send() and return result False.
SendOps == {"v21_create", "v21_delete", "v21_act"}

Refused(m) == IF want[m].op \in SendOps THEN "update_failed" ELSE Exception

Reading == {answer \in {"ok", "raised"} : stable => answer = "ok"}

\* The run knows these ids and goes on.
GoesOn(m, call, server, vol) ==
  /\ GoTo(m, call)
  /\ held' = [held EXCEPT ![m] = server]
  /\ volume' = [volume EXCEPT ![m] = vol]
  /\ late' = [late EXCEPT ![m] = FALSE]

\* A request that is valid makes the cloud new, and the run goes on with call, or
\* is done.
Requests(m, valid, new, call, server, vol) ==
  \E answer \in Answers(valid, stable) :
    /\ Becomes(m, IF Applied(answer) THEN new ELSE nova)
    /\ IF ~Completes(answer) THEN Finish(m, Failed(answer, Refused(m)))
       ELSE IF call = "done" THEN Finish(m, "updated")
       ELSE GoesOn(m, call, server, vol)

\* A round of a loop that waits: it ends if what is read is good; only if reading
\* raises an exception does it look at the time.  Mutated: it does not
\* look at the time.
Round_forever(m, readable, good, result, timedOut) ==
  IF readable /\ good THEN Finish(m, result)
  ELSE UNCHANGED <<pc, want, report, local>>
Round(m, readable, good, result, timedOut) ==
  IF readable /\ good THEN Finish(m, result)
  ELSE IF ~readable /\ late[m] THEN Finish(m, timedOut)
  ELSE UNCHANGED <<pc, want, report, local>>

Waiting == {"show_booted", "await_volume"}

\* The timeout, after which the loop may give up.
Tick(m) ==
  /\ pc[m] \in Waiting /\ ~late[m]
  /\ late' = [late EXCEPT ![m] = TRUE]
  /\ UNCHANGED <<run, held, volume>>

Abort(m) == Kill(m) /\ Forget(m)

Stabilize == Settle /\ UNCHANGED local

-----------------------------------------------------------------------------
\* The first half of server_by_name: the list of servers.
FindServer(m) ==
  \E answer \in Reading :
    IF answer = "raised" THEN Finish(m, Exception)
    ELSE GoesOn(m, "show", ByName(want[m].name), volume[m])

\* Its second half, server_show_libcloud; next() of an empty dictionary raises
\* StopIteration.
ShowServer(m) ==
  /\ pc[m] = "show"
  /\ \E answer \in Reading :
       IF answer = "raised" \/ ~Shown(held[m]) THEN Finish(m, Exception)
       ELSE GoTo(m, "request") /\ UNCHANGED local
  /\ Reads(m)

=============================================================================

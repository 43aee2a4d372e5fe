------------------------------- MODULE Legacy -------------------------------
(***************************************************************************)
(* Minions that use the functions of Instance and Attachment on the same   *)
(* servers, volume and floating ip at the same time.                       *)
(***************************************************************************)
EXTENDS Instance, Attachment

ASSUME LegacyAssumption ==
  /\ Request \subseteq [op : UNION {InstanceOps, ServerOps, SendOps, VolumeOps, IpOps}, name : Name]
  /\ IsFiniteSet(Minion)
  /\ MaxServers \in Nat
  /\ \A c \in Initial :
       /\ Len(c.servers) <= MaxServers
       /\ \A name \in Name :
            Cardinality({k \in DOMAIN c.servers : c.servers[k].name = name}) <= Cardinality(Minion)

Init == CloudInit

Call(m) == InstanceCall(m) \/ AttachmentCall(m)

ApplyOne(m, request) == Begin(m, request) /\ UNCHANGED local

Apply(m) == \E request \in pillar : ApplyOne(m, request)

Next ==
  \/ \E m \in Minion : Apply(m) \/ Call(m) \/ Tick(m) \/ Abort(m)
  \/ Cinder
  \/ Stabilize

Spec == Init /\ [][Next]_vars

\* A call that is made goes on, the time of a run that waits ends, Cinder carries
\* out what it was asked to, the disturbances end, and the minions go on.
Fairness ==
  /\ \A m \in Minion : WF_vars(Call(m)) /\ WF_vars(Tick(m)) /\ WF_vars(Apply(m))
  /\ WF_vars(Cinder)
  /\ WF_vars(Stabilize)

FairSpec == Spec /\ Fairness

-----------------------------------------------------------------------------
Calls ==
  Lookups \cup Waiting
    \cup {"list", "boot", "act", "find", "show", "request", "request_none", "get", "confirm"}

TypeOK ==
  /\ RunTypeOK(Resource, Calls)
  /\ Len(nova.servers) <= MaxServers
  /\ held \in [Minion -> ServerId \cup {NoServer}]
  /\ volume \in [Minion -> VolumeId \cup {NoVolume}]
  /\ late \in [Minion -> BOOLEAN]

\* What a function has achieved when it returns.
Holds(request) ==
  LET server == ByName(request.name)
  IN  CASE request.op \in InstanceOps -> server # NoServer
        [] request.op = "attach" -> Attached /\ nova.volume.server = server
        [] request.op = "detach" -> ~Attached
        [] request.op = "volume_create" -> nova.volume # NoVolume
        [] request.op = "volume_delete" -> nova.volume = NoVolume
        [] request.op = "associate" -> nova.ip = server
        [] request.op = "disassociate" -> nova.ip # server
        [] request.op = "ip_create" -> nova.ip # NoIp
        [] request.op = "ip_delete" -> nova.ip = NoIp
        [] request.op = "v21_delete" -> server = NoServer
        [] OTHER -> TRUE

\* A function that returns without an exception, and not because the time was over,
\* has done what it was asked to, although it looks names up in one call and uses
\* the ids in another, and a volume is attached long after Nova has accepted; and
\* that holds as long as nobody else changes anything, or if all ask for the same.
ReportIsTrue ==
  \A m \in Minion :
    report[m] \in SuccessReport /\ (clean[m] \/ Agreement) => Holds(want[m])

\* instance_present boots by a name that it has not seen, and Nova does not mind a
\* second server of the name: there are never more of them than minions that may
\* have overlooked each other, however often the states are applied or killed.
OneInstancePerMinion ==
  (\A r \in pillar : r.op = "instance") =>
    \A name \in Name : Cardinality(Named(name)) <= Cardinality(Minion)

-----------------------------------------------------------------------------
\* Under fairness the instance that all ask for is there in the end.
InstanceInTheEnd == Agreement /\ Goal.op = "instance" => <>[]Holds(Goal)

\* The loop of boot always ends, also if an older server of the same name hides the
\* new one; those of volume_attach and volume_detach end unless the volume can be
\* read again and again in another status than they wait for, such as error: they
\* look at the time only after an exception.
WaitsEnd ==
  \A m \in Minion :
    /\ []<>(pc[m] # "show_booted")
    /\ \/ []<>(pc[m] # "await_volume")
       \/ []<>(IsVolume(volume[m]) /\ nova.volume.status # Target(m))

=============================================================================

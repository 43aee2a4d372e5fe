----------------------------- MODULE Attachment -----------------------------
(***************************************************************************)
(* volume_create, volume_delete, volume_attach, volume_detach and the      *)
(* functions for a floating ip of _modules/novang.py, and what Cinder does *)
(* in between.                                                             *)
(***************************************************************************)
EXTENDS LegacyCloud

VolumeOps == {"volume_create", "volume_delete", "attach", "detach"}
IpOps == {"ip_create", "ip_delete", "associate", "disassociate"}

\* volume_show: the id; KeyError, which every caller turns into SaltCloudSystemExit,
\* if there is no volume of the name.
ShowVolume(m) ==
  /\ pc[m] = "list" /\ want[m].op \in {"volume_delete", "attach", "detach"}
  /\ \E answer \in Reading :
       LET v == nova.volume
       IN  IF answer = "raised" \/ v = NoVolume THEN Finish(m, Exception)
           ELSE IF want[m].op = "attach" THEN GoesOn(m, "find", NoServer, v.id)
           ELSE IF want[m].op = "detach" /\ ~Attached THEN Finish(m, "updated")
           ELSE GoesOn(m, "request", v.server, v.id)
  /\ ReadsFirst(m)

\* server_by_name, in volume_attach and in the functions for a floating ip.
Find(m) ==
  /\ \/ pc[m] = "find" /\ Reads(m)
     \/ pc[m] = "list" /\ want[m].op \in {"associate", "disassociate"} /\ ReadsFirst(m)
  /\ FindServer(m)

IsVolume(id) == nova.volume # NoVolume /\ nova.volume.id = id

WithVolume(status, server, m) ==
  IF nova.volume = NoVolume THEN nova
  ELSE [nova EXCEPT !.volume = [@ EXCEPT !.status = status, !.server = server, !.by = m]]

\* create_server_volume.
Attach(m) ==
  /\ pc[m] = "request" /\ want[m].op = "attach"
  /\ Requests(m, IsVolume(volume[m]) /\ nova.volume.status = "available" /\ Exists(held[m]),
              WithVolume("attaching", held[m], m), "await_volume", held[m], volume[m])

\* delete_server_volume of the attachment that was read.
Detach(m) ==
  /\ pc[m] = "request" /\ want[m].op = "detach"
  /\ Requests(m, /\ IsVolume(volume[m]) /\ nova.volume.status = "in-use"
                 /\ nova.volume.server = held[m],
              WithVolume("detaching", held[m], m), "await_volume", held[m], volume[m])

\* The status that a run waits for.
Target(m) == IF want[m].op = "attach" THEN "in-use" ELSE "available"

\* _volume_get in the loops of volume_attach and volume_detach.
AwaitVolume(m) ==
  /\ pc[m] = "await_volume"
  /\ \E answer \in Reading :
       Round(m, answer = "ok" /\ IsVolume(volume[m]), nova.volume.status = Target(m),
             "updated", "update_failed")
  /\ Reads(m)

\* volumes.create and _volume_get of what it made.  Bound: the quota is one volume.
CreateVolume(m) ==
  /\ pc[m] = "list" /\ want[m].op = "volume_create"
  /\ LET ids == NewVolumeIds
         id == IF ids = {} THEN NoVolume ELSE CHOOSE i \in ids : TRUE
         new == [id |-> id, server |-> NoServer, by |-> m, status |-> "available"]
     IN  Requests(m, nova.volume = NoVolume /\ ids # {}, [nova EXCEPT !.volume = new],
                  "get", NoServer, id)

GetVolume(m) ==
  /\ pc[m] = "get"
  /\ \E answer \in Reading :
       Finish(m, IF answer = "ok" /\ IsVolume(volume[m]) THEN "updated" ELSE Exception)
  /\ Reads(m)

DeleteVolume(m) ==
  /\ pc[m] = "request" /\ want[m].op = "volume_delete"
  /\ Requests(m, IsVolume(volume[m]) /\ nova.volume.status \in {"available", "error"},
              [nova EXCEPT !.volume = NoVolume], "done", NoServer, NoVolume)

\* Cinder and Nova carry out a request, or fail to; a change for all but the run
\* that waits for it.
Cinder ==
  /\ nova.volume # NoVolume
  /\ LET v == nova.volume
         ends == IF v.status = "attaching"
                 THEN {"in-use"} \cup (IF stable THEN {} ELSE {"available", "error"})
                 ELSE IF v.status = "detaching"
                 THEN {"available"} \cup (IF stable THEN {} ELSE {"in-use", "error"})
                 ELSE {}
     IN  /\ \E s \in ends :
              nova' = [nova EXCEPT !.volume =
                         [@ EXCEPT !.status = s,
                                   !.server = IF s = "in-use" THEN v.server ELSE NoServer]]
         /\ clean' = [n \in Minion |-> clean[n] /\ n = v.by /\ pc[n] = "await_volume"]
  /\ UNCHANGED <<pillar, stable, pc, want, report, touched, local>>

-----------------------------------------------------------------------------
\* servers.get and add_floating_ip, which takes the ip from another server.
Associate(m) ==
  /\ pc[m] = "request" /\ want[m].op = "associate"
  /\ Requests(m, Exists(held[m]) /\ nova.ip # NoIp, [nova EXCEPT !.ip = held[m]], "confirm",
              held[m], NoVolume)

Disassociate(m) ==
  /\ pc[m] = "request" /\ want[m].op = "disassociate"
  /\ Requests(m, Exists(held[m]) /\ nova.ip = held[m], [nova EXCEPT !.ip = NoServer],
              "confirm", held[m], NoVolume)

\* floating_ip_list, and KeyError if the ip is gone by now.
Confirm(m) ==
  /\ pc[m] = "confirm"
  /\ \E answer \in Reading :
       Finish(m, IF answer = "ok" /\ nova.ip # NoIp THEN "updated" ELSE Exception)
  /\ Reads(m)

\* floating_ip_create.  Bound: the quota is one floating ip.
CreateIp(m) ==
  /\ pc[m] = "list" /\ want[m].op = "ip_create"
  /\ Requests(m, nova.ip = NoIp, [nova EXCEPT !.ip = NoServer], "done", NoServer, NoVolume)

\* floating_ip_show, which returns {} for no ip, and floating_ips.delete, which
\* Nova refuses for one that is not there.
ShowIp(m) ==
  /\ pc[m] = "list" /\ want[m].op = "ip_delete"
  /\ \E answer \in Reading :
       IF answer = "raised" THEN Finish(m, Exception)
       ELSE GoTo(m, IF nova.ip = NoIp THEN "request_none" ELSE "request") /\ UNCHANGED local
  /\ ReadsFirst(m)

DeleteIp(m) ==
  /\ pc[m] \in {"request", "request_none"} /\ want[m].op = "ip_delete"
  /\ Requests(m, pc[m] = "request" /\ nova.ip # NoIp, [nova EXCEPT !.ip = NoIp], "done",
              NoServer, NoVolume)

AttachmentCall(m) ==
  \/ ShowVolume(m) \/ Find(m) \/ ShowServer(m)
  \/ Attach(m) \/ Detach(m) \/ AwaitVolume(m)
  \/ CreateVolume(m) \/ GetVolume(m) \/ DeleteVolume(m)
  \/ Associate(m) \/ Disassociate(m) \/ Confirm(m)
  \/ CreateIp(m) \/ ShowIp(m) \/ DeleteIp(m)

=============================================================================

------------------------------ MODULE MCLegacy ------------------------------
(* Instances of Legacy for TLC. *)
EXTENDS Legacy

CONSTANTS m1, m2, s, t, i1, i2, i3, v1, v2

MCMinion == {m1, m2}
MCName == {s, t}
MCServerId == {i1, i2, i3}
MCVolumeId == {v1, v2}

R(op, name) == [op |-> op, name |-> name]

\* All ask for the same; two minions in each other's way; servers that come and go
\* under a volume or a floating ip.
MCPillars ==
  {{R("instance", s)}, {R("attach", s)}, {R("associate", s)},
   {R("instance", s), R("delete", s)}, {R("boot", s), R("suspend", s), R("instance", t)},
   {R("v21_create", s), R("v21_delete", s), R("v21_act", s)},
   {R("attach", s), R("attach", t), R("detach", s)},
   {R("attach", s), R("volume_create", s), R("volume_delete", s)},
   {R("attach", s), R("delete", s)},
   {R("associate", s), R("disassociate", s), R("associate", t), R("delete", s)},
   {R("associate", s), R("ip_create", s), R("ip_delete", s)}}

MCRequest == UNION MCPillars

\* Nothing; or a server of each name, and a volume and a floating ip that are free.
Available == [id |-> v1, server |-> NoServer, by |-> m1, status |-> "available"]
Two == <<[id |-> i1, name |-> s], [id |-> i2, name |-> t]>>
MCInitial ==
  {[servers |-> <<>>, volume |-> NoVolume, ip |-> NoIp],
   [servers |-> Two, volume |-> Available, ip |-> NoServer]}

=============================================================================

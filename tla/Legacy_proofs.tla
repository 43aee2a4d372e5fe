--------------------------- MODULE Legacy_proofs ---------------------------
(***************************************************************************)
(* Proofs about Legacy for any number of minions, servers and names.       *)
(***************************************************************************)
EXTENDS Legacy, SequenceTheorems, FiniteSetTheorems, TLAPS

-----------------------------------------------------------------------------
\* Reports of each kind, and the steps that all state functions share.
LEMMA AnswersFacts ==
  ASSUME NEW valid, NEW reliable, NEW answer \in Answers(valid, reliable)
  PROVE  /\ Applied(answer) => valid
         /\ Completes(answer) => Applied(answer)
BY DEF Answers, Applied, Completes

LEMMA FailedFacts ==
  /\ \A answer : Failed(answer, "find_failed") \in FailureReport
  /\ \A answer : Failed(answer, "create_failed") \in FailureReport
  /\ \A answer : Failed(answer, "update_failed") \in FailureReport
  /\ \A answer : Failed(answer, "delete_failed") \in FailureReport
  /\ FailureReport \subseteq Report
  /\ SuccessReport \subseteq Report
  /\ NoReport \in Report
  /\ (FailureReport \cup {NoReport}) \cap SuccessReport = {}
BY DEF Failed, FailureReport, Exception, Report, SuccessReport, NoReport

LEMMA CommonType ==
  ASSUME NEW resources, NEW calls, "list" \in calls, RunTypeOK(resources, calls),
         \/ \E m \in Minion, request \in pillar : Begin(m, request)
         \/ \E m \in Minion : Kill(m)
         \/ Settle
         \/ UNCHANGED run
  PROVE  RunTypeOK(resources, calls)'
<1> USE DEF RunTypeOK
<1>1. CASE \E m \in Minion, request \in pillar : Begin(m, request)
  BY <1>1, FailedFacts DEF Begin
<1>2. CASE \E m \in Minion : Kill(m)
  BY <1>2, FailedFacts DEF Kill, Return
<1>3. CASE Settle
  BY <1>3 DEF Settle
<1>4. CASE UNCHANGED run
  BY <1>4 DEF run
<1>. QED
  BY <1>1, <1>2, <1>3, <1>4

-----------------------------------------------------------------------------
\* Places in a sequence.
LEMMA MinFacts ==
  ASSUME NEW S, S \subseteq Nat, S # {}
  PROVE  Min(S) \in S /\ \A k \in S : Min(S) <= k
<1> DEFINE less == OpToRel(<, Nat)
<1>1. \A j, k \in Nat : j < k => <<j, k>> \in less
  <2>1. \A j, k \in Nat : <<j, k>> \in Nat \X Nat
    OBVIOUS
  <2>. QED BY <2>1 DEF OpToRel
<1>2. PICK k \in S : \A j \in S : ~(<<j, k>> \in less)
  <2>1. IsWellFoundedOn(less, Nat)
    BY NatLessThanWellFounded
  <2>. HIDE DEF less
  <2>. QED BY <2>1, WFMin
<1> HIDE DEF less
<1>3. ASSUME NEW j \in S PROVE k <= j
  <2>1. j \in Nat /\ k \in Nat
    OBVIOUS
  <2>2. ~(j < k)
    BY <1>1, <1>2, <2>1
  <2>. QED BY <2>1, <2>2
<1>. QED
  BY <1>3 DEF Min

\* RemoveAt leaves out one element and keeps the others in their order.
LEMMA RemoveAtFacts ==
  ASSUME NEW T, NEW s \in Seq(T), NEW k \in DOMAIN s
  PROVE  /\ RemoveAt(s, k) \in Seq(T)
         /\ Len(RemoveAt(s, k)) = Len(s) - 1
         /\ \A i \in DOMAIN RemoveAt(s, k) :
              /\ (IF i < k THEN i ELSE i + 1) \in DOMAIN s \ {k}
              /\ RemoveAt(s, k)[i] = s[IF i < k THEN i ELSE i + 1]
<1> DEFINE before == SubSeq(s, 1, k - 1)
           after == SubSeq(s, k + 1, Len(s))
<1>1. k \in 1..Len(s) /\ Len(s) \in Nat
  OBVIOUS
<1>2. /\ before \in Seq(T) /\ Len(before) = k - 1
      /\ \A i \in 1..(k - 1) : before[i] = s[i]
  <2>1. \A i \in 1..(k - 1) : s[i] \in T
    BY <1>1
  <2>. QED BY <1>1, <2>1, SubSeqProperties
<1>3. /\ after \in Seq(T) /\ Len(after) = Len(s) - k
      /\ \A i \in 1..(Len(s) - k) : after[i] = s[k + i]
  <2>1. \A i \in (k + 1)..Len(s) : s[i] \in T
    BY <1>1
  <2>. QED BY <1>1, <2>1, SubSeqProperties
<1> HIDE DEF before, after
<1>4. /\ before \o after \in Seq(T) /\ Len(before \o after) = Len(s) - 1
      /\ \A i \in 1..(Len(s) - 1) :
           (before \o after)[i] = IF i < k THEN before[i] ELSE after[i - (k - 1)]
  <2>1. Len(before) + Len(after) = Len(s) - 1 /\ k - 1 \in Nat
    BY <1>1, <1>2, <1>3
  <2>2. /\ before \o after \in Seq(T)
        /\ Len(before \o after) = Len(before) + Len(after)
        /\ \A i \in 1..(Len(before) + Len(after)) :
             (before \o after)[i] = IF i <= Len(before) THEN before[i] ELSE after[i - Len(before)]
    BY <1>2, <1>3, ConcatProperties, Zenon
  <2>3. Len(before) = k - 1
    BY <1>2
  <2>4. \A i \in 1..(Len(s) - 1) : i <= k - 1 <=> i < k
    BY <1>1
  <2>. QED BY <2>1, <2>2, <2>3, <2>4
<1>5. RemoveAt(s, k) = before \o after
  BY DEF RemoveAt, before, after
<1>6. ASSUME NEW i \in 1..(Len(s) - 1)
      PROVE  /\ (IF i < k THEN i ELSE i + 1) \in DOMAIN s \ {k}
             /\ (before \o after)[i] = s[IF i < k THEN i ELSE i + 1]
  <2>1. CASE i < k
    BY <1>1, <1>2, <1>4, <2>1
  <2>2. CASE ~(i < k)
    <3>1. (before \o after)[i] = after[i - (k - 1)] /\ i - (k - 1) \in 1..(Len(s) - k)
      BY <1>1, <1>4, <2>2
    <3>2. k + (i - (k - 1)) = i + 1
      BY <1>1
    <3>. QED BY <1>1, <1>3, <2>2, <3>1, <3>2
  <2>. QED BY <2>1, <2>2
<1> HIDE DEF before, after
<1>7. DOMAIN (before \o after) = 1..(Len(s) - 1)
  BY <1>1, <1>4
<1>. QED
  BY <1>4, <1>5, <1>6, <1>7

\* What ByName says of the servers, in any state.
NamesFacts ==
  /\ \A name : ByName(name) = NoServer <=> Named(name) = {}
  /\ \A name : ByName(name) \in ServerId \cup {NoServer}
  /\ \A name : \A k \in Named(name) : Cardinality(Named(name)) = 1 => nova.servers[k].id = ByName(name)

LEMMA NamesKnown == nova \in Resource => NamesFacts
<1> SUFFICES ASSUME nova \in Resource PROVE NamesFacts
  OBVIOUS
<1>1. nova.servers \in Seq(Server)
  BY DEF Resource
<1>2. ASSUME NEW name
      PROVE  /\ ByName(name) = NoServer <=> Named(name) = {}
             /\ ByName(name) \in ServerId \cup {NoServer}
             /\ \A k \in Named(name) :
                  Cardinality(Named(name)) = 1 => nova.servers[k].id = ByName(name)
  <2> DEFINE places == Named(name)
  <2>1. places \subseteq 1..Len(nova.servers) /\ Len(nova.servers) \in Nat
    BY <1>1 DEF Named
  <2>2. \A k \in places : nova.servers[k].id \in ServerId
    <3>1. \A k \in 1..Len(nova.servers) : nova.servers[k] \in Server
      BY <1>1
    <3>2. \A s \in Server : s.id \in ServerId
      BY DEF Server
    <3>. HIDE DEF places
    <3>. QED BY <2>1, <3>1, <3>2
  <2>3. CASE places = {}
    BY <2>3 DEF ByName
  <2>4. CASE places # {}
    <3>1. Min(places) \in places
      <4>1. places \subseteq Nat
        BY <2>1
      <4>. HIDE DEF places
      <4>. QED BY <2>4, <4>1, MinFacts
    <3>2. ByName(name) = nova.servers[Min(places)].id
      BY <2>4 DEF ByName
    <3>3. Cardinality(places) = 1 => \A j, k \in places : j = k
      <4>1. IsFiniteSet(places)
        <5>1. places \in SUBSET (1..Len(nova.servers)) /\ IsFiniteSet(1..Len(nova.servers))
          BY <2>1, FS_Interval
        <5>. HIDE DEF places
        <5>. QED BY <5>1, FS_Subset
      <4>. HIDE DEF places
      <4>2. Cardinality(places) = 1 <=> \E x : places = {x}
        BY <4>1, FS_Singleton, Zenon
      <4>. QED BY <4>2
    <3>4. NoServer \notin ServerId
      BY CloudAssumption
    <3>. HIDE DEF places
    <3>5. ASSUME NEW k \in places, Cardinality(places) = 1 PROVE nova.servers[k].id = ByName(name)
      BY <3>1, <3>2, <3>3, <3>5
    <3>. QED BY <2>2, <2>4, <3>1, <3>2, <3>4, <3>5 DEF places
  <2>. QED BY <2>3, <2>4
<1>. QED
  BY <1>2 DEF NamesFacts

LEMMA NamesKnownThen == nova' \in Resource => NamesFacts'
<1>1. (nova \in Resource => NamesFacts)'
  BY NamesKnown, PTL
<1>. QED
  BY <1>1

\* Servers that stay as they are keep their names.
LEMMA SameServers ==
  ASSUME nova'.servers = nova.servers
  PROVE  \A name : ByName(name)' = ByName(name) /\ Named(name)' = Named(name)
BY DEF ByName, Named

-----------------------------------------------------------------------------
\* Nova gives every server an id of its own: what is done to a server by its id is
\* done to no other.
UniqueIds ==
  \A j, k \in DOMAIN nova.servers : nova.servers[j].id = nova.servers[k].id => j = k

LEMMA ServerAdded ==
  ASSUME nova \in Resource, UniqueIds, NEW server \in Server, ~Exists(server.id),
         nova'.servers = Append(nova.servers, server)
  PROVE  /\ nova'.servers \in Seq(Server)
         /\ Len(nova'.servers) = Len(nova.servers) + 1
         /\ UniqueIds'
         /\ \A name : Named(name)' = Named(name) \cup
                        (IF server.name = name THEN {Len(nova.servers) + 1} ELSE {})
<1> DEFINE old == nova.servers
           new == nova'.servers
<1>1. old \in Seq(Server)
  BY DEF Resource
<1>2. /\ Len(old) \in Nat /\ DOMAIN old = 1..Len(old)
      /\ new \in Seq(Server) /\ Len(new) = Len(old) + 1 /\ DOMAIN new = 1..(Len(old) + 1)
      /\ \A k \in 1..Len(old) : new[k] = old[k]
      /\ new[Len(old) + 1] = server
  BY <1>1
<1>3. \A k \in 1..Len(old) : old[k].id # server.id
  BY <1>2 DEF Exists, Range
<1>4. \A j, k \in 1..Len(old) : old[j].id = old[k].id => j = k
  BY <1>2 DEF UniqueIds
<1> HIDE DEF old, new
<1>5. \A j, k \in 1..(Len(old) + 1) : new[j].id = new[k].id => j = k
  <2>1. \A k \in 1..(Len(old) + 1) : k \in 1..Len(old) \/ k = Len(old) + 1
    BY <1>2
  <2>. QED BY <1>2, <1>3, <1>4, <2>1
<1>6. ASSUME NEW name
      PROVE  {k \in DOMAIN new : new[k].name = name}
               = {k \in DOMAIN old : old[k].name = name} \cup
                   (IF server.name = name THEN {Len(old) + 1} ELSE {})
  <2>1. \A k : k \in 1..(Len(old) + 1) <=> k \in 1..Len(old) \/ k = Len(old) + 1
    BY <1>2
  <2>. QED BY <1>2, <2>1
<1>. QED
  BY <1>2, <1>5, <1>6 DEF old, new, UniqueIds, Named

LEMMA ServerRemoved ==
  ASSUME nova \in Resource, UniqueIds, NEW id, Exists(id),
         nova'.servers = Without(id).servers
  PROVE  /\ nova'.servers \in Seq(Server)
         /\ Len(nova'.servers) <= Len(nova.servers)
         /\ UniqueIds'
         /\ \A name : \A k \in Named(name)' :
              /\ nova'.servers[k].id # id
              /\ \E j \in Named(name) : nova.servers[j] = nova'.servers[k]
<1> DEFINE old == nova.servers
           new == nova'.servers
           place == CHOOSE k \in DOMAIN nova.servers : nova.servers[k].id = id
           from(i) == IF i < place THEN i ELSE i + 1
<1>1. old \in Seq(Server)
  BY DEF Resource
<1>2. place \in DOMAIN old /\ old[place].id = id
  BY DEF Exists, Range
<1>3. new = RemoveAt(old, place)
  BY DEF Without
<1>4. \A j, k \in DOMAIN old : old[j].id = old[k].id => j = k
  BY DEF UniqueIds
<1> HIDE DEF old, new, place
<1>5. /\ new \in Seq(Server) /\ Len(new) = Len(old) - 1
      /\ \A i \in DOMAIN new : from(i) \in DOMAIN old \ {place} /\ new[i] = old[from(i)]
  BY <1>1, <1>2, <1>3, RemoveAtFacts
<1>6. Len(old) \in Nat /\ DOMAIN new \subseteq Nat /\ place \in Nat
  BY <1>1, <1>2, <1>5
<1>7. \A i, j \in DOMAIN new : from(i) = from(j) => i = j
  BY <1>6
<1> HIDE DEF from
<1>8. \A i \in DOMAIN new : new[i].id # id
  BY <1>2, <1>4, <1>5
<1>9. \A i, j \in DOMAIN new : new[i].id = new[j].id => i = j
  BY <1>4, <1>5, <1>7
<1>10. ASSUME NEW name, NEW k \in {k \in DOMAIN new : new[k].name = name}
       PROVE  /\ new[k].id # id
              /\ \E j \in {j \in DOMAIN old : old[j].name = name} : old[j] = new[k]
  BY <1>5, <1>8, <1>10
<1>. QED
  BY <1>5, <1>6, <1>9, <1>10 DEF old, new, UniqueIds, Named

-----------------------------------------------------------------------------
\* What a request does (Requests): it is refused, lost or done.
RequestFails(m) == \E result \in FailureReport : Finish(m, result)

LEMMA RequestsFacts ==
  ASSUME NEW m \in Minion, NEW valid, NEW new, NEW call, NEW server, NEW vol,
         Requests(m, valid, new, call, server, vol)
  PROVE  /\ nova' = nova \/ (valid /\ nova' = new)
         /\ pillar' = pillar /\ stable' = stable
         /\ touched' = [touched EXCEPT ![m] = @ \/ nova # nova']
         /\ clean' = [n \in Minion |-> clean[n] /\ (n = m \/ nova = nova')]
         /\ \/ RequestFails(m)
            \/ valid /\ nova' = new /\ call = "done" /\ Finish(m, "updated")
            \/ valid /\ nova' = new /\ call # "done" /\ GoesOn(m, call, server, vol)
<1>1. PICK answer \in Answers(valid, stable) :
        /\ Becomes(m, IF Applied(answer) THEN new ELSE nova)
        /\ IF ~Completes(answer) THEN Finish(m, Failed(answer, Refused(m)))
           ELSE IF call = "done" THEN Finish(m, "updated")
           ELSE GoesOn(m, call, server, vol)
  BY DEF Requests
<1>2. (Applied(answer) => valid) /\ (Completes(answer) => Applied(answer))
  BY AnswersFacts
<1>3. Failed(answer, Refused(m)) \in FailureReport
  BY DEF Failed, Refused, FailureReport
<1>4. nova' = (IF Applied(answer) THEN new ELSE nova)
  BY <1>1 DEF Becomes
<1>5. CASE Completes(answer)
  BY <1>1, <1>2, <1>4, <1>5 DEF Becomes
<1>6. CASE ~Completes(answer)
  BY <1>1, <1>2, <1>3, <1>4, <1>6 DEF Becomes, RequestFails
<1>. QED
  BY <1>5, <1>6

-----------------------------------------------------------------------------
\* Run n keeps to the calls of the function it applies.
PhaseFacts(n) ==
  /\ report[n] # NoReport => pc[n] = "idle"
  /\ pc[n] \in Lookups \cup {"boot"} => want[n].op = "instance"
  /\ pc[n] = "show_booted" => want[n].op \in InstanceOps
  /\ pc[n] = "act" => want[n].op \in ServerOps \cup SendOps
  /\ pc[n] = "find" => want[n].op = "attach"
  /\ pc[n] = "show" => want[n].op \in {"attach", "associate", "disassociate"}
  /\ pc[n] = "request" => want[n].op \in {"attach", "detach", "associate", "disassociate",
                                          "volume_delete", "ip_delete"}
  /\ pc[n] = "request_none" => want[n].op = "ip_delete"
  /\ pc[n] = "confirm" => want[n].op \in {"associate", "disassociate"}
  /\ pc[n] = "await_volume" => want[n].op \in {"attach", "detach"}
  /\ pc[n] = "get" => want[n].op = "volume_create"

\* What a run that nobody is in the way of knows of the cloud: the id it holds is the
\* one of the server of the name, from the lookup to the request, and what it waits
\* for or confirms is what it has asked for.
TrueFacts(n) ==
  LET op == want[n].op
      name == want[n].name
  IN  /\ report[n] \in SuccessReport => Holds(want[n])
      /\ pc[n] = "show_booted" => ByName(name) # NoServer
      /\ pc[n] = "act" /\ op = "v21_delete" =>
           \A k \in Named(name) : nova.servers[k].id = held[n]
      /\ pc[n] = "show" => held[n] = ByName(name)
      /\ pc[n] = "request" /\ op \in {"attach", "associate", "disassociate"} =>
           held[n] = ByName(name) /\ held[n] # NoServer
      /\ pc[n] = "confirm" => ByName(name) # NoServer
      /\ pc[n] = "confirm" /\ op = "associate" => nova.ip = ByName(name)
      /\ pc[n] = "confirm" /\ op = "disassociate" => nova.ip # ByName(name)
      /\ pc[n] = "await_volume" /\ op = "attach" /\ nova.volume # NoVolume =>
           nova.volume.status \in {"available", "error"} \/ nova.volume.server = ByName(name)

\* Nothing is attached or detached that nobody asks for.
Settled ==
  nova.volume # NoVolume =>
    /\ nova.volume.status = "attaching" => \E r \in pillar : r.op = "attach"
    /\ nova.volume.status = "detaching" => \E r \in pillar : r.op = "detach"

CloudInv == TypeOK /\ UniqueIds /\ Settled

RunInv(n) == PhaseFacts(n) /\ (clean[n] \/ Agreement => TrueFacts(n))

IInv == CloudInv /\ \A n \in Minion : RunInv(n)

-----------------------------------------------------------------------------
\* The types of a run after a call of its own, and the other runs.
OwnTypes(m) ==
  /\ pc' \in [Minion -> {"idle"} \cup Calls]
  /\ want' = want
  /\ report' \in [Minion -> Report]
  /\ held' \in [Minion -> ServerId \cup {NoServer}]
  /\ volume' \in [Minion -> VolumeId \cup {NoVolume}]
  /\ late' \in [Minion -> BOOLEAN]
  /\ \A n \in Minion \ {m} : pc'[n] = pc[n] /\ report'[n] = report[n] /\ held'[n] = held[n]

LEMMA FinishTypes ==
  ASSUME TypeOK, NEW m \in Minion, NEW result \in Report, Finish(m, result)
  PROVE  OwnTypes(m) /\ pc'[m] = "idle" /\ report'[m] = result
BY DEF TypeOK, RunTypeOK, Finish, Return, Forget, OwnTypes

LEMMA GoesOnTypes ==
  ASSUME TypeOK, NEW m \in Minion, NEW call \in Calls,
         NEW server \in ServerId \cup {NoServer}, NEW vol \in VolumeId \cup {NoVolume},
         GoesOn(m, call, server, vol)
  PROVE  OwnTypes(m) /\ pc'[m] = call /\ report'[m] = report[m] /\ held'[m] = server
BY DEF TypeOK, RunTypeOK, GoesOn, GoTo, OwnTypes

LEMMA GoToTypes ==
  ASSUME TypeOK, NEW m \in Minion, NEW call \in Calls, GoTo(m, call), UNCHANGED local
  PROVE  OwnTypes(m) /\ pc'[m] = call /\ report'[m] = report[m] /\ held'[m] = held[m]
BY DEF TypeOK, RunTypeOK, GoTo, OwnTypes, local

LEMMA WaitsTypes ==
  ASSUME TypeOK, NEW m \in Minion, UNCHANGED <<pc, want, report, local>>
  PROVE  OwnTypes(m) /\ pc'[m] = pc[m] /\ report'[m] = report[m] /\ held'[m] = held[m]
BY DEF TypeOK, RunTypeOK, OwnTypes, local

LEMMA WantType ==
  ASSUME TypeOK, NEW m \in Minion
  PROVE  /\ want[m] \in pillar
         /\ want[m].op \in UNION {InstanceOps, ServerOps, SendOps, VolumeOps, IpOps}
         /\ want[m].name \in Name
<1>1. want[m] \in pillar /\ want[m] \in Request
  BY PillarAssumption DEF TypeOK, RunTypeOK
<1>. QED
  BY <1>1, LegacyAssumption

-----------------------------------------------------------------------------
\* What the call of run m makes of the cloud.
Adds(m) ==
  /\ want[m].op \in InstanceOps \cup {"v21_create"}
  /\ Len(nova.servers) < MaxServers
  /\ \E id \in ServerId :
       /\ ~Exists(id)
       /\ nova' = [nova EXCEPT !.servers = Append(@, [id |-> id, name |-> want[m].name])]

Removes(m) ==
  /\ want[m].op \in {"delete", "v21_delete"}
  /\ Exists(held[m])
  /\ nova' = Without(held[m])

Attaches(m) ==
  /\ want[m].op = "attach" /\ pc[m] = "request"
  /\ nova.volume # NoVolume /\ nova.volume.status = "available"
  /\ nova' = WithVolume("attaching", held[m], m)

Detaches(m) ==
  /\ want[m].op = "detach"
  /\ nova.volume # NoVolume /\ nova.volume.status = "in-use"
  /\ nova' = WithVolume("detaching", held[m], m)

ChangesVolume(m) ==
  \/ /\ want[m].op = "volume_create" /\ nova.volume = NoVolume
     /\ \E new \in Volume : new.status = "available" /\ nova' = [nova EXCEPT !.volume = new]
  \/ want[m].op = "volume_delete" /\ nova' = [nova EXCEPT !.volume = NoVolume]

ChangesIp(m) ==
  \/ want[m].op = "associate" /\ pc[m] = "request" /\ nova' = [nova EXCEPT !.ip = held[m]]
  \/ /\ want[m].op = "disassociate" /\ pc[m] = "request" /\ nova.ip = held[m]
     /\ nova' = [nova EXCEPT !.ip = NoServer]
  \/ want[m].op = "ip_create" /\ nova' = [nova EXCEPT !.ip = NoServer]
  \/ want[m].op = "ip_delete" /\ nova' = [nova EXCEPT !.ip = NoIp]

Effect(m) ==
  \/ nova' = nova
  \/ Adds(m) \/ Removes(m)
  \/ Attaches(m) \/ Detaches(m) \/ ChangesVolume(m)
  \/ ChangesIp(m)

LEMMA ResourceFields ==
  ASSUME TypeOK
  PROVE  /\ nova = [servers |-> nova.servers, volume |-> nova.volume, ip |-> nova.ip]
         /\ nova.servers \in Seq(Server) /\ Len(nova.servers) \in Nat
         /\ nova.volume \in Volume \cup {NoVolume}
         /\ nova.ip \in ServerId \cup {NoServer, NoIp}
<1>1. nova \in Resource
  BY DEF TypeOK, RunTypeOK
<1>. QED
  BY <1>1 DEF Resource

\* It keeps the types and the ids, and nothing is attached that nobody asks for.
LEMMA EffectKeeps ==
  ASSUME CloudInv, NEW m \in Minion, Effect(m), pillar' = pillar
  PROVE  nova' \in Resource /\ Len(nova'.servers) <= MaxServers /\ UniqueIds' /\ Settled'
<1>. USE DEF CloudInv
<1>1. /\ nova \in Resource /\ Len(nova.servers) <= MaxServers /\ MaxServers \in Nat
      /\ held[m] \in ServerId \cup {NoServer}
      /\ want[m] \in pillar /\ want[m].name \in Name
  BY WantType, LegacyAssumption DEF TypeOK, RunTypeOK
<1>2. CASE nova' = nova
  BY <1>1, <1>2 DEF UniqueIds, Settled
<1>3. CASE Adds(m)
  <2>1. PICK id \in ServerId :
          /\ ~Exists(id)
          /\ nova' = [nova EXCEPT !.servers = Append(@, [id |-> id, name |-> want[m].name])]
    BY <1>3 DEF Adds
  <2> DEFINE server == [id |-> id, name |-> want[m].name]
  <2>2. server \in Server /\ server.id = id
    BY <1>1 DEF Server
  <2>3. /\ nova'.servers = Append(nova.servers, server)
        /\ nova'.volume = nova.volume /\ nova'.ip = nova.ip
        /\ nova' = [servers |-> nova'.servers, volume |-> nova'.volume, ip |-> nova'.ip]
    BY <2>1, ResourceFields DEF Resource
  <2> HIDE DEF server
  <2>4. /\ nova'.servers \in Seq(Server)
        /\ Len(nova'.servers) = Len(nova.servers) + 1
        /\ UniqueIds'
    BY <1>1, <2>1, <2>2, <2>3, ServerAdded
  <2>5. nova' \in Resource
    BY <2>3, <2>4, ResourceFields DEF Resource
  <2>6. Len(nova'.servers) <= MaxServers
    BY <1>1, <1>3, <2>4, ResourceFields DEF Adds
  <2>. QED BY <2>3, <2>4, <2>5, <2>6 DEF Settled
<1>4. CASE Removes(m)
  <2>1. /\ nova'.servers = Without(held[m]).servers
        /\ nova' = [servers |-> nova'.servers, volume |-> nova'.volume, ip |-> nova'.ip]
        /\ \/ nova'.volume = nova.volume
           \/ /\ nova.volume # NoVolume
              /\ nova'.volume = [nova.volume EXCEPT !.server = NoServer, !.status = "available"]
        /\ nova'.ip \in {nova.ip, NoServer}
    BY <1>4 DEF Removes, Without
  <2>2. /\ nova'.servers \in Seq(Server)
        /\ Len(nova'.servers) <= Len(nova.servers)
        /\ UniqueIds'
    BY <1>1, <1>4, <2>1, ServerRemoved DEF Removes
  <2>3. nova'.volume \in Volume \cup {NoVolume}
    BY <2>1, ResourceFields DEF Volume
  <2>4. nova' \in Resource
    BY <2>1, <2>2, <2>3, ResourceFields DEF Resource
  <2>5. Len(nova'.servers) <= MaxServers
    BY <1>1, <2>2, ResourceFields
  <2>6. Settled'
    BY <2>1, ResourceFields DEF Settled, Volume
  <2>. QED BY <2>2, <2>4, <2>5, <2>6
<1>5. CASE Attaches(m) \/ Detaches(m)
  <2>1. PICK s \in {"attaching", "detaching"} :
          /\ nova' = [nova EXCEPT !.volume = [@ EXCEPT !.status = s, !.server = held[m], !.by = m]]
          /\ s = "attaching" => want[m].op = "attach"
          /\ s = "detaching" => want[m].op = "detach"
    BY <1>5 DEF Attaches, Detaches, WithVolume
  <2>2. nova.volume \in Volume
    BY <1>5, ResourceFields DEF Attaches, Detaches
  <2>3. /\ nova'.servers = nova.servers
        /\ nova'.volume \in Volume
        /\ nova'.volume.status = "attaching" => want[m].op = "attach"
        /\ nova'.volume.status = "detaching" => want[m].op = "detach"
    <3>1. /\ nova'.servers = nova.servers
          /\ nova'.volume = [nova.volume EXCEPT !.status = s, !.server = held[m], !.by = m]
      BY <1>1, <2>1 DEF Resource
    <3>2. nova'.volume \in Volume /\ nova'.volume.status = s
      BY <1>1, <2>2, <3>1 DEF Volume
    <3>. QED BY <2>1, <3>1, <3>2
  <2>4. nova' \in Resource
    BY <1>1, <2>1, <2>3 DEF Resource
  <2>5. Settled'
    BY <1>1, <2>3 DEF Settled
  <2>. QED BY <1>1, <2>3, <2>4, <2>5 DEF UniqueIds
<1>6. CASE ChangesVolume(m)
  <2>1. PICK v \in Volume \cup {NoVolume} :
          nova' = [nova EXCEPT !.volume = v] /\ (v # NoVolume => v.status = "available")
    BY <1>6 DEF ChangesVolume
  <2>. QED BY <1>1, <2>1 DEF Resource, UniqueIds, Settled
<1>7. CASE ChangesIp(m)
  <2>1. \E ip \in ServerId \cup {NoServer, NoIp} : nova' = [nova EXCEPT !.ip = ip]
    BY <1>1, <1>7 DEF ChangesIp
  <2>. QED BY <1>1, <2>1 DEF Resource, UniqueIds, Settled
<1>. QED
  BY <1>2, <1>3, <1>4, <1>5, <1>6, <1>7 DEF Effect

-----------------------------------------------------------------------------
\* If all ask for the same, what one run does makes nothing false that another knows.
LEMMA AgreementKept ==
  ASSUME IInv, NEW m \in Minion, NEW n \in Minion, Effect(m), Agreement,
         want' = want, pillar' = pillar, OwnTypes(m), n # m
  PROVE  TrueFacts(n)'
<1>1. want[n] = want[m]
  BY WantType DEF Agreement, IInv, CloudInv
<1>2. TrueFacts(n) /\ TrueFacts(m) /\ PhaseFacts(n)
  BY DEF IInv, RunInv
<1>3. pc'[n] = pc[n] /\ report'[n] = report[n] /\ held'[n] = held[n]
  BY DEF OwnTypes
<1>4. nova' \in Resource /\ nova \in Resource
  BY EffectKeeps DEF IInv, CloudInv, TypeOK, RunTypeOK
<1>5. NamesFacts /\ NamesFacts'
  BY <1>4, NamesKnown, NamesKnownThen
<1> DEFINE name == want[m].name
<1>6. CASE nova' = nova
  BY <1>2, <1>3, <1>6 DEF TrueFacts, Holds, ByName, Named, Attached
<1>7. CASE Adds(m)
  <2>1. PICK id \in ServerId :
          /\ ~Exists(id)
          /\ nova' = [nova EXCEPT !.servers = Append(@, [id |-> id, name |-> want[m].name])]
    BY <1>7 DEF Adds
  <2>2. nova'.servers = Append(nova.servers, [id |-> id, name |-> name])
    BY <1>4, <2>1 DEF Resource
  <2>3. [id |-> id, name |-> name] \in Server
    BY WantType DEF IInv, CloudInv, Server
  <2>4. Named(name) \subseteq Named(name)'
    BY <1>4, <2>1, <2>2, <2>3, ServerAdded DEF IInv, CloudInv
  <2>5. ByName(name) # NoServer => ByName(name)' # NoServer
    BY <1>5, <2>4 DEF NamesFacts
  <2>. QED BY <1>1, <1>2, <1>3, <1>7, <2>5
           DEF Adds, PhaseFacts, TrueFacts, Holds, InstanceOps, SendOps
<1>8. CASE Removes(m)
  <2>1. nova'.servers = Without(held[m]).servers
    BY <1>8 DEF Removes
  <2>2. \A k \in Named(name)' : \E j \in Named(name) : nova.servers[j] = nova'.servers[k]
    BY <1>4, <1>8, <2>1, ServerRemoved DEF Removes, IInv, CloudInv
  <2>3. ByName(name) = NoServer => ByName(name)' = NoServer
    BY <1>5, <2>2 DEF NamesFacts
  <2>4. (\A k \in Named(name) : nova.servers[k].id = held[n]) =>
          \A k \in Named(name)' : nova'.servers[k].id = held[n]
    BY <2>2
  <2>. QED BY <1>1, <1>2, <1>3, <1>8, <2>3, <2>4
           DEF Removes, PhaseFacts, TrueFacts, Holds, InstanceOps
<1>9. CASE nova'.servers = nova.servers
           /\ (Attaches(m) \/ Detaches(m) \/ ChangesVolume(m) \/ ChangesIp(m))
  <2>1. ByName(name)' = ByName(name)
    BY <1>9, SameServers
  <2>2. CASE Attaches(m)
    <3>1. nova.volume \in Volume
      BY <1>4, <2>2 DEF Attaches, Resource
    <3>2. nova'.volume.status = "attaching" /\ nova'.volume.server = held[m]
      BY <1>4, <2>2, <3>1 DEF Attaches, WithVolume, Resource, Volume
    <3>3. held[m] = ByName(name)
      BY <1>2, <2>2 DEF Attaches, TrueFacts
    <3>. QED BY <1>1, <1>2, <1>3, <2>1, <2>2, <3>2, <3>3
             DEF Attaches, PhaseFacts, TrueFacts, Holds, Attached, InstanceOps
  <2>3. CASE Detaches(m)
    BY <1>1, <1>2, <1>3, <2>1, <2>3 DEF Detaches, PhaseFacts, TrueFacts, Holds, Attached, InstanceOps
  <2>4. CASE ChangesVolume(m)
    <3>1. \/ want[m].op = "volume_create" /\ nova'.volume # NoVolume
          \/ want[m].op = "volume_delete" /\ nova'.volume = NoVolume
      BY <1>4, <2>4, CloudAssumption DEF ChangesVolume, Resource
    <3>. QED BY <1>1, <1>2, <1>3, <2>1, <3>1 DEF PhaseFacts, TrueFacts, Holds, InstanceOps
  <2>5. CASE ChangesIp(m)
    <3>1. \/ want[m].op = "associate" /\ pc[m] = "request" /\ nova'.ip = held[m]
          \/ /\ want[m].op = "disassociate" /\ pc[m] = "request" /\ nova.ip = held[m]
             /\ nova'.ip = NoServer
          \/ want[m].op = "ip_create" /\ nova'.ip = NoServer
          \/ want[m].op = "ip_delete" /\ nova'.ip = NoIp
      BY <1>4, <2>5 DEF ChangesIp, Resource
    <3>2. want[m].op \in {"associate", "disassociate"} => held[m] = ByName(name)
      BY <1>2, <3>1 DEF TrueFacts
    <3>3. NoServer # NoIp
      BY CloudAssumption
    <3>. QED BY <1>1, <1>2, <1>3, <2>1, <3>1, <3>2, <3>3
             DEF PhaseFacts, TrueFacts, Holds, InstanceOps
  <2>. QED BY <1>9, <2>2, <2>3, <2>4, <2>5
<1>10. Attaches(m) \/ Detaches(m) \/ ChangesVolume(m) \/ ChangesIp(m) =>
         nova'.servers = nova.servers
  BY <1>4 DEF Attaches, Detaches, WithVolume, ChangesVolume, ChangesIp, Resource
<1>. QED
  BY <1>6, <1>7, <1>8, <1>9, <1>10 DEF Effect

-----------------------------------------------------------------------------
\* A call of run m, for itself and for the others.
Frame(m) ==
  /\ pillar' = pillar /\ stable' \in BOOLEAN
  /\ clean' \in [Minion -> BOOLEAN] /\ touched' \in [Minion -> BOOLEAN]
  /\ \A n \in Minion \ {m} : clean'[n] => clean[n] /\ nova' = nova

Done(m) ==
  /\ OwnTypes(m) /\ Frame(m) /\ Effect(m)
  /\ PhaseFacts(m)' /\ (clean'[m] \/ Agreement => TrueFacts(m)')

\* A run that returns knows no more than what it reports.
LEMMA ReturnedFacts ==
  ASSUME NEW m \in Minion, pc'[m] = "idle"
  PROVE  /\ PhaseFacts(m)'
         /\ (report'[m] \in SuccessReport => Holds(want[m])') => TrueFacts(m)'
BY DEF PhaseFacts, TrueFacts, Lookups

Achieved(m) == Holds(want[m])

\* A request that is carried out has its effect, and the run still keeps to its facts.
RequestWorks(m, call, server) ==
  /\ Effect(m)
  /\ call = "done" /\ want' = want /\ (clean[m] \/ Agreement) => Achieved(m)'
  /\ /\ call # "done" /\ want' = want
     /\ pc'[m] = call /\ report'[m] = NoReport /\ held'[m] = server
     => PhaseFacts(m)' /\ (clean[m] \/ Agreement => TrueFacts(m)')

LEMMA RequestCall ==
  ASSUME CloudInv, NEW m \in Minion, RunInv(m), report[m] = NoReport,
         NEW valid, NEW new, NEW call \in Calls \cup {"done"},
         NEW server \in ServerId \cup {NoServer}, NEW vol \in VolumeId \cup {NoVolume},
         Requests(m, valid, new, call, server, vol),
         valid /\ nova' = new => RequestWorks(m, call, server)
  PROVE  Done(m)
<1>1. /\ nova' = nova \/ (valid /\ nova' = new)
      /\ pillar' = pillar /\ stable' = stable
      /\ touched' = [touched EXCEPT ![m] = @ \/ nova # nova']
      /\ clean' = [n \in Minion |-> clean[n] /\ (n = m \/ nova = nova')]
      /\ \/ RequestFails(m)
         \/ valid /\ nova' = new /\ call = "done" /\ Finish(m, "updated")
         \/ valid /\ nova' = new /\ call # "done" /\ GoesOn(m, call, server, vol)
  BY RequestsFacts
<1>2. Frame(m) /\ (clean'[m] => clean[m])
  BY <1>1 DEF Frame, CloudInv, TypeOK, RunTypeOK
<1>3. Effect(m)
  BY <1>1 DEF Effect, RequestWorks
<1>4. CASE RequestFails(m)
  <2>1. PICK result \in FailureReport : Finish(m, result)
    BY <1>4 DEF RequestFails
  <2>2. OwnTypes(m) /\ pc'[m] = "idle" /\ report'[m] = result
    BY <2>1, FinishTypes, FailedFacts DEF CloudInv
  <2>. QED BY <1>2, <1>3, <2>2, ReturnedFacts, FailedFacts DEF Done
<1>5. CASE valid /\ nova' = new /\ call = "done" /\ Finish(m, "updated")
  <2>1. OwnTypes(m) /\ pc'[m] = "idle" /\ want' = want
    BY <1>5, FinishTypes DEF CloudInv, Report, SuccessReport, OwnTypes
  <2>2. clean[m] \/ Agreement => Achieved(m)'
    BY <1>5, <2>1 DEF RequestWorks
  <2>. QED BY <1>2, <1>3, <2>1, <2>2, ReturnedFacts DEF Done, Achieved
<1>6. CASE valid /\ nova' = new /\ call # "done" /\ GoesOn(m, call, server, vol)
  <2>1. /\ OwnTypes(m) /\ want' = want
        /\ pc'[m] = call /\ report'[m] = NoReport /\ held'[m] = server
    BY <1>6, GoesOnTypes DEF CloudInv, OwnTypes
  <2>2. PhaseFacts(m)' /\ (clean[m] \/ Agreement => TrueFacts(m)')
    BY <1>6, <2>1 DEF RequestWorks
  <2>. QED BY <1>2, <1>3, <2>1, <2>2 DEF Done
<1>. QED
  BY <1>1, <1>4, <1>5, <1>6

LEMMA ReadsFrame ==
  ASSUME TypeOK, NEW m \in Minion, Reads(m) \/ ReadsFirst(m)
  PROVE  Frame(m) /\ Effect(m) /\ nova' = nova /\ pillar' = pillar
BY DEF TypeOK, RunTypeOK, Reads, ReadsFirst, Frame, Effect

LEMMA FailedRead ==
  ASSUME CloudInv, NEW m \in Minion, Reads(m) \/ ReadsFirst(m),
         NEW result \in FailureReport, Finish(m, result)
  PROVE  Done(m)
<1>1. OwnTypes(m) /\ pc'[m] = "idle" /\ report'[m] = result
  BY FinishTypes, FailedFacts DEF CloudInv
<1>. QED
  BY <1>1, ReadsFrame, ReturnedFacts, FailedFacts DEF Done, CloudInv

LEMMA LastRead ==
  ASSUME CloudInv, NEW m \in Minion, Reads(m) \/ ReadsFirst(m),
         NEW result \in SuccessReport, Finish(m, result),
         clean'[m] \/ Agreement => Holds(want[m])
  PROVE  Done(m)
<1>1. OwnTypes(m) /\ pc'[m] = "idle" /\ report'[m] = result
  BY FinishTypes, FailedFacts DEF CloudInv
<1>2. want' = want /\ nova' = nova
  BY <1>1, ReadsFrame DEF OwnTypes, CloudInv
<1>3. Holds(want[m])' <=> Holds(want[m])
  BY <1>2 DEF Holds, ByName, Named, Attached
<1>. QED
  BY <1>1, <1>3, ReadsFrame, ReturnedFacts DEF Done, CloudInv

LEMMA GoesOnRead ==
  ASSUME CloudInv, NEW m \in Minion, Reads(m) \/ ReadsFirst(m), report[m] = NoReport,
         NEW call \in Calls, pc'[m] = call, report'[m] = report[m], OwnTypes(m),
         PhaseFacts(m)', clean'[m] \/ Agreement => TrueFacts(m)'
  PROVE  Done(m)
BY ReadsFrame DEF Done, CloudInv

\* The server that is added bears the name.
LEMMA AddedName ==
  ASSUME CloudInv, NEW m \in Minion, Adds(m), pillar' = pillar
  PROVE  \A name : name = want[m].name => ByName(name)' # NoServer
<1>1. nova \in Resource /\ nova' \in Resource /\ want[m].name \in Name
  BY EffectKeeps, WantType DEF Effect, CloudInv, TypeOK, RunTypeOK
<1>2. NamesFacts'
  BY <1>1, NamesKnownThen
<1>3. PICK id \in ServerId :
        /\ ~Exists(id)
        /\ nova' = [nova EXCEPT !.servers = Append(@, [id |-> id, name |-> want[m].name])]
  BY DEF Adds
<1>4. nova'.servers = Append(nova.servers, [id |-> id, name |-> want[m].name])
  BY <1>1, <1>3 DEF Resource
<1>5. [id |-> id, name |-> want[m].name] \in Server
  BY <1>1 DEF Server
<1>6. \A name : name = want[m].name => Named(name)' # {}
  BY <1>1, <1>3, <1>4, <1>5, ServerAdded DEF CloudInv
<1>. QED
  BY <1>2, <1>6 DEF NamesFacts

-----------------------------------------------------------------------------
\* The calls that write.
LEMMA BootCall ==
  ASSUME CloudInv, NEW m \in Minion, RunInv(m), Boot(m)
  PROVE  Done(m)
<1> DEFINE ids == NewServerIds
<1>1. PICK id, valid, new :
        /\ id = IF ids = {} THEN NoServer ELSE CHOOSE i \in ids : TRUE
        /\ valid = (ids # {} /\ Len(nova.servers) < MaxServers)
        /\ new = [nova EXCEPT !.servers = Append(@, [id |-> id, name |-> want[m].name])]
  OBVIOUS
<1>2. Requests(m, valid, new, "show_booted", id, NoVolume)
  BY <1>1 DEF Boot, Requests, Becomes
<1>3. report[m] = NoReport /\ want[m].op \in InstanceOps
  BY DEF Boot, RunInv, PhaseFacts, InstanceOps
<1>4. (ids # {} => id \in ids) /\ id \in ServerId \cup {NoServer}
  BY <1>1 DEF NewServerIds
<1>5. \A i \in ids : i \in ServerId /\ ~Exists(i)
  BY DEF NewServerIds
<1> HIDE DEF ids
<1>6. valid /\ nova' = new => Adds(m)
  BY <1>1, <1>3, <1>4, <1>5 DEF Adds
<1>7. pillar' = pillar
  BY <1>2, RequestsFacts
<1>8. valid /\ nova' = new /\ want' = want /\ pc'[m] = "show_booted" /\ report'[m] = NoReport
        => PhaseFacts(m)' /\ TrueFacts(m)'
  BY <1>3, <1>6, <1>7, AddedName DEF PhaseFacts, TrueFacts, Lookups, SuccessReport, NoReport
<1>9. valid /\ nova' = new => RequestWorks(m, "show_booted", id)
  BY <1>6, <1>8 DEF RequestWorks, Effect
<1>10. "show_booted" \in Calls
  BY DEF Calls, Waiting
<1>. QED
  BY <1>2, <1>3, <1>4, <1>9, <1>10, RequestCall

LEMMA PostCall ==
  ASSUME CloudInv, NEW m \in Minion, RunInv(m), Post(m)
  PROVE  Done(m)
<1> DEFINE ids == NewServerIds
<1>1. PICK id, valid, new :
        /\ id = CHOOSE i \in ids : TRUE
        /\ valid = (ids # {} /\ Len(nova.servers) < MaxServers)
        /\ new = IF valid THEN [nova EXCEPT !.servers = Append(@, [id |-> id, name |-> want[m].name])]
                          ELSE nova
  OBVIOUS
<1>2. Requests(m, valid, new, "done", NoServer, NoVolume)
  BY <1>1 DEF Post, Requests, Becomes
<1>3. report[m] = NoReport /\ want[m].op = "v21_create"
  BY DEF Post, RunInv, PhaseFacts
<1>4. ids # {} => id \in ids
  BY <1>1
<1>5. \A i \in ids : i \in ServerId /\ ~Exists(i)
  BY DEF NewServerIds
<1> HIDE DEF ids
<1>6. valid /\ nova' = new => Adds(m)
  BY <1>1, <1>3, <1>4, <1>5 DEF Adds
<1>7. want' = want => Achieved(m)'
  BY <1>3 DEF Achieved, Holds, InstanceOps
<1>8. valid /\ nova' = new => RequestWorks(m, "done", NoServer)
  BY <1>6, <1>7 DEF RequestWorks, Effect
<1>. QED
  BY <1>2, <1>3, <1>8, RequestCall

LEMMA ActCall ==
  ASSUME CloudInv, NEW m \in Minion, RunInv(m), Act(m)
  PROVE  Done(m)
<1>1. PICK valid, new :
        /\ valid = Exists(held[m])
        /\ new = IF want[m].op \in {"delete", "v21_delete"} THEN Without(held[m]) ELSE nova
  OBVIOUS
<1>2. Requests(m, valid, new, "done", NoServer, NoVolume)
  BY <1>1 DEF Act, Requests, Becomes
<1>3. report[m] = NoReport /\ pc[m] = "act" /\ want[m].op \in ServerOps \cup SendOps
  BY DEF Act, RunInv, PhaseFacts
<1>4. valid /\ nova' = new => Effect(m)
  BY <1>1 DEF Removes, Effect
<1>5. ASSUME valid, nova' = new, want' = want, clean[m] \/ Agreement
      PROVE  Achieved(m)'
  <2>1. CASE want[m].op # "v21_delete"
    BY <1>3, <1>5, <2>1 DEF Achieved, Holds, InstanceOps, ServerOps, SendOps
  <2>2. CASE want[m].op = "v21_delete"
    <3>1. nova \in Resource /\ pillar' = pillar
      BY <1>2, RequestsFacts DEF CloudInv, TypeOK, RunTypeOK
    <3>2. NamesFacts'
      BY <1>4, <1>5, <3>1, EffectKeeps, NamesKnownThen
    <3>3. PICK name : name = want[m].name
      OBVIOUS
    <3>4. \A k \in Named(name) : nova.servers[k].id = held[m]
      BY <1>3, <1>5, <2>2, <3>3 DEF RunInv, TrueFacts
    <3>5. Exists(held[m]) /\ nova'.servers = Without(held[m]).servers
      BY <1>1, <1>5, <2>2
    <3>6. \A k \in Named(name)' : /\ nova'.servers[k].id # held[m]
                                  /\ \E j \in Named(name) : nova.servers[j] = nova'.servers[k]
      BY <3>1, <3>5, ServerRemoved DEF CloudInv
    <3>7. Named(name)' = {}
      BY <3>4, <3>6
    <3>8. ByName(name)' = NoServer
      BY <3>2, <3>7 DEF NamesFacts
    <3>. QED BY <1>5, <2>2, <3>3, <3>8 DEF Achieved, Holds, InstanceOps
  <2>. QED BY <2>1, <2>2
<1>6. valid /\ nova' = new => RequestWorks(m, "done", NoServer)
  BY <1>4, <1>5 DEF RequestWorks
<1>. QED
  BY <1>2, <1>3, <1>6, RequestCall

LEMMA AttachCall ==
  ASSUME CloudInv, NEW m \in Minion, RunInv(m), Attach(m)
  PROVE  Done(m)
<1>1. PICK valid, new, server, vol :
        /\ valid = (/\ IsVolume(volume[m]) /\ nova.volume.status = "available" /\ Exists(held[m]))
        /\ new = WithVolume("attaching", held[m], m)
        /\ server = held[m] /\ vol = volume[m]
  OBVIOUS
<1>2. Requests(m, valid, new, "await_volume", server, vol)
  BY <1>1 DEF Attach, Requests, Becomes
<1>3. report[m] = NoReport /\ pc[m] = "request" /\ want[m].op = "attach"
  BY DEF Attach, RunInv, PhaseFacts
<1>4. /\ server \in ServerId \cup {NoServer} /\ vol \in VolumeId \cup {NoVolume}
      /\ "await_volume" \in Calls
  BY <1>1 DEF CloudInv, TypeOK, Calls, Waiting
<1>5. valid /\ nova' = new => Attaches(m)
  BY <1>1, <1>3 DEF Attaches, IsVolume
<1>6. ASSUME Attaches(m), want' = want, pc'[m] = "await_volume", report'[m] = NoReport
      PROVE  PhaseFacts(m)' /\ (clean[m] \/ Agreement => TrueFacts(m)')
  <2>1. /\ nova'.servers = nova.servers
        /\ nova'.volume.server = held[m]
    BY <1>6, ResourceFields DEF Attaches, WithVolume, Resource, Volume, CloudInv
  <2>2. clean[m] \/ Agreement => held[m] = ByName(want[m].name)
    BY <1>3 DEF RunInv, TrueFacts
  <2>3. \A name : ByName(name)' = ByName(name)
    BY <2>1, SameServers
  <2>4. PhaseFacts(m)'
    BY <1>3, <1>6 DEF PhaseFacts, Lookups
  <2>5. clean[m] \/ Agreement => TrueFacts(m)'
    BY <1>3, <1>6, <2>1, <2>2, <2>3 DEF TrueFacts, Lookups, SuccessReport, NoReport
  <2>. QED BY <2>4, <2>5
<1>7. valid /\ nova' = new => RequestWorks(m, "await_volume", server)
  BY <1>5, <1>6 DEF RequestWorks, Effect
<1>. QED
  BY <1>2, <1>3, <1>4, <1>7, RequestCall

LEMMA DetachCall ==
  ASSUME CloudInv, NEW m \in Minion, RunInv(m), Detach(m)
  PROVE  Done(m)
<1>1. PICK valid, new, server, vol :
        /\ valid = (/\ IsVolume(volume[m]) /\ nova.volume.status = "in-use"
                    /\ nova.volume.server = held[m])
        /\ new = WithVolume("detaching", held[m], m)
        /\ server = held[m] /\ vol = volume[m]
  OBVIOUS
<1>2. Requests(m, valid, new, "await_volume", server, vol)
  BY <1>1 DEF Detach, Requests, Becomes
<1>3. report[m] = NoReport /\ want[m].op = "detach"
  BY DEF Detach, RunInv, PhaseFacts
<1>4. /\ server \in ServerId \cup {NoServer} /\ vol \in VolumeId \cup {NoVolume}
      /\ "await_volume" \in Calls
  BY <1>1 DEF CloudInv, TypeOK, Calls, Waiting
<1>5. valid /\ nova' = new => Detaches(m)
  BY <1>1, <1>3 DEF Detaches, IsVolume
<1>6. want' = want /\ pc'[m] = "await_volume" /\ report'[m] = NoReport
        => PhaseFacts(m)' /\ TrueFacts(m)'
  BY <1>3 DEF PhaseFacts, TrueFacts, Lookups, SuccessReport, NoReport
<1>7. valid /\ nova' = new => RequestWorks(m, "await_volume", server)
  BY <1>5, <1>6 DEF RequestWorks, Effect
<1>. QED
  BY <1>2, <1>3, <1>4, <1>7, RequestCall

LEMMA CreateVolumeCall ==
  ASSUME CloudInv, NEW m \in Minion, RunInv(m), CreateVolume(m)
  PROVE  Done(m)
<1> DEFINE ids == NewVolumeIds
<1>1. PICK id, made, valid, new :
        /\ id = IF ids = {} THEN NoVolume ELSE CHOOSE i \in ids : TRUE
        /\ made = [id |-> id, server |-> NoServer, by |-> m, status |-> "available"]
        /\ valid = (nova.volume = NoVolume /\ ids # {})
        /\ new = [nova EXCEPT !.volume = made]
  OBVIOUS
<1>2. Requests(m, valid, new, "get", NoServer, id)
  BY <1>1, ZenonT(60) DEF CreateVolume, Requests, Becomes
<1>3. report[m] = NoReport /\ want[m].op = "volume_create"
  BY DEF CreateVolume, RunInv, PhaseFacts
<1>4. (ids # {} => id \in VolumeId) /\ id \in VolumeId \cup {NoVolume} /\ "get" \in Calls
  BY <1>1 DEF NewVolumeIds, Calls
<1> HIDE DEF ids
<1>5. valid => made \in Volume /\ made.status = "available"
  BY <1>1, <1>4 DEF Volume
<1>6. valid /\ nova' = new => ChangesVolume(m)
  BY <1>1, <1>3, <1>5 DEF ChangesVolume
<1>7. want' = want /\ pc'[m] = "get" /\ report'[m] = NoReport => PhaseFacts(m)' /\ TrueFacts(m)'
  BY <1>3 DEF PhaseFacts, TrueFacts, Lookups, SuccessReport, NoReport
<1>8. valid /\ nova' = new => RequestWorks(m, "get", NoServer)
  BY <1>6, <1>7 DEF RequestWorks, Effect
<1>. QED
  BY <1>2, <1>3, <1>4, <1>8, RequestCall

LEMMA DeleteVolumeCall ==
  ASSUME CloudInv, NEW m \in Minion, RunInv(m), DeleteVolume(m)
  PROVE  Done(m)
<1>1. PICK valid, new :
        /\ valid = (IsVolume(volume[m]) /\ nova.volume.status \in {"available", "error"})
        /\ new = [nova EXCEPT !.volume = NoVolume]
  OBVIOUS
<1>2. Requests(m, valid, new, "done", NoServer, NoVolume)
  BY <1>1 DEF DeleteVolume, Requests, Becomes
<1>3. report[m] = NoReport /\ want[m].op = "volume_delete"
  BY DEF DeleteVolume, RunInv, PhaseFacts
<1>4. valid /\ nova' = new => ChangesVolume(m) /\ nova'.volume = NoVolume
  BY <1>1, <1>3, ResourceFields DEF ChangesVolume, CloudInv
<1>5. want' = want /\ nova'.volume = NoVolume => Achieved(m)'
  BY <1>3 DEF Achieved, Holds, InstanceOps
<1>6. valid /\ nova' = new => RequestWorks(m, "done", NoServer)
  BY <1>4, <1>5 DEF RequestWorks, Effect
<1>. QED
  BY <1>2, <1>3, <1>6, RequestCall

LEMMA AssociateCall ==
  ASSUME CloudInv, NEW m \in Minion, RunInv(m), Associate(m)
  PROVE  Done(m)
<1>1. PICK valid, new, server :
        /\ valid = (Exists(held[m]) /\ nova.ip # NoIp)
        /\ new = [nova EXCEPT !.ip = held[m]]
        /\ server = held[m]
  OBVIOUS
<1>2. Requests(m, valid, new, "confirm", server, NoVolume)
  BY <1>1 DEF Associate, Requests, Becomes
<1>3. report[m] = NoReport /\ pc[m] = "request" /\ want[m].op = "associate"
  BY DEF Associate, RunInv, PhaseFacts
<1>4. server \in ServerId \cup {NoServer} /\ "confirm" \in Calls
  BY <1>1 DEF CloudInv, TypeOK, Calls
<1>5. valid /\ nova' = new => /\ ChangesIp(m)
                             /\ nova'.ip = held[m] /\ nova'.servers = nova.servers
  BY <1>1, <1>3, ResourceFields DEF ChangesIp, CloudInv
<1>6. ASSUME nova'.ip = held[m], nova'.servers = nova.servers,
             want' = want, pc'[m] = "confirm", report'[m] = NoReport
      PROVE  PhaseFacts(m)' /\ (clean[m] \/ Agreement => TrueFacts(m)')
  <2>1. clean[m] \/ Agreement => held[m] = ByName(want[m].name) /\ held[m] # NoServer
    BY <1>3 DEF RunInv, TrueFacts
  <2>2. \A name : ByName(name)' = ByName(name)
    BY <1>6, SameServers
  <2>3. PhaseFacts(m)'
    BY <1>3, <1>6 DEF PhaseFacts, Lookups
  <2>4. clean[m] \/ Agreement => TrueFacts(m)'
    BY <1>3, <1>6, <2>1, <2>2 DEF TrueFacts, Lookups, SuccessReport, NoReport
  <2>. QED BY <2>3, <2>4
<1>7. valid /\ nova' = new => RequestWorks(m, "confirm", server)
  BY <1>5, <1>6 DEF RequestWorks, Effect
<1>. QED
  BY <1>2, <1>3, <1>4, <1>7, RequestCall

LEMMA DisassociateCall ==
  ASSUME CloudInv, NEW m \in Minion, RunInv(m), Disassociate(m)
  PROVE  Done(m)
<1>1. PICK valid, new, server :
        /\ valid = (Exists(held[m]) /\ nova.ip = held[m])
        /\ new = [nova EXCEPT !.ip = NoServer]
        /\ server = held[m]
  OBVIOUS
<1>2. Requests(m, valid, new, "confirm", server, NoVolume)
  BY <1>1 DEF Disassociate, Requests, Becomes
<1>3. report[m] = NoReport /\ pc[m] = "request" /\ want[m].op = "disassociate"
  BY DEF Disassociate, RunInv, PhaseFacts
<1>4. server \in ServerId \cup {NoServer} /\ "confirm" \in Calls
  BY <1>1 DEF CloudInv, TypeOK, Calls
<1>5. valid /\ nova' = new => /\ ChangesIp(m)
                             /\ nova'.ip = NoServer /\ nova'.servers = nova.servers
  BY <1>1, <1>3, ResourceFields DEF ChangesIp, CloudInv
<1>6. ASSUME nova'.ip = NoServer, nova'.servers = nova.servers,
             want' = want, pc'[m] = "confirm", report'[m] = NoReport
      PROVE  PhaseFacts(m)' /\ (clean[m] \/ Agreement => TrueFacts(m)')
  <2>1. clean[m] \/ Agreement => held[m] = ByName(want[m].name) /\ held[m] # NoServer
    BY <1>3 DEF RunInv, TrueFacts
  <2>2. \A name : ByName(name)' = ByName(name)
    BY <1>6, SameServers
  <2>3. PhaseFacts(m)'
    BY <1>3, <1>6 DEF PhaseFacts, Lookups
  <2>4. clean[m] \/ Agreement => TrueFacts(m)'
    BY <1>3, <1>6, <2>1, <2>2 DEF TrueFacts, Lookups, SuccessReport, NoReport
  <2>. QED BY <2>3, <2>4
<1>7. valid /\ nova' = new => RequestWorks(m, "confirm", server)
  BY <1>5, <1>6 DEF RequestWorks, Effect
<1>. QED
  BY <1>2, <1>3, <1>4, <1>7, RequestCall

LEMMA CreateIpCall ==
  ASSUME CloudInv, NEW m \in Minion, RunInv(m), CreateIp(m)
  PROVE  Done(m)
<1>1. PICK valid, new : valid = (nova.ip = NoIp) /\ new = [nova EXCEPT !.ip = NoServer]
  OBVIOUS
<1>2. Requests(m, valid, new, "done", NoServer, NoVolume)
  BY <1>1 DEF CreateIp, Requests, Becomes
<1>3. report[m] = NoReport /\ want[m].op = "ip_create"
  BY DEF CreateIp, RunInv, PhaseFacts
<1>4. valid /\ nova' = new => ChangesIp(m) /\ nova'.ip = NoServer
  BY <1>1, <1>3, ResourceFields DEF ChangesIp, CloudInv
<1>5. want' = want /\ nova'.ip = NoServer => Achieved(m)'
  BY <1>3, CloudAssumption DEF Achieved, Holds, InstanceOps
<1>6. valid /\ nova' = new => RequestWorks(m, "done", NoServer)
  BY <1>4, <1>5 DEF RequestWorks, Effect
<1>. QED
  BY <1>2, <1>3, <1>6, RequestCall

LEMMA DeleteIpCall ==
  ASSUME CloudInv, NEW m \in Minion, RunInv(m), DeleteIp(m)
  PROVE  Done(m)
<1>1. PICK valid, new :
        /\ valid = (pc[m] = "request" /\ nova.ip # NoIp)
        /\ new = [nova EXCEPT !.ip = NoIp]
  OBVIOUS
<1>2. Requests(m, valid, new, "done", NoServer, NoVolume)
  BY <1>1 DEF DeleteIp, Requests, Becomes
<1>3. report[m] = NoReport /\ want[m].op = "ip_delete"
  BY DEF DeleteIp, RunInv, PhaseFacts
<1>4. valid /\ nova' = new => ChangesIp(m) /\ nova'.ip = NoIp
  BY <1>1, <1>3, ResourceFields DEF ChangesIp, CloudInv
<1>5. want' = want /\ nova'.ip = NoIp => Achieved(m)'
  BY <1>3 DEF Achieved, Holds, InstanceOps
<1>6. valid /\ nova' = new => RequestWorks(m, "done", NoServer)
  BY <1>4, <1>5 DEF RequestWorks, Effect
<1>. QED
  BY <1>2, <1>3, <1>6, RequestCall

-----------------------------------------------------------------------------
\* The calls that read.
LEMMA WaitsRead ==
  ASSUME CloudInv, NEW m \in Minion, RunInv(m), Reads(m), UNCHANGED <<pc, want, report, local>>
  PROVE  Done(m)
<1>1. OwnTypes(m)
  BY WaitsTypes DEF CloudInv
<1>2. PhaseFacts(m)'
  BY DEF RunInv, PhaseFacts
<1>3. clean'[m] \/ Agreement => TrueFacts(m)'
  BY DEF RunInv, TrueFacts, Reads, Holds, ByName, Named, Attached, local
<1>. QED
  BY <1>1, <1>2, <1>3, ReadsFrame DEF Done, CloudInv

LEMMA ListServersCall ==
  ASSUME CloudInv, NEW m \in Minion, RunInv(m), ListServers(m)
  PROVE  Done(m)
<1>1. /\ ReadsFirst(m)
      /\ report[m] = NoReport /\ want[m].op = "instance"
      /\ \/ Finish(m, Exception)
         \/ ByName(want[m].name) # NoServer /\ Finish(m, "no_change")
         \/ GoTo(m, "flavor") /\ UNCHANGED local
  BY DEF ListServers, RunInv, PhaseFacts, Known
<1>2. CASE Finish(m, Exception)
  BY <1>1, <1>2, FailedRead DEF FailureReport
<1>3. CASE ByName(want[m].name) # NoServer /\ Finish(m, "no_change")
  <2>1. Holds(want[m])
    BY <1>1, <1>3 DEF Holds, InstanceOps
  <2>. QED BY <1>1, <1>3, <2>1, LastRead DEF SuccessReport
<1>4. CASE GoTo(m, "flavor") /\ UNCHANGED local
  <2>1. OwnTypes(m) /\ pc'[m] = "flavor" /\ report'[m] = report[m] /\ want' = want
    BY <1>4, GoToTypes DEF CloudInv, Calls, Lookups, OwnTypes
  <2>2. PhaseFacts(m)' /\ TrueFacts(m)'
    BY <1>1, <2>1 DEF PhaseFacts, TrueFacts, Lookups, SuccessReport, NoReport
  <2>3. "flavor" \in Calls
    BY DEF Calls, Lookups
  <2>. QED BY <1>1, <2>1, <2>2, <2>3, GoesOnRead
<1>. QED
  BY <1>1, <1>2, <1>3, <1>4

LEMMA LookupCall ==
  ASSUME CloudInv, NEW m \in Minion, RunInv(m), Lookup(m)
  PROVE  Done(m)
<1>1. PICK call : call = AfterLookup(pc[m])
  OBVIOUS
<1>2. /\ Reads(m)
      /\ report[m] = NoReport /\ want[m].op = "instance"
      /\ call \in Lookups \cup {"boot"}
      /\ \/ Finish(m, Missing(pc[m])) \/ Finish(m, Exception)
         \/ GoTo(m, call) /\ UNCHANGED local
  BY <1>1 DEF Lookup, RunInv, PhaseFacts, Lookups, AfterLookup
<1>3. CASE Finish(m, Missing(pc[m])) \/ Finish(m, Exception)
  <2>1. PICK failure \in FailureReport : Finish(m, failure)
    BY <1>3 DEF FailureReport, Missing, Finish, Return
  <2>. QED BY <1>2, <2>1, FailedRead
<1>4. CASE GoTo(m, call) /\ UNCHANGED local
  <2>1. call \in Calls
    BY <1>2 DEF Calls
  <2>2. OwnTypes(m) /\ pc'[m] = call /\ report'[m] = report[m] /\ want' = want
    BY <1>4, <2>1, GoToTypes DEF CloudInv, OwnTypes
  <2>3. PhaseFacts(m)' /\ TrueFacts(m)'
    BY <1>2, <2>2 DEF PhaseFacts, TrueFacts, Lookups, SuccessReport, NoReport
  <2>. QED BY <1>2, <2>1, <2>2, <2>3, GoesOnRead
<1>. QED
  BY <1>2, <1>3, <1>4

LEMMA ShowBootedCall ==
  ASSUME CloudInv, NEW m \in Minion, RunInv(m), ShowBooted(m)
  PROVE  Done(m)
<1>1. /\ Reads(m)
      /\ want[m].op \in InstanceOps
      /\ pc[m] = "show_booted"
      /\ \/ Finish(m, "created") \/ Finish(m, "create_failed")
         \/ UNCHANGED <<pc, want, report, local>>
  BY DEF ShowBooted, Round, BootTimedOut, RunInv, PhaseFacts
<1>2. CASE Finish(m, "created")
  <2>1. clean'[m] = clean[m]
    BY <1>1 DEF Reads
  <2>2. clean[m] \/ Agreement => ByName(want[m].name) # NoServer
    BY <1>1 DEF RunInv, TrueFacts
  <2>3. clean[m] \/ Agreement => Holds(want[m])
    BY <1>1, <2>2 DEF Holds, InstanceOps
  <2>. QED BY <1>1, <1>2, <2>1, <2>3, LastRead DEF SuccessReport
<1>3. CASE Finish(m, "create_failed")
  BY <1>1, <1>3, FailedRead DEF FailureReport
<1>4. CASE UNCHANGED <<pc, want, report, local>>
  BY <1>1, <1>4, WaitsRead
<1>. QED
  BY <1>1, <1>2, <1>3, <1>4

LEMMA GetServerCall ==
  ASSUME CloudInv, NEW m \in Minion, RunInv(m), GetServer(m)
  PROVE  Done(m)
<1>1. PICK server : server = ByName(want[m].name)
  OBVIOUS
<1>2. /\ ReadsFirst(m)
      /\ report[m] = NoReport /\ want[m].op \in ServerOps
      /\ \/ Finish(m, Exception)
         \/ GoesOn(m, "act", server, NoVolume)
  BY <1>1 DEF GetServer, RunInv, PhaseFacts
<1>3. CASE Finish(m, Exception)
  BY <1>2, <1>3, FailedRead DEF FailureReport
<1>4. CASE GoesOn(m, "act", server, NoVolume)
  <2>1. "act" \in Calls
    BY DEF Calls
  <2>2. server \in ServerId \cup {NoServer}
    BY <1>1, NamesKnown DEF CloudInv, TypeOK, RunTypeOK, NamesFacts
  <2>3. OwnTypes(m) /\ pc'[m] = "act" /\ report'[m] = report[m] /\ want' = want
    BY <1>4, <2>1, <2>2, GoesOnTypes DEF CloudInv, OwnTypes
  <2>4. PhaseFacts(m)' /\ TrueFacts(m)'
    BY <1>2, <2>3 DEF PhaseFacts, TrueFacts, Lookups, SuccessReport, NoReport, ServerOps
  <2>. QED BY <1>2, <2>1, <2>3, <2>4, GoesOnRead
<1>. QED
  BY <1>2, <1>3, <1>4

LEMMA GetByNameCall ==
  ASSUME CloudInv, NEW m \in Minion, RunInv(m), GetByName(m)
  PROVE  Done(m)
<1>1. PICK server, name : name = want[m].name /\ server = OnlyOne(name)
  OBVIOUS
<1>2. /\ ReadsFirst(m)
      /\ report[m] = NoReport /\ want[m].op \in SendOps
      /\ \/ Finish(m, Exception) \/ Finish(m, "update_failed")
         \/ server # NoServer /\ GoesOn(m, "act", server, NoVolume)
  BY <1>1 DEF GetByName, RunInv, PhaseFacts, SendOps
<1>3. CASE Finish(m, Exception) \/ Finish(m, "update_failed")
  BY <1>2, <1>3, FailedRead DEF FailureReport
<1>4. CASE server # NoServer /\ GoesOn(m, "act", server, NoVolume)
  <2>1. "act" \in Calls
    BY DEF Calls
  <2>2. NamesFacts
    BY NamesKnown DEF CloudInv, TypeOK, RunTypeOK
  <2>3. server \in ServerId \cup {NoServer}
    BY <1>1, <2>2 DEF NamesFacts, OnlyOne
  <2>4. /\ OwnTypes(m) /\ pc'[m] = "act" /\ report'[m] = report[m] /\ want' = want
        /\ held'[m] = server
    BY <1>4, <2>1, <2>3, GoesOnTypes DEF CloudInv, OwnTypes
  <2>5. \A k \in Named(name) : nova.servers[k].id = server
    BY <1>1, <1>4, <2>2 DEF NamesFacts, OnlyOne
  <2>6. nova' = nova
    BY <1>2 DEF ReadsFirst
  <2>7. \A k \in Named(name)' : nova'.servers[k].id = server
    BY <2>5, <2>6 DEF Named
  <2>8. PhaseFacts(m)'
    BY <1>2, <2>4 DEF PhaseFacts, Lookups
  <2>9. TrueFacts(m)'
    BY <1>1, <1>2, <2>4, <2>7 DEF TrueFacts, SuccessReport, NoReport
  <2>. QED BY <1>2, <2>1, <2>4, <2>8, <2>9, GoesOnRead
<1>. QED
  BY <1>2, <1>3, <1>4

LEMMA ShowVolumeCall ==
  ASSUME CloudInv, NEW m \in Minion, RunInv(m), ShowVolume(m)
  PROVE  Done(m)
<1>1. PICK server, vol : server = nova.volume.server /\ vol = nova.volume.id
  OBVIOUS
<1>2. /\ ReadsFirst(m)
      /\ report[m] = NoReport /\ want[m].op \in {"volume_delete", "attach", "detach"}
      /\ \/ Finish(m, Exception)
         \/ want[m].op = "detach" /\ ~Attached /\ Finish(m, "updated")
         \/ /\ nova.volume # NoVolume
            /\ \/ want[m].op = "attach" /\ GoesOn(m, "find", NoServer, vol)
               \/ want[m].op # "attach" /\ GoesOn(m, "request", server, vol)
  BY <1>1 DEF ShowVolume, RunInv, PhaseFacts
<1>3. CASE Finish(m, Exception)
  BY <1>2, <1>3, FailedRead DEF FailureReport
<1>4. CASE want[m].op = "detach" /\ ~Attached /\ Finish(m, "updated")
  <2>1. Holds(want[m])
    BY <1>4 DEF Holds, InstanceOps
  <2>. QED BY <1>2, <1>4, <2>1, LastRead DEF SuccessReport
<1>5. ASSUME nova.volume # NoVolume PROVE server \in ServerId \cup {NoServer} /\ vol \in VolumeId
  BY <1>1, <1>5, ResourceFields DEF CloudInv, Volume
<1>6. {"find", "request"} \subseteq Calls
  BY DEF Calls
<1>7. CASE /\ nova.volume # NoVolume
           /\ want[m].op = "attach" /\ GoesOn(m, "find", NoServer, vol)
  <2>1. OwnTypes(m) /\ pc'[m] = "find" /\ report'[m] = report[m] /\ want' = want
    BY <1>5, <1>6, <1>7, GoesOnTypes DEF CloudInv, OwnTypes
  <2>2. PhaseFacts(m)' /\ TrueFacts(m)'
    BY <1>2, <1>7, <2>1 DEF PhaseFacts, TrueFacts, Lookups, SuccessReport, NoReport
  <2>. QED BY <1>2, <1>6, <2>1, <2>2, GoesOnRead
<1>8. CASE /\ nova.volume # NoVolume
           /\ want[m].op # "attach" /\ GoesOn(m, "request", server, vol)
  <2>1. OwnTypes(m) /\ pc'[m] = "request" /\ report'[m] = report[m] /\ want' = want
    BY <1>5, <1>6, <1>8, GoesOnTypes DEF CloudInv, OwnTypes
  <2>2. PhaseFacts(m)' /\ TrueFacts(m)'
    BY <1>2, <1>8, <2>1 DEF PhaseFacts, TrueFacts, Lookups, SuccessReport, NoReport
  <2>. QED BY <1>2, <1>6, <2>1, <2>2, GoesOnRead
<1>. QED
  BY <1>2, <1>3, <1>4, <1>7, <1>8

LEMMA FindCall ==
  ASSUME CloudInv, NEW m \in Minion, RunInv(m), Find(m)
  PROVE  Done(m)
<1>1. PICK server, vol : server = ByName(want[m].name) /\ vol = volume[m]
  OBVIOUS
<1>2. /\ Reads(m) \/ ReadsFirst(m)
      /\ report[m] = NoReport /\ want[m].op \in {"attach", "associate", "disassociate"}
      /\ Finish(m, Exception) \/ GoesOn(m, "show", server, vol)
  BY <1>1 DEF Find, FindServer, RunInv, PhaseFacts
<1>3. CASE Finish(m, Exception)
  BY <1>2, <1>3, FailedRead DEF FailureReport
<1>4. CASE GoesOn(m, "show", server, vol)
  <2>1. "show" \in Calls
    BY DEF Calls
  <2>2. server \in ServerId \cup {NoServer} /\ vol \in VolumeId \cup {NoVolume}
    BY <1>1, NamesKnown DEF CloudInv, TypeOK, RunTypeOK, NamesFacts
  <2>3. /\ OwnTypes(m) /\ pc'[m] = "show" /\ report'[m] = report[m] /\ want' = want
        /\ held'[m] = server
    BY <1>4, <2>1, <2>2, GoesOnTypes DEF CloudInv, OwnTypes
  <2>4. \A name : ByName(name)' = ByName(name)
    BY <1>2, SameServers DEF Reads, ReadsFirst
  <2>5. PhaseFacts(m)' /\ TrueFacts(m)'
    BY <1>1, <1>2, <2>3, <2>4 DEF PhaseFacts, TrueFacts, Lookups, SuccessReport, NoReport
  <2>. QED BY <1>2, <2>1, <2>3, <2>5, GoesOnRead
<1>. QED
  BY <1>2, <1>3, <1>4

LEMMA ShowServerCall ==
  ASSUME CloudInv, NEW m \in Minion, RunInv(m), ShowServer(m)
  PROVE  Done(m)
<1>1. /\ Reads(m) /\ pc[m] = "show"
      /\ report[m] = NoReport /\ want[m].op \in {"attach", "associate", "disassociate"}
      /\ \/ Finish(m, Exception)
         \/ held[m] # NoServer /\ GoTo(m, "request") /\ UNCHANGED local
  BY DEF ShowServer, Shown, RunInv, PhaseFacts
<1>2. CASE Finish(m, Exception)
  BY <1>1, <1>2, FailedRead DEF FailureReport
<1>3. CASE held[m] # NoServer /\ GoTo(m, "request") /\ UNCHANGED local
  <2>1. "request" \in Calls
    BY DEF Calls
  <2>2. /\ OwnTypes(m) /\ pc'[m] = "request" /\ report'[m] = report[m] /\ want' = want
        /\ held'[m] = held[m]
    BY <1>3, <2>1, GoToTypes DEF CloudInv, OwnTypes
  <2>3. (\A name : ByName(name)' = ByName(name)) /\ clean' = clean /\ pillar' = pillar
    BY <1>1, SameServers DEF Reads
  <2>4. clean[m] \/ Agreement => held[m] = ByName(want[m].name)
    BY <1>1 DEF RunInv, TrueFacts
  <2>5. PhaseFacts(m)'
    BY <1>1, <2>2 DEF PhaseFacts, Lookups
  <2>6. clean'[m] \/ Agreement => TrueFacts(m)'
    BY <1>1, <1>3, <2>2, <2>3, <2>4 DEF TrueFacts, SuccessReport, NoReport
  <2>. QED BY <1>1, <2>1, <2>2, <2>5, <2>6, GoesOnRead
<1>. QED
  BY <1>1, <1>2, <1>3

LEMMA AwaitVolumeCall ==
  ASSUME CloudInv, NEW m \in Minion, RunInv(m), AwaitVolume(m)
  PROVE  Done(m)
<1>1. /\ Reads(m) /\ pc[m] = "await_volume" /\ want[m].op \in {"attach", "detach"}
      /\ \/ nova.volume # NoVolume /\ nova.volume.status = Target(m) /\ Finish(m, "updated")
         \/ Finish(m, "update_failed")
         \/ UNCHANGED <<pc, want, report, local>>
  BY DEF AwaitVolume, Round, IsVolume, RunInv, PhaseFacts
<1>2. CASE nova.volume # NoVolume /\ nova.volume.status = Target(m) /\ Finish(m, "updated")
  <2>1. clean'[m] = clean[m]
    BY <1>1 DEF Reads
  <2>2. clean[m] \/ Agreement => Holds(want[m])
    <3>1. CASE want[m].op = "attach"
      <4>1. nova.volume.status = "in-use"
        BY <1>2, <3>1 DEF Target
      <4>2. clean[m] \/ Agreement => nova.volume.server = ByName(want[m].name)
        BY <1>1, <1>2, <3>1, <4>1 DEF RunInv, TrueFacts
      <4>. QED BY <1>2, <3>1, <4>1, <4>2 DEF Holds, Attached, InstanceOps
    <3>2. CASE want[m].op = "detach"
      BY <1>2, <3>2 DEF Target, Holds, Attached, InstanceOps
    <3>. QED BY <1>1, <3>1, <3>2
  <2>. QED BY <1>1, <1>2, <2>1, <2>2, LastRead DEF SuccessReport
<1>3. CASE Finish(m, "update_failed")
  BY <1>1, <1>3, FailedRead DEF FailureReport
<1>4. CASE UNCHANGED <<pc, want, report, local>>
  BY <1>1, <1>4, WaitsRead
<1>. QED
  BY <1>1, <1>2, <1>3, <1>4

LEMMA GetVolumeCall ==
  ASSUME CloudInv, NEW m \in Minion, RunInv(m), GetVolume(m)
  PROVE  Done(m)
<1>1. /\ Reads(m) /\ want[m].op = "volume_create"
      /\ \/ Finish(m, Exception)
         \/ nova.volume # NoVolume /\ Finish(m, "updated")
  BY DEF GetVolume, IsVolume, RunInv, PhaseFacts
<1>2. CASE Finish(m, Exception)
  BY <1>1, <1>2, FailedRead DEF FailureReport
<1>3. CASE nova.volume # NoVolume /\ Finish(m, "updated")
  <2>1. Holds(want[m])
    BY <1>1, <1>3 DEF Holds, InstanceOps
  <2>. QED BY <1>1, <1>3, <2>1, LastRead DEF SuccessReport
<1>. QED
  BY <1>1, <1>2, <1>3

LEMMA ConfirmCall ==
  ASSUME CloudInv, NEW m \in Minion, RunInv(m), Confirm(m)
  PROVE  Done(m)
<1>1. /\ Reads(m) /\ pc[m] = "confirm" /\ want[m].op \in {"associate", "disassociate"}
      /\ Finish(m, Exception) \/ Finish(m, "updated")
  BY DEF Confirm, RunInv, PhaseFacts
<1>2. CASE Finish(m, Exception)
  BY <1>1, <1>2, FailedRead DEF FailureReport
<1>3. CASE Finish(m, "updated")
  <2>1. clean'[m] = clean[m]
    BY <1>1 DEF Reads
  <2>2. clean[m] \/ Agreement =>
          \/ want[m].op = "associate" /\ nova.ip = ByName(want[m].name)
          \/ want[m].op = "disassociate" /\ nova.ip # ByName(want[m].name)
    BY <1>1 DEF RunInv, TrueFacts
  <2>3. clean[m] \/ Agreement => Holds(want[m])
    BY <2>2 DEF Holds, InstanceOps
  <2>. QED BY <1>1, <1>3, <2>1, <2>3, LastRead DEF SuccessReport
<1>. QED
  BY <1>1, <1>2, <1>3

LEMMA ShowIpCall ==
  ASSUME CloudInv, NEW m \in Minion, RunInv(m), ShowIp(m)
  PROVE  Done(m)
<1>1. PICK call : call = IF nova.ip = NoIp THEN "request_none" ELSE "request"
  OBVIOUS
<1>2. /\ ReadsFirst(m)
      /\ report[m] = NoReport /\ want[m].op = "ip_delete"
      /\ \/ Finish(m, Exception)
         \/ GoTo(m, call) /\ UNCHANGED local
  BY <1>1 DEF ShowIp, RunInv, PhaseFacts
<1>3. CASE Finish(m, Exception)
  BY <1>2, <1>3, FailedRead DEF FailureReport
<1>4. CASE GoTo(m, call) /\ UNCHANGED local
  <2>1. call \in Calls
    BY <1>1 DEF Calls
  <2>2. OwnTypes(m) /\ pc'[m] = call /\ report'[m] = report[m] /\ want' = want
    BY <1>4, <2>1, GoToTypes DEF CloudInv, OwnTypes
  <2>3. PhaseFacts(m)' /\ TrueFacts(m)'
    BY <1>1, <1>2, <2>2 DEF PhaseFacts, TrueFacts, Lookups, SuccessReport, NoReport
  <2>. QED BY <1>2, <2>1, <2>2, <2>3, GoesOnRead
<1>. QED
  BY <1>2, <1>3, <1>4

-----------------------------------------------------------------------------
\* Every step keeps the invariant.
LEMMA InitInv == Init => IInv
<1> SUFFICES ASSUME Init PROVE IInv
  OBVIOUS
<1> USE DEF Init, CloudInit
<1>1. RunInit(Initial) /\ nova \in Initial /\ nova \in Resource
  BY CloudAssumption DEF RunInit
<1>2. TypeOK
  <2>1. RunTypeOK(Initial, Calls)
    <3>1. (CHOOSE r \in pillar : TRUE) \in pillar
      BY <1>1, PillarAssumption DEF RunInit
    <3>. QED BY <1>1, <3>1, FailedFacts DEF RunInit, RunTypeOK
  <2>2. RunTypeOK(Resource, Calls)
    BY <1>1, <2>1 DEF RunTypeOK
  <2>. QED BY <1>1, <2>2, LegacyAssumption DEF TypeOK
<1>3. UniqueIds
  BY <1>1, CloudAssumption DEF UniqueIds
<1>4. Settled
  BY <1>1, CloudAssumption DEF Settled
<1>5. ASSUME NEW n \in Minion PROVE RunInv(n)
  <2>1. pc[n] = "idle" /\ report[n] = NoReport
    BY DEF RunInit
  <2>. QED BY <2>1 DEF RunInv, PhaseFacts, TrueFacts, Lookups, SuccessReport, NoReport
<1>. QED
  BY <1>2, <1>3, <1>4, <1>5 DEF IInv, CloudInv

\* A run to which nothing happens, in a cloud that stays as it is.
LEMMA SameFacts ==
  ASSUME NEW n \in Minion, RunInv(n), nova' = nova, pillar' = pillar,
         pc'[n] = pc[n], report'[n] = report[n], want'[n] = want[n], held'[n] = held[n],
         clean'[n] => clean[n]
  PROVE  RunInv(n)'
<1>1. PhaseFacts(n)'
  BY DEF RunInv, PhaseFacts
<1>2. TrueFacts(n) => TrueFacts(n)'
  <2>1. \A name : ByName(name)' = ByName(name) /\ Named(name)' = Named(name)
    BY SameServers
  <2>2. Attached' <=> Attached
    BY DEF Attached
  <2>3. Achieved(n)' <=> Achieved(n)
    BY <2>1, <2>2 DEF Achieved, Holds
  <2>. QED BY <2>1, <2>3 DEF TrueFacts, Achieved
<1>3. Agreement' <=> Agreement
  BY DEF Agreement
<1>. QED
  BY <1>1, <1>2, <1>3 DEF RunInv

\* A run that is idle without a report, or at its first call.
LEMMA FreshFacts ==
  ASSUME NEW n \in Minion, pc'[n] \in {"idle", "list"}, report'[n] = NoReport
  PROVE  RunInv(n)'
<1>1. PhaseFacts(n)'
  BY DEF PhaseFacts, Lookups
<1>2. TrueFacts(n)'
  BY DEF TrueFacts, SuccessReport, NoReport
<1>. QED
  BY <1>1, <1>2 DEF RunInv

LEMMA CallDone ==
  ASSUME CloudInv, NEW m \in Minion, RunInv(m), Call(m)
  PROVE  Done(m)
<1>1. CASE InstanceCall(m)
  BY <1>1, ListServersCall, LookupCall, BootCall, ShowBootedCall, GetServerCall, ActCall,
     GetByNameCall, PostCall DEF InstanceCall
<1>2. CASE AttachmentCall(m)
  BY <1>2, ShowVolumeCall, FindCall, ShowServerCall, AttachCall, DetachCall, AwaitVolumeCall,
     CreateVolumeCall, GetVolumeCall, DeleteVolumeCall, AssociateCall, DisassociateCall,
     ConfirmCall, CreateIpCall, ShowIpCall, DeleteIpCall DEF AttachmentCall
<1>. QED
  BY <1>1, <1>2 DEF Call

LEMMA CallKeeps ==
  ASSUME IInv, NEW m \in Minion, Call(m)
  PROVE  IInv'
<1>1. Done(m) /\ CloudInv
  BY CallDone DEF IInv
<1>2. OwnTypes(m) /\ Frame(m) /\ Effect(m) /\ pillar' = pillar /\ want' = want
  BY <1>1 DEF Done, Frame, OwnTypes
<1>3. nova' \in Resource /\ Len(nova'.servers) <= MaxServers /\ UniqueIds' /\ Settled'
  BY <1>1, <1>2, EffectKeeps
<1>4. TypeOK'
  BY <1>1, <1>2, <1>3 DEF TypeOK, RunTypeOK, OwnTypes, Frame, CloudInv
<1>5. Agreement' <=> Agreement
  BY <1>2 DEF Agreement
<1>6. RunInv(m)'
  BY <1>1, <1>5 DEF Done, RunInv
<1>7. ASSUME NEW n \in Minion, n # m PROVE RunInv(n)'
  <2>1. RunInv(n) /\ pc'[n] = pc[n] /\ report'[n] = report[n] /\ held'[n] = held[n]
    BY <1>2, <1>7 DEF IInv, OwnTypes
  <2>2. clean'[n] => clean[n] /\ nova' = nova
    BY <1>2, <1>7 DEF Frame
  <2>3. CASE nova' = nova
    BY <1>2, <2>1, <2>2, <2>3, SameFacts
  <2>4. CASE nova' # nova
    <3>1. PhaseFacts(n)'
      BY <1>2, <2>1 DEF RunInv, PhaseFacts
    <3>2. Agreement => TrueFacts(n)'
      BY <1>2, <1>7, AgreementKept
    <3>. QED BY <1>5, <2>2, <2>4, <3>1, <3>2 DEF RunInv
  <2>. QED BY <2>3, <2>4
<1>. QED
  BY <1>3, <1>4, <1>6, <1>7 DEF IInv, CloudInv

\* What Cinder carries out is what the run that waits for it has asked for.
LEMMA CinderKeeps ==
  ASSUME IInv, Cinder
  PROVE  IInv'
<1>1. /\ nova.volume \in Volume /\ nova.volume # NoVolume
      /\ nova \in Resource /\ Len(nova.servers) <= MaxServers
  BY ResourceFields DEF Cinder, IInv, CloudInv, TypeOK, RunTypeOK
<1>2. PICK s \in {"in-use", "available", "error"} :
        /\ nova' = [nova EXCEPT !.volume =
                      [@ EXCEPT !.status = s,
                                !.server = IF s = "in-use" THEN nova.volume.server ELSE NoServer]]
        /\ nova.volume.status \in {"attaching", "detaching"}
  BY DEF Cinder
<1>3. /\ nova'.servers = nova.servers /\ nova'.ip = nova.ip /\ nova' \in Resource
      /\ nova'.volume \in Volume /\ nova'.volume.status = s
      /\ nova'.volume.server = (IF s = "in-use" THEN nova.volume.server ELSE NoServer)
  <2>1. PICK v : v = [nova.volume EXCEPT !.status = s,
                        !.server = IF s = "in-use" THEN nova.volume.server ELSE NoServer]
    OBVIOUS
  <2>2. /\ v \in Volume /\ v.status = s
        /\ v.server = (IF s = "in-use" THEN nova.volume.server ELSE NoServer)
    BY <1>1, <2>1 DEF Volume
  <2>3. nova' = [nova EXCEPT !.volume = v]
    BY <1>2, <2>1
  <2>. QED BY <1>1, <2>2, <2>3 DEF Resource
<1>4. /\ UNCHANGED <<pillar, stable, pc, want, report, touched, held, volume, late>>
      /\ clean' = [n \in Minion |-> clean[n] /\ n = nova.volume.by /\ pc[n] = "await_volume"]
  BY DEF Cinder, local
<1>5. CloudInv'
  <2>1. TypeOK'
    BY <1>1, <1>3, <1>4 DEF TypeOK, RunTypeOK, IInv, CloudInv
  <2>2. UniqueIds'
    BY <1>3 DEF UniqueIds, IInv, CloudInv
  <2>3. Settled'
    BY <1>3 DEF Settled
  <2>. QED BY <2>1, <2>2, <2>3 DEF CloudInv
<1>6. \A name : ByName(name)' = ByName(name) /\ Named(name)' = Named(name)
  BY <1>3, SameServers
<1>7. ASSUME NEW n \in Minion PROVE RunInv(n)'
  <2>1. PhaseFacts(n) /\ PhaseFacts(n)'
    BY <1>4 DEF IInv, RunInv, PhaseFacts
  <2>2. CASE clean'[n]
    <3>1. pc[n] = "await_volume" /\ report[n] = NoReport /\ TrueFacts(n)
      BY <1>4, <2>1, <2>2 DEF IInv, RunInv, PhaseFacts
    <3>2. want[n].op = "attach" => nova.volume.server = ByName(want[n].name)
      BY <1>1, <1>2, <3>1 DEF TrueFacts
    <3>3. TrueFacts(n)'
      BY <1>3, <1>4, <1>6, <3>1, <3>2 DEF TrueFacts, SuccessReport, NoReport
    <3>. QED BY <2>1, <3>3 DEF RunInv
  <2>3. CASE Agreement
    <3>1. TrueFacts(n)
      BY <2>3 DEF IInv, RunInv
    <3>2. /\ nova.volume.status = "attaching" => want[n].op = "attach"
          /\ nova.volume.status = "detaching" => want[n].op = "detach"
      BY <1>1, <2>3, WantType DEF IInv, CloudInv, Settled, Agreement
    <3>3. report[n] \notin SuccessReport
      <4>1. nova.volume.status = "attaching" => ~Attached
        BY <1>1 DEF Attached
      <4>2. nova.volume.status = "detaching" => Attached
        BY <1>1 DEF Attached
      <4>3. ~Holds(want[n])
        BY <1>2, <3>2, <4>1, <4>2 DEF Holds, InstanceOps
      <4>. QED BY <3>1, <4>3 DEF TrueFacts
    <3>4. pc[n] = "await_volume" /\ want[n].op = "attach" =>
            nova.volume.server = ByName(want[n].name)
      BY <1>1, <1>2, <3>1 DEF TrueFacts
    <3>5. PICK name : name = want[n].name
      OBVIOUS
    <3>6. pc[n] = "await_volume" /\ want[n].op = "attach" /\ nova'.volume # NoVolume =>
            nova'.volume.status \in {"available", "error"} \/ nova'.volume.server = ByName(name)'
      BY <1>2, <1>3, <1>6, <3>4, <3>5
    <3>7. pc[n] \notin {"show_booted", "confirm"}
      BY <1>2, <2>1, <3>2 DEF PhaseFacts, InstanceOps
    <3>8. TrueFacts(n)'
      BY <1>2, <1>3, <1>4, <1>6, <3>1, <3>2, <3>3, <3>5, <3>6, <3>7 DEF TrueFacts
    <3>. QED BY <2>1, <3>8 DEF RunInv
  <2>. QED BY <1>4, <2>1, <2>2, <2>3 DEF RunInv, Agreement
<1>. QED
  BY <1>5, <1>7 DEF IInv

LEMMA NextInv == IInv /\ [Next]_vars => IInv'
<1> SUFFICES ASSUME IInv, [Next]_vars PROVE IInv'
  OBVIOUS
<1>1. ASSUME NEW m \in Minion, Call(m) PROVE IInv'
  BY <1>1, CallKeeps
<1>2. CASE Cinder
  BY <1>2, CinderKeeps
<1>3. ASSUME nova' = nova, pillar' = pillar, TypeOK',
             \A n \in Minion :
               \/ pc'[n] \in {"idle", "list"} /\ report'[n] = NoReport
               \/ /\ pc'[n] = pc[n] /\ report'[n] = report[n] /\ want'[n] = want[n]
                  /\ held'[n] = held[n] /\ clean'[n] = clean[n]
      PROVE  IInv'
  <2>1. CloudInv'
    BY <1>3 DEF IInv, CloudInv, UniqueIds, Settled
  <2>2. ASSUME NEW n \in Minion PROVE RunInv(n)'
    BY <1>3, SameFacts, FreshFacts DEF IInv
  <2>. QED BY <2>1, <2>2 DEF IInv
<1>4. ASSUME NEW m \in Minion, Apply(m) PROVE IInv'
  <2>1. PICK request \in pillar : Begin(m, request) /\ UNCHANGED local
    BY <1>4 DEF Apply, ApplyOne
  <2>2. TypeOK'
    <3>1. RunTypeOK(Resource, Calls)'
      BY <2>1, CommonType DEF IInv, CloudInv, TypeOK, Calls
    <3>. QED BY <2>1, <3>1 DEF IInv, CloudInv, TypeOK, Begin, local
  <2>3. /\ UNCHANGED <<nova, pillar, clean, held>> /\ pc'[m] = "list" /\ report'[m] = NoReport
        /\ \A n \in Minion \ {m} :
             pc'[n] = pc[n] /\ report'[n] = report[n] /\ want'[n] = want[n]
    BY <2>1 DEF Begin, local, IInv, CloudInv, TypeOK, RunTypeOK
  <2>. QED BY <1>3, <2>2, <2>3
<1>5. ASSUME NEW m \in Minion, Tick(m) PROVE IInv'
  <2>1. UNCHANGED <<run, held, volume>> /\ late' = [late EXCEPT ![m] = TRUE]
    BY <1>5 DEF Tick
  <2>2. TypeOK'
    BY <2>1 DEF IInv, CloudInv, TypeOK, RunTypeOK, run
  <2>. QED BY <1>3, <2>1, <2>2 DEF run
<1>6. ASSUME NEW m \in Minion, Abort(m) PROVE IInv'
  <2>1. Kill(m) /\ Forget(m)
    BY <1>6 DEF Abort
  <2>2. TypeOK'
    <3>1. RunTypeOK(Resource, Calls)'
      BY <2>1, CommonType DEF IInv, CloudInv, TypeOK, Calls
    <3>. QED BY <2>1, <3>1 DEF IInv, CloudInv, TypeOK, Kill, Forget
  <2>3. /\ UNCHANGED <<nova, pillar, clean, want>> /\ pc'[m] = "idle" /\ report'[m] = NoReport
        /\ \A n \in Minion \ {m} :
             pc'[n] = pc[n] /\ report'[n] = report[n] /\ held'[n] = held[n]
    BY <2>1 DEF Kill, Return, Forget, IInv, CloudInv, TypeOK, RunTypeOK
  <2>. QED BY <1>3, <2>2, <2>3
<1>7. CASE Stabilize
  <2>1. UNCHANGED <<pillar, nova, pc, want, report, clean, touched, local>> /\ stable' = TRUE
    BY <1>7 DEF Stabilize, Settle
  <2>2. TypeOK'
    BY <2>1 DEF IInv, CloudInv, TypeOK, RunTypeOK, local
  <2>. QED BY <1>3, <2>1, <2>2 DEF local
<1>8. CASE UNCHANGED vars
  <2>1. UNCHANGED run /\ UNCHANGED local
    BY <1>8 DEF vars
  <2>2. TypeOK'
    BY <2>1 DEF IInv, CloudInv, TypeOK, RunTypeOK, run, local
  <2>. QED BY <1>3, <2>1, <2>2 DEF run, local
<1>. QED
  BY <1>1, <1>2, <1>4, <1>5, <1>6, <1>7, <1>8 DEF Next

\* Every variable keeps its type, the list of servers its quota; for any number of
\* minions, servers and names.
THEOREM TypeCorrect == Spec => []TypeOK
<1>1. IInv => TypeOK
  BY DEF IInv, CloudInv
<1>. QED
  BY <1>1, InitInv, NextInv, PTL DEF Spec

\* ReportIsTrue, for any number of minions, servers and names: every function that
\* returns without an exception or a timeout has done what it was asked to, if nobody
\* was in its way or all ask for the same.
THEOREM ReportsAreTrue == Spec => []ReportIsTrue
<1>1. IInv => ReportIsTrue
  BY DEF IInv, RunInv, TrueFacts, ReportIsTrue
<1>. QED
  BY <1>1, InitInv, NextInv, PTL DEF Spec

-----------------------------------------------------------------------------
\* The runs that have seen no server of the name and may still boot one.
Booting(name) == {m \in Minion : want[m].name = name /\ pc[m] \in Lookups \cup {"boot"}}

\* As soon as there is a server of the name nobody new sees none, and everybody who
\* saw none boots at most one.
InBounds(name) ==
  Named(name) = {} \/ Cardinality(Named(name)) + Cardinality(Booting(name)) <= Cardinality(Minion)

InstancesOnly == \A r \in pillar : r.op = "instance"

Bounded == InstancesOnly => \A name \in Name : InBounds(name)

LEMMA FewerBoot ==
  ASSUME NEW S, IsFiniteSet(S), NEW N, IsFiniteSet(N), NEW B, B \subseteq S,
         NEW C, C \subseteq B,
         N = {} \/ Cardinality(N) + Cardinality(B) <= Cardinality(S)
  PROVE  N = {} \/ Cardinality(N) + Cardinality(C) <= Cardinality(S)
<1>1. IsFiniteSet(B)
  BY FS_Subset
<1>2. Cardinality(C) <= Cardinality(B) /\ IsFiniteSet(C)
  BY <1>1, FS_Subset
<1>3. {Cardinality(S), Cardinality(N), Cardinality(B), Cardinality(C)} \subseteq Nat
  BY <1>1, <1>2, FS_CardinalityType
<1>. QED
  BY <1>2, <1>3

LEMMA OneBooted ==
  ASSUME NEW S, IsFiniteSet(S), NEW N, IsFiniteSet(N), NEW B, B \subseteq S,
         NEW m \in B, NEW C, C \subseteq B \ {m}, NEW x, x \notin N,
         N = {} \/ Cardinality(N) + Cardinality(B) <= Cardinality(S)
  PROVE  Cardinality(N \cup {x}) + Cardinality(C) <= Cardinality(S)
<1>1. IsFiniteSet(B) /\ Cardinality(B) <= Cardinality(S)
  BY FS_Subset
<1>2. IsFiniteSet(B \ {m}) /\ Cardinality(B \ {m}) = Cardinality(B) - 1
  BY <1>1, FS_RemoveElement
<1>3. Cardinality(C) <= Cardinality(B \ {m}) /\ IsFiniteSet(C)
  BY <1>2, FS_Subset
<1>4. Cardinality(N \cup {x}) = Cardinality(N) + 1
  BY FS_AddElement
<1>5. N = {} => Cardinality(N) = 0
  BY FS_EmptySet
<1>6. {Cardinality(S), Cardinality(N), Cardinality(B), Cardinality(C)} \subseteq Nat
  BY <1>1, <1>3, FS_CardinalityType
<1>. QED
  BY <1>1, <1>2, <1>3, <1>4, <1>5, <1>6

LEMMA NamedFinite ==
  ASSUME TypeOK, NEW name
  PROVE  IsFiniteSet(Named(name)) /\ Len(nova.servers) + 1 \notin Named(name)
<1>1. Named(name) \subseteq 1..Len(nova.servers) /\ Len(nova.servers) \in Nat
  BY ResourceFields DEF Named
<1>2. IsFiniteSet(1..Len(nova.servers))
  BY <1>1, FS_Interval
<1>3. IsFiniteSet(Named(name))
  BY <1>1, <1>2, FS_Subset
<1>. QED
  BY <1>1, <1>3

\* Nothing is booted, and whoever saw none saw it before.
LEMMA BoundsKept ==
  ASSUME TypeOK, NEW name, InBounds(name), Named(name)' = Named(name),
         Named(name) = {} \/ Booting(name)' \subseteq Booting(name)
  PROVE  InBounds(name)'
<1>1. CASE Named(name) = {}
  BY <1>1 DEF InBounds
<1>2. CASE Booting(name)' \subseteq Booting(name)
  <2>1. PICK N, B, C : N = Named(name) /\ B = Booting(name) /\ C = Booting(name)'
    OBVIOUS
  <2>2. B \subseteq Minion /\ IsFiniteSet(Minion) /\ IsFiniteSet(N)
    BY <2>1, LegacyAssumption, NamedFinite DEF Booting
  <2>3. N = {} \/ Cardinality(N) + Cardinality(B) <= Cardinality(Minion)
    BY <2>1 DEF InBounds
  <2>4. N = {} \/ Cardinality(N) + Cardinality(C) <= Cardinality(Minion)
    BY <1>2, <2>1, <2>2, <2>3, FewerBoot
  <2>. QED BY <2>1, <2>4 DEF InBounds
<1>. QED
  BY <1>1, <1>2

\* The runs that may boot, after a step of one run.
LEMMA BootingFrame ==
  ASSUME NEW m \in Minion,
         \A n \in Minion \ {m} : pc'[n] = pc[n] /\ want'[n] = want[n],
         NEW name
  PROVE  /\ pc'[m] \notin Lookups \cup {"boot"} => Booting(name)' \subseteq Booting(name) \ {m}
         /\ want'[m] = want[m] /\ pc[m] \in Lookups \cup {"boot"}
              => Booting(name)' \subseteq Booting(name)
         /\ want'[m] = want[m] /\ want[m].name # name => Booting(name)' \subseteq Booting(name)
BY DEF Booting

LEMMA BootBounds ==
  ASSUME IInv, NEW m \in Minion, Boot(m), want[m].op = "instance", NEW name, InBounds(name)
  PROVE  InBounds(name)'
<1>1. CloudInv /\ RunInv(m) /\ TypeOK /\ nova \in Resource
  BY DEF IInv, CloudInv, TypeOK, RunTypeOK
<1>2. Done(m) /\ OwnTypes(m) /\ (nova' = nova \/ Adds(m))
  <2>1. Done(m)
    BY <1>1, BootCall
  <2>2. Effect(m) => nova' = nova \/ Adds(m)
    BY DEF Effect, Removes, Attaches, Detaches, ChangesVolume, ChangesIp
  <2>. QED BY <2>1, <2>2 DEF Done
<1>3. pc[m] = "boot"
  BY DEF Boot, InstanceOps
<1>4. pc'[m] \notin Lookups \cup {"boot"}
  <2>1. pc' = [pc EXCEPT ![m] = "idle"] \/ pc' = [pc EXCEPT ![m] = "show_booted"]
    BY DEF Boot, Requests, Finish, Return, GoesOn, GoTo
  <2>. QED BY <1>1, <2>1 DEF TypeOK, RunTypeOK, Lookups
<1>5. want' = want /\ \A n \in Minion \ {m} : pc'[n] = pc[n] /\ want'[n] = want[n]
  BY <1>2 DEF OwnTypes
<1>6. Booting(name)' \subseteq Booting(name) \ {m}
  BY <1>4, <1>5, BootingFrame
<1>7. CASE Named(name)' = Named(name)
  BY <1>1, <1>6, <1>7, BoundsKept
<1>8. CASE Named(name)' # Named(name)
  <2>1. Adds(m)
    BY <1>2, <1>8 DEF Named
  <2>2. PICK id \in ServerId :
          /\ ~Exists(id)
          /\ nova' = [nova EXCEPT !.servers = Append(@, [id |-> id, name |-> want[m].name])]
    BY <2>1 DEF Adds
  <2>3. PICK server : server = [id |-> id, name |-> want[m].name]
    OBVIOUS
  <2>4. server \in Server /\ server.id = id /\ server.name = want[m].name
    BY <1>1, <2>3, WantType DEF Server
  <2>5. nova'.servers = Append(nova.servers, server)
    BY <1>1, <2>2, <2>3 DEF Resource
  <2>6. Named(name)' = Named(name) \cup
                         (IF server.name = name THEN {Len(nova.servers) + 1} ELSE {})
    BY <1>1, <2>2, <2>4, <2>5, ServerAdded DEF CloudInv
  <2>7. PICK N, B, C, x : /\ N = Named(name) /\ B = Booting(name) /\ C = Booting(name)'
                          /\ x = Len(nova.servers) + 1
    OBVIOUS
  <2>8. want[m].name = name /\ m \in B /\ Named(name)' = N \cup {x}
    BY <1>3, <1>8, <2>4, <2>6, <2>7 DEF Booting
  <2>9. /\ B \subseteq Minion /\ IsFiniteSet(Minion) /\ IsFiniteSet(N) /\ x \notin N
        /\ C \subseteq B \ {m}
    BY <1>1, <1>6, <2>7, LegacyAssumption, NamedFinite DEF Booting
  <2>10. N = {} \/ Cardinality(N) + Cardinality(B) <= Cardinality(Minion)
    BY <2>7 DEF InBounds
  <2>11. Cardinality(N \cup {x}) + Cardinality(C) <= Cardinality(Minion)
    BY <2>8, <2>9, <2>10, OneBooted
  <2>. QED BY <2>7, <2>8, <2>11 DEF InBounds
<1>. QED
  BY <1>7, <1>8

LEMMA CallBounds ==
  ASSUME IInv, NEW m \in Minion, Call(m), InstancesOnly, NEW name, InBounds(name)
  PROVE  InBounds(name)'
<1>1. CloudInv /\ RunInv(m) /\ TypeOK /\ want[m].op = "instance"
  BY WantType DEF IInv, CloudInv, InstancesOnly
<1>2. ListServers(m) \/ Lookup(m) \/ Boot(m) \/ ShowBooted(m)
  BY <1>1 DEF Call, InstanceCall, AttachmentCall, GetServer, Act, GetByName, Post, ShowVolume, Find,
     ShowServer, Attach, Detach, AwaitVolume, CreateVolume, GetVolume, DeleteVolume, Associate,
     Disassociate, Confirm, CreateIp, ShowIp, DeleteIp, RunInv, PhaseFacts, ServerOps, SendOps
<1>3. want' = want /\ \A n \in Minion \ {m} : pc'[n] = pc[n] /\ want'[n] = want[n]
  BY <1>1, CallDone DEF Done, OwnTypes
<1>4. CASE Boot(m)
  BY <1>1, <1>4, BootBounds
<1>5. CASE ListServers(m) \/ Lookup(m) \/ ShowBooted(m)
  <2>1. Named(name)' = Named(name)
    BY <1>5 DEF ListServers, Lookup, ShowBooted, Reads, ReadsFirst, Named
  <2>2. CASE Lookup(m)
    BY <1>1, <1>3, <2>1, <2>2, BootingFrame, BoundsKept DEF Lookup
  <2>3. CASE pc'[m] \notin Lookups \cup {"boot"} \/ want[m].name # name
    BY <1>1, <1>3, <2>1, <2>3, BootingFrame, BoundsKept
  <2>4. CASE ListServers(m) /\ want[m].name = name
    <3>1. \/ ByName(name) = NoServer
          \/ pc' = [pc EXCEPT ![m] = "idle"]
      BY <2>4 DEF ListServers, Known, Finish, Return
    <3>2. CASE ByName(name) = NoServer
      <4>1. Named(name) = {}
        BY <1>1, <3>2, NamesKnown DEF NamesFacts, TypeOK, RunTypeOK
      <4>. QED BY <1>1, <2>1, <4>1, BoundsKept
    <3>3. CASE pc' = [pc EXCEPT ![m] = "idle"]
      <4>1. pc'[m] \notin Lookups \cup {"boot"}
        BY <1>1, <3>3 DEF TypeOK, RunTypeOK, Lookups
      <4>. QED BY <2>3, <4>1
    <3>. QED BY <3>1, <3>2, <3>3
  <2>5. CASE ShowBooted(m)
    <3>1. pc[m] = "show_booted" /\ (pc' = pc \/ pc' = [pc EXCEPT ![m] = "idle"])
      BY <2>5 DEF ShowBooted, Round, Finish, Return
    <3>2. pc'[m] \notin Lookups \cup {"boot"}
      BY <1>1, <3>1 DEF TypeOK, RunTypeOK, Lookups
    <3>. QED BY <2>3, <3>2
  <2>. QED BY <1>5, <2>2, <2>3, <2>4, <2>5
<1>. QED
  BY <1>2, <1>4, <1>5

LEMMA InitBounds == Init => Bounded
<1> SUFFICES ASSUME Init, NEW name \in Name PROVE InBounds(name)
  BY DEF Bounded
<1>1. nova \in Initial /\ Booting(name) = {}
  BY DEF Init, CloudInit, RunInit, Booting, Lookups
<1>2. Cardinality(Named(name)) <= Cardinality(Minion)
  BY <1>1, LegacyAssumption DEF Named
<1>3. Cardinality(Booting(name)) = 0
  BY <1>1, FS_EmptySet
<1>4. Cardinality(Named(name)) \in Nat
  BY InitInv, NamedFinite, FS_CardinalityType DEF IInv, CloudInv
<1>. QED
  BY <1>2, <1>3, <1>4 DEF InBounds

LEMMA NextBounds == IInv /\ Bounded /\ [Next]_vars => Bounded'
<1> SUFFICES ASSUME IInv, Bounded, [Next]_vars, InstancesOnly', NEW name \in Name
             PROVE  InBounds(name)'
  BY DEF Bounded
<1>1. pillar' = pillar
  <2>1. ASSUME NEW m \in Minion, Call(m) PROVE pillar' = pillar
    BY <2>1, CallDone DEF IInv, Done, Frame
  <2>. QED BY <2>1 DEF Next, Apply, ApplyOne, Begin, Tick, Abort, Kill, Cinder, Stabilize, Settle, vars, run
<1>2. InstancesOnly /\ InBounds(name) /\ TypeOK
  BY <1>1 DEF InstancesOnly, Bounded, IInv, CloudInv
<1>3. ASSUME NEW m \in Minion, Call(m) PROVE InBounds(name)'
  BY <1>2, <1>3, CallBounds
<1>4. ASSUME Named(name)' = Named(name), Booting(name)' \subseteq Booting(name)
      PROVE  InBounds(name)'
  BY <1>2, <1>4, BoundsKept
<1>5. ASSUME NEW m \in Minion, Apply(m) \/ Abort(m) PROVE InBounds(name)'
  <2>1. nova' = nova /\ pc'[m] \in {"idle", "list"}
    BY <1>2, <1>5 DEF Apply, ApplyOne, Begin, Abort, Kill, Return, TypeOK, RunTypeOK
  <2>2. \A n \in Minion \ {m} : pc'[n] = pc[n] /\ want'[n] = want[n]
    BY <1>2, <1>5 DEF Apply, ApplyOne, Begin, Abort, Kill, Return, TypeOK, RunTypeOK
  <2>3. Booting(name)' \subseteq Booting(name)
    BY <2>1, <2>2, BootingFrame DEF Lookups
  <2>. QED BY <1>4, <2>1, <2>3 DEF Named
<1>6. CASE Cinder \/ Stabilize \/ (\E m \in Minion : Tick(m)) \/ UNCHANGED vars
  <2>1. UNCHANGED <<pc, want>> /\ nova'.servers = nova.servers
    BY <1>2, <1>6, ResourceFields
       DEF Cinder, Stabilize, Settle, Tick, vars, run, TypeOK, RunTypeOK, Resource
  <2>. QED BY <1>4, <2>1, SameServers DEF Booting
<1>. QED
  BY <1>3, <1>5, <1>6 DEF Next

\* OneInstancePerMinion, for any number of minions, servers and names: each of several
\* minions boots at most one server of a name.
THEOREM NotMoreInstances == Spec => []OneInstancePerMinion
<1>1. IInv /\ Bounded => OneInstancePerMinion
  <2> SUFFICES ASSUME IInv, Bounded, InstancesOnly, NEW name \in Name
               PROVE  Cardinality(Named(name)) <= Cardinality(Minion)
    BY DEF OneInstancePerMinion, InstancesOnly
  <2>1. InBounds(name) /\ IsFiniteSet(Named(name)) /\ IsFiniteSet(Minion)
    BY NamedFinite, LegacyAssumption DEF Bounded, IInv, CloudInv
  <2>2. IsFiniteSet(Booting(name))
    BY <2>1, FS_Subset DEF Booting
  <2>3. /\ Cardinality(Named(name)) \in Nat /\ Cardinality(Booting(name)) \in Nat
        /\ Cardinality(Minion) \in Nat
    BY <2>1, <2>2, FS_CardinalityType
  <2>4. Named(name) = {} => Cardinality(Named(name)) = 0
    BY FS_EmptySet
  <2>. QED BY <2>1, <2>3, <2>4 DEF InBounds
<1>. QED
  BY <1>1, InitInv, NextInv, InitBounds, NextBounds, PTL DEF Spec

=============================================================================

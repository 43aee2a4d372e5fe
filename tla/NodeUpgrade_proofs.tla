------------------------- MODULE NodeUpgrade_proofs -------------------------
(***************************************************************************)
(* Proofs about NodeUpgrade for any cloud: any number of nodes and of      *)
(* disturbances, any assignment of roles with one primary controller, and  *)
(* any number of rounds of wait_for_services.                              *)
(***************************************************************************)
EXTENDS NodeUpgrade, TLAPS

\* The states that the phase of node n consists of.
Steps(n) == {StatesOf(n)[i] : i \in DOMAIN StatesOf(n)}

\* Salt is at a state of the phase, or at none, and then none has failed.
PlaceFacts(n) ==
  /\ step[n] = "idle" \/ step[n] \in Steps(n)
  /\ step[n] = "idle" => failed[n] = {}
  /\ role[n] = "other" => phase[n] = 7

\* Before the upgrade the packages are the old ones; the primary controller is through
\* with "pre" only after the online migrations.
PreFacts(n) ==
  /\ phase[n] < 3 => n \notin upgraded
  /\ role[n] = "primary" =>
       \/ phase[n] = 1 /\ (failed[n] = {} => step[n] \in {"idle", "online"})
       \/ "online" \in schema

\* What the states before the one at hand have brought about, or the failures tell.
UpgradeFacts(n) ==
  phase[n] = 3 =>
    /\ role[n] = "compute" => status[n] = "disabled"
    /\ running[n] => step[n] \in {"idle", "stop"} \/ "stop" \in failed[n]
    /\ step[n] = "packages" => n \in policy \/ "policy" \in failed[n]
    /\ failed[n] = {} =>
         /\ step[n] \notin {"idle", "stop", "policy", "packages", "unpolicy"} => n \notin policy
         /\ step[n] \in {"apidb", "cells", "syncdb", "start"} => n \in rendered
    /\ failed[n] \cap Migrating = {} =>
         /\ step[n] \notin {"idle", "stop", "policy", "packages"} => n \in upgraded
         /\ role[n] = "primary" =>
              /\ step[n] \in {"cells", "syncdb", "start"} => "apidb" \in schema
              /\ step[n] \in {"syncdb", "start"} => "cells" \in schema
              /\ step[n] = "start" => "syncdb" \in schema

\* What the phases that are over have brought about, and later ones leave alone.
PastFacts(n) ==
  role[n] # "other" /\ phase[n] > 3 =>
    /\ n \in upgraded \cap rendered /\ n \notin policy
    /\ running[n]
    /\ role[n] = "primary" => {"apidb", "cells", "syncdb"} \subseteq schema
    /\ phase[n] > 4 => status[n] = "enabled"
    /\ phase[n] > 5 => heard[n]

ControllerFacts(n) == role[n] \in {"primary", "secondary"} => status[n] = "enabled"

NodeFacts(n) ==
  PlaceFacts(n) /\ PreFacts(n) /\ UpgradeFacts(n) /\ PastFacts(n) /\ ControllerFacts(n)

\* The node is not waiting for the others to be through with "pre".
Begun(n) == role[n] # "other" /\ (phase[n] > 2 \/ (phase[n] = 2 /\ step[n] # "idle"))

PreOver == (\E n \in Node : Begun(n)) => \A m \in Node : phase[m] > 1

IInv == TypeOK /\ (\A n \in Node : NodeFacts(n)) /\ PreOver

-----------------------------------------------------------------------------
(***************************************************************************)
(* The phases and their states.                                            *)
(***************************************************************************)

LEMMA PhaseTable ==
  ASSUME TypeOK, NEW n \in Node
  PROVE  /\ Len(Phase) = 7
         /\ phase[n] \in 1..7
         /\ PhaseOf(n) = "pre" <=> phase[n] = 1
         /\ PhaseOf(n) = "post" <=> phase[n] = 6
         /\ PhaseOf(n) = "done" <=> phase[n] = 7
         /\ StatesOf(n) =
              IF phase[n] = 1
              THEN IF role[n] = "compute" THEN <<"config", "clouds">>
                                          ELSE <<"online", "config", "check", "clouds">>
              ELSE IF phase[n] = 2 THEN IF role[n] = "compute" THEN <<"disable">> ELSE <<>>
              ELSE IF phase[n] = 3 THEN Upgrade
              ELSE IF phase[n] = 4 THEN IF role[n] = "compute" THEN <<"enable">> ELSE <<>>
              ELSE IF phase[n] = 5 THEN <<"api", "wait">>
              ELSE IF phase[n] = 6
              THEN IF role[n] = "compute" THEN <<"unclouds">> ELSE <<"check", "unclouds">>
              ELSE <<>>
<1>1. Len(Phase) = 7
  BY DEF Phase
<1>2. phase[n] \in 1..7
  BY <1>1 DEF TypeOK
<1>3. PhaseOf(n) = IF phase[n] = 1 THEN "pre" ELSE IF phase[n] = 2 THEN "upgrade.pre"
                   ELSE IF phase[n] = 3 THEN "upgrade" ELSE IF phase[n] = 4 THEN "upgrade.post"
                   ELSE IF phase[n] = 5 THEN "verify" ELSE IF phase[n] = 6 THEN "post"
                   ELSE "done"
  BY <1>2 DEF PhaseOf, Phase
<1>. QED
  BY <1>1, <1>2, <1>3 DEF StatesOf, States

\* After depends on the place of a state only.
LEMMA AfterIs ==
  ASSUME NEW n, NEW i \in DOMAIN StatesOf(n),
         \A j \in DOMAIN StatesOf(n) : StatesOf(n)[j] = StatesOf(n)[i] => j = i
  PROVE  After(n, StatesOf(n)[i]) =
           IF i = Len(StatesOf(n)) THEN "idle" ELSE StatesOf(n)[i + 1]
<1>1. (CHOOSE j \in DOMAIN StatesOf(n) : StatesOf(n)[j] = StatesOf(n)[i]) = i
  OBVIOUS
<1>. QED
  BY <1>1 DEF After

LEMMA AfterUpgrade ==
  ASSUME NEW n, StatesOf(n) = Upgrade
  PROVE  /\ After(n, "stop") = "policy"
         /\ After(n, "policy") = "packages"
         /\ After(n, "packages") = "unpolicy"
         /\ After(n, "unpolicy") = "config"
         /\ After(n, "config") = "apidb"
         /\ After(n, "apidb") = "cells"
         /\ After(n, "cells") = "syncdb"
         /\ After(n, "syncdb") = "start"
         /\ After(n, "start") = "idle"
         /\ Steps(n) = {"stop", "policy", "packages", "unpolicy", "config", "apidb", "cells",
                        "syncdb", "start"}
<1>. DEFINE q == Upgrade
<1>1. /\ q[1] = "stop" /\ q[2] = "policy" /\ q[3] = "packages" /\ q[4] = "unpolicy"
      /\ q[5] = "config" /\ q[6] = "apidb" /\ q[7] = "cells" /\ q[8] = "syncdb"
      /\ q[9] = "start"
      /\ Len(q) = 9 /\ DOMAIN q = 1..9
  BY DEF Upgrade
<1>2. \A i \in 1..9 : i = 1 \/ i = 2 \/ i = 3 \/ i = 4 \/ i = 5 \/ i = 6 \/ i = 7 \/ i = 8 \/ i = 9
  OBVIOUS
<1>. HIDE DEF q
<1>3. \A i, j \in 1..9 : q[i] = q[j] => i = j
  BY <1>1, <1>2
<1>4. StatesOf(n) = q
  BY DEF q
<1>5. \A i \in 1..9 : After(n, q[i]) = IF i = 9 THEN "idle" ELSE q[i + 1]
  <2>1. DOMAIN StatesOf(n) = 1..9 /\ Len(StatesOf(n)) = 9
    BY <1>1, <1>4
  <2>2. \A i, j \in DOMAIN StatesOf(n) : StatesOf(n)[j] = StatesOf(n)[i] => j = i
    BY <1>3, <1>4, <2>1
  <2>3. \A i \in DOMAIN StatesOf(n) :
          After(n, StatesOf(n)[i]) = IF i = Len(StatesOf(n)) THEN "idle" ELSE StatesOf(n)[i + 1]
    BY <2>2, AfterIs
  <2>. QED BY <1>4, <2>1, <2>3
<1>6. /\ After(n, q[1]) = q[2] /\ After(n, q[2]) = q[3] /\ After(n, q[3]) = q[4]
      /\ After(n, q[4]) = q[5] /\ After(n, q[5]) = q[6] /\ After(n, q[6]) = q[7]
      /\ After(n, q[7]) = q[8] /\ After(n, q[8]) = q[9] /\ After(n, q[9]) = "idle"
  BY <1>5
<1>7. Steps(n) = {q[i] : i \in 1..9}
  BY <1>1, <1>4 DEF Steps
<1>8. Steps(n) = {q[1], q[2], q[3], q[4], q[5], q[6], q[7], q[8], q[9]}
  BY <1>2, <1>7
<1>. QED
  BY <1>1, <1>6, <1>8

LEMMA AfterNone == ASSUME NEW n, StatesOf(n) = <<>> PROVE Steps(n) = {}
BY DEF Steps

LEMMA AfterOne ==
  ASSUME NEW n, NEW a, StatesOf(n) = <<a>>
  PROVE  After(n, a) = "idle" /\ Steps(n) = {a}
<1>1. DOMAIN StatesOf(n) = {1} /\ StatesOf(n)[1] = a /\ Len(StatesOf(n)) = 1
  OBVIOUS
<1>2. After(n, StatesOf(n)[1]) = "idle"
  BY <1>1, AfterIs
<1>. QED
  BY <1>1, <1>2 DEF Steps

LEMMA AfterTwo ==
  ASSUME NEW n, NEW a, NEW b, a # b, StatesOf(n) = <<a, b>>
  PROVE  After(n, a) = b /\ After(n, b) = "idle" /\ Steps(n) = {a, b}
<1>1. /\ DOMAIN StatesOf(n) = {1, 2} /\ Len(StatesOf(n)) = 2
      /\ StatesOf(n)[1] = a /\ StatesOf(n)[2] = b
  OBVIOUS
<1>2. \A i \in DOMAIN StatesOf(n) :
        After(n, StatesOf(n)[i]) = IF i = Len(StatesOf(n)) THEN "idle" ELSE StatesOf(n)[i + 1]
  BY <1>1, AfterIs
<1>3. After(n, StatesOf(n)[1]) = b /\ After(n, StatesOf(n)[2]) = "idle"
  BY <1>1, <1>2
<1>. QED
  BY <1>1, <1>3 DEF Steps

LEMMA AfterFour ==
  ASSUME NEW n, StatesOf(n) = <<"online", "config", "check", "clouds">>
  PROVE  /\ After(n, "online") = "config" /\ After(n, "config") = "check"
         /\ After(n, "check") = "clouds" /\ After(n, "clouds") = "idle"
         /\ Steps(n) = {"online", "config", "check", "clouds"}
<1>1. /\ DOMAIN StatesOf(n) = {1, 2, 3, 4} /\ Len(StatesOf(n)) = 4
      /\ StatesOf(n)[1] = "online" /\ StatesOf(n)[2] = "config"
      /\ StatesOf(n)[3] = "check" /\ StatesOf(n)[4] = "clouds"
  OBVIOUS
<1>2. \A i, j \in DOMAIN StatesOf(n) : StatesOf(n)[j] = StatesOf(n)[i] => j = i
  BY <1>1
<1>3. \A i \in DOMAIN StatesOf(n) :
        After(n, StatesOf(n)[i]) = IF i = Len(StatesOf(n)) THEN "idle" ELSE StatesOf(n)[i + 1]
  BY <1>2, AfterIs
<1>4. /\ After(n, StatesOf(n)[1]) = "config" /\ After(n, StatesOf(n)[2]) = "check"
      /\ After(n, StatesOf(n)[3]) = "clouds" /\ After(n, StatesOf(n)[4]) = "idle"
  BY <1>1, <1>3
<1>5. Steps(n) = {StatesOf(n)[1], StatesOf(n)[2], StatesOf(n)[3], StatesOf(n)[4]}
  BY <1>1 DEF Steps
<1>. QED
  BY <1>1, <1>4, <1>5

\* The states of each phase, and the one that follows each of them.
LEMMA StateTable ==
  ASSUME TypeOK, NEW n \in Node
  PROVE  /\ phase[n] = 1 /\ role[n] = "compute" =>
              /\ Steps(n) = {"config", "clouds"}
              /\ After(n, "config") = "clouds" /\ After(n, "clouds") = "idle"
         /\ phase[n] = 1 /\ role[n] # "compute" =>
              /\ Steps(n) = {"online", "config", "check", "clouds"}
              /\ After(n, "online") = "config" /\ After(n, "config") = "check"
              /\ After(n, "check") = "clouds" /\ After(n, "clouds") = "idle"
         /\ phase[n] = 2 =>
              /\ Steps(n) = IF role[n] = "compute" THEN {"disable"} ELSE {}
              /\ role[n] = "compute" => After(n, "disable") = "idle"
         /\ phase[n] = 3 => StatesOf(n) = Upgrade
         /\ phase[n] = 4 =>
              /\ Steps(n) = IF role[n] = "compute" THEN {"enable"} ELSE {}
              /\ role[n] = "compute" => After(n, "enable") = "idle"
         /\ phase[n] = 5 =>
              /\ Steps(n) = {"api", "wait"}
              /\ After(n, "api") = "wait" /\ After(n, "wait") = "idle"
         /\ phase[n] = 6 =>
              /\ Steps(n) = IF role[n] = "compute" THEN {"unclouds"} ELSE {"check", "unclouds"}
              /\ role[n] # "compute" => After(n, "check") = "unclouds"
              /\ After(n, "unclouds") = "idle"
         /\ phase[n] = 7 => Steps(n) = {}
<1>1. CASE phase[n] = 1
  BY <1>1, PhaseTable, AfterTwo, AfterFour
<1>2. CASE phase[n] = 2
  BY <1>2, PhaseTable, AfterOne, AfterNone
<1>3. CASE phase[n] = 3
  BY <1>3, PhaseTable
<1>4. CASE phase[n] = 4
  BY <1>4, PhaseTable, AfterOne, AfterNone
<1>5. CASE phase[n] = 5
  BY <1>5, PhaseTable, AfterTwo
<1>6. CASE phase[n] = 6
  BY <1>6, PhaseTable, AfterOne, AfterTwo
<1>7. CASE phase[n] = 7
  BY <1>7, PhaseTable, AfterNone
<1>. QED
  BY <1>1, <1>2, <1>3, <1>4, <1>5, <1>6, <1>7, PhaseTable

-----------------------------------------------------------------------------
(***************************************************************************)
(* A state of node n that Salt is through with.                            *)
(***************************************************************************)

\* The places that Salt goes to after the state at hand, which succeeded or not.
Advances(n, ok) ==
  LET next == After(n, step[n])
  IN  \/ /\ next # "idle"
         /\ step'[n] = next /\ phase'[n] = phase[n]
         /\ failed'[n] = IF ok THEN failed[n] ELSE failed[n] \cup {step[n]}
      \/ /\ next = "idle" /\ ok /\ failed[n] = {}
         /\ step'[n] = "idle" /\ phase'[n] = phase[n] + 1 /\ failed'[n] = {}
      \/ /\ next = "idle" /\ (~ok \/ failed[n] # {})
         /\ step'[n] = "idle" /\ phase'[n] = phase[n] /\ failed'[n] = {}

\* What it leaves of the other nodes.
OthersKept(n) ==
  \A m \in Node \ {n} :
    /\ phase'[m] = phase[m] /\ step'[m] = step[m] /\ failed'[m] = failed[m]
    /\ running'[m] = running[m] /\ status'[m] = status[m]
    /\ m \in policy' <=> m \in policy
    /\ m \in upgraded' <=> m \in upgraded
    /\ m \in rendered' <=> m \in rendered

\* What it does on this one if it succeeds, and otherwise may have done.
Effects(n, ok) ==
  LET s == step[n]
  IN  /\ role' = role /\ heard' = heard
      /\ schema \subseteq schema'
      /\ s \notin {"online", "apidb", "cells", "syncdb"} => schema' = schema
      /\ n \in upgraded => n \in upgraded'
      /\ s # "packages" => (n \in upgraded' <=> n \in upgraded)
      /\ n \in rendered => n \in rendered'
      /\ s \notin {"policy", "unpolicy"} => (n \in policy' <=> n \in policy)
      /\ s \notin {"disable", "enable"} => status'[n] = status[n]
      /\ running[n] /\ ~running'[n] => s = "stop"
      /\ ~running[n] /\ running'[n] =>
           s = "start" \/ (s = "packages" /\ "policy" \notin failed[n] /\ n \notin policy)
      /\ ok =>
           /\ s = "stop" => ~running'[n]
           /\ s = "start" => running'[n]
           /\ s = "policy" => n \in policy'
           /\ s = "packages" => n \in upgraded'
           /\ s = "unpolicy" => n \notin policy'
           /\ s = "config" => n \in rendered'
           /\ s = "disable" => status'[n] = "disabled"
           /\ s = "enable" => status'[n] = "enabled"
           /\ s = "wait" => heard[n]
           /\ role[n] = "primary" =>
                /\ s = "online" /\ n \notin upgraded => "online" \in schema'
                /\ s = "cells" => "cells" \in schema'
                /\ s \in {"apidb", "syncdb"} /\ n \in upgraded => s \in schema'

JobTypes ==
  /\ phase' \in [Node -> 1..7]
  /\ step' \in [Node -> State \cup {"idle"}]
  /\ failed' \in [Node -> SUBSET State]
  /\ tries' \in [Node -> 0..(Retries - 1)]

LEMMA StepsAreStates ==
  ASSUME TypeOK, NEW n \in Node
  PROVE  Steps(n) \subseteq State /\ "idle" \notin Steps(n)
<1>1. CASE phase[n] = 3
  BY <1>1, StateTable, AfterUpgrade DEF State
<1>2. CASE phase[n] \in {1, 2}
  BY <1>2, StateTable DEF State
<1>3. CASE phase[n] \in {4, 5, 6, 7}
  BY <1>3, StateTable DEF State
<1>. QED
  BY <1>1, <1>2, <1>3, PhaseTable

LEMMA AfterStays ==
  ASSUME TypeOK, NEW n \in Node, step[n] \in Steps(n)
  PROVE  After(n, step[n]) \in Steps(n) \cup {"idle"} /\ phase[n] \in 1..6
<1>1. CASE phase[n] = 3
  BY <1>1, StateTable, AfterUpgrade
<1>2. CASE phase[n] \in {1, 2}
  BY <1>2, StateTable
<1>3. CASE phase[n] \in {4, 5, 6, 7}
  BY <1>3, StateTable
<1>. QED
  BY <1>1, <1>2, <1>3, PhaseTable

LEMMA EndsFacts ==
  ASSUME TypeOK, NEW n \in Node, PlaceFacts(n), step[n] # "idle", NEW ok \in BOOLEAN,
         Ends(n, step[n], ok)
  PROVE  /\ Advances(n, ok) /\ JobTypes
         /\ \A m \in Node \ {n} :
              phase'[m] = phase[m] /\ step'[m] = step[m] /\ failed'[m] = failed[m]
<1>. DEFINE s == step[n]
            next == After(n, s)
            now == failed[n] \cup (IF ok THEN {} ELSE {s})
<1>1. s \in Steps(n) /\ s \in State
  BY StepsAreStates DEF PlaceFacts
<1>2. next \in State \cup {"idle"} /\ phase[n] \in 1..6
  BY <1>1, AfterStays, StepsAreStates
<1>3. /\ phase \in [Node -> 1..7] /\ step \in [Node -> State \cup {"idle"}]
      /\ failed \in [Node -> SUBSET State] /\ tries \in [Node -> 0..(Retries - 1)]
      /\ Retries \in Nat \ {0}
  BY PhaseTable, UpgradeAssumption DEF TypeOK
<1>4. /\ tries' = [tries EXCEPT ![n] = 0]
      /\ step' = [step EXCEPT ![n] = next]
      /\ failed' = [failed EXCEPT ![n] = IF next = "idle" THEN {} ELSE now]
      /\ phase' = [phase EXCEPT ![n] = IF next = "idle" /\ now = {} THEN @ + 1 ELSE @]
  BY DEF Ends
<1>5. now \subseteq State /\ (now = {} <=> ok /\ failed[n] = {})
  BY <1>1, <1>3
<1>. HIDE DEF now, next
<1>6. Advances(n, ok)
  <2>1. step'[n] = next /\ failed'[n] = (IF next = "idle" THEN {} ELSE now)
    BY <1>3, <1>4
  <2>2. phase'[n] = IF next = "idle" /\ now = {} THEN phase[n] + 1 ELSE phase[n]
    BY <1>3, <1>4
  <2>. QED BY <1>5, <2>1, <2>2 DEF Advances, now, next
<1>7. JobTypes
  BY <1>2, <1>3, <1>4, <1>5 DEF JobTypes
<1>. QED
  BY <1>3, <1>4, <1>6, <1>7

DiskTypes ==
  /\ running' \in [Node -> BOOLEAN] /\ status' \in [Node -> {"enabled", "disabled"}]
  /\ policy' \subseteq Node /\ upgraded' \subseteq Node
  /\ rendered' \subseteq Node /\ clouds' \subseteq Node
  /\ schema' \subseteq {"online", "apidb", "cells", "syncdb"}
  /\ disturbances' \in 0..MaxDisturbances[role]

DiskKept(n) ==
  \A m \in Node \ {n} :
    /\ running'[m] = running[m] /\ status'[m] = status[m]
    /\ m \in policy' <=> m \in policy
    /\ m \in upgraded' <=> m \in upgraded
    /\ m \in rendered' <=> m \in rendered

\* Salt is through with the state at hand of node n.
Through(n) ==
  /\ step[n] # "idle" /\ DiskTypes /\ DiskKept(n)
  /\ \E ok \in BOOLEAN : Ends(n, step[n], ok) /\ Effects(n, ok)

LEMMA BoundType ==
  ASSUME TypeOK
  PROVE  /\ MaxDisturbances[role] \in Nat /\ disturbances \in 0..MaxDisturbances[role]
         /\ Disturb => disturbances' \in 0..MaxDisturbances[role]
<1>1. MaxDisturbances[role] \in Nat
  BY UpgradeAssumption DEF TypeOK
<1>. QED
  BY <1>1 DEF TypeOK, Disturb

LEMMA ExecutesFacts ==
  ASSUME TypeOK, NEW n \in Node, NEW s \in State, NEW took \in BOOLEAN, Executes(n, s, took)
  PROVE  /\ step[n] = s /\ step[n] # "idle" /\ ~Blocked(n, s) /\ s \notin Off(n)
         /\ disturbances' \in 0..MaxDisturbances[role]
         /\ \E ok \in BOOLEAN : Ends(n, step[n], ok) /\ (ok => took)
BY BoundType DEF Executes, State

LEMMA PassesThrough ==
  ASSUME TypeOK, NEW n \in Node, Passes(n)
  PROVE  Through(n)
<1>. DEFINE ok == ~Blocked(n, step[n])
<1>1. /\ step[n] # "idle" /\ Ends(n, step[n], ok) /\ UNCHANGED <<service, disk, disturbances>>
      /\ ok => step[n] \in Off(n)
  BY DEF Passes
<1>2. ok => step[n] \in {"online", "check", "apidb", "syncdb"} /\ role[n] # "primary"
  BY <1>1 DEF Off
<1>3. ok \in BOOLEAN
  BY DEF Blocked
<1>. HIDE DEF ok
<1>4. DiskTypes /\ DiskKept(n)
  BY <1>1, BoundType DEF DiskTypes, DiskKept, TypeOK, ServiceTypeOK, service, disk
<1>5. Effects(n, ok)
  BY <1>1, <1>2 DEF Effects, service, disk
<1>. QED
  BY <1>1, <1>3, <1>4, <1>5 DEF Through

LEMMA StopThrough ==
  ASSUME TypeOK, NEW n \in Node, Stop(n)
  PROVE  Through(n)
<1>1. PICK took \in BOOLEAN : /\ Executes(n, "stop", took)
                              /\ running' = [running EXCEPT ![n] = @ /\ ~took]
  BY DEF Stop
<1>2. "stop" \in State
  BY DEF State
<1>3. PICK ok \in BOOLEAN : Ends(n, step[n], ok) /\ (ok => took)
  BY <1>1, <1>2, ExecutesFacts
<1>4. step[n] = "stop" /\ disturbances' \in 0..MaxDisturbances[role]
  BY <1>1, <1>2, ExecutesFacts
<1>5. DiskTypes /\ DiskKept(n) /\ Effects(n, ok)
  BY <1>1, <1>3, <1>4 DEF Stop, DiskTypes, DiskKept, Effects, TypeOK, ServiceTypeOK, disk
<1>. QED
  BY <1>3, <1>4, <1>5 DEF Through

LEMMA StartThrough ==
  ASSUME TypeOK, NEW n \in Node, Start(n)
  PROVE  Through(n)
<1>1. PICK took \in BOOLEAN : /\ Executes(n, "start", took)
                              /\ running' = [running EXCEPT ![n] = @ \/ took]
  BY DEF Start
<1>2. "start" \in State
  BY DEF State
<1>3. PICK ok \in BOOLEAN : Ends(n, step[n], ok) /\ (ok => took)
  BY <1>1, <1>2, ExecutesFacts
<1>4. step[n] = "start" /\ disturbances' \in 0..MaxDisturbances[role]
  BY <1>1, <1>2, ExecutesFacts
<1>5. /\ running' \in [Node -> BOOLEAN] /\ \A m \in Node \ {n} : running'[m] = running[m]
      /\ running[n] \/ took => running'[n]
  BY <1>1 DEF TypeOK, ServiceTypeOK
<1>6. DiskTypes /\ DiskKept(n)
  BY <1>4, <1>5 DEF Start, DiskTypes, DiskKept, TypeOK, ServiceTypeOK, disk
<1>7. Effects(n, ok)
  <2>1. UNCHANGED <<role, heard, status, policy, upgraded, rendered, schema>>
    BY DEF Start, disk
  <2>2. (running[n] => running'[n]) /\ (ok => running'[n])
    BY <1>3, <1>5
  <2>3. /\ running[n] /\ ~running'[n] => FALSE
        /\ ok => running'[n]
    BY <2>2
  <2>. QED BY <1>4, <2>1, <2>3 DEF Effects
<1>. QED
  BY <1>3, <1>4, <1>6, <1>7 DEF Through

LEMMA PolicyThrough ==
  ASSUME TypeOK, NEW n \in Node, Policy(n)
  PROVE  Through(n)
<1>1. PICK took \in BOOLEAN : Executes(n, "policy", took) /\ policy' = With(policy, n, took)
  BY DEF Policy
<1>2. "policy" \in State
  BY DEF State
<1>3. PICK ok \in BOOLEAN : Ends(n, step[n], ok) /\ (ok => took)
  BY <1>1, <1>2, ExecutesFacts
<1>4. step[n] = "policy" /\ disturbances' \in 0..MaxDisturbances[role]
  BY <1>1, <1>2, ExecutesFacts
<1>5. DiskTypes /\ DiskKept(n) /\ Effects(n, ok)
  BY <1>1, <1>3, <1>4
     DEF Policy, With, service, DiskTypes, DiskKept, Effects, TypeOK, ServiceTypeOK
<1>. QED
  BY <1>3, <1>4, <1>5 DEF Through

LEMMA PackagesThrough ==
  ASSUME TypeOK, NEW n \in Node, Packages(n)
  PROVE  Through(n)
<1>1. PICK took \in BOOLEAN :
        /\ Executes(n, "packages", took)
        /\ upgraded' = With(upgraded, n, took)
        /\ running' = [running EXCEPT ![n] = @ \/ (took /\ n \notin policy \cup upgraded)]
  BY DEF Packages
<1>2. "packages" \in State
  BY DEF State
<1>3. PICK ok \in BOOLEAN : Ends(n, step[n], ok) /\ (ok => took)
  BY <1>1, <1>2, ExecutesFacts
<1>4. step[n] = "packages" /\ disturbances' \in 0..MaxDisturbances[role]
  BY <1>1, <1>2, ExecutesFacts
<1>5. "policy" \notin failed[n]
  <2>1. ~Blocked(n, "packages")
    BY <1>1, <1>2, ExecutesFacts
  <2>. QED BY <2>1 DEF Blocked, Requisites
<1>6. DiskTypes /\ DiskKept(n) /\ Effects(n, ok)
  BY <1>1, <1>3, <1>4, <1>5
     DEF Packages, With, DiskTypes, DiskKept, Effects, TypeOK, ServiceTypeOK
<1>. QED
  BY <1>3, <1>4, <1>6 DEF Through

LEMMA UnpolicyThrough ==
  ASSUME TypeOK, NEW n \in Node, Unpolicy(n)
  PROVE  Through(n)
<1>1. PICK took \in BOOLEAN :
        Executes(n, "unpolicy", took) /\ policy' = Without(policy, n, took)
  BY DEF Unpolicy
<1>2. "unpolicy" \in State
  BY DEF State
<1>3. PICK ok \in BOOLEAN : Ends(n, step[n], ok) /\ (ok => took)
  BY <1>1, <1>2, ExecutesFacts
<1>4. step[n] = "unpolicy" /\ disturbances' \in 0..MaxDisturbances[role]
  BY <1>1, <1>2, ExecutesFacts
<1>5. DiskTypes /\ DiskKept(n) /\ Effects(n, ok)
  BY <1>1, <1>3, <1>4
     DEF Unpolicy, Without, service, DiskTypes, DiskKept, Effects, TypeOK, ServiceTypeOK
<1>. QED
  BY <1>3, <1>4, <1>5 DEF Through

LEMMA ConfigThrough ==
  ASSUME TypeOK, NEW n \in Node, Config(n)
  PROVE  Through(n)
<1>1. PICK took \in BOOLEAN : Executes(n, "config", took) /\ rendered' = With(rendered, n, took)
  BY DEF Config
<1>2. "config" \in State
  BY DEF State
<1>3. PICK ok \in BOOLEAN : Ends(n, step[n], ok) /\ (ok => took)
  BY <1>1, <1>2, ExecutesFacts
<1>4. step[n] = "config" /\ disturbances' \in 0..MaxDisturbances[role]
  BY <1>1, <1>2, ExecutesFacts
<1>5. DiskTypes /\ DiskKept(n) /\ Effects(n, ok)
  BY <1>1, <1>3, <1>4
     DEF Config, With, service, DiskTypes, DiskKept, Effects, TypeOK, ServiceTypeOK
<1>. QED
  BY <1>3, <1>4, <1>5 DEF Through

LEMMA CloudsThrough ==
  ASSUME TypeOK, NEW n \in Node, Clouds(n)
  PROVE  Through(n)
<1>1. PICK took \in BOOLEAN :
        \/ Executes(n, "clouds", took) /\ clouds' = With(clouds, n, took)
        \/ Executes(n, "unclouds", took) /\ clouds' = Without(clouds, n, took)
  BY DEF Clouds
<1>2. PICK s \in {"clouds", "unclouds"} : Executes(n, s, took)
  BY <1>1
<1>3. s \in State
  BY DEF State
<1>4. PICK ok \in BOOLEAN : Ends(n, step[n], ok) /\ (ok => took)
  BY <1>2, <1>3, ExecutesFacts
<1>5. step[n] \in {"clouds", "unclouds"} /\ disturbances' \in 0..MaxDisturbances[role]
  BY <1>2, <1>3, ExecutesFacts
<1>6. clouds' \subseteq Node
  BY <1>1 DEF With, Without, TypeOK
<1>7. DiskTypes /\ DiskKept(n) /\ Effects(n, ok)
  BY <1>4, <1>5, <1>6
     DEF Clouds, service, DiskTypes, DiskKept, Effects, TypeOK, ServiceTypeOK
<1>. QED
  BY <1>4, <1>5, <1>7 DEF Through

LEMMA MigrateThrough ==
  ASSUME TypeOK, NEW n \in Node, Migrate(n)
  PROVE  Through(n)
<1>1. PICK s \in {"online", "apidb", "cells", "syncdb"}, took \in BOOLEAN :
        Executes(n, s, took) /\ schema' = With(schema, s, took /\ Brings(n, s))
  BY DEF Migrate
<1>2. s \in State
  BY DEF State
<1>3. PICK ok \in BOOLEAN : Ends(n, step[n], ok) /\ (ok => took)
  BY <1>1, <1>2, ExecutesFacts
<1>4. step[n] = s /\ disturbances' \in 0..MaxDisturbances[role]
  BY <1>1, <1>2, ExecutesFacts
<1>5. schema \subseteq schema' /\ schema' \subseteq {"online", "apidb", "cells", "syncdb"}
  BY <1>1 DEF With, TypeOK
<1>6. ok => /\ s = "online" /\ n \notin upgraded => "online" \in schema'
            /\ s = "cells" => "cells" \in schema'
            /\ s \in {"apidb", "syncdb"} /\ n \in upgraded => s \in schema'
  BY <1>1, <1>3 DEF With, Brings
<1>7. DiskTypes /\ DiskKept(n) /\ Effects(n, ok)
  BY <1>4, <1>5, <1>6 DEF Migrate, service, DiskTypes, DiskKept, Effects, TypeOK, ServiceTypeOK
<1>. QED
  BY <1>3, <1>4, <1>7 DEF Through

LEMMA CheckThrough ==
  ASSUME TypeOK, NEW n \in Node, Check(n)
  PROVE  Through(n)
<1>1. Executes(n, "check", TRUE)
  BY DEF Check
<1>2. "check" \in State
  BY DEF State
<1>3. PICK ok \in BOOLEAN : Ends(n, step[n], ok)
  BY <1>1, <1>2, ExecutesFacts
<1>4. step[n] = "check" /\ disturbances' \in 0..MaxDisturbances[role]
  BY <1>1, <1>2, ExecutesFacts
<1>5. DiskTypes /\ DiskKept(n) /\ Effects(n, ok)
  BY <1>3, <1>4
     DEF Check, service, disk, DiskTypes, DiskKept, Effects, TypeOK, ServiceTypeOK
<1>. QED
  BY <1>3, <1>4, <1>5 DEF Through

\* The bound on disturbances is kept by calls of Nova too.
LEMMA CountedType ==
  ASSUME TypeOK, NEW n \in Node, NEW replies \in SUBSET Replies(n), Counted(n, replies)
  PROVE  disturbances' \in 0..MaxDisturbances[role]
<1>1. CASE disturbances = MaxDisturbances[role]
  <2>1. replies \subseteq Answers(Valid(n), TRUE)
    BY <1>1 DEF Replies
  <2>. QED BY <2>1, BoundType DEF Counted
<1>2. CASE disturbances # MaxDisturbances[role]
  <2>. DEFINE bound == MaxDisturbances[role]
  <2>1. bound \in Nat /\ disturbances \in 0..bound /\ disturbances # bound
    BY <1>2, BoundType
  <2>2. disturbances' = disturbances \/ disturbances' = disturbances + 1
    BY DEF Counted
  <2>. HIDE DEF bound
  <2>3. disturbances' \in 0..bound
    BY <2>1, <2>2
  <2>. QED BY <2>3 DEF bound
<1>. QED
  BY <1>1, <1>2

\* A report of success means that the host has the status that was asked for.
LEMMA StatusReportIsTrue ==
  ASSUME NEW n, NEW wanted, NEW list, NEW update,
         StatusReport(n, wanted, list, update) \in SuccessReport
  PROVE  NewStatus(n, wanted, list, update) = wanted
<1>1. Completes(list)
  BY DEF StatusReport, Failed, SuccessReport, Exception
<1>2. CASE Matching(n, wanted) # {}
  BY <1>2 DEF NewStatus, Matching
<1>3. CASE Matching(n, wanted) = {}
  <2>1. Completes(update)
    BY <1>1, <1>3 DEF StatusReport, Failed, SuccessReport, Exception
  <2>. QED BY <1>1, <1>3, <2>1 DEF NewStatus, Completes, Applied
<1>. QED
  BY <1>2, <1>3

LEMMA SetStatusThrough ==
  ASSUME TypeOK, NEW n \in Node, NEW s, NEW wanted,
         <<s, wanted>> \in {<<"disable", "disabled">>, <<"enable", "enabled">>},
         SetStatus(n, s, wanted)
  PROVE  Through(n)
<1>1. PICK list \in Replies(n), update \in Replies(n) :
        /\ Counted(n, {list, update})
        /\ status' = [status EXCEPT ![n] = NewStatus(n, wanted, list, update)]
        /\ Ends(n, s, StatusReport(n, wanted, list, update) \in SuccessReport)
  BY DEF SetStatus
<1>. DEFINE ok == StatusReport(n, wanted, list, update) \in SuccessReport
<1>2. step[n] = s /\ UNCHANGED <<role, running, heard, disk>> /\ Ends(n, step[n], ok)
  BY <1>1 DEF SetStatus
<1>3. disturbances' \in 0..MaxDisturbances[role]
  BY <1>1, CountedType
<1>4. status \in [Node -> {"enabled", "disabled"}]
  BY DEF TypeOK, ServiceTypeOK
<1>5. NewStatus(n, wanted, list, update) \in {"enabled", "disabled"}
  BY <1>4 DEF NewStatus
<1>6. ok => status'[n] = wanted
  BY <1>1, <1>4, StatusReportIsTrue
<1>7. ok \in BOOLEAN
  OBVIOUS
<1>. HIDE DEF ok
<1>8. status' \in [Node -> {"enabled", "disabled"}] /\ \A m \in Node \ {n} : status'[m] = status[m]
  BY <1>1, <1>4, <1>5
<1>9. DiskTypes /\ DiskKept(n)
  BY <1>2, <1>3, <1>8 DEF disk, DiskTypes, DiskKept, TypeOK, ServiceTypeOK
<1>10. Effects(n, ok)
  BY <1>2, <1>6 DEF disk, Effects
<1>. QED
  BY <1>2, <1>7, <1>9, <1>10 DEF Through

LEMMA ApiThrough ==
  ASSUME TypeOK, NEW n \in Node, Api(n)
  PROVE  Through(n)
<1>1. PICK answer \in Replies(n) : Counted(n, {answer}) /\ Ends(n, "api", Completes(answer))
  BY DEF Api
<1>. DEFINE ok == Completes(answer)
<1>2. step[n] = "api" /\ UNCHANGED <<service, disk>> /\ ok \in BOOLEAN /\ Ends(n, step[n], ok)
  BY <1>1 DEF Api, Completes
<1>3. disturbances' \in 0..MaxDisturbances[role]
  BY <1>1, CountedType
<1>4. DiskTypes /\ DiskKept(n) /\ Effects(n, ok)
  BY <1>2, <1>3 DEF service, disk, DiskTypes, DiskKept, Effects, TypeOK, ServiceTypeOK
<1>. QED
  BY <1>2, <1>4 DEF Through

\* A round of waiting that is not the last one.
Pauses(n) ==
  /\ tries' \in [Node -> 0..(Retries - 1)] /\ disturbances' \in 0..MaxDisturbances[role]
  /\ UNCHANGED <<service, disk, phase, step, failed>>

LEMMA WaitThrough ==
  ASSUME TypeOK, NEW n \in Node, Wait(n)
  PROVE  Through(n) \/ Pauses(n)
<1>1. PICK answer \in Replies(n) : Counted(n, {answer}) /\ RoundEnds(n, answer)
  BY DEF Wait
<1>2. step[n] = "wait" /\ UNCHANGED <<service, disk>>
  BY DEF Wait
<1>3. disturbances' \in 0..MaxDisturbances[role]
  BY <1>1, CountedType
<1>4. CASE /\ tries[n] + 1 < Retries
           /\ tries' = [tries EXCEPT ![n] = @ + 1] /\ UNCHANGED <<phase, step, failed>>
  BY <1>2, <1>3, <1>4, UpgradeAssumption DEF Pauses, TypeOK
<1>5. CASE Ends(n, "wait", Completes(answer) /\ Down(n) = {})
  <2>. DEFINE ok == Completes(answer) /\ Down(n) = {}
  <2>1. ok => heard[n]
    BY DEF Down
  <2>2. ok \in BOOLEAN
    BY DEF Completes
  <2>. HIDE DEF ok
  <2>3. DiskTypes /\ DiskKept(n) /\ Effects(n, ok)
    BY <1>2, <1>3, <2>1 DEF service, disk, DiskTypes, DiskKept, Effects, TypeOK, ServiceTypeOK
  <2>4. Ends(n, step[n], ok)
    BY <1>2, <1>5 DEF ok
  <2>. QED BY <1>2, <2>2, <2>3, <2>4 DEF Through
<1>. QED
  BY <1>1, <1>4, <1>5 DEF RoundEnds

LEMMA ApplyThrough ==
  ASSUME TypeOK, NEW n \in Node, Apply(n), ~Begin(n)
  PROVE  Through(n) \/ Pauses(n)
<1>1. CASE Passes(n) \/ Stop(n) \/ Start(n) \/ Policy(n) \/ Packages(n) \/ Unpolicy(n)
  BY <1>1, PassesThrough, StopThrough, StartThrough, PolicyThrough, PackagesThrough,
     UnpolicyThrough
<1>2. CASE Config(n) \/ Clouds(n) \/ Migrate(n) \/ Check(n) \/ Api(n) \/ Wait(n)
  BY <1>2, ConfigThrough, CloudsThrough, MigrateThrough, CheckThrough, ApiThrough, WaitThrough
<1>3. CASE SetStatus(n, "disable", "disabled") \/ SetStatus(n, "enable", "enabled")
  BY <1>3, SetStatusThrough
<1>. QED
  BY <1>1, <1>2, <1>3 DEF Apply

-----------------------------------------------------------------------------
(***************************************************************************)
(* The facts about the node of the step, and about the others.             *)
(***************************************************************************)

LEMMA StepsKept ==
  ASSUME NEW n \in Node, role' = role, phase'[n] = phase[n]
  PROVE  Steps(n)' = Steps(n)
<1>1. StatesOf(n)' = StatesOf(n)
  BY DEF StatesOf, PhaseOf, States
<1>. QED
  BY <1>1 DEF Steps

LEMMA KeptFacts ==
  ASSUME NEW m \in Node, NodeFacts(m), role' = role, schema \subseteq schema',
         phase'[m] = phase[m], step'[m] = step[m], failed'[m] = failed[m],
         running'[m] = running[m], status'[m] = status[m],
         running[m] /\ heard[m] => heard'[m],
         m \in policy' <=> m \in policy, m \in upgraded' <=> m \in upgraded,
         m \in rendered' <=> m \in rendered
  PROVE  NodeFacts(m)'
<1>1. PlaceFacts(m)'
  BY StepsKept DEF NodeFacts, PlaceFacts
<1>2. PreFacts(m)'
  BY DEF NodeFacts, PreFacts
<1>3. UpgradeFacts(m)'
  BY DEF NodeFacts, UpgradeFacts
<1>4. PastFacts(m)' /\ ControllerFacts(m)'
  BY DEF NodeFacts, PastFacts, ControllerFacts
<1>. QED
  BY <1>1, <1>2, <1>3, <1>4 DEF NodeFacts

LEMMA ThroughPlace ==
  ASSUME TypeOK, NEW n \in Node, PlaceFacts(n), step[n] # "idle",
         NEW ok \in BOOLEAN, Advances(n, ok), role' = role
  PROVE  PlaceFacts(n)'
<1>1. step[n] \in Steps(n) /\ phase[n] \in 1..6
  BY AfterStays DEF PlaceFacts
<1>2. role[n] # "other"
  BY <1>1 DEF PlaceFacts
<1>3. CASE phase'[n] = phase[n] /\ step'[n] = After(n, step[n]) /\ step'[n] # "idle"
  BY <1>1, <1>2, <1>3, AfterStays, StepsKept DEF PlaceFacts
<1>4. CASE step'[n] = "idle" /\ failed'[n] = {}
  BY <1>2, <1>4 DEF PlaceFacts
<1>. QED
  BY <1>3, <1>4 DEF Advances

LEMMA ThroughPre ==
  ASSUME TypeOK, NEW n \in Node, NodeFacts(n), step[n] # "idle",
         NEW ok \in BOOLEAN, Advances(n, ok), Effects(n, ok)
  PROVE  PreFacts(n)'
<1>1. step[n] \in Steps(n) /\ phase[n] \in 1..6
  BY AfterStays DEF NodeFacts, PlaceFacts
<1>2. phase'[n] \in {phase[n], phase[n] + 1}
  BY DEF Advances
<1>3. phase'[n] < 3 => n \notin upgraded'
  <2> SUFFICES ASSUME phase'[n] < 3 PROVE n \notin upgraded'
    OBVIOUS
  <2>1. phase[n] \in {1, 2} /\ n \notin upgraded
    BY <1>1, <1>2 DEF NodeFacts, PreFacts
  <2>2. step[n] # "packages"
    BY <1>1, <2>1, StateTable
  <2>. QED BY <2>1, <2>2 DEF Effects
<1>4. ASSUME role'[n] = "primary", "online" \notin schema'
      PROVE  phase'[n] = 1 /\ (failed'[n] = {} => step'[n] \in {"idle", "online"})
  <2>1. /\ role[n] = "primary" /\ "online" \notin schema
        /\ phase[n] = 1 /\ (failed[n] = {} => step[n] = "online")
    BY <1>4 DEF Effects, NodeFacts, PreFacts
  <2>2. n \notin upgraded
    BY <2>1 DEF NodeFacts, PreFacts
  <2>3. /\ After(n, "online") = "config"
        /\ step[n] = "online" \/ failed[n] # {}
    BY <2>1, StateTable
  <2>4. step[n] = "online" => ~ok
    BY <1>4, <2>1, <2>2 DEF Effects
  <2>5. step[n] # "online" => failed[n] # {}
    BY <2>1
  <2>. QED BY <2>1, <2>3, <2>4, <2>5 DEF Advances
<1>. QED
  BY <1>3, <1>4 DEF PreFacts

LEMMA ThroughUpgrade ==
  ASSUME TypeOK, NEW n \in Node, NodeFacts(n), step[n] # "idle",
         NEW ok \in BOOLEAN, Advances(n, ok), Effects(n, ok)
  PROVE  UpgradeFacts(n)'
<1>0. step[n] \in Steps(n) /\ phase[n] \in 1..6 /\ role' = role
  BY AfterStays DEF NodeFacts, PlaceFacts, Effects
<1>1. CASE phase'[n] = 3 /\ phase[n] # 3
  <2>1. phase[n] = 2 /\ step'[n] = "idle" /\ ok
    BY <1>0, <1>1 DEF Advances
  <2>2. role[n] = "compute" /\ step[n] = "disable"
    BY <1>0, <2>1, StateTable
  <2>3. status'[n] = "disabled"
    BY <2>1, <2>2 DEF Effects
  <2>. QED BY <2>1, <2>3 DEF UpgradeFacts
<1>2. CASE phase'[n] = 3 /\ phase[n] = 3
  <2>1. StatesOf(n) = Upgrade
    BY <1>2, StateTable
  <2>2. step[n] \in {"stop", "policy", "packages", "unpolicy", "config", "apidb", "cells",
                     "syncdb", "start"}
    BY <1>0, <2>1, AfterUpgrade
  <2>3. /\ role[n] = "compute" => status[n] = "disabled"
        /\ running[n] => step[n] = "stop" \/ "stop" \in failed[n]
        /\ step[n] = "packages" => n \in policy \/ "policy" \in failed[n]
        /\ failed[n] = {} =>
             /\ step[n] \notin {"idle", "stop", "policy", "packages", "unpolicy"} => n \notin policy
             /\ step[n] \in {"apidb", "cells", "syncdb", "start"} => n \in rendered
        /\ failed[n] \cap Migrating = {} =>
             /\ step[n] \notin {"idle", "stop", "policy", "packages"} => n \in upgraded
             /\ role[n] = "primary" =>
                  /\ step[n] \in {"cells", "syncdb", "start"} => "apidb" \in schema
                  /\ step[n] \in {"syncdb", "start"} => "cells" \in schema
                  /\ step[n] = "start" => "syncdb" \in schema
    BY <1>2 DEF NodeFacts, UpgradeFacts
  <2>4. role[n] = "compute" => status'[n] = "disabled"
    BY <2>2, <2>3 DEF Effects
  <2>5. CASE step'[n] = "idle"
    BY <1>0, <1>2, <2>4, <2>5, ThroughPlace DEF UpgradeFacts, NodeFacts, PlaceFacts
  <2>6. CASE step'[n] # "idle"
    <3>1. /\ step'[n] = After(n, step[n]) /\ step[n] # "start"
          /\ failed'[n] = IF ok THEN failed[n] ELSE failed[n] \cup {step[n]}
          /\ failed'[n] = {} => ok /\ failed[n] = {}
      BY <2>1, <2>6, AfterUpgrade DEF Advances
    <3>2. running'[n] => "stop" \in failed'[n]
      BY <2>2, <2>3, <3>1 DEF Effects
    <3>3. step'[n] = "packages" => n \in policy' \/ "policy" \in failed'[n]
      <4>1. step'[n] = "packages" => step[n] = "policy"
        BY <2>1, <2>2, <3>1, AfterUpgrade
      <4>. QED BY <3>1, <4>1 DEF Effects
    <3>4. ASSUME failed'[n] = {}
          PROVE  /\ step'[n] \notin {"idle", "stop", "policy", "packages", "unpolicy"}
                      => n \notin policy'
                 /\ step'[n] \in {"apidb", "cells", "syncdb", "start"} => n \in rendered'
      <4>1. ok /\ failed[n] = {}
        BY <3>1, <3>4
      <4>. QED BY <2>1, <2>2, <2>3, <3>1, <4>1, AfterUpgrade DEF Effects
    <3>5. ASSUME failed'[n] \cap Migrating = {}
          PROVE  /\ failed[n] \cap Migrating = {} /\ (step[n] \in Migrating => ok)
                 /\ step'[n] \notin {"idle", "stop", "policy", "packages"} => n \in upgraded'
      <4>1. failed[n] \cap Migrating = {} /\ (step[n] \in Migrating => ok)
        BY <3>1, <3>5
      <4>2. step[n] = "packages" => n \in upgraded'
        BY <4>1 DEF Effects, Migrating
      <4>3. step[n] \notin {"idle", "stop", "policy", "packages"} => n \in upgraded'
        BY <2>3, <4>1 DEF Effects
      <4>4. step'[n] \notin {"idle", "stop", "policy", "packages"}
              => step[n] \notin {"idle", "stop", "policy"}
        BY <2>1, <2>2, <3>1, AfterUpgrade
      <4>. QED BY <4>1, <4>2, <4>3, <4>4
    <3>6. ASSUME failed'[n] \cap Migrating = {}, role'[n] = "primary"
          PROVE  /\ step'[n] \in {"cells", "syncdb", "start"} => "apidb" \in schema'
                 /\ step'[n] \in {"syncdb", "start"} => "cells" \in schema'
                 /\ step'[n] = "start" => "syncdb" \in schema'
      <4>1. /\ failed[n] \cap Migrating = {} /\ role[n] = "primary"
            /\ step[n] \in {"apidb", "cells", "syncdb"} => ok
        BY <1>0, <3>5, <3>6 DEF Migrating
      <4>2. schema \subseteq schema'
        BY DEF Effects
      <4>3. /\ step[n] = "apidb" => "apidb" \in schema'
            /\ step[n] = "cells" => "cells" \in schema'
            /\ step[n] = "syncdb" => "syncdb" \in schema'
        BY <2>3, <4>1 DEF Effects
      <4>. QED BY <2>1, <2>2, <2>3, <3>1, <4>1, <4>2, <4>3, AfterUpgrade
    <3>. QED BY <1>0, <2>4, <3>2, <3>3, <3>4, <3>5, <3>6 DEF UpgradeFacts
  <2>. QED BY <2>5, <2>6
<1>. QED
  BY <1>1, <1>2 DEF UpgradeFacts

LEMMA ThroughPast ==
  ASSUME TypeOK, NEW n \in Node, NodeFacts(n), step[n] # "idle",
         NEW ok \in BOOLEAN, Advances(n, ok), Effects(n, ok)
  PROVE  PastFacts(n)' /\ ControllerFacts(n)'
<1>0. /\ step[n] \in Steps(n) /\ phase[n] \in 1..6 /\ role' = role
      /\ heard' = heard /\ schema \subseteq schema'
  BY AfterStays DEF NodeFacts, PlaceFacts, Effects
<1>1. step[n] \in {"disable", "enable"} => role[n] = "compute"
  <2>1. CASE phase[n] = 3
    BY <1>0, <2>1, StateTable, AfterUpgrade
  <2>2. CASE phase[n] \in {1, 2}
    BY <1>0, <2>2, StateTable
  <2>3. CASE phase[n] \in {4, 5, 6}
    BY <1>0, <2>3, StateTable
  <2>. QED BY <1>0, <2>1, <2>2, <2>3
<1>2. ControllerFacts(n)'
  BY <1>0, <1>1 DEF ControllerFacts, NodeFacts, Effects
<1>3. CASE phase[n] = 3
  <2> SUFFICES ASSUME phase'[n] > 3 PROVE PastFacts(n)'
    BY <1>2 DEF PastFacts
  <2>1. phase'[n] = 4 /\ After(n, step[n]) = "idle" /\ ok /\ failed[n] = {}
    BY <1>3 DEF Advances
  <2>2. step[n] = "start"
    BY <1>0, <1>3, <2>1, StateTable, AfterUpgrade
  <2>3. /\ n \in upgraded /\ n \notin policy /\ n \in rendered
        /\ role[n] = "primary" => {"apidb", "cells", "syncdb"} \subseteq schema
    BY <1>3, <2>1, <2>2 DEF NodeFacts, UpgradeFacts
  <2>4. n \in upgraded' /\ n \notin policy' /\ n \in rendered' /\ running'[n]
    BY <2>1, <2>2, <2>3 DEF Effects
  <2>. QED BY <1>0, <2>1, <2>3, <2>4 DEF PastFacts
<1>4. CASE phase[n] < 3
  <2>1. phase'[n] \in 1..3
    BY <1>0, <1>4 DEF Advances
  <2>. QED BY <1>2, <2>1 DEF PastFacts
<1>5. CASE phase[n] > 3
  <2>1. step[n] \in {"enable", "api", "wait", "check", "unclouds"}
    BY <1>0, <1>5, StateTable
  <2>2. role[n] # "other"
    BY <1>0 DEF NodeFacts, PlaceFacts
  <2>3. /\ n \in upgraded \cap rendered /\ n \notin policy /\ running[n]
        /\ role[n] = "primary" => {"apidb", "cells", "syncdb"} \subseteq schema
        /\ phase[n] > 4 => status[n] = "enabled"
        /\ phase[n] > 5 => heard[n]
    BY <1>5, <2>2 DEF NodeFacts, PastFacts
  <2>4. /\ n \in upgraded' \cap rendered' /\ n \notin policy' /\ running'[n]
    BY <2>1, <2>3 DEF Effects
  <2>5. phase'[n] > 4 => status'[n] = "enabled"
    <3>1. CASE phase[n] = 4
      <4>1. step[n] = "enable"
        BY <1>0, <3>1, StateTable
      <4>2. phase'[n] > 4 => ok
        BY <3>1 DEF Advances
      <4>. QED BY <4>1, <4>2 DEF Effects
    <3>2. CASE phase[n] > 4
      <4>1. step[n] \notin {"disable", "enable"}
        BY <1>0, <3>2, StateTable
      <4>. QED BY <2>3, <3>2, <4>1 DEF Effects
    <3>. QED BY <1>0, <1>5, <3>1, <3>2
  <2>6. phase'[n] > 5 => heard'[n]
    <3>1. CASE phase[n] = 5
      <4>1. phase'[n] > 5 => ok /\ After(n, step[n]) = "idle"
        BY <3>1 DEF Advances
      <4>2. phase'[n] > 5 => step[n] = "wait"
        BY <1>0, <3>1, <4>1, StateTable
      <4>. QED BY <1>0, <4>1, <4>2 DEF Effects
    <3>2. CASE phase[n] = 4
      BY <3>2 DEF Advances
    <3>3. CASE phase[n] = 6
      BY <1>0, <2>3, <3>3
    <3>. QED BY <1>0, <1>5, <3>1, <3>2, <3>3
  <2>. QED BY <1>0, <1>2, <2>3, <2>4, <2>5, <2>6 DEF PastFacts
<1>. QED
  BY <1>0, <1>2, <1>3, <1>4, <1>5

LEMMA ThroughNode ==
  ASSUME TypeOK, \A m \in Node : NodeFacts(m), NEW n \in Node, Through(n)
  PROVE  /\ \A m \in Node : NodeFacts(m)'
         /\ TypeOK'
         /\ role' = role
         /\ \A m \in Node \ {n} : phase'[m] = phase[m] /\ step'[m] = step[m]
         /\ phase'[n] >= phase[n] /\ (Begun(n)' => Begun(n))
<1>1. PICK ok \in BOOLEAN : Ends(n, step[n], ok) /\ Effects(n, ok)
  BY DEF Through
<1>2. step[n] # "idle" /\ DiskTypes /\ DiskKept(n)
  BY DEF Through
<1>3. PlaceFacts(n)
  BY DEF NodeFacts
<1>4. /\ Advances(n, ok) /\ JobTypes
      /\ \A m \in Node \ {n} :
           phase'[m] = phase[m] /\ step'[m] = step[m] /\ failed'[m] = failed[m]
  BY <1>1, <1>2, <1>3, EndsFacts
<1>5. role' = role /\ heard' = heard /\ schema \subseteq schema'
  BY <1>1 DEF Effects
<1>6. TypeOK'
  BY <1>2, <1>4, <1>5, PhaseTable DEF TypeOK, ServiceTypeOK, DiskTypes, JobTypes
<1>7. NodeFacts(n)'
  BY <1>1, <1>2, <1>3, <1>4, <1>5, ThroughPlace, ThroughPre, ThroughUpgrade, ThroughPast
     DEF NodeFacts
<1>8. ASSUME NEW m \in Node, m # n PROVE NodeFacts(m)'
  <2>1. /\ phase'[m] = phase[m] /\ step'[m] = step[m] /\ failed'[m] = failed[m]
        /\ running'[m] = running[m] /\ status'[m] = status[m] /\ heard'[m] = heard[m]
        /\ m \in policy' <=> m \in policy
        /\ m \in upgraded' <=> m \in upgraded
        /\ m \in rendered' <=> m \in rendered
    BY <1>2, <1>4, <1>5, <1>8 DEF DiskKept
  <2>. QED BY <1>5, <2>1, KeptFacts
<1>9. phase'[n] >= phase[n] /\ (Begun(n)' => Begun(n))
  <2>1. step[n] \in Steps(n) /\ phase[n] \in 1..6
    BY <1>2, <1>3, AfterStays DEF PlaceFacts
  <2>2. phase'[n] \in {phase[n], phase[n] + 1} /\ (step'[n] # "idle" => phase'[n] = phase[n])
    BY <1>4 DEF Advances
  <2>. QED BY <1>2, <1>5, <2>1, <2>2 DEF Begun
<1>. QED
  BY <1>4, <1>5, <1>6, <1>7, <1>8, <1>9

\* A node goes on beyond "pre" after all of them.
LEMMA BeginFacts ==
  ASSUME IInv, NEW n \in Node, Begin(n)
  PROVE  IInv'
<1>1. /\ step[n] = "idle" /\ phase[n] \in 1..6 /\ MayBegin(n)
      /\ UNCHANGED <<service, disk, failed, tries, disturbances>>
      /\ TypeOK /\ NodeFacts(n)
  BY PhaseTable DEF Begin, IInv
<1>2. phase[n] > 1 => \A m \in Node : phase[m] > 1
  <2>1. phase[n] > 1 /\ phase[n] # 6 => \A m \in Node : PhaseOf(m) # "pre"
    BY <1>1, PhaseTable DEF MayBegin
  <2>2. phase[n] = 6 => \A m \in Node : PhaseOf(m) \in {"post", "done"}
    BY <1>1, PhaseTable DEF MayBegin
  <2>. QED BY <1>1, <2>1, <2>2, PhaseTable DEF IInv
<1>3. CASE StatesOf(n) = <<>>
  <2>1. phase' = [phase EXCEPT ![n] = @ + 1] /\ step' = step
    BY <1>3 DEF Begin
  <2>2. phase[n] \in {2, 4} /\ role[n] # "compute"
    <3>1. Steps(n) = {}
      BY <1>3, AfterNone
    <3>2. CASE phase[n] = 3
      BY <1>1, <3>1, <3>2, StateTable, AfterUpgrade
    <3>3. CASE phase[n] # 3
      BY <1>1, <3>1, <3>3, StateTable
    <3>. QED BY <3>2, <3>3
  <2>3. phase' \in [Node -> 1..7] /\ phase'[n] = phase[n] + 1
        /\ \A m \in Node \ {n} : phase'[m] = phase[m]
    <3>1. phase \in [Node -> 1..7]
      BY <1>1, PhaseTable DEF TypeOK
    <3>. QED BY <1>1, <2>1, <3>1
  <2>4. TypeOK'
    BY <1>1, <2>1, <2>3, PhaseTable DEF TypeOK, ServiceTypeOK, service, disk
  <2>5. NodeFacts(n)'
    <3>1. /\ role' = role /\ running' = running /\ heard' = heard /\ status' = status
          /\ policy' = policy /\ upgraded' = upgraded /\ rendered' = rendered
          /\ schema' = schema /\ failed' = failed
      BY <1>1 DEF service, disk
    <3>2. PlaceFacts(n)'
      BY <1>1, <2>1, <2>2, <2>3, <3>1 DEF NodeFacts, PlaceFacts
    <3>3. PreFacts(n)'
      BY <1>1, <2>1, <2>2, <2>3, <3>1 DEF NodeFacts, PreFacts
    <3>4. UpgradeFacts(n)'
      BY <1>1, <2>1, <2>2, <2>3, <3>1 DEF UpgradeFacts
    <3>5. PastFacts(n)' /\ ControllerFacts(n)'
      <4>1. ControllerFacts(n)'
        BY <1>1, <3>1 DEF NodeFacts, ControllerFacts
      <4>2. CASE phase[n] = 2
        BY <2>3, <4>1, <4>2 DEF PastFacts
      <4>3. CASE phase[n] = 4
        <5>1. role[n] # "other" => role[n] \in {"primary", "secondary"}
          BY <1>1, <2>2 DEF TypeOK, ServiceTypeOK, Role
        <5>. QED BY <1>1, <2>3, <3>1, <4>1, <4>3, <5>1 DEF NodeFacts, PastFacts, ControllerFacts
      <4>. QED BY <2>2, <4>2, <4>3
    <3>. QED BY <3>2, <3>3, <3>4, <3>5 DEF NodeFacts
  <2>6. ASSUME NEW m \in Node, m # n PROVE NodeFacts(m)'
    BY <1>1, <2>1, <2>3, <2>6, KeptFacts DEF IInv, service, disk
  <2>7. \A m \in Node : phase'[m] > 1
    <3>1. \A m \in Node : phase[m] > 1 /\ phase[m] \in 1..7
      BY <1>1, <1>2, <2>2, PhaseTable
    <3>. QED BY <2>3, <3>1
  <2>. QED BY <2>4, <2>5, <2>6, <2>7 DEF IInv, PreOver
<1>4. CASE StatesOf(n) # <<>>
  <2>1. step' = [step EXCEPT ![n] = StatesOf(n)[1]] /\ phase' = phase
    BY <1>4 DEF Begin
  <2>2. StatesOf(n)[1] \in Steps(n) /\ 1 \in DOMAIN StatesOf(n)
    <3>1. 1 \in DOMAIN StatesOf(n)
      BY <1>1, <1>4, PhaseTable DEF Upgrade
    <3>. QED BY <3>1 DEF Steps
  <2>3. StatesOf(n)[1] \in State
    BY <1>1, <2>2, StepsAreStates
  <2>4. /\ step' \in [Node -> State \cup {"idle"}] /\ step'[n] = StatesOf(n)[1]
        /\ \A m \in Node \ {n} : step'[m] = step[m]
    BY <1>1, <2>1, <2>3 DEF TypeOK
  <2>5. TypeOK'
    BY <1>1, <2>1, <2>4 DEF TypeOK, ServiceTypeOK, service, disk
  <2>6. NodeFacts(n)'
    <3>1. /\ role' = role /\ running' = running /\ heard' = heard /\ status' = status
          /\ policy' = policy /\ upgraded' = upgraded /\ rendered' = rendered
          /\ schema' = schema /\ failed' = failed
      BY <1>1 DEF service, disk
    <3>2. PlaceFacts(n)'
      <4>1. Steps(n)' = Steps(n)
        BY <2>1, <3>1, StepsKept
      <4>2. step'[n] # "idle"
        BY <1>1, <2>2, <2>4, StepsAreStates
      <4>. QED BY <1>1, <2>1, <2>2, <2>4, <3>1, <4>1, <4>2 DEF NodeFacts, PlaceFacts
    <3>3. PreFacts(n)'
      <4>1. role[n] = "primary" /\ phase[n] = 1 => step'[n] = "online"
        BY <1>1, <2>4, PhaseTable
      <4>. QED BY <1>1, <2>1, <3>1, <4>1 DEF NodeFacts, PreFacts
    <3>4. UpgradeFacts(n)'
      <4>1. phase[n] = 3 => step'[n] = "stop"
        BY <1>1, <2>4, PhaseTable DEF Upgrade
      <4>. QED BY <1>1, <2>1, <3>1, <4>1 DEF NodeFacts, UpgradeFacts
    <3>5. PastFacts(n)' /\ ControllerFacts(n)'
      BY <1>1, <2>1, <3>1 DEF NodeFacts, PastFacts, ControllerFacts
    <3>. QED BY <3>2, <3>3, <3>4, <3>5 DEF NodeFacts
  <2>7. ASSUME NEW m \in Node, m # n PROVE NodeFacts(m)'
    BY <1>1, <2>1, <2>4, <2>7, KeptFacts DEF IInv, service, disk
  <2>8. PreOver'
    <3>1. CASE phase[n] > 1
      BY <1>2, <2>1, <3>1 DEF PreOver
    <3>2. CASE ~(phase[n] > 1)
      <4>1. phase[n] = 1
        BY <1>1, <3>2
      <4>2. \A m \in Node : Begun(m)' => Begun(m)
        BY <1>1, <2>1, <2>4, <4>1 DEF Begun, service
      <4>. QED BY <2>1, <4>2 DEF IInv, PreOver
    <3>. QED BY <3>1, <3>2
  <2>. QED BY <2>5, <2>6, <2>7, <2>8 DEF IInv
<1>. QED
  BY <1>3, <1>4

-----------------------------------------------------------------------------
(***************************************************************************)
(* The inductive invariant.                                                *)
(***************************************************************************)

LEMMA StepInv == IInv /\ [Next]_vars => IInv'
<1> SUFFICES ASSUME IInv, [Next]_vars PROVE IInv'
  OBVIOUS
<1>a. TypeOK /\ (\A n \in Node : NodeFacts(n)) /\ PreOver
  BY DEF IInv
<1>1. ASSUME NEW n \in Node, Through(n) PROVE IInv'
  <2>1. /\ \A m \in Node : NodeFacts(m)'
        /\ TypeOK' /\ role' = role
        /\ \A m \in Node \ {n} : phase'[m] = phase[m] /\ step'[m] = step[m]
        /\ phase'[n] >= phase[n] /\ (Begun(n)' => Begun(n))
    BY <1>1, <1>a, ThroughNode
  <2>2. \A m \in Node : Begun(m)' => Begun(m)
    BY <2>1 DEF Begun
  <2>3. \A m \in Node : phase[m] \in 1..7 /\ phase'[m] \in 1..7
    BY <1>a, <2>1, PhaseTable DEF TypeOK
  <2>4. \A m \in Node : phase[m] > 1 => phase'[m] > 1
    BY <2>1, <2>3
  <2>5. PreOver'
    BY <1>a, <2>2, <2>4 DEF PreOver
  <2>. QED BY <2>1, <2>5 DEF IInv
<1>2. ASSUME NEW n \in Node, Begin(n) PROVE IInv'
  BY <1>2, BeginFacts
<1>3. ASSUME NEW n \in Node, Pauses(n) \/ Heartbeat(n) PROVE IInv'
  <2>1. /\ role' = role /\ running' = running /\ status' = status
        /\ UNCHANGED <<disk, phase, step, failed>>
        /\ \A m \in Node : running[m] /\ heard[m] => heard'[m]
        /\ heard' \in [Node -> BOOLEAN]
        /\ tries' \in [Node -> 0..(Retries - 1)] /\ disturbances' \in 0..MaxDisturbances[role]
    <3>1. CASE Pauses(n)
      BY <1>a, <3>1 DEF Pauses, service, TypeOK, ServiceTypeOK
    <3>2. CASE Heartbeat(n)
      BY <1>a, <3>2 DEF Heartbeat, Beat, Expire, job, TypeOK, ServiceTypeOK
    <3>. QED BY <1>3, <3>1, <3>2
  <2>2. TypeOK'
    BY <1>a, <2>1 DEF TypeOK, ServiceTypeOK, disk
  <2>3. ASSUME NEW m \in Node PROVE NodeFacts(m)'
    BY <1>a, <2>1, KeptFacts DEF disk
  <2>4. PreOver'
    BY <1>a, <2>1 DEF PreOver, Begun
  <2>. QED BY <2>2, <2>3, <2>4 DEF IInv
<1>4. ASSUME NEW n \in Node, Kill(n) PROVE IInv'
  <2>1. /\ step[n] # "idle" /\ UNCHANGED <<service, disk, phase>>
        /\ step' = [step EXCEPT ![n] = "idle"] /\ failed' = [failed EXCEPT ![n] = {}]
        /\ tries' = [tries EXCEPT ![n] = 0] /\ disturbances' \in 0..MaxDisturbances[role]
    BY <1>4, <1>a, BoundType DEF Kill
  <2>2. TypeOK'
    BY <1>a, <2>1, UpgradeAssumption DEF TypeOK, ServiceTypeOK, service, disk
  <2>3. /\ step'[n] = "idle" /\ failed'[n] = {}
        /\ \A m \in Node \ {n} : step'[m] = step[m] /\ failed'[m] = failed[m]
    BY <1>a, <2>1 DEF TypeOK
  <2>4. NodeFacts(n)'
    <3>1. /\ role' = role /\ running' = running /\ heard' = heard /\ status' = status
          /\ policy' = policy /\ upgraded' = upgraded /\ rendered' = rendered
          /\ schema' = schema /\ phase' = phase
      BY <2>1 DEF service, disk
    <3>2. PlaceFacts(n)' /\ PreFacts(n)'
      BY <1>a, <2>3, <3>1 DEF NodeFacts, PlaceFacts, PreFacts
    <3>3. UpgradeFacts(n)'
      BY <1>a, <2>3, <3>1 DEF NodeFacts, UpgradeFacts
    <3>4. PastFacts(n)' /\ ControllerFacts(n)'
      BY <1>a, <3>1 DEF NodeFacts, PastFacts, ControllerFacts
    <3>. QED BY <3>2, <3>3, <3>4 DEF NodeFacts
  <2>5. ASSUME NEW m \in Node, m # n PROVE NodeFacts(m)'
    BY <1>a, <2>1, <2>3, <2>5, KeptFacts DEF service, disk
  <2>6. PreOver'
    <3>1. \A m \in Node : Begun(m)' => Begun(m)
      BY <2>1, <2>3 DEF Begun, service
    <3>. QED BY <1>a, <2>1, <3>1 DEF PreOver
  <2>. QED BY <2>2, <2>4, <2>5, <2>6 DEF IInv
<1>5. CASE UNCHANGED vars
  <2>1. UNCHANGED <<service, disk, job>>
    BY <1>5 DEF vars
  <2>2. TypeOK'
    BY <1>a, <2>1 DEF TypeOK, ServiceTypeOK, service, disk, job
  <2>3. ASSUME NEW m \in Node PROVE NodeFacts(m)'
    BY <1>a, <2>1, KeptFacts DEF service, disk, job
  <2>4. PreOver'
    BY <1>a, <2>1 DEF PreOver, Begun, service, job
  <2>. QED BY <2>2, <2>3, <2>4 DEF IInv
<1>. QED
  BY <1>1, <1>2, <1>3, <1>4, <1>5, <1>a, ApplyThrough DEF Next

LEMMA InitInv == Init => IInv
<1> SUFFICES ASSUME Init PROVE IInv
  OBVIOUS
<1>1. Len(Phase) = 7
  BY DEF Phase
<1>2. role \in Roles /\ role \in [Node -> Role] /\ MaxDisturbances[role] \in Nat /\ Retries \in Nat \ {0}
  BY UpgradeAssumption DEF Init, ServiceInit
<1>3. TypeOK
  BY <1>1, <1>2 DEF Init, ServiceInit, TypeOK, ServiceTypeOK
<1>4. ASSUME NEW n \in Node PROVE NodeFacts(n)
  <2>1. /\ step[n] = "idle" /\ failed[n] = {} /\ upgraded = {}
        /\ phase[n] = IF role[n] = "other" THEN 7 ELSE 1
        /\ role[n] \in {"primary", "secondary"} => status[n] = "enabled"
    BY <1>1 DEF Init, ServiceInit, Controllers
  <2>. QED BY <2>1 DEF NodeFacts, PlaceFacts, PreFacts, UpgradeFacts, PastFacts, ControllerFacts
<1>5. PreOver
  <2>1. \A n \in Node : step[n] = "idle" /\ phase[n] = IF role[n] = "other" THEN 7 ELSE 1
    BY <1>1 DEF Init
  <2>. QED BY <2>1 DEF PreOver, Begun
<1>. QED
  BY <1>3, <1>4, <1>5 DEF IInv

\* The variables of the model stay within their types.
THEOREM TypeCorrect == Spec => []TypeOK
<1>1. IInv => TypeOK
  BY DEF IInv
<1>. QED
  BY <1>1, InitInv, StepInv, PTL DEF Spec

\* A node that the orchestrator is through upgrading is upgraded, whatever failed before
\* on it or on others, and how far they have come.
THEOREM UpgradesAreComplete == Spec => []UpgradeIsComplete
<1>1. IInv => UpgradeIsComplete
  <2> SUFFICES ASSUME IInv, NEW n \in Node, role[n] # "other", phase[n] > 3
               PROVE  /\ n \in upgraded \cap rendered /\ n \notin policy
                      /\ running[n]
                      /\ role[n] = "primary" => {"apidb", "cells", "syncdb"} \subseteq schema
                      /\ phase[n] > 5 => heard[n] /\ status[n] = "enabled"
    BY DEF UpgradeIsComplete, Past
  <2>1. phase[n] \in 1..7 /\ (phase[n] > 5 => phase[n] > 4)
    BY PhaseTable DEF IInv
  <2>. QED BY <2>1 DEF IInv, NodeFacts, PastFacts
<1>. QED
  BY <1>1, InitInv, StepInv, PTL DEF Spec

-----------------------------------------------------------------------------
(***************************************************************************)
(* What a step may never do.                                               *)
(***************************************************************************)

LEMMA StepEffects ==
  ASSUME IInv, [Next]_vars
  PROVE  \/ \E n \in Node : Through(n)
         \/ running' = running /\ schema' = schema
<1>1. ASSUME NEW n \in Node, Apply(n) \/ Kill(n) \/ Heartbeat(n)
      PROVE  \/ Through(n)
             \/ running' = running /\ schema' = schema
  <2>1. CASE Apply(n) /\ ~Begin(n)
    <3>1. Through(n) \/ Pauses(n)
      BY <2>1, ApplyThrough DEF IInv
    <3>. QED BY <3>1 DEF Pauses, service, disk
  <2>2. CASE Begin(n)
    BY <2>2 DEF Begin, service, disk
  <2>3. CASE Kill(n) \/ Heartbeat(n)
    BY <2>3 DEF Kill, Heartbeat, Beat, Expire, service, disk
  <2>. QED BY <1>1, <2>1, <2>2, <2>3
<1>2. CASE UNCHANGED vars
  BY <1>2 DEF vars, service, disk
<1>. QED
  BY <1>1, <1>2 DEF Next

\* Services and databases change in the upgrade phase only, apart from the online
\* migrations.
LEMMA UpgradeSteps ==
  ASSUME IInv, NEW n \in Node,
         step[n] \in {"stop", "packages", "apidb", "syncdb", "start"}
  PROVE  phase[n] = 3 /\ role[n] # "other" /\ UpgradeFacts(n)
<1>1. TypeOK /\ NodeFacts(n)
  BY DEF IInv
<1>2. step[n] \in Steps(n) /\ phase[n] \in 1..6
  BY <1>1, AfterStays DEF NodeFacts, PlaceFacts
<1>3. CASE phase[n] = 3
  BY <1>1, <1>3 DEF NodeFacts, PlaceFacts
<1>4. CASE phase[n] \in {1, 2}
  BY <1>1, <1>2, <1>4, StateTable
<1>5. CASE phase[n] \in {4, 5, 6}
  BY <1>1, <1>2, <1>5, StateTable
<1>. QED
  BY <1>2, <1>3, <1>4, <1>5

\* The services of a node change by its own steps.
LEMMA RunningSteps ==
  ASSUME IInv, [Next]_vars, NEW n \in Node
  PROVE  /\ running[n] /\ ~running'[n] => step[n] = "stop"
         /\ ~running[n] /\ running'[n] => step[n] = "start"
<1>1. CASE running' = running
  BY <1>1
<1>2. ASSUME NEW m \in Node, Through(m), m # n
      PROVE  running'[n] = running[n]
  BY <1>2 DEF Through, DiskKept
<1>3. ASSUME Through(n)
      PROVE  /\ running[n] /\ ~running'[n] => step[n] = "stop"
             /\ ~running[n] /\ running'[n] => step[n] = "start"
  <2>1. /\ running[n] /\ ~running'[n] => step[n] = "stop"
        /\ ~running[n] /\ running'[n] =>
             step[n] = "start" \/ (step[n] = "packages" /\ "policy" \notin failed[n] /\ n \notin policy)
    BY <1>3 DEF Through, Effects
  <2>2. step[n] = "packages" => n \in policy \/ "policy" \in failed[n]
    BY UpgradeSteps DEF UpgradeFacts
  <2>. QED BY <2>1, <2>2
<1>. QED
  BY <1>1, <1>2, <1>3, StepEffects

\* No nova-compute stops while its host takes part in scheduling.
THEOREM StoppedOutOfScheduling == Spec => StopsOutOfScheduling
<1>1. IInv /\ [Next]_vars =>
        [\A n \in Computes : running[n] /\ ~running'[n] => status[n] = "disabled"]_vars
  <2> SUFFICES ASSUME IInv, [Next]_vars, NEW n \in Computes, running[n], ~running'[n]
               PROVE  status[n] = "disabled"
    OBVIOUS
  <2>1. n \in Node /\ role[n] \notin {"primary", "secondary"}
    BY DEF Computes, Controllers
  <2>2. step[n] = "stop"
    BY <2>1, RunningSteps
  <2>3. phase[n] = 3 /\ role[n] # "other" /\ UpgradeFacts(n)
    BY <2>1, <2>2, UpgradeSteps
  <2>4. role[n] = "compute"
    BY <2>1, <2>3 DEF IInv, TypeOK, ServiceTypeOK, Role
  <2>. QED BY <2>3, <2>4 DEF UpgradeFacts
<1>. QED
  BY <1>1, InitInv, StepInv, PTL DEF Spec, StopsOutOfScheduling

\* Services that were stopped are started by service_running, and never by packages.
THEOREM NothingAutostarts == Spec => NoAutostart
<1>1. IInv /\ [Next]_vars => [\A n \in Node : ~running[n] /\ running'[n] => step[n] = "start"]_vars
  BY RunningSteps
<1>. QED
  BY <1>1, InitInv, StepInv, PTL DEF Spec, NoAutostart

\* The services of the primary controller start over databases that are not migrated
\* only in an application where that failed, which does not count as a success.
THEOREM StartsAreMigrated == Spec => StartsMigrated
<1>1. IInv /\ [Next]_vars =>
        [\A n \in Node :
           role[n] = "primary" /\ ~running[n] /\ running'[n]
             => \/ {"apidb", "cells", "syncdb"} \subseteq schema
                \/ failed[n] \cap Migrating # {} /\ phase'[n] = phase[n]]_vars
  <2> SUFFICES ASSUME IInv, [Next]_vars, NEW n \in Node, role[n] = "primary",
                      ~running[n], running'[n], failed[n] \cap Migrating # {}
               PROVE  phase'[n] = phase[n]
    <3>1. ASSUME IInv, [Next]_vars, NEW n \in Node, role[n] = "primary",
                 ~running[n], running'[n], failed[n] \cap Migrating = {}
          PROVE  {"apidb", "cells", "syncdb"} \subseteq schema
      <4>1. step[n] = "start"
        BY <3>1, RunningSteps
      <4>. QED BY <3>1, <4>1, UpgradeSteps DEF UpgradeFacts
    <3>. QED BY <3>1
  <2>1. running' # running
    OBVIOUS
  <2>2. PICK m \in Node : Through(m)
    BY <2>1, StepEffects
  <2>3. m = n
    BY <2>2 DEF Through, DiskKept
  <2>4. PICK ok \in BOOLEAN : Ends(n, step[n], ok) /\ step[n] # "idle"
    BY <2>2, <2>3 DEF Through
  <2>5. Advances(n, ok)
    BY <2>4, EndsFacts DEF IInv, NodeFacts
  <2>6. failed[n] # {}
    OBVIOUS
  <2>. QED BY <2>5, <2>6 DEF Advances
<1>. QED
  BY <1>1, InitInv, StepInv, PTL DEF Spec, StartsMigrated

\* The schema is migrated after the online migrations, even by a node that does not
\* make them, and over services that are down.
THEOREM SyncsAreOffline == Spec => SyncIsOffline
<1>1. IInv /\ [Next]_vars =>
        [\A n \in Node :
           (step[n] = "apidb" \/ step[n] = "syncdb") /\ step'[n] # step[n] /\ schema' # schema
             => "online" \in schema /\ (running[n] => "stop" \in failed[n])]_vars
  <2> SUFFICES ASSUME IInv, [Next]_vars, NEW n \in Node, step[n] = "apidb" \/ step[n] = "syncdb"
               PROVE  "online" \in schema /\ (running[n] => "stop" \in failed[n])
    OBVIOUS
  <2>1. phase[n] = 3 /\ role[n] # "other" /\ UpgradeFacts(n)
    BY UpgradeSteps
  <2>2. running[n] => "stop" \in failed[n]
    BY <2>1 DEF UpgradeFacts
  <2>3. PICK p \in Node : role[p] = "primary"
    BY UpgradeAssumption DEF IInv, TypeOK
  <2>4. phase[p] > 1 /\ phase[p] \in 1..7
    <3>1. Begun(n)
      BY <2>1 DEF Begun
    <3>. QED BY <3>1, PhaseTable DEF IInv, PreOver
  <2>5. "online" \in schema
    BY <2>3, <2>4 DEF IInv, NodeFacts, PreFacts
  <2>. QED BY <2>2, <2>5
<1>. QED
  BY <1>1, InitInv, StepInv, PTL DEF Spec, SyncIsOffline

=============================================================================

-------------------------- MODULE Highstate_proofs --------------------------
(***************************************************************************)
(* Proofs about Highstate for any graph of states that Salt makes of SLS   *)
(* files in which services watch their configuration, any number of        *)
(* changes of the pillar, of failures and of kills; and for the graphs of  *)
(* the two roles with any of their optional parts.                         *)
(***************************************************************************)
EXTENDS ControllerState, ComputeState, SequenceTheorems, TLAPS

\* Services that have not read what an earlier application did not leave unread.
Late == {v \in sls.services : Unread(v) # {} /\ v \notin behind}

\* After the first k - 1 states of p: if none of them failed, the services among them
\* run with the configuration on disk; the others will restart, since a state that
\* they watch has changed what they have not read.
LiveFacts(p, k) ==
  failed = {} =>
    /\ \A i \in 1..(k - 1) : p[i] \in sls.services => p[i] \in running \ Late
    /\ \A i \in k..Len(p) : p[i] \in Late => sls.watches[p[i]] \cap changed # {}

\* What the states before have left behind, unless they failed.
DoneFacts(p, k) ==
  \A i \in 1..(k - 1) :
    p[i] \notin failed =>
      /\ p[i] \in sls.files => p[i] \notin outdated
      /\ p[i] = "packages" => installed
      /\ p[i] \in sls.users => uid # "none"
      /\ sls.requires[p[i]] \cap failed = {}

\* The place of the running application.
At(p, k) ==
  /\ p \in {sls.order, sls.later} /\ k \in 1..Len(p)
  /\ todo = Left(p, k)
  /\ uid = "none" => p = sls.order
  /\ failed \subseteq {p[i] : i \in 1..(k - 1)}
  /\ LiveFacts(p, k) /\ DoneFacts(p, k)

IInv ==
  /\ TypeOK
  /\ todo = <<>> => SuccessIsLive
  /\ todo # <<>> => report = "none" /\ \E p, k : At(p, k)

-----------------------------------------------------------------------------
(***************************************************************************)
(* The graph.                                                              *)
(***************************************************************************)

LEMMA GraphFacts ==
  ASSUME sls \in SLS
  PROVE  /\ \A p \in {sls.order, sls.later} :
              /\ p \in Seq(Items) /\ IsInjective(p)
              /\ Items \ sls.users \subseteq Range(p)
              /\ \A i, j \in DOMAIN p : p[j] \in sls.requires[p[i]] => j < i
         /\ sls.files \subseteq Items /\ sls.services \subseteq Items
         /\ sls.services \cap UNION {sls.files, sls.users, {"packages", "user_nova_bash"}} = {}
         /\ sls.files \cap UNION {sls.users, {"packages", "user_nova_bash"}} = {}
         /\ "packages" \notin sls.users
         /\ \A v \in sls.services :
              /\ sls.watches[v] \subseteq sls.requires[v]
              /\ Configuration(v) \cap sls.files \subseteq sls.watches[v]
BY GraphAssumption DEF Compiled, Items

LEMMA LeftFacts ==
  ASSUME NEW S, NEW p \in Seq(S), NEW k \in 1..(Len(p) + 1)
  PROVE  /\ Left(p, k) = <<>> <=> k = Len(p) + 1
         /\ k \in 1..Len(p) => /\ Head(Left(p, k)) = p[k]
                               /\ Tail(Left(p, k)) = Left(p, k + 1)
         /\ Range(Left(p, k)) = {p[j] : j \in k..Len(p)}
         /\ Left(p, 1) = p
<1>1. Len(p) \in Nat /\ k \in Int /\ \A i \in k..Len(p) : p[i] \in S
  BY ElementOfSeq, LenProperties
<1>2. /\ Left(p, k) \in Seq(S)
      /\ Len(Left(p, k)) = IF k <= Len(p) THEN Len(p) - k + 1 ELSE 0
      /\ \A i \in 1..(Len(p) - k + 1) : Left(p, k)[i] = p[k + i - 1]
  BY <1>1, SubSeqProperties DEF Left
<1>3. Left(p, k) = <<>> <=> k = Len(p) + 1
  BY <1>1, <1>2, EmptySeq
<1>4. k \in 1..Len(p) => /\ Head(Left(p, k)) = p[k]
                         /\ Tail(Left(p, k)) = Left(p, k + 1)
  BY <1>1, HeadTailOfSubSeq DEF Left
<1>5. Range(Left(p, k)) = {p[j] : j \in k..Len(p)}
  <2>1. DOMAIN Left(p, k) = 1..(Len(p) - k + 1)
    BY <1>1, <1>2, LenProperties
  <2>2. \A i \in 1..(Len(p) - k + 1) : k + i - 1 \in k..Len(p)
    BY <1>1
  <2>3. \A j \in k..Len(p) : j - k + 1 \in 1..(Len(p) - k + 1) /\ p[j] = Left(p, k)[j - k + 1]
    BY <1>1, <1>2
  <2>. DEFINE left == Left(p, k)
  <2>4. \A i \in DOMAIN left : left[i] \in {p[j] : j \in k..Len(p)}
    BY <1>2, <2>1, <2>2
  <2>5. \A j \in k..Len(p) : \E i \in DOMAIN left : left[i] = p[j]
    BY <2>1, <2>3
  <2>. HIDE DEF left
  <2>6. Range(left) = {p[j] : j \in k..Len(p)}
    BY <2>4, <2>5 DEF Range
  <2>. QED BY <2>6 DEF left
<1>6. Left(p, 1) = p
  BY SubSeqFull DEF Left
<1>. QED
  BY <1>3, <1>4, <1>5, <1>6

\* A state is there once.
LEMMA PlaceIsUnique ==
  ASSUME sls \in SLS, NEW p \in {sls.order, sls.later},
         NEW i \in 1..Len(p), NEW j \in 1..Len(p), p[i] = p[j]
  PROVE  i = j
<1>1. p \in Seq(Items) /\ IsInjective(p)
  BY GraphFacts
<1>2. DOMAIN p = 1..Len(p)
  BY <1>1, LenProperties
<1>. QED
  BY <1>1, <1>2 DEF IsInjective

\* What a state requires and is not a user has been applied before it.
LEMMA RequiredBefore ==
  ASSUME sls \in SLS, NEW p \in {sls.order, sls.later}, NEW k \in 1..Len(p),
         NEW s \in Items, s \in sls.requires[p[k]], s \notin sls.users
  PROVE  \E i \in 1..(k - 1) : p[i] = s
<1>1. /\ p \in Seq(Items) /\ Items \ sls.users \subseteq Range(p)
      /\ \A i, j \in DOMAIN p : p[j] \in sls.requires[p[i]] => j < i
  BY GraphFacts
<1>2. DOMAIN p = 1..Len(p) /\ Len(p) \in Nat
  BY <1>1, LenProperties
<1>3. PICK j \in DOMAIN p : p[j] = s
  BY <1>1 DEF Range
<1>4. j < k
  BY <1>1, <1>2, <1>3
<1>. QED
  BY <1>2, <1>3, <1>4

LEMMA NotRequiredLater ==
  ASSUME sls \in SLS, NEW p \in {sls.order, sls.later}, NEW i \in 1..Len(p),
         NEW j \in i..Len(p)
  PROVE  p[j] \notin sls.requires[p[i]]
<1>1. /\ p \in Seq(Items)
      /\ \A h, l \in DOMAIN p : p[l] \in sls.requires[p[h]] => l < h
  BY GraphFacts
<1>2. DOMAIN p = 1..Len(p) /\ Len(p) \in Nat
  BY <1>1, LenProperties
<1>. QED
  BY <1>1, <1>2

-----------------------------------------------------------------------------
(***************************************************************************)
(* A state that Salt is through with.                                      *)
(***************************************************************************)

\* What the state s does if it succeeds, and otherwise may have done.
Effects(s, ok) ==
  /\ running \subseteq running' /\ running' \subseteq sls.services
  /\ stale' \in [sls.services -> SUBSET sls.files]
  /\ outdated' \subseteq outdated
  /\ installed' \in BOOLEAN /\ uid' \in {"none", "pillar", "other"}
  /\ installed => installed'
  /\ uid # "none" => uid' # "none"
  /\ uid' = "other" =>
       \/ uid = "other" \/ s = "user_nova_bash"
       \/ s = "packages" /\ uid = "none" /\ sls.requires[s] \cap failed = {}
  /\ disturbances' \in 0..MaxDisturbances
  /\ ok =>
       /\ sls.requires[s] \cap failed = {}
       /\ s \in sls.files => s \notin outdated'
       /\ s = "packages" => installed'
       /\ s \in sls.users => uid' # "none"
       /\ s \in sls.services =>
            /\ s \in running'
            /\ \/ stale'[s] = {}
               \/ stale'[s] = stale[s] /\ sls.watches[s] \cap changed = {}
       /\ \A v \in sls.services \ {s} :
            \/ stale'[v] = stale[v]
            \/ s \in sls.files /\ s \in changed' /\ stale'[v] \subseteq stale[v] \cup {s}

Through(s) ==
  \E ok, change \in BOOLEAN : Ends(s, ok, change) /\ Effects(s, ok)

LEMMA BoundType ==
  ASSUME TypeOK
  PROVE  /\ disturbances \in 0..MaxDisturbances /\ MaxDisturbances \in Nat
         /\ disturbances < MaxDisturbances => disturbances + 1 \in 0..MaxDisturbances
BY GraphAssumption DEF TypeOK

LEMMA ExecutesFacts ==
  ASSUME TypeOK, NEW s, NEW took \in BOOLEAN, NEW change \in BOOLEAN,
         Executes(s, took, change)
  PROVE  /\ sls.requires[s] \cap failed = {} /\ disturbances' \in 0..MaxDisturbances
         /\ \/ took /\ Ends(s, TRUE, change)
            \/ Ends(s, FALSE, FALSE)
BY BoundType DEF Executes, Blocked

LEMMA PassThrough ==
  ASSUME TypeOK, NEW s, Pass(s)
  PROVE  Through(s)
BY BoundType DEF Pass, Through, Effects, TypeOK

LEMMA FileThrough ==
  ASSUME TypeOK, NEW s, File(s)
  PROVE  Through(s)
<1>1. PICK took \in BOOLEAN :
        LET writes == took /\ s \in outdated
        IN  /\ Executes(s, took, writes)
            /\ outdated' = IF writes THEN outdated \ {s} ELSE outdated
            /\ stale' = [v \in sls.services |->
                           IF writes /\ v \in running THEN stale[v] \cup {s} ELSE stale[v]]
  BY DEF File
<1>. DEFINE writes == took /\ s \in outdated
<1>2. /\ writes \in BOOLEAN /\ Executes(s, took, writes)
      /\ outdated' = IF writes THEN outdated \ {s} ELSE outdated
      /\ stale' = [v \in sls.services |->
                     IF writes /\ v \in running THEN stale[v] \cup {s} ELSE stale[v]]
  BY <1>1, GraphFacts DEF File, TypeOK
<1>3. /\ s \in sls.files /\ s \notin sls.services /\ s # "packages"
      /\ s \notin sls.users /\ UNCHANGED <<running, installed, uid>>
  BY GraphFacts DEF File, TypeOK
<1>. HIDE DEF writes
<1>4. /\ sls.requires[s] \cap failed = {} /\ disturbances' \in 0..MaxDisturbances
      /\ \/ took /\ Ends(s, TRUE, writes)
         \/ Ends(s, FALSE, FALSE)
  BY <1>2, ExecutesFacts
<1>5. /\ stale' \in [sls.services -> SUBSET sls.files]
      /\ \A v \in sls.services : stale'[v] = stale[v] \/ (writes /\ stale'[v] = stale[v] \cup {s})
  BY <1>2, <1>3 DEF TypeOK
<1>6. ASSUME took, Ends(s, TRUE, writes) PROVE Through(s)
  <2>1. writes => s \in changed'
    BY <1>6 DEF Ends
  <2>2. s \notin outdated'
    BY <1>2, <1>6 DEF writes
  <2>. QED BY <1>2, <1>3, <1>4, <1>5, <1>6, <2>1, <2>2 DEF Through, Effects, TypeOK
<1>7. ASSUME Ends(s, FALSE, FALSE) PROVE Through(s)
  BY <1>2, <1>3, <1>4, <1>5, <1>7 DEF Through, Effects, TypeOK
<1>. QED
  BY <1>4, <1>6, <1>7

LEMMA ServiceThrough ==
  ASSUME TypeOK, NEW s, Service(s)
  PROVE  Through(s)
<1>1. PICK took \in BOOLEAN :
        LET restarts == took /\ Restarts(s)
        IN  /\ Executes(s, took, restarts)
            /\ running' = IF restarts THEN running \cup {s} ELSE running
            /\ stale' = IF restarts THEN [stale EXCEPT ![s] = {}] ELSE stale
  BY DEF Service
<1>. DEFINE restarts == took /\ Restarts(s)
<1>2. /\ restarts \in BOOLEAN /\ Executes(s, took, restarts)
      /\ running' = IF restarts THEN running \cup {s} ELSE running
      /\ stale' = IF restarts THEN [stale EXCEPT ![s] = {}] ELSE stale
  BY <1>1 DEF Restarts
<1>3. /\ s \in sls.services /\ s \notin sls.files /\ s # "packages"
      /\ s \notin sls.users /\ UNCHANGED <<outdated, installed, uid>>
  BY GraphFacts DEF Service, TypeOK
<1>4. took /\ ~restarts => s \in running /\ sls.watches[s] \cap changed = {}
  BY DEF Restarts
<1>. HIDE DEF restarts
<1>5. /\ sls.requires[s] \cap failed = {} /\ disturbances' \in 0..MaxDisturbances
      /\ \/ took /\ Ends(s, TRUE, restarts)
         \/ Ends(s, FALSE, FALSE)
  BY <1>2, ExecutesFacts
<1>6. /\ stale' \in [sls.services -> SUBSET sls.files]
      /\ \A v \in sls.services \ {s} : stale'[v] = stale[v]
      /\ restarts => stale'[s] = {} /\ s \in running'
      /\ ~restarts => stale' = stale /\ running' = running
      /\ running \subseteq running' /\ running' \subseteq sls.services
  BY <1>2, <1>3 DEF TypeOK
<1>7. ASSUME took, Ends(s, TRUE, restarts) PROVE Through(s)
  BY <1>2, <1>3, <1>4, <1>5, <1>6, <1>7 DEF Through, Effects, TypeOK
<1>8. ASSUME Ends(s, FALSE, FALSE) PROVE Through(s)
  BY <1>3, <1>5, <1>6, <1>8 DEF Through, Effects, TypeOK
<1>. QED
  BY <1>5, <1>7, <1>8

LEMMA PackagesThrough ==
  ASSUME TypeOK, NEW s, Packages(s)
  PROVE  Through(s)
<1>1. PICK took \in BOOLEAN :
        LET installs == took /\ ~installed
        IN  /\ Executes(s, took, installs)
            /\ installed' = (installed \/ installs)
            /\ running' = IF installs THEN Autostarted ELSE running
            /\ uid' = IF installs /\ uid = "none" THEN "other" ELSE uid
  BY DEF Packages
<1>. DEFINE installs == took /\ ~installed
<1>2. /\ installs \in BOOLEAN /\ Executes(s, took, installs)
      /\ running \subseteq running' /\ running' \subseteq sls.services
      /\ uid' \in {"none", "pillar", "other"} /\ installed' \in BOOLEAN
      /\ uid' # uid => uid = "none" /\ uid' = "other"
      /\ installed => installed'
      /\ took => installed'
  BY <1>1 DEF TypeOK, Autostarted
<1>3. /\ s \notin sls.files /\ s \notin sls.services /\ s = "packages" /\ s \notin sls.users
      /\ UNCHANGED <<outdated, stale>>
  BY GraphFacts DEF Packages, TypeOK
<1>. HIDE DEF installs
<1>4. /\ sls.requires[s] \cap failed = {} /\ disturbances' \in 0..MaxDisturbances
      /\ \/ took /\ Ends(s, TRUE, installs)
         \/ Ends(s, FALSE, FALSE)
  BY <1>2, ExecutesFacts
<1>5. ASSUME took, Ends(s, TRUE, installs) PROVE Through(s)
  BY <1>2, <1>3, <1>4, <1>5 DEF Through, Effects, TypeOK
<1>6. ASSUME Ends(s, FALSE, FALSE) PROVE Through(s)
  BY <1>2, <1>3, <1>4, <1>6 DEF Through, Effects, TypeOK
<1>. QED
  BY <1>4, <1>5, <1>6

LEMMA UserThrough ==
  ASSUME TypeOK, NEW s, User(s)
  PROVE  Through(s)
<1>1. PICK took \in BOOLEAN :
        LET creates == took /\ uid = "none"
        IN  /\ Executes(s, took, creates)
            /\ uid' = IF ~creates THEN uid ELSE IF s \in sls.users THEN "pillar" ELSE "other"
  BY DEF User
<1>. DEFINE creates == took /\ uid = "none"
<1>2. /\ creates \in BOOLEAN /\ Executes(s, took, creates)
      /\ uid' \in {"none", "pillar", "other"}
      /\ uid # "none" => uid' # "none"
      /\ uid' = "other" => uid = "other" \/ s \notin sls.users
      /\ took => uid' # "none"
  BY <1>1 DEF TypeOK
<1>3. /\ s \notin sls.files /\ s \notin sls.services /\ s # "packages"
      /\ s \in sls.users \/ s = "user_nova_bash"
      /\ UNCHANGED <<outdated, running, stale, installed>>
  BY GraphFacts DEF User, TypeOK
<1>. HIDE DEF creates
<1>4. /\ sls.requires[s] \cap failed = {} /\ disturbances' \in 0..MaxDisturbances
      /\ \/ took /\ Ends(s, TRUE, creates)
         \/ Ends(s, FALSE, FALSE)
  BY <1>2, ExecutesFacts
<1>5. ASSUME took, Ends(s, TRUE, creates) PROVE Through(s)
  BY <1>2, <1>3, <1>4, <1>5 DEF Through, Effects, TypeOK
<1>6. ASSUME Ends(s, FALSE, FALSE) PROVE Through(s)
  BY <1>2, <1>3, <1>4, <1>6 DEF Through, Effects, TypeOK
<1>. QED
  BY <1>4, <1>5, <1>6

LEMMA CommandThrough ==
  ASSUME TypeOK, NEW s, Command(s)
  PROVE  Through(s)
<1>1. /\ s \notin sls.files /\ s \notin sls.services /\ s # "packages"
      /\ s \notin sls.users /\ UNCHANGED <<outdated, running, stale, installed, uid>>
      /\ Executes(s, TRUE, TRUE)
  BY DEF Command
<1>2. /\ sls.requires[s] \cap failed = {} /\ disturbances' \in 0..MaxDisturbances
      /\ Ends(s, TRUE, TRUE) \/ Ends(s, FALSE, FALSE)
  BY <1>1, ExecutesFacts
<1>. QED
  BY <1>1, <1>2 DEF Through, Effects, TypeOK

LEMMA StepThrough ==
  ASSUME TypeOK, Step
  PROVE  todo # <<>> /\ Through(Head(todo))
BY PassThrough, FileThrough, ServiceThrough, PackagesThrough, UserThrough, CommandThrough
   DEF Step

-----------------------------------------------------------------------------
(***************************************************************************)
(* The next place.                                                         *)
(***************************************************************************)

\* The configuration of an earlier service is not written any more.
LEMMA WrittenBefore ==
  ASSUME sls \in SLS, NEW p \in {sls.order, sls.later}, NEW k \in 1..Len(p),
         NEW i \in 1..k, p[i] \in sls.services, p[k] \in sls.files
  PROVE  p[k] \notin Configuration(p[i])
<1>1. p \in Seq(Items) /\ Len(p) \in Nat
  BY GraphFacts, LenProperties
<1>2. i \in 1..Len(p) /\ k \in i..Len(p)
  BY <1>1
<1>3. p[k] \notin sls.requires[p[i]]
  BY <1>2, NotRequiredLater
<1>. QED
  BY <1>3, GraphFacts

LEMMA LiveAgain ==
  ASSUME TypeOK, NEW p, NEW k, NEW next, next = k + 1, At(p, k), Through(p[k])
  PROVE  LiveFacts(p, next)'
<1>1. PICK ok, change \in BOOLEAN : Ends(p[k], ok, change) /\ Effects(p[k], ok)
  BY DEF Through
<1>2. /\ sls \in SLS /\ p \in {sls.order, sls.later} /\ k \in 1..Len(p)
      /\ p \in Seq(Items) /\ Len(p) \in Nat
      /\ stale \in [sls.services -> SUBSET sls.files]
  BY GraphFacts, LenProperties DEF TypeOK, At
<1>3. SUFFICES ASSUME failed' = {}
               PROVE  LiveFacts(p, next)'
  BY DEF LiveFacts
<1>4. ok /\ failed = {}
  BY <1>1, <1>3 DEF Ends
<1>5. /\ \A i \in 1..(k - 1) : p[i] \in sls.services => p[i] \in running \ Late
      /\ \A i \in k..Len(p) : p[i] \in Late => sls.watches[p[i]] \cap changed # {}
  BY <1>4 DEF At, LiveFacts
<1>6. /\ changed \subseteq changed' /\ running \subseteq running'
      /\ p[k] \in sls.services =>
           /\ p[k] \in running'
           /\ \/ stale'[p[k]] = {}
              \/ stale'[p[k]] = stale[p[k]] /\ sls.watches[p[k]] \cap changed = {}
      /\ \A v \in sls.services \ {p[k]} :
           \/ stale'[v] = stale[v]
           \/ /\ p[k] \in sls.files /\ p[k] \in changed'
              /\ stale'[v] \subseteq stale[v] \cup {p[k]}
  BY <1>1, <1>4 DEF Ends, Effects
<1>7. /\ UNCHANGED <<sls, behind>>
      /\ \A v \in sls.services :
           /\ v \in Late <=> stale[v] \cap Configuration(v) # {} /\ v \notin behind
           /\ v \in Late' <=> stale'[v] \cap Configuration(v) # {} /\ v \notin behind
      /\ Late' \subseteq sls.services
  BY <1>1 DEF Ends, Late, Unread, Configuration
<1>8. ASSUME NEW i \in 1..(k - 1), p[i] \in sls.services
      PROVE  p[i] \in running' \ Late'
  <2>1. i \in 1..k /\ i \in 1..Len(p) /\ i # k
    BY <1>2
  <2>2. p[i] # p[k]
    BY <1>2, <2>1, PlaceIsUnique
  <2>3. p[k] \in sls.files => p[k] \notin Configuration(p[i])
    BY <1>2, <1>8, <2>1, WrittenBefore
  <2>4. stale'[p[i]] \cap Configuration(p[i]) \subseteq stale[p[i]] \cap Configuration(p[i])
    BY <1>6, <1>8, <2>2, <2>3
  <2>. QED BY <1>5, <1>6, <1>7, <1>8, <2>4
<1>9. ASSUME p[k] \in sls.services
      PROVE  p[k] \in running' \ Late'
  <2>1. k \in k..Len(p)
    BY <1>2
  <2>. QED BY <1>5, <1>6, <1>7, <1>9, <2>1
<1>10. ASSUME NEW i \in (k + 1)..Len(p), p[i] \in Late'
       PROVE  sls.watches[p[i]] \cap changed' # {}
  <2>1. i \in k..Len(p) /\ i \in 1..Len(p) /\ i # k
    BY <1>2
  <2>2. p[i] # p[k]
    BY <1>2, <2>1, PlaceIsUnique
  <2>3. p[i] \in sls.services
    BY <1>7, <1>10
  <2>4. p[k] \in Configuration(p[i]) /\ p[k] \in sls.files => p[k] \in sls.watches[p[i]]
    BY <1>2, <2>3, GraphFacts
  <2>5. \/ stale'[p[i]] \cap Configuration(p[i]) \subseteq stale[p[i]] \cap Configuration(p[i])
        \/ p[k] \in sls.watches[p[i]] /\ p[k] \in changed'
    BY <1>6, <2>2, <2>3, <2>4
  <2>6. p[i] \in Late => sls.watches[p[i]] \cap changed # {}
    BY <1>5, <2>1
  <2>. QED BY <1>6, <1>7, <1>10, <2>3, <2>5, <2>6
<1>11. \A i \in 1..k : p[i] \in sls.services => p[i] \in running' \ Late'
  <2>1. \A i \in 1..k : i = k \/ i \in 1..(k - 1)
    BY <1>2
  <2>. QED BY <1>8, <1>9, <2>1
<1>12. next - 1 = k
  BY <1>2
<1>13. \A i \in 1..(next - 1) : p[i] \in sls.services => p[i] \in running' \ Late'
  BY <1>11, <1>12
<1>14. \A i \in next..Len(p) : p[i] \in Late' => sls.watches[p[i]] \cap changed' # {}
  BY <1>10
<1>. QED
  BY <1>7, <1>13, <1>14 DEF LiveFacts

LEMMA DoneAgain ==
  ASSUME TypeOK, NEW p, NEW k, NEW next, next = k + 1, At(p, k), Through(p[k])
  PROVE  /\ DoneFacts(p, next)'
         /\ failed' \subseteq {p[i] : i \in 1..k}
<1>1. PICK ok, change \in BOOLEAN : Ends(p[k], ok, change) /\ Effects(p[k], ok)
  BY DEF Through
<1>2. /\ sls \in SLS /\ p \in {sls.order, sls.later} /\ k \in 1..Len(p)
      /\ p \in Seq(Items) /\ Len(p) \in Nat
      /\ failed \subseteq {p[i] : i \in 1..(k - 1)} /\ DoneFacts(p, k)
  BY GraphFacts, LenProperties DEF TypeOK, At
<1>3. /\ failed' = IF ok THEN failed ELSE failed \cup {p[k]}
      /\ sls' = sls
      /\ outdated' \subseteq outdated /\ (installed => installed')
      /\ uid # "none" => uid' # "none"
      /\ ok => /\ sls.requires[p[k]] \cap failed = {}
               /\ p[k] \in sls.files => p[k] \notin outdated'
               /\ p[k] = "packages" => installed'
               /\ p[k] \in sls.users => uid' # "none"
  BY <1>1 DEF Ends, Effects
<1>4. \A i \in 1..k : p[k] \notin sls.requires[p[i]]
  <2>1. \A i \in 1..k : i \in 1..Len(p) /\ k \in i..Len(p)
    BY <1>2
  <2>. QED BY <1>2, <2>1, NotRequiredLater
<1>5. failed' \subseteq {p[i] : i \in 1..k}
  <2>1. \A i \in 1..(k - 1) : i \in 1..k
    BY <1>2
  <2>2. k \in 1..k
    BY <1>2
  <2>. QED BY <1>2, <1>3, <2>1, <2>2
<1>6. \A i \in 1..k :
        p[i] \notin failed' =>
          /\ p[i] \in sls.files => p[i] \notin outdated'
          /\ p[i] = "packages" => installed'
          /\ p[i] \in sls.users => uid' # "none"
          /\ sls.requires[p[i]] \cap failed' = {}
  <2>1. ASSUME NEW i \in 1..(k - 1), p[i] \notin failed'
        PROVE  /\ p[i] \in sls.files => p[i] \notin outdated'
               /\ p[i] = "packages" => installed'
               /\ p[i] \in sls.users => uid' # "none"
               /\ sls.requires[p[i]] \cap failed' = {}
    <3>1. i \in 1..k
      BY <1>2
    <3>2. p[i] \notin failed
      BY <1>3, <2>1
    <3>. QED BY <1>2, <1>3, <1>4, <2>1, <3>1, <3>2 DEF DoneFacts
  <2>2. \A i \in 1..k : i = k \/ i \in 1..(k - 1)
    BY <1>2
  <2>3. p[k] \notin failed' => ok
    BY <1>3
  <2>4. k \in 1..k
    BY <1>2
  <2>5. p[k] \notin failed' =>
          /\ p[k] \in sls.files => p[k] \notin outdated'
          /\ p[k] = "packages" => installed'
          /\ p[k] \in sls.users => uid' # "none"
          /\ sls.requires[p[k]] \cap failed' = {}
    BY <1>3, <2>3
  <2>. QED BY <2>1, <2>2, <2>5
<1>7. next - 1 = k
  BY <1>2
<1>8. \A i \in 1..(next - 1) :
        p[i] \notin failed' =>
          /\ p[i] \in sls'.files => p[i] \notin outdated'
          /\ p[i] = "packages" => installed'
          /\ p[i] \in sls'.users => uid' # "none"
          /\ sls'.requires[p[i]] \cap failed' = {}
  BY <1>3, <1>6, <1>7
<1>. QED
  BY <1>5, <1>8 DEF DoneFacts

\* Every service is applied.
LEMMA ServicesApplied ==
  ASSUME sls \in SLS, NEW p \in {sls.order, sls.later}, NEW v \in sls.services
  PROVE  \E i \in 1..Len(p) : v = p[i]
<1>1. /\ p \in Seq(Items) /\ DOMAIN p = 1..Len(p)
      /\ Items \ sls.users \subseteq Range(p)
      /\ sls.services \subseteq Items \ sls.users
  BY GraphFacts, LenProperties
<1>. QED
  BY <1>1 DEF Range

LEMMA PlaceType ==
  ASSUME TypeOK, NEW p, NEW k, At(p, k)
  PROVE  /\ sls \in SLS /\ p \in {sls.order, sls.later} /\ p \in Seq(Items)
         /\ Len(p) \in Nat /\ k \in 1..Len(p)
         /\ k \in 1..(Len(p) + 1) /\ k + 1 \in 1..(Len(p) + 1)
         /\ todo # <<>> /\ Head(todo) = p[k] /\ p[k] \in Items
         /\ Tail(todo) = Left(p, k + 1)
         /\ Tail(todo) = <<>> <=> k = Len(p)
<1>1. /\ sls \in SLS /\ p \in {sls.order, sls.later} /\ p \in Seq(Items)
      /\ Len(p) \in Nat /\ k \in 1..Len(p) /\ todo = Left(p, k)
  BY GraphFacts, LenProperties DEF TypeOK, At
<1>2. k \in 1..(Len(p) + 1) /\ k + 1 \in 1..(Len(p) + 1) /\ p[k] \in Items
  BY <1>1, ElementOfSeq
<1>3. todo # <<>> /\ Head(todo) = p[k] /\ Tail(todo) = Left(p, k + 1)
  <2>1. k # Len(p) + 1
    BY <1>1
  <2>. QED BY <1>1, <1>2, <2>1, LeftFacts
<1>4. Left(p, k + 1) = <<>> <=> k + 1 = Len(p) + 1
  BY <1>1, <1>2, LeftFacts
<1>5. k + 1 = Len(p) + 1 <=> k = Len(p)
  BY <1>1
<1>. QED
  BY <1>1, <1>2, <1>3, <1>4, <1>5

LEMMA TypeAgain ==
  ASSUME TypeOK, NEW p, NEW k, At(p, k), Through(p[k])
  PROVE  TypeOK'
<1>1. PICK ok, change \in BOOLEAN : Ends(p[k], ok, change) /\ Effects(p[k], ok)
  BY DEF Through
<1>2. /\ p \in {sls.order, sls.later} /\ k + 1 \in 1..(Len(p) + 1) /\ p[k] \in Items
      /\ todo' = Left(p, k + 1) /\ sls' = sls
  BY <1>1, PlaceType DEF Ends
<1>3. \E q \in {sls'.order, sls'.later} : \E l \in 1..(Len(q) + 1) : todo' = Left(q, l)
  BY <1>2
<1>4. /\ failed' \subseteq Items' /\ changed' \subseteq Items'
      /\ report' \in {"none", "success", "failure"}
      /\ behind' = behind /\ edits' = edits
  BY <1>1, <1>2 DEF Ends, TypeOK, Items
<1>5. /\ running' \subseteq sls.services
      /\ stale' \in [sls.services -> SUBSET sls.files]
      /\ outdated' \subseteq outdated
      /\ installed' \in BOOLEAN /\ uid' \in {"none", "pillar", "other"}
      /\ disturbances' \in 0..MaxDisturbances
  BY <1>1 DEF Effects
<1>. QED
  BY <1>2, <1>3, <1>4, <1>5 DEF TypeOK, Left

LEMMA NextPlace ==
  ASSUME TypeOK, report = "none", NEW p, NEW k, At(p, k), Through(p[k])
  PROVE  IInv'
<1>1. PICK ok, change \in BOOLEAN : Ends(p[k], ok, change) /\ Effects(p[k], ok)
  BY DEF Through
<1>2. PICK next : next = k + 1
  OBVIOUS
<1>3. /\ p \in {sls'.order, sls'.later} /\ Len(p) \in Nat /\ k \in 1..Len(p)
      /\ todo' = Left(p, next) /\ sls' = sls /\ behind' = behind
      /\ todo' = <<>> <=> k = Len(p)
      /\ report' = IF todo' # <<>> THEN report
                   ELSE IF failed' = {} THEN "success" ELSE "failure"
      /\ uid' = "none" => p = sls'.order
  BY <1>1, <1>2, PlaceType DEF Ends, Effects, At
<1>4. TypeOK' /\ LiveFacts(p, next)' /\ DoneFacts(p, next)'
      /\ failed' \subseteq {p[i] : i \in 1..k}
  BY <1>2, TypeAgain, LiveAgain, DoneAgain
<1>5. ASSUME todo' # <<>> PROVE report' = "none" /\ At(p, next)'
  <2>1. next \in 1..Len(p) /\ next - 1 = k /\ 1..(next - 1) = 1..k
    BY <1>2, <1>3, <1>5
  <2>2. failed' \subseteq {p[i] : i \in 1..(next - 1)}
    BY <1>4, <2>1
  <2>. QED BY <1>3, <1>4, <1>5, <2>1, <2>2 DEF At, Left
<1>6. ASSUME todo' = <<>> PROVE SuccessIsLive'
  <2>1. SUFFICES ASSUME failed' = {}
                 PROVE  \A v \in sls.services :
                          v \in running' /\ (Unread(v)' # {} => v \in behind')
    BY <1>3, <1>6 DEF SuccessIsLive
  <2>2. next = Len(p) + 1
    BY <1>2, <1>3, <1>6
  <2>3. next - 1 = Len(p)
    BY <1>3, <2>2
  <2>4. \A i \in 1..Len(p) : p[i] \in sls.services => p[i] \in running' \ Late'
    BY <1>3, <1>4, <2>1, <2>3 DEF LiveFacts
  <2>5. \A v \in sls.services : \E i \in 1..Len(p) : v = p[i]
    BY <1>3, ServicesApplied DEF TypeOK
  <2>6. \A v \in sls.services : v \in running' /\ v \notin Late'
    BY <2>4, <2>5
  <2>. QED BY <1>3, <2>6 DEF Late, Unread, Configuration
<1>. QED
  BY <1>4, <1>5, <1>6 DEF IInv

LEMMA Begun ==
  ASSUME TypeOK, Begin
  PROVE  IInv'
<1>. PICK p : p = Plan
  OBVIOUS
<1>1. /\ p \in {sls.order, sls.later} /\ todo' = p /\ sls' = sls /\ sls \in SLS
      /\ failed' = {} /\ changed' = {} /\ report' = "none"
      /\ behind' = {v \in sls.services : Unread(v) # {}}
      /\ UNCHANGED <<outdated, running, stale, installed, uid, edits, disturbances>>
      /\ uid = "none" => p = sls.order
  BY DEF Begin, Plan, TypeOK
<1>2. p \in Seq(Items) /\ Len(p) \in Nat /\ 1 \in 1..(Len(p) + 1)
  BY <1>1, GraphFacts, LenProperties
<1>3. p = Left(p, 1) /\ (p = <<>> <=> 1 = Len(p) + 1)
  BY <1>2, LeftFacts
<1>4. \E q \in {sls'.order, sls'.later} : \E l \in 1..(Len(q) + 1) : todo' = Left(q, l)
  BY <1>1, <1>2, <1>3
<1>5. TypeOK'
  BY <1>1, <1>4 DEF TypeOK, Items, Left
<1>6. todo' = <<>> => SuccessIsLive'
  BY <1>1 DEF SuccessIsLive
<1>7. ASSUME todo' # <<>> PROVE \E q, k : At(q, k)'
  <2>1. 1 \in 1..Len(p)
    BY <1>1, <1>2, <1>3, <1>7
  <2>2. Late' = {}
    BY <1>1 DEF Late, Unread, Configuration
  <2>3. 1..(1 - 1) = {}
    OBVIOUS
  <2>4. LiveFacts(p, 1)' /\ DoneFacts(p, 1)'
    BY <2>2, <2>3 DEF LiveFacts, DoneFacts
  <2>5. At(p, 1)'
    BY <1>1, <1>3, <2>1, <2>4 DEF At, Left
  <2>. QED BY <2>5
<1>. QED
  BY <1>1, <1>5, <1>6, <1>7 DEF IInv

-----------------------------------------------------------------------------
(***************************************************************************)
(* The specification.                                                      *)
(***************************************************************************)

LEMMA InitInv == Init => IInv
<1>. SUFFICES ASSUME Init PROVE IInv
  OBVIOUS
<1>1. sls \in SLS /\ MaxEdits \in Nat /\ MaxDisturbances \in Nat
  BY GraphAssumption DEF Init
<1>2. sls.order \in Seq(Items) /\ Len(sls.order) \in Nat
  BY <1>1, GraphFacts, LenProperties
<1>3. Len(sls.order) + 1 \in 1..(Len(sls.order) + 1)
  BY <1>2
<1>4. todo = Left(sls.order, Len(sls.order) + 1)
  BY <1>2, <1>3, LeftFacts DEF Init
<1>5. \E p \in {sls.order, sls.later} : \E k \in 1..(Len(p) + 1) : todo = Left(p, k)
  BY <1>3, <1>4
<1>6. stale \in [sls.services -> SUBSET sls.files] /\ 0 \in 0..MaxEdits /\ 0 \in 0..MaxDisturbances
  BY <1>1 DEF Init
<1>7. TypeOK
  BY <1>1, <1>5, <1>6 DEF Init, TypeOK
<1>. QED
  BY <1>7 DEF Init, IInv, SuccessIsLive

LEMMA StepInv == IInv /\ [Next]_vars => IInv'
<1>. SUFFICES ASSUME IInv, [Next]_vars PROVE IInv'
  OBVIOUS
<1>1. CASE Begin
  BY <1>1, Begun DEF IInv
<1>2. CASE Step
  <2>1. todo # <<>> /\ Through(Head(todo)) /\ TypeOK
    BY <1>2, StepThrough DEF IInv
  <2>2. PICK p, k : At(p, k)
    BY <2>1 DEF IInv
  <2>3. Head(todo) = p[k] /\ report = "none"
    BY <2>1, <2>2, PlaceType DEF IInv
  <2>. QED BY <2>1, <2>2, <2>3, NextPlace
<1>3. CASE Kill
  <2>1. /\ sls \in SLS /\ todo' = <<>> /\ report' = "failure" /\ TypeOK
        /\ disturbances' \in 0..MaxDisturbances
        /\ UNCHANGED <<sls, failed, changed, outdated, running, stale, installed, uid, behind,
                       edits>>
    BY <1>3, BoundType DEF Kill, IInv, TypeOK
  <2>2. sls.order \in Seq(Items) /\ Len(sls.order) \in Nat
    BY <2>1, GraphFacts, LenProperties
  <2>3. Len(sls.order) + 1 \in 1..(Len(sls.order) + 1)
    BY <2>2
  <2>4. todo' = Left(sls.order, Len(sls.order) + 1)
    BY <2>1, <2>2, <2>3, LeftFacts
  <2>5. \E p \in {sls'.order, sls'.later} : \E k \in 1..(Len(p) + 1) : todo' = Left(p, k)
    BY <2>1, <2>3, <2>4
  <2>6. TypeOK'
    BY <2>1, <2>5 DEF TypeOK, Items, Left
  <2>. QED BY <2>1, <2>6 DEF IInv, SuccessIsLive
<1>4. CASE Edit
  <2>1. /\ todo = <<>> /\ TypeOK /\ SuccessIsLive
        /\ edits' \in 0..MaxEdits
        /\ outdated' \subseteq sls.files
        /\ UNCHANGED <<sls, todo, failed, changed, report, running, stale, installed, uid,
                       behind, disturbances>>
    <3>1. edits \in Nat /\ edits < MaxEdits /\ edits' = edits + 1 /\ MaxEdits \in Nat
      BY <1>4, GraphAssumption DEF Edit, IInv, TypeOK
    <3>2. edits' \in 0..MaxEdits
      BY <3>1
    <3>. QED BY <1>4, <3>2 DEF Edit, IInv, TypeOK
  <2>2. TypeOK'
    BY <2>1 DEF TypeOK, Items, Left
  <2>. QED BY <2>1, <2>2 DEF IInv, SuccessIsLive, Unread, Configuration
<1>5. CASE UNCHANGED vars
  <2>1. UNCHANGED <<sls, todo, failed, changed, report, outdated, running, stale, installed,
                    uid, behind, edits, disturbances>>
    BY <1>5 DEF vars
  <2>2. TypeOK'
    BY <2>1 DEF TypeOK, Items, Left, IInv
  <2>3. todo = <<>> => SuccessIsLive'
    BY <2>1 DEF IInv, SuccessIsLive, Unread, Configuration
  <2>4. ASSUME todo # <<>> PROVE \E p, k : At(p, k)'
    <3>1. PICK p, k : At(p, k)
      BY <2>4 DEF IInv
    <3>2. Late' = Late
      BY <2>1 DEF Late, Unread, Configuration
    <3>3. LiveFacts(p, k)' /\ DoneFacts(p, k)'
      BY <2>1, <3>1, <3>2 DEF At, LiveFacts, DoneFacts
    <3>4. At(p, k)'
      BY <2>1, <3>1, <3>3 DEF At, Left
    <3>. QED BY <3>4
  <2>. QED BY <2>1, <2>2, <2>3, <2>4 DEF IInv
<1>. QED
  BY <1>1, <1>2, <1>3, <1>4, <1>5 DEF Next, Apply

\* Whatever the graphs, the variables have their types: a service that runs, a file
\* that is outdated or read, and a state that failed are of the graph of the node.
THEOREM TypeCorrect == Spec => []TypeOK
<1>1. IInv => TypeOK
  BY DEF IInv
<1>. QED
  BY InitInv, StepInv, <1>1, PTL DEF Spec

\* An application without a failure leaves every service running with the configuration
\* on disk, however many were killed or failed before it, unless the service had not
\* read its configuration when the application began.
THEOREM SuccessesAreLive == Spec => []SuccessIsLive
<1>1. IInv => SuccessIsLive
  BY DEF IInv, SuccessIsLive
<1>. QED
  BY InitInv, StepInv, <1>1, PTL DEF Spec

-----------------------------------------------------------------------------
(***************************************************************************)
(* What the requisites of the graphs bring about.                          *)
(***************************************************************************)

\* The services of nova require the migration and nova.conf.
MigratesFirst ==
  \A g \in SLS :
    /\ "conf" \in g.files /\ g.sync \cap g.users = {}
    /\ \A v \in g.services \ {"libvirt", "virtlogd"} : g.sync \cup {"conf"} \subseteq g.requires[v]

\* The migration requires nova.conf, and that the packages.
ConfiguresFirst ==
  \A g \in SLS :
    /\ "conf" \in g.files
    /\ g.sync # {} => "packages" \in g.requires["conf"] \cap Range(g.order)
    /\ \A s \in g.sync : "conf" \in g.requires[s]

\* The packages require a user with the ids of the pillar.
CreatesUserFirst ==
  \A g \in SLS :
    g.users # {} /\ "user_nova_bash" \notin Range(g.order) =>
      \E u \in g.users \cap Range(g.order) : u \in g.requires["packages"]

\* What a state that is not blocked requires has been applied without a failure.
LEMMA RequirementsDone ==
  ASSUME TypeOK, NEW p, NEW k, At(p, k), NEW s \in Items, s \notin sls.users,
         s \in sls.requires[p[k]], sls.requires[p[k]] \cap failed = {}
  PROVE  /\ s \notin failed /\ s \notin Range(todo)
         /\ s \in sls.files => s \notin outdated
         /\ s = "packages" => installed
         /\ sls.requires[s] \cap failed = {}
<1>1. /\ sls \in SLS /\ p \in {sls.order, sls.later} /\ p \in Seq(Items)
      /\ Len(p) \in Nat /\ k \in 1..Len(p) /\ todo = Left(p, k) /\ k \in 1..(Len(p) + 1)
  BY PlaceType DEF At
<1>2. PICK i \in 1..(k - 1) : p[i] = s
  BY <1>1, RequiredBefore
<1>3. s \notin failed
  OBVIOUS
<1>4. \A j \in k..Len(p) : p[j] # s
  <2>. SUFFICES ASSUME NEW j \in k..Len(p), p[j] = s PROVE FALSE
    OBVIOUS
  <2>1. i \in 1..Len(p) /\ j \in 1..Len(p) /\ i # j
    BY <1>1
  <2>. QED BY <1>1, <1>2, <2>1, PlaceIsUnique
<1>5. Range(todo) = {p[j] : j \in k..Len(p)}
  BY <1>1, LeftFacts
<1>6. s \notin Range(todo)
  BY <1>4, <1>5
<1>. QED
  BY <1>2, <1>3, <1>6 DEF At, DoneFacts

LEMMA StartIsService ==
  ASSUME IInv, [Next]_vars, NEW v \in sls.services, Starts(v)
  PROVE  /\ sls.requires[v] \cap failed = {} /\ sls.requires[v] \subseteq Items
         /\ \E p, k : At(p, k) /\ p[k] = v
<1>1. todo # <<>> /\ Head(todo) = v /\ sls \in SLS
  BY DEF Starts, IInv, TypeOK
<1>2. v \notin sls.files /\ v \notin sls.users \cup {"packages", "user_nova_bash"}
  BY <1>1, GraphFacts
<1>3. ~UNCHANGED <<running, stale>>
  BY DEF Starts
<1>4. Step
  BY <1>1, <1>3 DEF Next, Apply, Begin, Kill, Edit, vars
<1>5. ~Pass(v)
  BY <1>3 DEF Pass
<1>6. Service(v)
  BY <1>1, <1>2, <1>4, <1>5 DEF Step, Packages, User, File, Command
<1>7. ~Blocked(v)
  BY <1>6 DEF Service, Executes
<1>8. PICK p, k : At(p, k)
  BY <1>1 DEF IInv
<1>9. Head(todo) = p[k]
  BY <1>8, PlaceType DEF IInv
<1>. QED
  BY <1>1, <1>7, <1>8, <1>9 DEF Blocked

\* A service of nova starts with the present nova.conf, and after the databases were
\* migrated in the same application, if its requisites say so.
THEOREM StartsAreMigrated ==
  ASSUME MigratesFirst
  PROVE  Spec => StartsOnMigratedDatabase
<1>1. ASSUME IInv, [Next]_vars, NEW v \in sls.services \ {"libvirt", "virtlogd"}, Starts(v)
      PROVE  sls.sync \cap (failed \cup Range(todo)) = {} /\ "conf" \notin outdated
  <2>1. /\ sls \in SLS /\ "conf" \in sls.files /\ sls.files \cap sls.users = {}
        /\ sls.sync \cap sls.users = {} /\ sls.sync \cup {"conf"} \subseteq sls.requires[v]
    BY <1>1, GraphFacts DEF IInv, TypeOK, MigratesFirst
  <2>2. sls.requires[v] \cap failed = {} /\ sls.requires[v] \subseteq Items
    BY <1>1, StartIsService
  <2>3. PICK p, k : At(p, k) /\ p[k] = v
    BY <1>1, StartIsService
  <2>4. \A s \in sls.sync \cup {"conf"} :
          /\ s \notin failed /\ s \notin Range(todo)
          /\ s \in sls.files => s \notin outdated
    BY <1>1, <2>1, <2>2, <2>3, RequirementsDone DEF IInv
  <2>. QED BY <2>1, <2>4
<1>2. IInv /\ [Next]_vars =>
        [\A v \in sls.services \ {"libvirt", "virtlogd"} :
           Starts(v) => /\ sls.sync \cap (failed \cup Range(todo)) = {}
                        /\ "conf" \notin outdated]_vars
  BY <1>1
<1>. QED
  BY InitInv, StepInv, <1>2, PTL DEF Spec, StartsOnMigratedDatabase

\* The databases are migrated with the present nova.conf and installed packages, if
\* the requisites say so.
THEOREM SyncsAreConfigured ==
  ASSUME ConfiguresFirst
  PROVE  Spec => SyncWithConfig
<1>1. ASSUME IInv, Next, NEW s \in sls.sync,
             todo # <<>>, Head(todo) = s, todo' # <<>>, s \notin failed'
      PROVE  installed /\ "conf" \notin outdated
  <2>1. PICK p, k : At(p, k)
    BY <1>1 DEF IInv
  <2>2. /\ sls \in SLS /\ TypeOK /\ s = p[k]
        /\ p \in {sls.order, sls.later} /\ Len(p) \in Nat /\ k \in 1..Len(p)
    BY <1>1, <2>1, PlaceType DEF IInv, TypeOK
  <2>3. /\ "conf" \in sls.files /\ "conf" \in Items /\ "packages" \in Items
        /\ "conf" \notin sls.users /\ "packages" \notin sls.users
        /\ "conf" \in sls.requires[s] /\ "packages" \in sls.requires["conf"]
    BY <1>1, <2>2, GraphFacts DEF ConfiguresFirst, Items
  <2>4. Step
    BY <1>1 DEF Next, Apply, Begin, Kill, Edit
  <2>5. sls.requires[s] \cap failed = {}
    BY <1>1, <2>2, <2>4, StepThrough DEF Through, Ends, Effects
  <2>6. /\ "conf" \notin failed /\ "conf" \notin outdated
        /\ sls.requires["conf"] \cap failed = {}
    BY <2>1, <2>2, <2>3, <2>5, RequirementsDone
  <2>7. PICK i \in 1..(k - 1) : p[i] = "conf"
    BY <2>2, <2>3, RequiredBefore
  <2>8. i \in 1..Len(p)
    BY <2>2
  <2>9. PICK j \in 1..(i - 1) : p[j] = "packages"
    BY <2>2, <2>3, <2>7, <2>8, RequiredBefore
  <2>10. j \in 1..(k - 1) /\ "packages" \notin failed
    BY <2>2, <2>3, <2>6, <2>8
  <2>11. installed
    BY <2>1, <2>9, <2>10 DEF At, DoneFacts
  <2>. QED BY <2>6, <2>11
<1>2. IInv /\ [Next]_vars =>
        [\A s \in sls.sync :
           todo # <<>> /\ Head(todo) = s /\ todo' # <<>> /\ s \notin failed'
             => installed /\ "conf" \notin outdated]_vars
  BY <1>1
<1>. QED
  BY InitInv, StepInv, <1>2, PTL DEF Spec, SyncWithConfig

\* The user nova has the ids of the pillar wherever the graph creates it with them
\* before the packages, whatever fails.
THEOREM IdsAreOfPillar ==
  ASSUME CreatesUserFirst
  PROVE  Spec => []IdsFromPillar
<1>1. Init => IdsFromPillar
  BY DEF Init, IdsFromPillar
<1>2. ASSUME IInv, IdsFromPillar, [Next]_vars
      PROVE  IdsFromPillar'
  <2>1. sls' = sls
    BY <1>2 DEF Next, Apply, Begin, Step, Pass, Packages, User, File, Service, Command,
                Executes, Ends, Kill, Edit, vars
  <2>2. SUFFICES ASSUME sls.users # {}, "user_nova_bash" \notin Items, uid # "other", uid' = "other"
                 PROVE  FALSE
    BY <1>2, <2>1 DEF IdsFromPillar, Items
  <2>3. Step
    BY <1>2, <2>2 DEF Next, Apply, Begin, Kill, Edit, vars
  <2>4. PICK p, k : At(p, k)
    BY <1>2, <2>3 DEF IInv, Step
  <2>5. /\ sls \in SLS /\ TypeOK /\ Head(todo) = p[k] /\ p[k] \in Items
        /\ p \in Seq(Items) /\ Len(p) \in Nat /\ k \in 1..Len(p)
    BY <1>2, <2>4, PlaceType DEF IInv
  <2>6. p[k] = "packages" /\ uid = "none" /\ sls.requires[p[k]] \cap failed = {}
    BY <2>2, <2>3, <2>5, StepThrough DEF Through, Effects
  <2>7. p = sls.order
    BY <2>4, <2>6 DEF At
  <2>8. PICK u \in sls.users \cap Items : u \in sls.requires[p[k]]
    BY <2>2, <2>5, <2>6 DEF CreatesUserFirst, Items
  <2>9. DOMAIN p = 1..Len(p) /\ \A i, j \in DOMAIN p : p[j] \in sls.requires[p[i]] => j < i
    BY <2>5, <2>7, GraphFacts, LenProperties
  <2>10. PICK i \in 1..Len(p) : p[i] = u
    BY <2>7, <2>8, <2>9 DEF Items, Range
  <2>11. i \in 1..(k - 1)
    BY <2>5, <2>8, <2>9, <2>10
  <2>12. uid # "none"
    BY <2>4, <2>6, <2>8, <2>10, <2>11 DEF At, DoneFacts
  <2>. QED BY <2>6, <2>12
<1>. QED
  BY InitInv, StepInv, <1>1, <1>2, PTL DEF Spec

-----------------------------------------------------------------------------
(***************************************************************************)
(* The graphs of controller.sls and compute.sls with any of their optional *)
(* parts.                                                                  *)
(***************************************************************************)

Roles ==
  {Controller(f) : f \in SUBSET ControllerFeature} \cup {Compute(f) : f \in SUBSET ComputeFeature}

\* What a graph requires, at states that are there.
LEMMA RequiredAt ==
  ASSUME NEW order, NEW require, NEW requireIn, NEW watch, NEW watchIn, NEW files,
         NEW services, NEW users, NEW sync, NEW g,
         g = SLSGraph(order, require, requireIn, watch, watchIn, files, services, users, sync),
         NEW s \in Range(order), NEW r
  PROVE  /\ <<s, r>> \in require => r \in g.requires[s]
         /\ <<s, r>> \in requireIn /\ r \in Range(order) => r \in g.requires[s]
         /\ <<s, r>> \in watch => r \in g.requires[s]
<1>. DEFINE items == Range(order)
            Of(x, pairs) == {p[2] : p \in {q \in pairs : q[1] = x}}
            watches == [x \in items |-> Of(x, watch) \cup (Of(x, watchIn) \cap items)]
<1>1. g.requires[s] = UNION {Of(s, require), Of(s, requireIn) \cap items, watches[s]}
  BY DEF SLSGraph
<1>2. \A pairs : <<s, r>> \in pairs => r \in Of(s, pairs)
  <2>. SUFFICES ASSUME NEW pairs, <<s, r>> \in pairs PROVE r \in Of(s, pairs)
    OBVIOUS
  <2>1. PICK p : p = <<s, r>>
    OBVIOUS
  <2>2. p \in {q \in pairs : q[1] = s} /\ p[2] = r
    BY <2>1
  <2>. QED BY <2>2
<1>3. watches[s] = Of(s, watch) \cup (Of(s, watchIn) \cap items)
  OBVIOUS
<1>. QED
  BY <1>1, <1>2, <1>3

\* Joining sequences loses no item.
LEMMA Joined ==
  ASSUME NEW S, NEW s \in Seq(S), NEW t \in Seq(S)
  PROVE  s \o t \in Seq(S) /\ Range(s) \cup Range(t) \subseteq Range(s \o t)
<1>1. s \o t \in Seq(S) /\ Len(s \o t) = Len(s) + Len(t)
  BY ConcatProperties
<1>2. \A i \in 1..Len(s) : (s \o t)[i] = s[i] /\ i \in 1..Len(s \o t)
  BY <1>1, ConcatProperties
<1>3. \A i \in 1..Len(t) : (s \o t)[Len(s) + i] = t[i] /\ Len(s) + i \in 1..Len(s \o t)
  BY <1>1, ConcatProperties
<1>. QED
  BY <1>1, <1>2, <1>3, LenProperties DEF Range

LEMMA JoinedFour ==
  ASSUME NEW S, NEW s \in Seq(S), NEW t \in Seq(S), NEW u \in Seq(S), NEW v \in Seq(S)
  PROVE  s \o t \o u \o v \in Seq(S) /\ Range(s) \subseteq Range(s \o t \o u \o v)
<1>1. s \o t \in Seq(S) /\ Range(s) \subseteq Range(s \o t)
  BY Joined
<1>2. PICK x \in Seq(S) : x = s \o t
  BY <1>1
<1>3. x \o u \in Seq(S) /\ Range(x) \subseteq Range(x \o u)
  BY Joined
<1>4. PICK y \in Seq(S) : y = x \o u
  BY <1>3
<1>5. y \o v \in Seq(S) /\ Range(y) \subseteq Range(y \o v)
  BY Joined
<1>. QED
  BY <1>1, <1>2, <1>3, <1>4, <1>5

\* The orders of both roles are made of eleven parts; this is what the first and the
\* third of them leave in the whole.
LEMMA ElevenParts ==
  ASSUME NEW S, NEW p, NEW whole,
         /\ p[1] \in Seq(S) /\ p[2] \in Seq(S) /\ p[3] \in Seq(S) /\ p[4] \in Seq(S) /\ p[5] \in Seq(S)
         /\ p[6] \in Seq(S) /\ p[7] \in Seq(S) /\ p[8] \in Seq(S) /\ p[9] \in Seq(S)
         /\ p[10] \in Seq(S) /\ p[11] \in Seq(S),
         whole = p[1] \o p[2] \o p[3] \o p[4] \o p[5] \o p[6] \o p[7] \o p[8] \o p[9]
                   \o p[10] \o p[11]
  PROVE  Range(p[1]) \cup Range(p[3]) \subseteq Range(whole)
<1>1. PICK x : x = p[1] \o p[2]
  OBVIOUS
<1>2. x \in Seq(S) /\ Range(p[1]) \subseteq Range(x)
  BY <1>1, Joined
<1>3. PICK y : y = x \o p[3]
  OBVIOUS
<1>4. y \in Seq(S) /\ Range(x) \cup Range(p[3]) \subseteq Range(y)
  BY <1>2, <1>3, Joined
<1>5. PICK z : z = y \o p[4] \o p[5] \o p[6]
  OBVIOUS
<1>6. z \in Seq(S) /\ Range(y) \subseteq Range(z)
  BY <1>4, <1>5, JoinedFour
<1>7. PICK w : w = z \o p[7] \o p[8] \o p[9]
  OBVIOUS
<1>8. w \in Seq(S) /\ Range(z) \subseteq Range(w)
  BY <1>6, <1>7, JoinedFour
<1>9. PICK v : v = w \o p[10]
  OBVIOUS
<1>10. v \in Seq(S) /\ Range(w) \subseteq Range(v)
  BY <1>8, <1>9, Joined
<1>11. Range(v) \subseteq Range(v \o p[11])
  BY <1>10, Joined
<1>12. whole = v \o p[11]
  BY <1>1, <1>3, <1>5, <1>7, <1>9
<1>. QED
  BY <1>2, <1>4, <1>6, <1>8, <1>10, <1>11, <1>12

LEMMA WhenType ==
  ASSUME NEW S, NEW feature, NEW features, NEW items \in Seq(S)
  PROVE  When(feature, features, items) \in Seq(S)
<1>1. <<>> \in Seq(S)
  BY EmptySeq
<1>. QED
  BY <1>1 DEF When

LEMMA ControllerItems ==
  ASSUME NEW f
  PROVE  {"user", "packages", "conf"} \cup OfflineSync \subseteq Range(ControllerOrder(f))
<1>. DEFINE first == <<"debconf", "user", "packages", "ssl", "conf">>
            sync == <<"apidb", "cell0", "cell1", "syncdb", "paste", "default">>
            last == <<"placement_mask", "placement_package", "placement_conf", "placement_site",
                      "discover_hosts", "map_instances", "apache">>
<1>1. PICK S : S = Range(first) \cup Range(sync) \cup Range(last)
                     \cup {"logging", "service_logging", "vencrypt_ca", "vnc_cert", "services",
                           "online_sync", "vencrypt_keys", "vnc_key", "policy"}
  OBVIOUS
<1>2. DOMAIN first = 1..5 /\ DOMAIN sync = 1..6 /\ DOMAIN last = 1..7
  OBVIOUS
<1>3. first \in Seq(S) /\ sync \in Seq(S) /\ last \in Seq(S)
  BY <1>1, <1>2 DEF Range
<1>4. \A feature : \A item \in S : When(feature, f, <<item>>) \in Seq(S)
  BY WhenType
<1>5. <<"services", "online_sync">> \in Seq(S)
  BY <1>1
<1>6. first[2] = "user" /\ first[3] = "packages" /\ first[5] = "conf"
  OBVIOUS
<1>7. sync[1] = "apidb" /\ sync[2] = "cell0" /\ sync[3] = "cell1" /\ sync[4] = "syncdb"
  OBVIOUS
<1>8. {"user", "packages", "conf"} \subseteq Range(first) /\ OfflineSync \subseteq Range(sync)
  BY <1>2, <1>6, <1>7 DEF Range, OfflineSync
<1>. HIDE DEF first, sync, last
<1>9. Range(first) \cup Range(sync) \subseteq Range(ControllerOrder(f))
  <2>1. PICK b, d, e, g, h, i, j :
          /\ b = When("log_appender", f, <<"logging">>)
          /\ d = When("log_appender", f, <<"service_logging">>)
          /\ e = When("vencrypt", f, <<"vencrypt_ca">>) /\ g = When("tls", f, <<"vnc_cert">>)
          /\ h = When("vencrypt", f, <<"vencrypt_keys">>) /\ i = When("tls", f, <<"vnc_key">>)
          /\ j = When("policy", f, <<"policy">>)
    OBVIOUS
  <2>2. /\ b \in Seq(S) /\ d \in Seq(S) /\ e \in Seq(S) /\ g \in Seq(S) /\ h \in Seq(S)
        /\ i \in Seq(S) /\ j \in Seq(S)
    BY <1>1, <1>4, <2>1
  <2>3. ControllerOrder(f)
          = first \o b \o sync \o d \o e \o g \o <<"services", "online_sync">> \o h \o i \o j \o last
    BY <2>1 DEF ControllerOrder, first, sync, last
  <2>4. PICK p : p = <<first, b, sync, d, e, g, <<"services", "online_sync">>, h, i, j, last>>
    OBVIOUS
  <2>5. /\ p[1] \in Seq(S) /\ p[2] \in Seq(S) /\ p[3] \in Seq(S) /\ p[4] \in Seq(S) /\ p[5] \in Seq(S)
        /\ p[6] \in Seq(S) /\ p[7] \in Seq(S) /\ p[8] \in Seq(S) /\ p[9] \in Seq(S)
        /\ p[10] \in Seq(S) /\ p[11] \in Seq(S)
    BY <1>3, <1>5, <2>2, <2>4
  <2>6. ControllerOrder(f) = p[1] \o p[2] \o p[3] \o p[4] \o p[5] \o p[6] \o p[7] \o p[8] \o p[9]
                               \o p[10] \o p[11]
    BY <2>3, <2>4
  <2>7. Range(p[1]) \cup Range(p[3]) \subseteq Range(ControllerOrder(f))
    BY <2>5, <2>6, ElevenParts
  <2>. QED BY <2>4, <2>7
<1>. QED
  BY <1>8, <1>9

LEMMA ComputeItems ==
  ASSUME NEW f
  PROVE  {"user_nova_compute", "packages", "conf"} \subseteq Range(ComputeOrder(f))
<1>. DEFINE first == <<"user_nova_compute", "ssl", "packages", "log_dir">>
            users == <<"user_nova_bash", "user_libvirt_qemu", "id_rsa", "ssh_config">>
            conf == <<"conf", "default">>
            ceph == <<"secret", "secret_define", "secret_set_value">>
            libvirt == <<"libvirt_bin", "libvirt_reload", "qemu_conf", "libvirtd_conf">>
<1>1. PICK S : S = UNION {Range(first), Range(users), Range(conf), Range(ceph), Range(libvirt),
                          {"service_logging", "libvirt_tls", "qemu_tls", "services", "aggregates",
                           "virtlogd_conf", "virtlogd", "net_undefine", "libvirt"}}
  OBVIOUS
<1>2. /\ DOMAIN first = 1..4 /\ DOMAIN users = 1..4 /\ DOMAIN conf = 1..2
      /\ DOMAIN ceph = 1..3 /\ DOMAIN libvirt = 1..4
  OBVIOUS
<1>3. /\ first \in Seq(S) /\ users \in Seq(S) /\ conf \in Seq(S) /\ ceph \in Seq(S)
      /\ libvirt \in Seq(S) /\ <<"virtlogd_conf", "virtlogd">> \in Seq(S)
      /\ <<"net_undefine", "libvirt">> \in Seq(S) /\ <<"services", "aggregates">> \in Seq(S)
      /\ <<"service_logging">> \in Seq(S) /\ <<"libvirt_tls">> \in Seq(S) /\ <<"qemu_tls">> \in Seq(S)
  BY <1>1, <1>2 DEF Range
<1>4. \A feature : \A items \in Seq(S) : When(feature, f, items) \in Seq(S)
  BY WhenType
<1>6. first[1] = "user_nova_compute" /\ first[3] = "packages" /\ conf[1] = "conf"
  OBVIOUS
<1>8. {"user_nova_compute", "packages", "conf"} \subseteq Range(first) \cup Range(conf)
  BY <1>2, <1>6 DEF Range
<1>. HIDE DEF first, users, conf, ceph, libvirt
<1>9. Range(first) \cup Range(conf) \subseteq Range(ComputeOrder(f))
  <2>1. PICK b, d, e, g, h, i, j :
          /\ b = When("user", f, users)
          /\ d = When("log_appender", f, <<"service_logging">>)
          /\ e = When("libvirt_tls", f, <<"libvirt_tls">>)
          /\ g = When("qemu_tls", f, <<"qemu_tls">>)
          /\ h = <<"services", "aggregates">> /\ i = When("ceph", f, ceph)
          /\ j = When("virtlog", f, <<"virtlogd_conf", "virtlogd">>)
    OBVIOUS
  <2>2. /\ b \in Seq(S) /\ d \in Seq(S) /\ e \in Seq(S) /\ g \in Seq(S) /\ h \in Seq(S)
        /\ i \in Seq(S) /\ j \in Seq(S)
    BY <1>3, <1>4, <2>1
  <2>3. ComputeOrder(f)
          = first \o b \o conf \o d \o e \o g \o h \o i \o libvirt \o j \o <<"net_undefine", "libvirt">>
    BY <2>1 DEF ComputeOrder, first, users, conf, ceph, libvirt
  <2>4. PICK p : p = <<first, b, conf, d, e, g, h, i, libvirt, j, <<"net_undefine", "libvirt">>>>
    OBVIOUS
  <2>5. /\ p[1] \in Seq(S) /\ p[2] \in Seq(S) /\ p[3] \in Seq(S) /\ p[4] \in Seq(S) /\ p[5] \in Seq(S)
        /\ p[6] \in Seq(S) /\ p[7] \in Seq(S) /\ p[8] \in Seq(S) /\ p[9] \in Seq(S)
        /\ p[10] \in Seq(S) /\ p[11] \in Seq(S)
    BY <1>3, <2>2, <2>4
  <2>6. ComputeOrder(f) = p[1] \o p[2] \o p[3] \o p[4] \o p[5] \o p[6] \o p[7] \o p[8] \o p[9]
                            \o p[10] \o p[11]
    BY <2>3, <2>4
  <2>7. Range(p[1]) \cup Range(p[3]) \subseteq Range(ComputeOrder(f))
    BY <2>5, <2>6, ElevenParts
  <2>. QED BY <2>4, <2>7
<1>. QED
  BY <1>8, <1>9


LEMMA ControllerRequires ==
  ASSUME NEW f, NEW g, g = Controller(f)
  PROVE  /\ g.files \subseteq Range(g.order) /\ "conf" \in g.files /\ g.order = ControllerOrder(f)
         /\ g.users = {"user"} /\ g.sync = OfflineSync /\ g.services \subseteq {"apache", "services"}
         /\ \A v \in g.services : OfflineSync \cup {"conf"} \subseteq g.requires[v]
         /\ "packages" \in g.requires["conf"] \cap Range(g.order)
         /\ \A s \in OfflineSync : "conf" \in g.requires[s]
         /\ "user" \in g.requires["packages"] \cap Range(g.order)
<1>1. /\ g.order = ControllerOrder(f) /\ g.files = ControllerFiles \cap Range(ControllerOrder(f))
      /\ g.services = {"apache", "services"} \cap Range(ControllerOrder(f))
      /\ g.users = {"user"} /\ g.sync = OfflineSync
  BY DEF Controller, SLSGraph
<1>2. PICK items : items = Range(ControllerOrder(f))
  OBVIOUS
<1>3. {"user", "packages", "conf"} \cup OfflineSync \subseteq items
  BY <1>2, ControllerItems
<1>4. /\ \A s \in items : \A r : <<s, r>> \in ControllerRequire \cup ControllerWatch => r \in g.requires[s]
      /\ \A s \in items, r \in items : <<s, r>> \in ControllerRequireIn => r \in g.requires[s]
  BY <1>2, RequiredAt DEF Controller
<1>5. \A v \in {"apache", "services"} : <<v, "conf">> \in ControllerWatch
  BY DEF ControllerWatch
<1>6. \A v \in {"apache", "services"}, s \in OfflineSync : <<v, s>> \in ControllerRequire
  BY DEF ControllerRequire
<1>7. <<"conf", "packages">> \in ControllerRequire
  BY DEF ControllerRequire
<1>8. \A s \in OfflineSync : <<s, "conf">> \in ControllerRequireIn
  BY DEF ControllerRequireIn
<1>9. <<"packages", "user">> \in ControllerRequireIn
  BY DEF ControllerRequireIn
<1>. QED
  BY <1>1, <1>2, <1>3, <1>4, <1>5, <1>6, <1>7, <1>8, <1>9 DEF ControllerFiles

LEMMA ComputeRequires ==
  ASSUME NEW f, NEW g, g = Compute(f)
  PROVE  /\ "conf" \in g.files /\ g.order = ComputeOrder(f)
         /\ g.users = {"user_nova_compute"} /\ g.sync = {}
         /\ g.services \subseteq {"services", "libvirt", "virtlogd"}
         /\ "services" \in g.services => "conf" \in g.requires["services"]
         /\ "user_nova_compute" \in g.requires["packages"] \cap Range(g.order)
<1>1. /\ g.order = ComputeOrder(f) /\ g.files = ComputeFiles \cap Range(ComputeOrder(f))
      /\ g.services = {"services", "libvirt", "virtlogd"} \cap Range(ComputeOrder(f))
      /\ g.users = {"user_nova_compute"} /\ g.sync = {}
  BY DEF Compute, SLSGraph
<1>2. PICK items : items = Range(ComputeOrder(f))
  OBVIOUS
<1>3. {"user_nova_compute", "packages", "conf"} \subseteq items
  BY <1>2, ComputeItems
<1>4. /\ \A s \in items : \A r : <<s, r>> \in ComputeWatch => r \in g.requires[s]
      /\ \A s \in items, r \in items : <<s, r>> \in ComputeRequireIn => r \in g.requires[s]
  BY <1>2, RequiredAt DEF Compute
<1>5. <<"services", "conf">> \in ComputeWatch
  BY DEF ComputeWatch
<1>6. <<"packages", "user_nova_compute">> \in ComputeRequireIn
  BY DEF ComputeRequireIn
<1>. QED
  BY <1>1, <1>2, <1>3, <1>4, <1>5, <1>6 DEF ComputeFiles

LEMMA RolesRequire ==
  ASSUME SLS \subseteq Roles
  PROVE  MigratesFirst /\ ConfiguresFirst /\ CreatesUserFirst
<1>1. ASSUME NEW g \in SLS
      PROVE  (\E f : g = Controller(f)) \/ (\E f : g = Compute(f))
  BY DEF Roles
<1>2. MigratesFirst
  <2>. SUFFICES ASSUME NEW g \in SLS
                PROVE  /\ "conf" \in g.files /\ g.sync \cap g.users = {}
                       /\ \A v \in g.services \ {"libvirt", "virtlogd"} :
                            g.sync \cup {"conf"} \subseteq g.requires[v]
    BY DEF MigratesFirst
  <2>1. CASE \E f : g = Controller(f)
    BY <2>1, ControllerRequires DEF OfflineSync
  <2>2. CASE \E f : g = Compute(f)
    BY <2>2, ComputeRequires
  <2>. QED BY <1>1, <2>1, <2>2
<1>3. ConfiguresFirst
  <2>. SUFFICES ASSUME NEW g \in SLS
                PROVE  /\ "conf" \in g.files
                       /\ g.sync # {} => "packages" \in g.requires["conf"] \cap Range(g.order)
                       /\ \A s \in g.sync : "conf" \in g.requires[s]
    BY DEF ConfiguresFirst
  <2>1. CASE \E f : g = Controller(f)
    BY <2>1, ControllerRequires
  <2>2. CASE \E f : g = Compute(f)
    BY <2>2, ComputeRequires
  <2>. QED BY <1>1, <2>1, <2>2
<1>4. CreatesUserFirst
  <2>. SUFFICES ASSUME NEW g \in SLS
                PROVE  \E u \in g.users \cap Range(g.order) : u \in g.requires["packages"]
    BY DEF CreatesUserFirst
  <2>1. CASE \E f : g = Controller(f)
    BY <2>1, ControllerRequires
  <2>2. CASE \E f : g = Compute(f)
    BY <2>2, ComputeRequires
  <2>. QED BY <1>1, <2>1, <2>2
<1>. QED
  BY <1>2, <1>3, <1>4

\* Whichever of their optional parts controllers and compute nodes have, and whatever
\* fails or is killed: the services of nova start only after the migration and with the
\* present nova.conf, which the migration already finds, and the user nova has the ids
\* of the pillar where nothing else creates it.
THEOREM RolesAreInOrder ==
  ASSUME SLS \subseteq Roles
  PROVE  Spec => StartsOnMigratedDatabase /\ SyncWithConfig /\ []IdsFromPillar
BY RolesRequire, StartsAreMigrated, SyncsAreConfigured, IdsAreOfPillar

=============================================================================

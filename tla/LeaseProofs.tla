---------------------------- MODULE LeaseProofs -----------------------------
(***************************************************************************)
(* Proofs about the leases, for any number of processes and accounts.      *)
(***************************************************************************)
EXTENDS Lease, FiniteSetTheorems, TLAPS

-----------------------------------------------------------------------------
(* Types.                                                                  *)

(* A bounded event is counted.                                             *)
LEMMA CountType == ASSUME TypeOK, NEW k \in Kinds, Count(k) PROVE counts' \in [Kinds -> Nat]
  BY DEF TypeOK, Count

(* A countdown stays in range, keeps the order of two countdowns, and      *)
(* does not end in its last tick but one.                                  *)
LEMMA LessType ==
  ASSUME NEW n \in 0..LeaseTicks
  PROVE  /\ Less(n) \in 0..LeaseTicks
         /\ \A m \in 0..LeaseTicks : n <= m => Less(n) <= Less(m)
         /\ n > 1 => Less(n) > 0
  BY LeaseAssumption DEF Less

(* The share of a process is a number, whatever the others do.             *)
LEMMA ShareType == ASSUME TypeOK, NEW w \in Worker PROVE FairShare(w) \in Nat
<1>1. IsFiniteSet(Worker)
  BY FS_Interval, LeaseAssumption DEF Worker
<1>2. Cardinality(active \ deleted) \in Nat
  <2>1. active \ deleted \subseteq Account
    BY DEF TypeOK
  <2> QED BY <2>1, LeaseAssumption, FS_Subset, FS_CardinalityType
<1>3. Cardinality(Alive) \in Nat /\ (Alive # {} => Cardinality(Alive) # 0)
  <2>1. Alive \subseteq Worker
    BY DEF Alive
  <2>2. IsFiniteSet(Alive)
    BY <1>1, <2>1, FS_Subset
  <2> QED BY <2>2, FS_CardinalityType, FS_EmptySet
<1> DEFINE n == IF Alive = {} THEN 1 ELSE Cardinality(Alive)
<1>4. n \in Nat /\ n > 0
  BY <1>3
<1>5. Cardinality(active \ deleted) \div n \in Nat
  BY <1>2, <1>4, SMTT(30)
<1> HIDE DEF n
<1>6. FairLimit(Cardinality(active \ deleted), n, Rank(w)) \in Nat
  BY <1>5 DEF FairLimit
<1> QED BY <1>6 DEF FairShare, n

(* A process serves a finite number of accounts.                           *)
LEMMA ServedFinite ==
  ASSUME TypeOK, NEW w \in Worker
  PROVE  IsFiniteSet(Served(w)) /\ Cardinality(Served(w)) \in Nat
<1>1. Served(w) \subseteq Account
  BY DEF Served
<1> QED BY <1>1, LeaseAssumption, FS_Subset, FS_CardinalityType

(* What a claim may take fits under the capacity.                          *)
LEMMA ShareFits ==
  ASSUME TypeOK, NEW w \in Worker, ReadShare(w)
  PROVE  /\ quota' \in [Worker -> Nat]
         /\ pc' = [pc EXCEPT ![w] = "sync"]
            \/ (/\ pc' = [pc EXCEPT ![w] = "take"]
                /\ Cardinality(Served(w)) + quota'[w] <= Capacity)
<1>1. PICK c \in LoadLevels :
        LET limit == Least(c, FairShare(w))
            taken == Cardinality(Served(w))
        IN IF limit > taken
           THEN /\ quota' = [quota EXCEPT ![w] = Least(limit - taken, Batch)]
                /\ pc' = [pc EXCEPT ![w] = "take"]
           ELSE /\ quota' = [quota EXCEPT ![w] = 0]
                /\ pc' = [pc EXCEPT ![w] = "sync"]
  BY DEF ReadShare
<1>2. c \in Nat /\ c <= Capacity /\ Capacity \in Nat /\ Batch \in Nat
  BY LeaseAssumption
<1> DEFINE limit == Least(c, FairShare(w))
           taken == Cardinality(Served(w))
<1>3. limit \in Nat /\ limit <= Capacity /\ taken \in Nat
  BY <1>2, ShareType, ServedFinite DEF Least
<1>4. CASE limit > taken
  <2>1. Least(limit - taken, Batch) \in Nat /\ Least(limit - taken, Batch) <= limit - taken
    BY <1>2, <1>3, <1>4 DEF Least
  <2>2. /\ quota' = [quota EXCEPT ![w] = Least(limit - taken, Batch)]
        /\ pc' = [pc EXCEPT ![w] = "take"]
    BY <1>1, <1>4
  <2>3. quota'[w] = Least(limit - taken, Batch)
    BY <2>2 DEF TypeOK
  <2>4. taken + quota'[w] <= Capacity
    BY <1>2, <1>3, <2>1, <2>3
  <2> HIDE DEF limit
  <2> QED BY <2>1, <2>2, <2>4 DEF TypeOK
<1>5. CASE ~(limit > taken)
  BY <1>1, <1>5 DEF TypeOK
<1> QED BY <1>4, <1>5

(* The initial states are well formed.                                     *)
LEMMA InitType == ASSUME Init PROVE TypeOK
  BY LeaseAssumption DEF Init, AtRest, TypeOK, Kinds, Looping

(* Every step keeps the types.                                             *)
LEMMA TypeStep == ASSUME TypeOK, [Next]_vars PROVE TypeOK'
<1> USE LeaseAssumption DEF admin, sessions, round, Looping
<1>1. ASSUME NEW w \in Worker, Start(w) PROVE TypeOK'
  BY <1>1 DEF Start, TypeOK
<1>2. ASSUME NEW w \in Worker, Heartbeat(w) PROVE TypeOK'
  BY <1>2 DEF Heartbeat, TypeOK
<1>3. ASSUME NEW w \in Worker, ReadShare(w) PROVE TypeOK'
  <2>1. quota' \in [Worker -> Nat]
    BY <1>3, ShareFits
  <2>2. pc' \in [Worker -> Looping \cup {"new", "released", "down"}]
    BY <1>3, ShareFits DEF TypeOK
  <2> QED BY <1>3, <2>1, <2>2 DEF ReadShare, TypeOK
<1>4. ASSUME NEW w \in Worker, Take(w) PROVE TypeOK'
  <2>1. PICK S \in SUBSET Free :
          /\ counts' = counts \/ Count("fault")
          /\ owner' = [a \in Account |-> IF a \in S THEN w ELSE owner[a]]
          /\ left' = [a \in Account |-> IF a \in S THEN LeaseTicks ELSE left[a]]
          /\ claimed' = [claimed EXCEPT ![w] = S]
          /\ returned' = returned \ S
    BY <1>4 DEF Take
  <2>2. S \subseteq Account
    BY DEF Free, TypeOK
  <2>3. counts' \in [Kinds -> Nat]
    BY <2>1, CountType DEF TypeOK, Kinds
  <2>4. owner' \in [Account -> Worker \cup {None}] /\ left' \in [Account -> 0..LeaseTicks]
    BY <2>1 DEF TypeOK
  <2> QED BY <1>4, <2>1, <2>2, <2>3, <2>4 DEF Take, TypeOK
<1>5. ASSUME NEW w \in Worker, Sync(w) PROVE TypeOK'
  <2>1. Served(w) \subseteq Account /\ claimed[w] \subseteq Account
    BY DEF Served, TypeOK
  <2> QED BY <1>5, <2>1 DEF Sync, TypeOK
<1>6. ASSUME NEW w \in Worker, RoundFails(w) PROVE TypeOK'
  BY <1>6, CountType DEF RoundFails, TypeOK, Kinds
<1>7. ASSUME NEW w \in Worker, NEW a \in Account, Connected(w, a) PROVE TypeOK'
  BY <1>7 DEF Connected, TypeOK
<1>8. ASSUME NEW w \in Worker, NEW a \in Account, StartFails(w, a) PROVE TypeOK'
  BY <1>8, CountType DEF StartFails, TypeOK, Kinds
<1>9. ASSUME NEW w \in Worker, NEW a \in Account, Stop(w, a) PROVE TypeOK'
  BY <1>9 DEF Stop, TypeOK
<1>10. ASSUME NEW w \in Worker, NEW a \in Account, Call(w, a) PROVE TypeOK'
  BY <1>10 DEF Call, TypeOK
<1>11. ASSUME NEW w \in Worker, NEW a \in Account, CallConnects(w, a) PROVE TypeOK'
  BY <1>11 DEF CallConnects, TypeOK
<1>12. ASSUME NEW a \in Account, DisableAsk(a) PROVE TypeOK'
  <2>1. stopping' \in [Worker -> SUBSET Account]
    BY <1>12 DEF DisableAsk, Disconnect, TypeOK
  <2> QED BY <1>12, <2>1, CountType DEF DisableAsk, TypeOK, Kinds
<1>13. ASSUME NEW a \in Account, DisableCommit(a) PROVE TypeOK'
  BY <1>13 DEF DisableCommit, TypeOK
<1>14. ASSUME NEW a \in Account, Enable(a) PROVE TypeOK'
  BY <1>14, CountType DEF Enable, TypeOK, Kinds
<1>15. ASSUME NEW a \in Account, DeleteAsk(a) PROVE TypeOK'
  <2>1. stopping' \in [Worker -> SUBSET Account] /\ linked' \subseteq Account
    BY <1>15 DEF DeleteAsk, Disconnect, TypeOK
  <2> QED BY <1>15, <2>1, CountType DEF DeleteAsk, TypeOK, Kinds
<1>16. ASSUME NEW a \in Account, DeleteCommit(a) PROVE TypeOK'
  BY <1>16 DEF DeleteCommit, TypeOK
<1>17. ASSUME NEW w \in Worker, Crash(w) PROVE TypeOK'
  BY <1>17, CountType DEF Crash, Forget, TypeOK, Kinds
<1>18. ASSUME NEW w \in Worker, Release(w) PROVE TypeOK'
  <2>1. owner' \in [Account -> Worker \cup {None}] /\ left' \in [Account -> 0..LeaseTicks]
    BY <1>18 DEF Release, TypeOK
  <2> QED BY <1>18, <2>1, CountType DEF Release, TypeOK, Kinds
<1>19. ASSUME NEW w \in Worker, Exit(w) PROVE TypeOK'
  BY <1>19 DEF Exit, Forget, TypeOK
<1>20. CASE Tick
  <2>1. \A w \in Worker : Less(beat[w]) \in 0..LeaseTicks
    BY LessType DEF TypeOK
  <2>2. \A a \in Account : Less(left[a]) \in 0..LeaseTicks
    BY LessType DEF TypeOK
  <2> QED BY <1>20, <2>1, <2>2 DEF Tick, TypeOK
<1>21. CASE UNCHANGED vars
  BY <1>21 DEF vars, TypeOK
<1> QED BY <1>1, <1>2, <1>3, <1>4, <1>5, <1>6, <1>7, <1>8, <1>9, <1>10, <1>11, <1>12,
           <1>13, <1>14, <1>15, <1>16, <1>17, <1>18, <1>19, <1>20, <1>21
        DEF Next, Loop, Admin

(* The state is always well formed (module Lease, TypeOK).                 *)
THEOREM LeaseTypes == Spec => []TypeOK
<1>1. Init => TypeOK
  BY InitType
<1>2. TypeOK /\ [Next]_vars => TypeOK'
  BY TypeStep
<1> QED BY <1>1, <1>2, PTL DEF Spec

-----------------------------------------------------------------------------
(* One session per account.                                                *)

(* What a process has in its hands, in whatever stage.                     *)
Touch(w) == live[w] \cup starting[w] \cup calls[w] \cup claimed[w] \cup held[w]

(* A deleted account belongs to nobody and is not served any more.         *)
GoneIsGone == \A a \in deleted : owner[a] = None /\ a \notin active

(* Processes only touch what is theirs in the database, or was until it    *)
(* was deleted.                                                            *)
TouchIsOwned ==
  \A w \in Worker : \A a \in Touch(w) : owner[a] = w \/ a \in deleted

(* Nobody else's hands are on it.                                          *)
TouchIsAlone ==
  \A v, w \in Worker : v # w => Touch(v) \cap Touch(w) = {}

(* Only a running process touches anything; nobody is stopped in order.    *)
DeadTouchNothing ==
  \A w \in Worker : pc[w] # "released" /\ (~Runs(w) => Touch(w) = {})

(* The leases of a running process outlive its mark, and its mark is fresh.*)
MarksAreFresh ==
  \A w \in Worker :
    /\ pc[w] = "new" => \A a \in Account : owner[a] # w
    /\ Runs(w) => /\ beat[w] > 0
                  /\ \A a \in Account : owner[a] = w => left[a] >= beat[w]

HandsInv == GoneIsGone /\ TouchIsOwned /\ TouchIsAlone /\ DeadTouchNothing /\ MarksAreFresh

(* Nobody is not a process.                                                *)
LEMMA NotNobody == None \notin Worker
  BY DEF None, Worker

(* Nothing can be claimed that is in another process's hands.              *)
LEMMA FreeIsUntouched ==
  ASSUME TypeOK, HandsInv, NEW w \in Worker, NEW a \in Free
  PROVE  a \notin Touch(w)
<1>1. SUFFICES ASSUME a \in Touch(w) PROVE FALSE
  OBVIOUS
<1>2. owner[a] = w
  BY <1>1 DEF HandsInv, TouchIsOwned, Free
<1>3. Runs(w)
  BY <1>1 DEF HandsInv, DeadTouchNothing
<1>4. left[a] >= beat[w] /\ beat[w] > 0 /\ beat[w] \in Nat /\ left[a] = 0
  BY <1>2, <1>3, LeaseAssumption DEF HandsInv, MarksAreFresh, Free, TypeOK
<1> QED BY <1>4

(* A step puts nothing into the hands of a process but what it serves.     *)
LEMMA TouchGrows ==
  ASSUME TypeOK, [Next]_vars, NEW w \in Worker
  PROVE  Touch(w)' \subseteq Touch(w) \cup Served(w)'
<1> USE DEF admin, sessions, round, Touch, Served
<1>1. ASSUME NEW v \in Worker, Start(v) PROVE Touch(w)' \subseteq Touch(w)
  BY <1>1 DEF Start
<1>2. ASSUME NEW v \in Worker, Heartbeat(v) PROVE Touch(w)' \subseteq Touch(w)
  BY <1>2 DEF Heartbeat
<1>3. ASSUME NEW v \in Worker, ReadShare(v) PROVE Touch(w)' \subseteq Touch(w)
  BY <1>3 DEF ReadShare, TypeOK
<1>4. ASSUME NEW v \in Worker, Take(v) PROVE Touch(w)' \subseteq Touch(w) \cup Served(w)'
  <2>1. PICK S \in SUBSET Free :
          /\ owner' = [a \in Account |-> IF a \in S THEN v ELSE owner[a]]
          /\ claimed' = [claimed EXCEPT ![v] = S]
    BY <1>4 DEF Take
  <2> QED BY <1>4, <2>1 DEF Take, Free, TypeOK
<1>5. ASSUME NEW v \in Worker, Sync(v) PROVE Touch(w)' \subseteq Touch(w) \cup Served(w)'
  BY <1>5 DEF Sync, TypeOK
<1>6. ASSUME NEW v \in Worker, RoundFails(v) PROVE Touch(w)' \subseteq Touch(w)
  BY <1>6 DEF RoundFails, TypeOK
<1>7. ASSUME NEW v \in Worker, NEW a \in Account,
             Connected(v, a) \/ StartFails(v, a) \/ Stop(v, a) \/ CallConnects(v, a)
      PROVE  Touch(w)' \subseteq Touch(w)
  BY <1>7 DEF Connected, StartFails, Stop, CallConnects, TypeOK
<1>8. ASSUME NEW v \in Worker, NEW a \in Account, Call(v, a)
      PROVE  Touch(w)' \subseteq Touch(w) \cup Served(w)'
  BY <1>8 DEF Call, TypeOK
<1>9. ASSUME NEW a \in Account, Admin(a) PROVE Touch(w)' \subseteq Touch(w)
  BY <1>9 DEF Admin, DisableAsk, DisableCommit, Enable, DeleteAsk, DeleteCommit
<1>10. ASSUME NEW v \in Worker, Crash(v) \/ Exit(v) PROVE Touch(w)' \subseteq Touch(w)
  BY <1>10 DEF Crash, Exit, Forget, TypeOK
<1>11. ASSUME NEW v \in Worker, Release(v) PROVE Touch(w)' \subseteq Touch(w)
  BY <1>11 DEF Release
<1>12. CASE Tick
  BY <1>12 DEF Tick
<1>13. CASE UNCHANGED vars
  BY <1>13 DEF vars
<1> QED BY <1>1, <1>2, <1>3, <1>4, <1>5, <1>6, <1>7, <1>8, <1>9, <1>10, <1>11, <1>12, <1>13
        DEF Next, Loop

(* What is somebody's stays his unless it was free, deleted, or he was     *)
(* stopped in order.                                                       *)
LEMMA OwnerKept ==
  ASSUME TypeOK, [Next]_vars, MaxShutdowns = 0, NEW a \in Account
  PROVE  \/ owner'[a] = owner[a]
         \/ a \in Free /\ owner'[a] \in Worker /\ Runs(owner'[a])
            /\ Take(owner'[a]) /\ left'[a] = LeaseTicks
         \/ a \in deleted' /\ owner'[a] = None
<1> USE DEF admin, sessions, round
<1>1. ASSUME NEW v \in Worker, Take(v)
      PROVE  owner'[a] = owner[a] \/ (a \in Free /\ owner'[a] = v /\ left'[a] = LeaseTicks)
  BY <1>1 DEF Take
<1>2. ASSUME NEW v \in Worker, Release(v) PROVE FALSE
  BY <1>2, LeaseAssumption DEF Release, Count, Bound, Kinds, TypeOK
<1>3. ASSUME NEW v \in Worker,
             Start(v) \/ Heartbeat(v) \/ ReadShare(v) \/ Sync(v) \/ RoundFails(v)
             \/ Crash(v) \/ Exit(v)
      PROVE  owner' = owner
  BY <1>3 DEF Start, Heartbeat, ReadShare, Sync, RoundFails, Crash, Exit
<1>4. ASSUME NEW v \in Worker, NEW b \in Account,
             Connected(v, b) \/ StartFails(v, b) \/ Stop(v, b) \/ CallConnects(v, b)
             \/ Call(v, b)
      PROVE  owner' = owner
  BY <1>4 DEF Connected, StartFails, Stop, CallConnects, Call
<1>5. ASSUME NEW b \in Account, DeleteCommit(b)
      PROVE  owner'[a] = owner[a] \/ (a \in deleted' /\ owner'[a] = None)
  BY <1>5 DEF DeleteCommit, TypeOK
<1>6. ASSUME NEW b \in Account, DisableAsk(b) \/ DisableCommit(b) \/ Enable(b) \/ DeleteAsk(b)
      PROVE  owner' = owner
  BY <1>6 DEF DisableAsk, DisableCommit, Enable, DeleteAsk
<1>7. Tick \/ UNCHANGED vars => owner' = owner
  BY DEF Tick, vars
<1>8. ASSUME NEW v \in Worker, Take(v) PROVE Runs(v)
  BY <1>8 DEF Take, Runs, Looping
<1> QED BY <1>1, <1>2, <1>3, <1>4, <1>5, <1>6, <1>7, <1>8 DEF Next, Loop, Admin

(* Deleted accounts stay deleted, nobody's and inactive.                   *)
LEMMA GoneStep ==
  ASSUME TypeOK, GoneIsGone, [Next]_vars
  PROVE  GoneIsGone' /\ deleted \subseteq deleted'
<1> USE DEF admin, sessions, round, GoneIsGone
<1>1. ASSUME NEW v \in Worker, Take(v) PROVE GoneIsGone' /\ deleted' = deleted
  <2>1. PICK S \in SUBSET Free :
          owner' = [a \in Account |-> IF a \in S THEN v ELSE owner[a]]
    BY <1>1 DEF Take
  <2> QED BY <1>1, <2>1 DEF Take, Free, TypeOK
<1>2. ASSUME NEW v \in Worker, Release(v) PROVE GoneIsGone' /\ deleted' = deleted
  BY <1>2 DEF Release, TypeOK
<1>3. ASSUME NEW v \in Worker,
             Start(v) \/ Heartbeat(v) \/ ReadShare(v) \/ Sync(v) \/ RoundFails(v)
             \/ Crash(v) \/ Exit(v)
      PROVE  GoneIsGone' /\ deleted' = deleted
  BY <1>3 DEF Start, Heartbeat, ReadShare, Sync, RoundFails, Crash, Exit
<1>4. ASSUME NEW v \in Worker, NEW b \in Account,
             Connected(v, b) \/ StartFails(v, b) \/ Stop(v, b) \/ CallConnects(v, b)
             \/ Call(v, b)
      PROVE  GoneIsGone' /\ deleted' = deleted
  BY <1>4 DEF Connected, StartFails, Stop, CallConnects, Call
<1>5. ASSUME NEW b \in Account, DeleteCommit(b)
      PROVE  GoneIsGone' /\ deleted \subseteq deleted'
  BY <1>5 DEF DeleteCommit, TypeOK
<1>6. ASSUME NEW b \in Account, DisableAsk(b) \/ DisableCommit(b) \/ Enable(b) \/ DeleteAsk(b)
      PROVE  GoneIsGone' /\ deleted' = deleted
  BY <1>6 DEF DisableAsk, DisableCommit, Enable, DeleteAsk
<1>7. Tick \/ UNCHANGED vars => GoneIsGone' /\ deleted' = deleted
  BY DEF Tick, vars
<1> QED BY <1>1, <1>2, <1>3, <1>4, <1>5, <1>6, <1>7 DEF Next, Loop, Admin

(* Marks and leases stay fresh if heartbeats are in time.                  *)
LEMMA MarksStep ==
  ASSUME TypeOK, HandsInv, Punctual, MaxShutdowns = 0, [Next]_vars
  PROVE  MarksAreFresh'
<1> USE LeaseAssumption DEF admin, sessions, round, HandsInv, MarksAreFresh, Runs, Looping
<1>1. ASSUME NEW v \in Worker, Start(v) PROVE MarksAreFresh'
  <2>1. pc' = [pc EXCEPT ![v] = "sleep"] /\ pc[v] = "new" /\ owner' = owner /\ left' = left
    BY <1>1 DEF Start
  <2>2. beat'[v] > 0 /\ \A w \in Worker \ {v} : beat'[w] = beat[w]
    BY <1>1 DEF Start, TypeOK
  <2> QED BY <2>1, <2>2 DEF TypeOK
<1>2. ASSUME NEW v \in Worker, Heartbeat(v) PROVE MarksAreFresh'
  <2>1. /\ pc' = [pc EXCEPT ![v] = "share"] /\ pc[v] = "sleep" /\ owner' = owner
        /\ beat' = [beat EXCEPT ![v] = LeaseTicks]
        /\ left' = [a \in Account |->
                      IF owner[a] = v /\ a \notin deleted THEN LeaseTicks ELSE left[a]]
    BY <1>2 DEF Heartbeat
  <2>2. \A a \in Account : owner[a] = v => left'[a] = LeaseTicks
    BY <2>1, NotNobody DEF GoneIsGone
  <2>3. \A w \in Worker \ {v} : \A a \in Account : owner[a] = w => left'[a] = left[a]
    BY <2>1
  <2>4. beat'[v] = LeaseTicks /\ \A w \in Worker \ {v} : beat'[w] = beat[w]
    BY <2>1 DEF TypeOK
  <2> QED BY <2>1, <2>2, <2>3, <2>4 DEF TypeOK
<1>3. ASSUME NEW v \in Worker, Take(v) PROVE MarksAreFresh'
  <2>1. PICK S \in SUBSET Free :
          /\ owner' = [a \in Account |-> IF a \in S THEN v ELSE owner[a]]
          /\ left' = [a \in Account |-> IF a \in S THEN LeaseTicks ELSE left[a]]
    BY <1>3 DEF Take
  <2>2. pc' = [pc EXCEPT ![v] = "sync"] /\ pc[v] = "take" /\ beat' = beat
    BY <1>3 DEF Take
  <2>3. \A w \in Worker : beat[w] <= LeaseTicks
    BY DEF TypeOK
  <2> QED BY <2>1, <2>2, <2>3 DEF TypeOK
<1>4. ASSUME NEW v \in Worker, Release(v) PROVE FALSE
  BY <1>4 DEF Release, Count, Bound, Kinds, TypeOK
<1>5. ASSUME NEW v \in Worker, ReadShare(v) PROVE MarksAreFresh'
  BY <1>5, ShareFits DEF ReadShare, TypeOK
<1>6. ASSUME NEW v \in Worker, Sync(v) \/ RoundFails(v) \/ Crash(v) \/ Exit(v)
      PROVE  MarksAreFresh'
  BY <1>6 DEF Sync, RoundFails, Crash, Exit, TypeOK
<1>7. ASSUME NEW v \in Worker, NEW b \in Account,
             Connected(v, b) \/ StartFails(v, b) \/ Stop(v, b) \/ CallConnects(v, b)
             \/ Call(v, b)
      PROVE  MarksAreFresh'
  BY <1>7 DEF Connected, StartFails, Stop, CallConnects, Call
<1>8. ASSUME NEW b \in Account, DeleteCommit(b) PROVE MarksAreFresh'
  <2>1. owner' = [owner EXCEPT ![b] = None] /\ left' = [left EXCEPT ![b] = 0]
        /\ pc' = pc /\ beat' = beat
    BY <1>8 DEF DeleteCommit
  <2> QED BY <2>1, NotNobody DEF TypeOK
<1>9. ASSUME NEW b \in Account, DisableAsk(b) \/ DisableCommit(b) \/ Enable(b) \/ DeleteAsk(b)
      PROVE  MarksAreFresh'
  BY <1>9 DEF DisableAsk, DisableCommit, Enable, DeleteAsk
<1>10. CASE Tick
  <2>1. \A w \in Worker : Runs(w) => beat[w] > 1
    BY <1>10 DEF Tick
  <2>2. /\ pc' = pc /\ owner' = owner
        /\ beat' = [w \in Worker |-> Less(beat[w])]
        /\ left' = [a \in Account |-> Less(left[a])]
    BY <1>10 DEF Tick
  <2>3. ASSUME NEW w \in Worker, Runs(w)
        PROVE  /\ beat'[w] > 0
               /\ \A a \in Account : owner[a] = w => left'[a] >= beat'[w]
    <3>1. beat[w] \in 0..LeaseTicks /\ \A a \in Account : left[a] \in 0..LeaseTicks
      BY DEF TypeOK
    <3>2. \A a \in Account : owner[a] = w => beat[w] <= left[a]
      BY <2>3, <3>1
    <3>3. \A a \in Account : owner[a] = w => Less(beat[w]) <= Less(left[a])
      BY <3>1, <3>2, LessType
    <3>4. \A a \in Account : Less(left[a]) \in Nat
      BY <3>1, LessType
    <3> QED BY <2>1, <2>2, <2>3, <3>1, <3>3, <3>4, LessType
  <2> QED BY <2>2, <2>3
<1>11. CASE UNCHANGED vars
  BY <1>11 DEF vars
<1> QED BY <1>1, <1>2, <1>3, <1>4, <1>5, <1>6, <1>7, <1>8, <1>9, <1>10, <1>11
        DEF Next, Loop, Admin

(* A process that ends forgets everything; one that does not run begins    *)
(* nothing.                                                                *)
LEMMA DeadStep ==
  ASSUME TypeOK, DeadTouchNothing, MaxShutdowns = 0, [Next]_vars
  PROVE  DeadTouchNothing'
<1> USE LeaseAssumption DEF admin, sessions, round, DeadTouchNothing, Touch, Runs, Looping
<1>1. ASSUME NEW v \in Worker, Start(v) PROVE DeadTouchNothing'
  BY <1>1 DEF Start, TypeOK
<1>2. ASSUME NEW v \in Worker, Heartbeat(v) PROVE DeadTouchNothing'
  BY <1>2 DEF Heartbeat, TypeOK
<1>3. ASSUME NEW v \in Worker, ReadShare(v) PROVE DeadTouchNothing'
  BY <1>3, ShareFits DEF ReadShare, TypeOK
<1>4. ASSUME NEW v \in Worker, Take(v) PROVE DeadTouchNothing'
  <2>1. PICK S \in SUBSET Free : claimed' = [claimed EXCEPT ![v] = S]
    BY <1>4 DEF Take
  <2> QED BY <1>4, <2>1 DEF Take, TypeOK
<1>5. ASSUME NEW v \in Worker, Sync(v) PROVE DeadTouchNothing'
  BY <1>5 DEF Sync, TypeOK
<1>6. ASSUME NEW v \in Worker, RoundFails(v) PROVE DeadTouchNothing'
  BY <1>6 DEF RoundFails, TypeOK
<1>7. ASSUME NEW v \in Worker, NEW b \in Account,
             Connected(v, b) \/ StartFails(v, b) \/ Stop(v, b) \/ CallConnects(v, b)
             \/ Call(v, b)
      PROVE  DeadTouchNothing'
  BY <1>7 DEF Connected, StartFails, Stop, CallConnects, Call, TypeOK
<1>8. ASSUME NEW b \in Account, Admin(b) PROVE DeadTouchNothing'
  BY <1>8 DEF Admin, DisableAsk, DisableCommit, Enable, DeleteAsk, DeleteCommit
<1>9. ASSUME NEW v \in Worker, Crash(v) PROVE DeadTouchNothing'
  BY <1>9 DEF Crash, Forget, TypeOK
<1>10. ASSUME NEW v \in Worker, Release(v) \/ Exit(v) PROVE FALSE
  BY <1>10 DEF Release, Exit, Count, Bound, Kinds, TypeOK
<1>11. Tick \/ UNCHANGED vars => DeadTouchNothing'
  BY DEF Tick, vars
<1> QED BY <1>1, <1>2, <1>3, <1>4, <1>5, <1>6, <1>7, <1>8, <1>9, <1>10, <1>11
        DEF Next, Loop

(* A process keeps its hands on its own accounts only.                     *)
LEMMA HandsStep ==
  ASSUME TypeOK, HandsInv, Punctual, MaxShutdowns = 0, [Next]_vars
  PROVE  HandsInv'
<1>1. GoneIsGone' /\ deleted \subseteq deleted'
  BY GoneStep DEF HandsInv
<1>2. DeadTouchNothing'
  BY DeadStep DEF HandsInv
<1>3. MarksAreFresh'
  BY MarksStep
<1>4. TypeOK'
  BY TypeStep
<1>5. ASSUME NEW w \in Worker, NEW a \in Touch(w)'
      PROVE  owner'[a] = w \/ a \in deleted'
  <2>1. a \in Account
    BY <1>4, <1>5 DEF Touch, TypeOK
  <2>2. CASE a \in Served(w)'
    BY <2>2 DEF Served
  <2>3. CASE a \in Touch(w) /\ a \notin deleted
    <3>1. owner[a] = w
      BY <2>3 DEF HandsInv, TouchIsOwned
    <3>2. a \notin Free
      BY <2>3, FreeIsUntouched
    <3> QED BY <2>1, <3>1, <3>2, OwnerKept
  <2>4. CASE a \in deleted
    BY <1>1, <2>4
  <2> QED BY <1>5, <2>2, <2>3, <2>4, TouchGrows
<1>6. TouchIsOwned'
  BY <1>5 DEF TouchIsOwned
<1>7. ASSUME NEW v \in Worker, NEW w \in Worker, v # w,
             NEW a, a \in Touch(v)', a \in Touch(w)'
      PROVE  FALSE
  <2>1. a \in deleted'
    BY <1>5, <1>7
  <2>2. a \in Touch(v) /\ a \in Touch(w)
    BY <1>7, <2>1, TouchGrows DEF Served
  <2> QED BY <1>7, <2>2 DEF HandsInv, TouchIsAlone
<1>8. TouchIsAlone'
  BY <1>7 DEF TouchIsAlone
<1> QED BY <1>1, <1>2, <1>3, <1>6, <1>8 DEF HandsInv

(* No account ever has two open sessions (module Lease, OneSession), for   *)
(* any number of processes and accounts, whatever is disabled, enabled,    *)
(* deleted, dies or fails, as long as no heartbeat is late and no process  *)
(* is stopped in order.                                                    *)
THEOREM OneSessionPerAccount ==
  ASSUME Punctual, MaxShutdowns = 0 PROVE Spec => []OneSession
<1>1. Init => TypeOK /\ HandsInv
  <2>1. ASSUME Init PROVE HandsInv
    BY <2>1, NotNobody
    DEF Init, AtRest, HandsInv, GoneIsGone, TouchIsOwned, TouchIsAlone, DeadTouchNothing,
        MarksAreFresh, Touch, Runs, Looping
  <2> QED BY <2>1, InitType
<1>2. TypeOK /\ HandsInv /\ [Next]_vars => (TypeOK /\ HandsInv)'
  BY TypeStep, HandsStep
<1>3. HandsInv => OneSession
  BY DEF HandsInv, TouchIsAlone, Touch, OneSession
<1> QED BY <1>1, <1>2, <1>3, PTL DEF Spec

-----------------------------------------------------------------------------
(* Capacity.                                                               *)

(* What a process serves by a claim.                                       *)
Won(w) == Served(w) \ returned

(* What a process is about to claim fits beside what it has claimed.       *)
Room(w) ==
  /\ Cardinality(Won(w)) <= Capacity
  /\ pc[w] = "take" => Cardinality(Won(w)) + quota[w] <= Capacity

LEMMA WonFinite ==
  ASSUME TypeOK, NEW w \in Worker
  PROVE  /\ IsFiniteSet(Won(w)) /\ Cardinality(Won(w)) \in Nat
         /\ Cardinality(Won(w)) <= Cardinality(Served(w))
<1>1. Won(w) \subseteq Served(w)
  BY DEF Won
<1> QED BY <1>1, ServedFinite, FS_Subset, FS_CardinalityType

(* There is room as long as nothing is added.                              *)
LEMMA RoomKept ==
  ASSUME TypeOK, TypeOK', NEW w \in Worker, Room(w),
         Won(w)' \subseteq Won(w),
         pc'[w] = "take" => pc[w] = "take" /\ quota'[w] = quota[w]
  PROVE  Room(w)'
<1>1. IsFiniteSet(Won(w)) /\ Cardinality(Won(w)) \in Nat
  BY WonFinite
<1>2. Cardinality(Won(w)') \in Nat /\ Cardinality(Won(w)') <= Cardinality(Won(w))
  BY <1>1, FS_Subset, FS_CardinalityType
<1>3. quota[w] \in Nat /\ quota'[w] \in Nat /\ Capacity \in Nat
  BY LeaseAssumption DEF TypeOK
<1> QED BY <1>1, <1>2, <1>3 DEF Room

(* A claim fills the room it was granted at most.                          *)
LEMMA RoomTaken ==
  ASSUME TypeOK, NEW w \in Worker, Room(w), Take(w)
  PROVE  Room(w)'
<1>1. PICK S \in SUBSET Free :
        /\ Cardinality(S) <= quota[w]
        /\ owner' = [a \in Account |-> IF a \in S THEN w ELSE owner[a]]
        /\ returned' = returned \ S
  BY DEF Take
<1>2. IsFiniteSet(Won(w)) /\ Cardinality(Won(w)) \in Nat
  BY WonFinite
<1>3. IsFiniteSet(S) /\ Cardinality(S) \in Nat
  <2>1. S \subseteq Account
    BY DEF Free, TypeOK
  <2> QED BY <2>1, LeaseAssumption, FS_Subset, FS_CardinalityType
<1>4. Won(w)' \subseteq Won(w) \cup S
  BY <1>1 DEF Take, Won, Served
<1>5. /\ IsFiniteSet(Won(w) \cup S)
      /\ Cardinality(Won(w) \cup S) \in Nat
      /\ Cardinality(Won(w) \cup S) <= Cardinality(Won(w)) + Cardinality(S)
  <2>1. Cardinality(Won(w) \cap S) \in Nat
    BY <1>2, FS_Intersection, FS_CardinalityType
  <2>2. /\ IsFiniteSet(Won(w) \cup S)
        /\ Cardinality(Won(w) \cup S) =
             Cardinality(Won(w)) + Cardinality(S) - Cardinality(Won(w) \cap S)
    BY <1>2, <1>3, FS_Union
  <2>3. Cardinality(Won(w) \cup S) \in Nat
    BY <2>2, FS_CardinalityType
  <2> QED BY <1>2, <1>3, <2>1, <2>2, <2>3
<1>6. Cardinality(Won(w)') \in Nat
      /\ Cardinality(Won(w)') <= Cardinality(Won(w) \cup S)
  BY <1>4, <1>5, FS_Subset, FS_CardinalityType
<1>7. Cardinality(Won(w)) + quota[w] <= Capacity
  BY DEF Room, Take
<1>8. pc'[w] = "sync" /\ quota[w] \in Nat /\ Capacity \in Nat
  BY LeaseAssumption DEF Take, TypeOK
<1>9. Cardinality(Won(w)') <= Capacity
  BY <1>1, <1>2, <1>3, <1>5, <1>6, <1>7, <1>8
<1> QED BY <1>8, <1>9 DEF Room

LEMMA RoomStep ==
  ASSUME TypeOK, [Next]_vars, NEW w \in Worker, Room(w)
  PROVE  Room(w)'
<1> USE DEF admin, sessions, round, Won, Served
<1>0. TypeOK'
  BY TypeStep
<1>1. ASSUME NEW v \in Worker,
             Start(v) \/ Heartbeat(v) \/ Sync(v) \/ RoundFails(v) \/ Crash(v) \/ Exit(v)
      PROVE  Room(w)'
  <2>1. Won(w)' = Won(w)
    BY <1>1 DEF Start, Heartbeat, Sync, RoundFails, Crash, Exit
  <2>2. pc'[w] = "take" => pc[w] = "take" /\ quota'[w] = quota[w]
    BY <1>1 DEF Start, Heartbeat, Sync, RoundFails, Crash, Exit, Forget, TypeOK, Looping
  <2> QED BY <1>0, <2>1, <2>2, RoomKept
<1>2. ASSUME NEW v \in Worker, ReadShare(v) PROVE Room(w)'
  <2>1. Won(w)' = Won(w)
    BY <1>2 DEF ReadShare
  <2>2. CASE v # w
    <3>1. pc'[w] = pc[w] /\ quota'[w] = quota[w]
      BY <1>2, <2>2 DEF ReadShare, TypeOK
    <3> QED BY <1>0, <2>1, <3>1, RoomKept
  <2>3. CASE v = w
    <3>1. /\ Cardinality(Won(w)) \in Nat /\ Cardinality(Served(w)) \in Nat
          /\ Cardinality(Won(w)) <= Cardinality(Served(w))
          /\ quota'[w] \in Nat /\ Capacity \in Nat
      BY <1>0, WonFinite, ServedFinite, LeaseAssumption DEF TypeOK
    <3>2. \/ pc'[w] = "sync"
          \/ Cardinality(Served(w)) + quota'[w] <= Capacity
      BY <1>2, <2>3, ShareFits DEF TypeOK
    <3> HIDE DEF Won, Served
    <3> QED BY <2>1, <3>1, <3>2 DEF Room
  <2> QED BY <2>2, <2>3
<1>3. ASSUME NEW v \in Worker, Take(v) PROVE Room(w)'
  <2>1. CASE v = w
    BY <1>3, <2>1, RoomTaken
  <2>2. CASE v # w
    <3>1. Won(w)' \subseteq Won(w)
      BY <1>3, <2>2 DEF Take
    <3>2. pc'[w] = pc[w] /\ quota'[w] = quota[w]
      BY <1>3, <2>2 DEF Take, TypeOK
    <3> QED BY <1>0, <3>1, <3>2, RoomKept
  <2> QED BY <2>1, <2>2
<1>4. ASSUME NEW v \in Worker, Release(v) PROVE Room(w)'
  <2>1. Won(w)' \subseteq Won(w)
    BY <1>4, NotNobody DEF Release
  <2>2. pc'[w] = "take" => pc[w] = "take" /\ quota'[w] = quota[w]
    BY <1>4 DEF Release, TypeOK
  <2> QED BY <1>0, <2>1, <2>2, RoomKept
<1>5. ASSUME NEW v \in Worker, NEW b \in Account,
             Connected(v, b) \/ StartFails(v, b) \/ Stop(v, b) \/ CallConnects(v, b)
             \/ Call(v, b)
      PROVE  Room(w)'
  <2>1. Won(w)' = Won(w) /\ pc' = pc /\ quota' = quota
    BY <1>5 DEF Connected, StartFails, Stop, CallConnects, Call
  <2> QED BY <1>0, <2>1, RoomKept
<1>6. ASSUME NEW b \in Account,
             DisableAsk(b) \/ DisableCommit(b) \/ DeleteAsk(b) \/ DeleteCommit(b)
      PROVE  Room(w)'
  <2>1. Won(w)' \subseteq Won(w) /\ pc' = pc /\ quota' = quota
    BY <1>6, NotNobody DEF DisableAsk, DisableCommit, DeleteAsk, DeleteCommit, TypeOK
  <2> QED BY <1>0, <2>1, RoomKept
<1>7. ASSUME NEW b \in Account, Enable(b) PROVE Room(w)'
  <2>1. Won(w)' \subseteq Won(w) /\ pc' = pc /\ quota' = quota
    BY <1>7, NotNobody DEF Enable
  <2> QED BY <1>0, <2>1, RoomKept
<1>8. CASE Tick \/ UNCHANGED vars
  <2>1. Won(w)' = Won(w) /\ pc' = pc /\ quota' = quota
    BY <1>8 DEF Tick, vars
  <2> QED BY <1>0, <2>1, RoomKept
<1> QED BY <1>1, <1>2, <1>3, <1>4, <1>5, <1>6, <1>7, <1>8 DEF Next, Loop, Admin

(* No process takes more accounts than its capacity (module Lease,         *)
(* WithinCapacity), however late heartbeats are, whatever the load of the  *)
(* host, and whatever is disabled, enabled, deleted, dies or fails.        *)
THEOREM CapacityKept == Spec => []WithinCapacity
<1> DEFINE Inv == TypeOK /\ \A w \in Worker : Room(w)
<1>1. Init => Inv
  <2>1. ASSUME Init, NEW w \in Worker PROVE Room(w)
    <3>1. Won(w) = {}
      BY <2>1, NotNobody DEF Init, AtRest, Won, Served
    <3> QED BY <2>1, <3>1, FS_EmptySet, LeaseAssumption DEF Init, AtRest, Room
  <2> QED BY <2>1, InitType
<1>2. Inv /\ [Next]_vars => Inv'
  BY TypeStep, RoomStep
<1>3. Inv => WithinCapacity
  BY DEF Room, Won, WithinCapacity
<1> QED BY <1>1, <1>2, <1>3, PTL DEF Spec
=============================================================================

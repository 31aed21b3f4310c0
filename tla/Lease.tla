------------------------------- MODULE Lease --------------------------------
(***************************************************************************)
(* Which gateway process serves which Telegram account.                    *)
(*                                                                         *)
(* Every process runs the same lease loop and knows nothing of the others: *)
(* it writes its mark into gateway_workers, renews the leases of the       *)
(* accounts that carry its id, reads its fair share of the accounts,       *)
(* claims free ones, and only then compares what it held with what the     *)
(* database says it holds.  Sessions are opened and closed by background   *)
(* tasks that may take any time; a drain of the outbox or a command opens  *)
(* one on demand.  The administrator disables, enables and deletes         *)
(* accounts from another process, with a command over Redis that may get   *)
(* no answer.                                                              *)
(*                                                                         *)
(* Deadlines are countdowns in ticks: a mark or a lease is fresh while its *)
(* countdown is above zero.  A process id is random, so a restarted        *)
(* process is another member of Worker; ids are ordered as numbers.        *)
(***************************************************************************)
EXTENDS Naturals, FiniteSets

CONSTANTS
  NWorker,      \* process ids that ever exist are 1..NWorker
  Account,      \* Telegram accounts
  LeaseTicks,   \* gateway_lease_seconds, in ticks
  Capacity,     \* gateway_capacity
  Batch,        \* gateway_claim_batch
  LoadLevels,   \* the values effective_capacity takes as the host's load varies
  Punctual,     \* heartbeats of a live process are never late
  MaxCrashes,   \* bound: processes that die
  MaxShutdowns, \* bound: processes that are stopped in order
  MaxToggles,   \* bound: times an account is disabled or enabled
  MaxDeletes,   \* bound: accounts deleted
  MaxFaults     \* bound: rounds, starts and commands that fail

Worker == 1..NWorker
None == 0

ASSUME LeaseAssumption ==
  /\ {NWorker, LeaseTicks, Capacity, Batch, MaxCrashes, MaxShutdowns,
      MaxToggles, MaxDeletes, MaxFaults} \subseteq Nat
  /\ LeaseTicks > 0
  /\ LoadLevels \subseteq 0..Capacity
  /\ IsFiniteSet(Account)
  /\ Punctual \in BOOLEAN

VARIABLES
  pc,         \* where the lease loop of a process is
  beat,       \* gateway_workers.heartbeat_at: how long it still counts as alive
  owner,      \* telegram_accounts.worker_id
  left,       \* telegram_accounts.lease_until: how long the lease still runs
  active,     \* accounts with is_active
  deleted,    \* accounts with deleted_at
  linked,     \* accounts with a session_enc that Telegram accepts
  quota,      \* what the claim of this round may take
  claimed,    \* what it took
  held,       \* _held of a process
  starting,   \* accounts _start_accounts is opening
  stopping,   \* accounts _stop_accounts is closing
  calls,      \* accounts that work begun by this process will connect on demand
  live,       \* _clients of a process: open Telegram sessions
  asked,      \* a disable or delete request between its command and its commit
  returned,   \* history: accounts switched on while they carried a process id
  counts      \* how often each bounded event has happened

vars == <<pc, beat, owner, left, active, deleted, linked, quota, claimed, held,
          starting, stopping, calls, live, asked, returned, counts>>
admin == <<active, deleted, linked, asked, returned>>
sessions == <<starting, stopping, calls, live>>
round == <<quota, claimed, held>>

Kinds == {"crash", "shutdown", "toggle", "delete", "fault"}
Bound == [crash |-> MaxCrashes, shutdown |-> MaxShutdowns, toggle |-> MaxToggles,
          delete |-> MaxDeletes, fault |-> MaxFaults]
Count(k) == counts[k] < Bound[k] /\ counts' = [counts EXCEPT ![k] = @ + 1]

Looping == {"sleep", "share", "take", "sync"}
Runs(w) == pc[w] \in Looping
Exists(w) == Runs(w) \/ pc[w] = "released"
Served(w) == {a \in Account : owner[a] = w /\ a \in active \ deleted}

AtRest ==
  /\ pc = [w \in Worker |-> "new"]
  /\ beat = [w \in Worker |-> 0]
  /\ owner = [a \in Account |-> None]
  /\ left = [a \in Account |-> 0]
  /\ active = Account
  /\ deleted = {}
  /\ linked = Account
  /\ quota = [w \in Worker |-> 0]
  /\ claimed = [w \in Worker |-> {}]
  /\ held = [w \in Worker |-> {}]
  /\ starting = [w \in Worker |-> {}]
  /\ stopping = [w \in Worker |-> {}]
  /\ calls = [w \in Worker |-> {}]
  /\ live = [w \in Worker |-> {}]
  /\ asked = [a \in Account |-> "none"]
  /\ returned = {}

Init == AtRest /\ counts = [k \in Kinds |-> 0]

-----------------------------------------------------------------------------
(* The lease loop.                                                         *)

(* register_worker; the wait for the siblings delays the first round.      *)
Start(w) ==
  /\ pc[w] = "new"
  /\ pc' = [pc EXCEPT ![w] = "sleep"]
  /\ beat' = [beat EXCEPT ![w] = LeaseTicks]
  /\ UNCHANGED <<owner, left, admin, round, sessions, counts>>

(* Mutant: disabled accounts are not renewed.                              *)
HeartbeatActiveOnly(w) ==
  /\ pc[w] = "sleep"
  /\ pc' = [pc EXCEPT ![w] = "share"]
  /\ beat' = [beat EXCEPT ![w] = LeaseTicks]
  /\ left' = [a \in Account |-> IF a \in Served(w) THEN LeaseTicks ELSE left[a]]
  /\ UNCHANGED <<owner, admin, round, sessions, counts>>

(* The mark of the process and the lease of every account that carries its *)
(* id, disabled ones included.                                             *)
Heartbeat(w) ==
  /\ pc[w] = "sleep"
  /\ pc' = [pc EXCEPT ![w] = "share"]
  /\ beat' = [beat EXCEPT ![w] = LeaseTicks]
  /\ left' = [a \in Account |->
                IF owner[a] = w /\ a \notin deleted THEN LeaseTicks ELSE left[a]]
  /\ UNCHANGED <<owner, admin, round, sessions, counts>>

(* Mutant: a process counts as alive for ever.                             *)
Registered == {w \in Worker : pc[w] # "new"}

Alive == {w \in Worker : beat[w] > 0}
Least(x, y) == IF x < y THEN x ELSE y

(* The share of the process with this rank when total accounts are split   *)
(* among n processes: the remainder goes to the first ranks.               *)
FairLimit(total, n, rank) ==
  total \div n + (IF rank < total % n THEN 1 ELSE 0)

(* A process that is not in the list of the living is last by rank.        *)
Rank(w) == Cardinality({v \in Alive : w \in Alive => v < w})
FairShare(w) ==
  FairLimit(Cardinality(active \ deleted),
            IF Alive = {} THEN 1 ELSE Cardinality(Alive), Rank(w))

(* Mutant: the accounts already held are not counted.                      *)
ReadShareOnly(w) ==
  /\ pc[w] = "share"
  /\ \E c \in LoadLevels :
       quota' = [quota EXCEPT ![w] = Least(Least(c, FairShare(w)), Batch)]
  /\ pc' = [pc EXCEPT ![w] = "take"]
  /\ claimed' = [claimed EXCEPT ![w] = {}]
  /\ UNCHANGED <<beat, owner, left, admin, held, sessions, counts>>

(* What claim_accounts reads before it claims: the load of the host, the   *)
(* fair share and the accounts already held.                               *)
ReadShare(w) ==
  /\ pc[w] = "share"
  /\ \E c \in LoadLevels :
       LET limit == Least(c, FairShare(w))
           taken == Cardinality(Served(w))
       IN IF limit > taken
          THEN /\ quota' = [quota EXCEPT ![w] = Least(limit - taken, Batch)]
               /\ pc' = [pc EXCEPT ![w] = "take"]
          ELSE /\ quota' = [quota EXCEPT ![w] = 0]
               /\ pc' = [pc EXCEPT ![w] = "sync"]
  /\ claimed' = [claimed EXCEPT ![w] = {}]
  /\ UNCHANGED <<beat, owner, left, admin, held, sessions, counts>>

Free == {a \in active \ deleted : left[a] = 0}

(* SELECT ... FOR UPDATE SKIP LOCKED LIMIT quota, UPDATE, COMMIT.  Rows    *)
(* another transaction has locked are passed over: that costs a fault.     *)
Take(w) ==
  /\ pc[w] = "take"
  /\ \E S \in SUBSET Free :
       /\ Cardinality(S) <= quota[w]
       /\ IF Cardinality(S) = Least(quota[w], Cardinality(Free))
          THEN UNCHANGED counts ELSE Count("fault")
       /\ owner' = [a \in Account |-> IF a \in S THEN w ELSE owner[a]]
       /\ left' = [a \in Account |-> IF a \in S THEN LeaseTicks ELSE left[a]]
       /\ claimed' = [claimed EXCEPT ![w] = S]
       /\ returned' = returned \ S
  /\ pc' = [pc EXCEPT ![w] = "sync"]
  /\ UNCHANGED <<beat, active, deleted, linked, asked, quota, held, sessions>>

(* Mutant: the lost accounts are computed after the set was rebuilt.       *)
SyncTooEarly(w) ==
  /\ pc[w] = "sync"
  /\ pc' = [pc EXCEPT ![w] = "sleep"]
  /\ held' = [held EXCEPT ![w] = Served(w) \cup claimed[w]]
  /\ starting' = [starting EXCEPT ![w] = @ \cup (claimed[w] \cap linked)]
  /\ claimed' = [claimed EXCEPT ![w] = {}]
  /\ quota' = [quota EXCEPT ![w] = 0]
  /\ UNCHANGED <<beat, owner, left, admin, stopping, calls, live, counts>>

(* Mutant: only accounts that are new to the rebuilt set are opened, after *)
(* it was rebuilt.                                                         *)
SyncStartsNothing(w) ==
  /\ pc[w] = "sync"
  /\ pc' = [pc EXCEPT ![w] = "sleep"]
  /\ held' = [held EXCEPT ![w] = Served(w) \cup claimed[w]]
  /\ stopping' = [stopping EXCEPT ![w] = @ \cup (held[w] \ Served(w))]
  /\ claimed' = [claimed EXCEPT ![w] = {}]
  /\ quota' = [quota EXCEPT ![w] = 0]
  /\ UNCHANGED <<beat, owner, left, admin, starting, calls, live, counts>>

(* The set of held accounts is built again from the database: sessions of  *)
(* lost accounts are closed, those of claimed ones opened, in the          *)
(* background.  Only claimed accounts are ever opened here.                *)
Sync(w) ==
  /\ pc[w] = "sync"
  /\ pc' = [pc EXCEPT ![w] = "sleep"]
  /\ held' = [held EXCEPT ![w] = Served(w) \cup claimed[w]]
  /\ stopping' = [stopping EXCEPT ![w] = @ \cup (held[w] \ Served(w))]
  /\ starting' = [starting EXCEPT ![w] = @ \cup (claimed[w] \cap linked)]
  /\ claimed' = [claimed EXCEPT ![w] = {}]
  /\ quota' = [quota EXCEPT ![w] = 0]
  /\ UNCHANGED <<beat, owner, left, admin, calls, live, counts>>

(* Any exception in the round: what was claimed stays claimed, the loop    *)
(* sleeps and starts over.                                                 *)
RoundFails(w) ==
  /\ pc[w] \in Looping \ {"sleep"}
  /\ Count("fault")
  /\ pc' = [pc EXCEPT ![w] = "sleep"]
  /\ claimed' = [claimed EXCEPT ![w] = {}]
  /\ quota' = [quota EXCEPT ![w] = 0]
  /\ UNCHANGED <<beat, owner, left, admin, held, sessions>>

-----------------------------------------------------------------------------
(* Sessions.                                                               *)

Connected(w, a) ==
  /\ a \in starting[w]
  /\ starting' = [starting EXCEPT ![w] = @ \ {a}]
  /\ live' = [live EXCEPT ![w] = @ \cup {a}]
  /\ UNCHANGED <<pc, beat, owner, left, admin, round, stopping, calls, counts>>

(* The session is not valid any more, which the account shows as an error, *)
(* or something else failed, which only the log shows.                     *)
StartFails(w, a) ==
  /\ a \in starting[w]
  /\ Count("fault")
  /\ starting' = [starting EXCEPT ![w] = @ \ {a}]
  /\ linked' \in {linked, linked \ {a}}
  /\ UNCHANGED <<pc, beat, owner, left, active, deleted, asked, returned, round,
                 stopping, calls, live>>

Stop(w, a) ==
  /\ a \in stopping[w]
  /\ stopping' = [stopping EXCEPT ![w] = @ \ {a}]
  /\ live' = [live EXCEPT ![w] = @ \ {a}]
  /\ UNCHANGED <<pc, beat, owner, left, admin, round, starting, calls, counts>>

(* A drain goes by the lease in the database; a command, a file download   *)
(* and a catch-up by the set in memory.  Each connects at some later       *)
(* moment, if the session is not open then.                                *)
Call(w, a) ==
  /\ Runs(w)
  /\ a \in Served(w) \cup held[w]
  /\ a \in linked
  /\ calls' = [calls EXCEPT ![w] = @ \cup {a}]
  /\ UNCHANGED <<pc, beat, owner, left, admin, round, starting, stopping, live,
                 counts>>

CallConnects(w, a) ==
  /\ a \in calls[w]
  /\ calls' = [calls EXCEPT ![w] = @ \ {a}]
  /\ live' = [live EXCEPT ![w] = @ \cup {a}]
  /\ UNCHANGED <<pc, beat, owner, left, admin, round, starting, stopping, counts>>

-----------------------------------------------------------------------------
(* The administrator, in the API process.                                  *)

(* A command reaches every process that believes it holds the account, and *)
(* closes the session when its task gets to it, be that after the caller   *)
(* has given up; if nobody answers, the request goes on all the same.      *)
Holders(a) == {w \in Worker : Runs(w) /\ a \in held[w]}
Disconnect(a) ==
  stopping' = [w \in Worker |->
                 IF w \in Holders(a) THEN stopping[w] \cup {a} ELSE stopping[w]]

DisableAsk(a) ==
  /\ a \in active \ deleted /\ asked[a] = "none"
  /\ Count("toggle")
  /\ Disconnect(a) \/ UNCHANGED stopping
  /\ asked' = [asked EXCEPT ![a] = "disable"]
  /\ UNCHANGED <<pc, beat, owner, left, active, deleted, linked, returned, round,
                 starting, calls, live>>

DisableCommit(a) ==
  /\ asked[a] = "disable"
  /\ asked' = [asked EXCEPT ![a] = "none"]
  /\ active' = active \ {a}
  /\ UNCHANGED <<pc, beat, owner, left, deleted, linked, returned, round, sessions,
                 counts>>

(* The account has kept the id of the process it was claimed by, and is    *)
(* served again at once, without a claim.                                  *)
Enable(a) ==
  /\ a \notin active \cup deleted /\ asked[a] = "none"
  /\ Count("toggle")
  /\ active' = active \cup {a}
  /\ returned' = IF owner[a] # None THEN returned \cup {a} ELSE returned
  /\ UNCHANGED <<pc, beat, owner, left, deleted, linked, asked, round, sessions>>

(* "logout": the holder closes the session and forgets it.                 *)
DeleteAsk(a) ==
  /\ a \notin deleted /\ asked[a] = "none"
  /\ Count("delete")
  /\ \/ UNCHANGED <<stopping, linked>>
     \/ Holders(a) # {} /\ Disconnect(a) /\ linked' = linked \ {a}
  /\ asked' = [asked EXCEPT ![a] = "delete"]
  /\ UNCHANGED <<pc, beat, owner, left, active, deleted, returned, round, starting,
                 calls, live>>

DeleteCommit(a) ==
  /\ asked[a] = "delete"
  /\ asked' = [asked EXCEPT ![a] = "none"]
  /\ deleted' = deleted \cup {a}
  /\ active' = active \ {a}
  /\ owner' = [owner EXCEPT ![a] = None]
  /\ left' = [left EXCEPT ![a] = 0]
  /\ UNCHANGED <<pc, beat, linked, returned, round, sessions, counts>>

-----------------------------------------------------------------------------
(* The life of a process.                                                  *)

Forget(w) ==
  /\ quota' = [quota EXCEPT ![w] = 0]
  /\ claimed' = [claimed EXCEPT ![w] = {}]
  /\ held' = [held EXCEPT ![w] = {}]
  /\ starting' = [starting EXCEPT ![w] = {}]
  /\ stopping' = [stopping EXCEPT ![w] = {}]
  /\ calls' = [calls EXCEPT ![w] = {}]
  /\ live' = [live EXCEPT ![w] = {}]

(* The process dies: its sessions end with it, its rows stay.              *)
Crash(w) ==
  /\ Runs(w)
  /\ Count("crash")
  /\ pc' = [pc EXCEPT ![w] = "down"]
  /\ Forget(w)
  /\ UNCHANGED <<beat, owner, left, admin>>

(* SIGTERM: the loops end after their round, release_all frees the         *)
(* accounts and withdraws the mark; the sessions are still open ...        *)
Release(w) ==
  /\ pc[w] = "sleep"
  /\ Count("shutdown")
  /\ pc' = [pc EXCEPT ![w] = "released"]
  /\ beat' = [beat EXCEPT ![w] = 0]
  /\ owner' = [a \in Account |-> IF owner[a] = w THEN None ELSE owner[a]]
  /\ left' = [a \in Account |-> IF owner[a] = w THEN 0 ELSE left[a]]
  /\ UNCHANGED <<admin, round, sessions>>

(* ... until the process has ended.                                        *)
Exit(w) ==
  /\ pc[w] = "released"
  /\ pc' = [pc EXCEPT ![w] = "down"]
  /\ Forget(w)
  /\ UNCHANGED <<beat, owner, left, admin, counts>>

Less(n) == IF n = 0 THEN 0 ELSE n - 1

Tick ==
  /\ Punctual => \A w \in Worker : Runs(w) => beat[w] > 1
  /\ \/ \E w \in Worker : beat[w] > 0
     \/ \E a \in Account : left[a] > 0
  /\ beat' = [w \in Worker |-> Less(beat[w])]
  /\ left' = [a \in Account |-> Less(left[a])]
  /\ UNCHANGED <<pc, owner, admin, round, sessions, counts>>

Loop(w) == Heartbeat(w) \/ ReadShare(w) \/ Take(w) \/ Sync(w)
Admin(a) == \/ DisableAsk(a) \/ DisableCommit(a) \/ Enable(a)
            \/ DeleteAsk(a) \/ DeleteCommit(a)

Next ==
  \/ \E w \in Worker :
       \/ Start(w) \/ Loop(w) \/ RoundFails(w)
       \/ Crash(w) \/ Release(w) \/ Exit(w)
       \/ \E a \in Account : \/ Connected(w, a) \/ StartFails(w, a) \/ Stop(w, a)
                             \/ Call(w, a) \/ CallConnects(w, a)
  \/ \E a \in Account : Admin(a)
  \/ Tick

Spec == Init /\ [][Next]_vars

(* A process that runs goes through its rounds, its background tasks end,  *)
(* time passes, the supervisor starts processes, a request that has sent   *)
(* its command commits.                                                    *)
Fairness ==
  /\ WF_vars(Tick)
  /\ \A w \in Worker :
       /\ WF_vars(Start(w)) /\ WF_vars(Loop(w)) /\ WF_vars(Exit(w))
       /\ \A a \in Account : /\ WF_vars(Connected(w, a)) /\ WF_vars(Stop(w, a))
                             /\ WF_vars(CallConnects(w, a))
  /\ \A a \in Account : WF_vars(DisableCommit(a)) /\ WF_vars(DeleteCommit(a))

FairSpec == Spec /\ Fairness

-----------------------------------------------------------------------------
(* Properties.                                                             *)

TypeOK ==
  /\ pc \in [Worker -> Looping \cup {"new", "released", "down"}]
  /\ beat \in [Worker -> 0..LeaseTicks]
  /\ owner \in [Account -> Worker \cup {None}]
  /\ left \in [Account -> 0..LeaseTicks]
  /\ active \subseteq Account
  /\ deleted \subseteq Account
  /\ linked \subseteq Account
  /\ quota \in [Worker -> Nat]
  /\ claimed \in [Worker -> SUBSET Account]
  /\ held \in [Worker -> SUBSET Account]
  /\ starting \in [Worker -> SUBSET Account]
  /\ stopping \in [Worker -> SUBSET Account]
  /\ calls \in [Worker -> SUBSET Account]
  /\ live \in [Worker -> SUBSET Account]
  /\ asked \in [Account -> {"none", "disable", "delete"}]
  /\ returned \subseteq Account
  /\ counts \in [Kinds -> Nat]

(* No account has two open sessions ("два живых сеанса с одного            *)
(* Telegram-аккаунта — ровно то, что резко повышает риск блокировки",      *)
(* _stop_accounts): whatever is disabled, enabled or deleted under the     *)
(* gateway and whoever dies, as long as heartbeats are in time.            *)
OneSession ==
  \A v, w \in Worker : v # w => live[v] \cap live[w] = {}

(* No process serves more accounts than its capacity, the "потолок         *)
(* безопасности" of fair_limit.                                            *)
SafetyCeiling == \A w \in Worker : Cardinality(Served(w)) <= Capacity

(* No process takes more accounts than its capacity: what it serves and    *)
(* has claimed since it was last switched on fits, whatever the load, the  *)
(* shares and the late heartbeats of two processes are; only an account    *)
(* that was switched on while it carried the id of the process comes on    *)
(* top (SafetyCeiling).                                                    *)
WithinCapacity ==
  \A w \in Worker : Cardinality(Served(w) \ returned) <= Capacity

(* An account that has to be served does not stay without a process: the   *)
(* fair shares add up to the number of accounts, so somebody's share has   *)
(* room for it.                                                            *)
AllOwned ==
  \A a \in Account :
    a \in active ~> (\/ a \notin active
                     \/ \E w \in Worker : Runs(w) /\ a \in Served(w)
                     \/ \A w \in Worker : pc[w] \in {"released", "down"})

(* A process that owns an account opens its session ("поднимает сессию из  *)
(* базы", lease.py), unless the account shows an error.  An account that   *)
(* is switched on again is nobody's to open until it is claimed anew or    *)
(* something has to be sent.                                               *)
SessionOpens ==
  \A w \in Worker : \A a \in Account :
    (Runs(w) /\ a \in Served(w) \ returned)
      ~> (a \in live[w] \/ ~Runs(w) \/ a \notin Served(w) \ returned \/ a \notin linked)

(* A process that lost an account it knew to hold closes its session.      *)
LostIsStopped ==
  \A w \in Worker : \A a \in Account :
    (a \in live[w] \cap held[w] /\ a \notin Served(w))
      ~> (a \notin live[w] \/ a \in Served(w))

(* A disabled account has no session after a while: it does not "молча     *)
(* жить в шлюзе" (update_account).                                         *)
DisabledGoesQuiet ==
  \A a \in Account :
    a \notin active ~> (a \in active \/ \A w \in Worker : a \notin live[w])
=============================================================================

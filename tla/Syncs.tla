--------------------------------- MODULE Syncs ---------------------------------
(***************************************************************************)
(* The queue for reading histories, seen from one process of the gateway:  *)
(* a place in the queue is an advisory lock held by a connection to the    *)
(* database for as long as the history is read, the reading holds a second *)
(* one between two commits, and asks for a third for every dialog and for  *)
(* the setting on files.  All come out of the process's pool, from which   *)
(* the lease, the outgoing queue and the commands are served too; of those *)
(* a send asks for a second connection while it holds its first.  Tasks    *)
(* are counted, not named.  The environment overrides nothing and memory   *)
(* binds nothing.                                                          *)
(***************************************************************************)
EXTENDS Integers

CONSTANTS
  Cores,         \* cores of the server
  DbPoolSize,    \* db_pool_size: the budget of the container
  DbMaxOverflow, \* db_max_overflow
  MaxSenders,    \* bound: tasks outside histories that hold one and ask for a second
  MaxSyncs,      \* bound: syncs begun in this process
  MaxElsewhere,  \* bound: syncs begun in the other processes
  MaxSyncCrashes \* bound

ASSUME SyncsAssumption ==
  /\ {Cores, DbPoolSize, DbMaxOverflow, MaxSenders, MaxSyncs, MaxElsewhere,
      MaxSyncCrashes} \subseteq Nat

VARIABLES
  queued,     \* tasks between two looks at the queue
  looking,    \* tasks that hold a connection and try for a place
  placed,     \* tasks that hold a place and wait for their session's connection
  reading,    \* tasks that hold both and read a history
  asking,     \* tasks that hold both and wait for a third
  knowing,    \* tasks that hold three
  sending,    \* sends that hold one and wait for a second
  others,     \* other connections in use by the rest of the process
  elsewhere,  \* places taken by other processes
  begun, begunElsewhere, crashed

readers == <<queued, looking, placed, reading, asking, knowing>>
bounds == <<begun, begunElsewhere, crashed>>
syncVars == <<readers, sending, others, elsewhere, bounds>>

AtLeast(n, m) == IF n < m THEN m ELSE n
AtMost(n, m) == IF n > m THEN m ELSE n

-----------------------------------------------------------------------------
\* worker_count, sync_slots and the two numbers of _pool_kwargs.
Workers == AtMost(AtLeast(Cores - 1, 1), 12)
SyncSlots == AtLeast(AtMost(Cores - 1, 6), 2)

\* Mutant: what may be opened over the pool is left out.
PoolWithoutOverflow == AtLeast(DbPoolSize \div Workers, 2)
Pool == AtLeast(DbPoolSize \div Workers, 2) + AtLeast(DbMaxOverflow \div Workers, 2)

HeldByHistories == placed + 2 * (reading + asking) + 3 * knowing
InUse == looking + HeldByHistories + sending + others
ConnectionFree == InUse < Pool
Places == placed + reading + asking + knowing + elsewhere

SyncsTypeOK ==
  /\ {queued, looking, placed, reading, asking, knowing} \subseteq 0..MaxSyncs
  /\ sending \in 0..MaxSenders /\ others \in 0..Pool /\ elsewhere \in 0..MaxElsewhere
  /\ InUse <= Pool
  /\ begun \in 0..MaxSyncs /\ begunElsewhere \in 0..MaxElsewhere /\ crashed \in 0..MaxSyncCrashes

SyncsInit ==
  /\ queued = 0 /\ looking = 0 /\ placed = 0 /\ reading = 0 /\ asking = 0 /\ knowing = 0
  /\ sending = 0 /\ others = 0 /\ elsewhere = 0
  /\ begun = 0 /\ begunElsewhere = 0 /\ crashed = 0

-----------------------------------------------------------------------------
\* catch_up of every account the process was given, sync_history of a director.
AskSync ==
  /\ begun < MaxSyncs
  /\ begun' = begun + 1 /\ queued' = queued + 1
  /\ UNCHANGED <<looking, placed, reading, asking, knowing, sending, others, elsewhere,
                 begunElsewhere, crashed>>

\* engine.connect
Look ==
  /\ queued > 0 /\ ConnectionFree
  /\ queued' = queued - 1 /\ looking' = looking + 1
  /\ UNCHANGED <<placed, reading, asking, knowing, sending, others, elsewhere, bounds>>

\* pg_try_advisory_xact_lock: the places are those of the server.
PlaceFree == Places < SyncSlots

TakePlace ==
  /\ looking > 0 /\ PlaceFree
  /\ looking' = looking - 1 /\ placed' = placed + 1
  /\ UNCHANGED <<queued, reading, asking, knowing, sending, others, elsewhere, bounds>>

\* No place: the connection is given back until the next look.
StandInQueue ==
  /\ looking > 0 /\ ~PlaceFree
  /\ looking' = looking - 1 /\ queued' = queued + 1
  /\ UNCHANGED <<placed, reading, asking, knowing, sending, others, elsewhere, bounds>>

\* The first statement of the session in the place, or the first after a commit.
BeginReading ==
  /\ placed > 0 /\ ConnectionFree
  /\ placed' = placed - 1 /\ reading' = reading + 1
  /\ UNCHANGED <<queued, looking, asking, knowing, sending, others, elsewhere, bounds>>

\* db.commit after a batch, the last one too: the session gives its connection
\* back until it reports how far it is.
CommitBatch ==
  /\ reading > 0
  /\ reading' = reading - 1 /\ placed' = placed + 1
  /\ UNCHANGED <<queued, looking, asking, knowing, sending, others, elsewhere, bounds>>

\* The next dialog, or a file whose policy must be looked up: a session of its own.
NextDialog ==
  /\ reading > 0
  /\ reading' = reading - 1 /\ asking' = asking + 1
  /\ UNCHANGED <<queued, looking, placed, knowing, sending, others, elsewhere, bounds>>

\* _known_since, history_policy: the third connection, given back with the answer.
LookUp ==
  /\ asking > 0 /\ ConnectionFree
  /\ asking' = asking - 1 /\ knowing' = knowing + 1
  /\ UNCHANGED <<queued, looking, placed, reading, sending, others, elsewhere, bounds>>
EndLookUp ==
  /\ knowing > 0
  /\ knowing' = knowing - 1 /\ reading' = reading + 1
  /\ UNCHANGED <<queued, looking, placed, asking, sending, others, elsewhere, bounds>>

\* Mutant: the place stays taken.
KeepsPlace == placed' = placed + 1
\* __aexit__: the lock goes with the transaction.
LeavesPlace == placed' = placed

\* done or failed, both are reported.
EndReading ==
  /\ reading > 0
  /\ reading' = reading - 1 /\ LeavesPlace
  /\ UNCHANGED <<queued, looking, asking, knowing, sending, others, elsewhere, bounds>>

\* The lease, the outgoing queue, a command, an incoming message.
Lend ==
  /\ ConnectionFree
  /\ others' = others + 1
  /\ UNCHANGED <<readers, sending, elsewhere, bounds>>
GiveBack ==
  /\ others > 0
  /\ others' = others - 1
  /\ UNCHANGED <<readers, sending, elsewhere, bounds>>

\* A send looks its recipient up in a session of its own while the transaction
\* that holds the row of the queue is open; both are given back in the end.
AskRecipient ==
  /\ others > 0 /\ sending < MaxSenders
  /\ others' = others - 1 /\ sending' = sending + 1
  /\ UNCHANGED <<readers, elsewhere, bounds>>
LookUpRecipient ==
  /\ sending > 0 /\ ConnectionFree
  /\ sending' = sending - 1 /\ others' = others + 2
  /\ UNCHANGED <<readers, elsewhere, bounds>>

\* The pool makes nobody wait longer than its timeout.  At the door and before
\* the session's first statement the history is over; in a dialog it is rolled
\* back and reported as failed, which needs the session again; the setting is
\* done without, and a send is put off.
WaitTimesOut ==
  /\ ~ConnectionFree
  /\ \/ /\ queued > 0 /\ queued' = queued - 1
        /\ UNCHANGED <<looking, placed, reading, asking, knowing, sending, others>>
     \/ /\ placed > 0 /\ placed' = placed - 1
        /\ UNCHANGED <<queued, looking, reading, asking, knowing, sending, others>>
     \/ /\ asking > 0 /\ asking' = asking - 1
        /\ \/ placed' = placed + 1 /\ reading' = reading
           \/ placed' = placed /\ reading' = reading + 1
        /\ UNCHANGED <<queued, looking, knowing, sending, others>>
     \/ /\ sending > 0 /\ sending' = sending - 1 /\ others' = others + 1
        /\ UNCHANGED readers
  /\ UNCHANGED <<elsewhere, bounds>>

ElsewhereTakes ==
  /\ begunElsewhere < MaxElsewhere /\ PlaceFree
  /\ begunElsewhere' = begunElsewhere + 1 /\ elsewhere' = elsewhere + 1
  /\ UNCHANGED <<readers, sending, others, begun, crashed>>
ElsewhereLeaves ==
  /\ elsewhere > 0
  /\ elsewhere' = elsewhere - 1
  /\ UNCHANGED <<readers, sending, others, bounds>>

\* The process dies, its connections and so its places with it.
SyncCrash ==
  /\ crashed < MaxSyncCrashes
  /\ crashed' = crashed + 1
  /\ queued' = 0 /\ looking' = 0 /\ placed' = 0 /\ reading' = 0 /\ asking' = 0 /\ knowing' = 0
  /\ sending' = 0 /\ others' = 0
  /\ UNCHANGED <<elsewhere, begun, begunElsewhere>>

SyncsNext ==
  \/ AskSync \/ Look \/ TakePlace \/ StandInQueue
  \/ BeginReading \/ CommitBatch \/ NextDialog \/ LookUp \/ EndLookUp \/ EndReading
  \/ Lend \/ GiveBack \/ AskRecipient \/ LookUpRecipient \/ WaitTimesOut
  \/ ElsewhereTakes \/ ElsewhereLeaves \/ SyncCrash

SyncsSpec == SyncsInit /\ [][SyncsNext]_syncVars

-----------------------------------------------------------------------------
\* All histories a process reads at once, each between two dialogs or in one,
\* leave a connection for the lease and the outgoing queue, so that a process
\* does not lose its accounts because it reads their histories.
HistoriesLeaveRoom == HeldByHistories < Pool

\* Every sync that was asked for is over in the end: nobody waits for a
\* connection that only those can give back who wait for one themselves (a wait
\* that is cut short by the pool's timeout is not counted on), and no place is
\* lost.
EverySyncEnds == <>[](queued + looking + placed + reading + asking + knowing = 0)
=============================================================================

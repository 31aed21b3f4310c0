--------------------------------- MODULE Live ---------------------------------
(***************************************************************************)
(* Notifications, from the transaction that makes them to the screen.      *)
(* Rows are written in somebody else's transaction, in which savepoints    *)
(* are released and rolled back; the events about them wait for its        *)
(* commit, go through Redis to the hub and down a websocket, and make the  *)
(* browser ask for the numbers again.  Redis and the websocket lose events *)
(* while they are down.                                                    *)
(***************************************************************************)
EXTENDS Naturals, Sequences, FiniteSets

CONSTANTS
  MaxNotices, MaxSavepoints, MaxOutages,   \* bounds
  Polled     \* the screen asks every minute as well

ASSUME LiveAssumption ==
  /\ {MaxNotices, MaxSavepoints, MaxOutages} \subseteq Nat
  /\ Polled \in BOOLEAN

Notice == 1..MaxNotices

VARIABLES
  stack,     \* the session's transaction: the root and the open savepoints
  pending,   \* session.info: events that wait, and the savepoints they are in
  savepoints,\* savepoints made so far
  made,      \* notices made so far, each with a number
  rows,      \* committed
  tasks,     \* events to be published, a task for each commit
  told,      \* history: events handed to a task
  redis, hub,\* Redis is up; the hub of the API process is subscribed
  socket,    \* the websocket: "none", "open", or "cut" unnoticed
  offline,   \* the browser has been offline and has not caught up (wasOffline)
  wire,      \* events on the websocket
  loaded,    \* the screen has had an answer
  reload,    \* the request for the rows: Nothing, Asked, or its answer
  screen,    \* the rows the screen shows
  outages

session == <<stack, pending, savepoints, made, rows, told>>
bus == <<redis, hub>>
browser == <<offline, loaded, reload, screen>>
liveVars == <<session, tasks, bus, socket, browser, wire, outages>>

Nothing == [ph |-> "none", rows |-> {}]
Asked == [ph |-> "asked", rows |-> {}]
Answered(r) == [ph |-> "answered", rows |-> r]

LiveTypeOK ==
  /\ \A i \in DOMAIN stack : stack[i] \in [tx : 0..MaxSavepoints, rows : SUBSET Notice]
  /\ pending \subseteq [notice : Notice, inside : SUBSET (1..MaxSavepoints)]
  /\ rows \subseteq 1..made /\ told \subseteq 1..made /\ tasks \subseteq told
  /\ wire \subseteq told
  /\ socket \in {"none", "open", "cut"}
  /\ reload \in {Nothing, Asked} \cup {Answered(r) : r \in SUBSET Notice}
  /\ screen \subseteq rows
  /\ hub => redis
  /\ outages \in 0..MaxOutages

LiveInit ==
  /\ stack = <<>> /\ pending = {} /\ savepoints = 0 /\ made = 0 /\ rows = {}
  /\ tasks = {} /\ told = {}
  /\ redis = TRUE /\ hub = TRUE
  /\ socket = "none" /\ offline = TRUE /\ wire = {}
  /\ loaded = FALSE /\ reload = Asked /\ screen = {}
  /\ outages = 0

-----------------------------------------------------------------------------
(* The session. *)

Top == Len(stack)
Inside == {stack[i].tx : i \in 2..Top}

Begin ==
  /\ stack = <<>> /\ made < MaxNotices
  /\ stack' = <<[tx |-> 0, rows |-> {}]>>
  /\ UNCHANGED <<pending, savepoints, made, rows, told, tasks, bus, socket, browser, wire, outages>>

Savepoint ==
  /\ Top > 0 /\ savepoints < MaxSavepoints
  /\ savepoints' = savepoints + 1
  /\ stack' = Append(stack, [tx |-> savepoints', rows |-> {}])
  /\ UNCHANGED <<pending, made, rows, told, tasks, bus, socket, browser, wire, outages>>

\* _defer_events: session.info keeps an event with the savepoints it is in.
Deferred(n) == pending \cup {[notice |-> n, inside |-> Inside]}

\* notify: the row is flushed, its event is deferred.
Notify ==
  /\ Top > 0 /\ made < MaxNotices
  /\ made' = made + 1
  /\ stack' = [stack EXCEPT ![Top].rows = @ \cup {made'}]
  /\ pending' = Deferred(made')
  /\ UNCHANGED <<savepoints, rows, told, tasks, bus, socket, browser, wire, outages>>

\* Mutant: releasing a savepoint counts as a commit.
PublishedAlways(depth) == {p.notice : p \in pending}
\* _publish_after_commit, called for a savepoint (depth > 1) and for the root.
PublishedAt(depth) == IF depth > 1 THEN {} ELSE {p.notice : p \in pending}

Publish ==
  /\ told' = told \cup PublishedAt(Top)
  /\ tasks' = tasks \cup PublishedAt(Top)
  /\ pending' = IF PublishedAt(Top) = {} THEN pending ELSE {}

Release ==
  /\ Top > 1
  /\ stack' = [SubSeq(stack, 1, Top - 1) EXCEPT ![Top - 1].rows = @ \cup stack[Top].rows]
  /\ Publish
  /\ UNCHANGED <<savepoints, made, rows, bus, socket, browser, wire, outages>>

CommitRoot ==
  /\ Top = 1
  /\ rows' = rows \cup stack[1].rows
  /\ stack' = <<>>
  /\ Publish
  /\ UNCHANGED <<savepoints, made, bus, socket, browser, wire, outages>>

\* _drop_after_rollback and _inside: what is in it or in a deeper one.
KeptAfter(tx) == {p \in pending : tx \notin p.inside}

RollbackSavepoint ==
  /\ Top > 1
  /\ pending' = KeptAfter(stack[Top].tx)
  /\ stack' = SubSeq(stack, 1, Top - 1)
  /\ UNCHANGED <<savepoints, made, rows, told, tasks, bus, socket, browser, wire, outages>>

\* _drop_after_rollback, _forget_after_transaction.
Forgotten == {}

RollbackRoot ==
  /\ Top > 0
  /\ stack' = <<>> /\ pending' = Forgotten
  /\ UNCHANGED <<savepoints, made, rows, told, tasks, bus, socket, browser, wire, outages>>

-----------------------------------------------------------------------------
(* Redis, the hub and the websocket. *)

\* _emit_all, publish, _pump, send_to.
Emit(n) ==
  /\ n \in tasks
  /\ tasks' = tasks \ {n}
  /\ wire' = IF redis /\ hub /\ socket = "open" THEN wire \cup {n} ELSE wire
  /\ UNCHANGED <<session, bus, socket, browser, outages>>

RedisDies ==
  /\ redis /\ outages < MaxOutages
  /\ redis' = FALSE /\ hub' = FALSE /\ outages' = outages + 1
  /\ UNCHANGED <<session, tasks, socket, browser, wire>>

RedisReturns ==
  /\ ~redis /\ redis' = TRUE
  /\ UNCHANGED <<session, tasks, hub, socket, browser, wire, outages>>

\* _pump subscribes again after its pause.
Subscribe ==
  /\ redis /\ ~hub /\ hub' = TRUE
  /\ UNCHANGED <<session, tasks, redis, socket, browser, wire, outages>>

\* onopen: what was missed is asked for.
Open ==
  /\ socket = "none" /\ socket' = "open"
  /\ offline' = FALSE
  /\ reload' = IF offline /\ loaded THEN Asked ELSE reload
  /\ UNCHANGED <<session, tasks, bus, loaded, screen, wire, outages>>

SocketCut ==
  /\ socket = "open" /\ outages < MaxOutages
  /\ socket' = "cut" /\ wire' = {} /\ outages' = outages + 1
  /\ UNCHANGED <<session, tasks, bus, browser>>

\* onclose: status "offline".
Close ==
  /\ socket = "cut" /\ socket' = "none" /\ offline' = TRUE
  /\ UNCHANGED <<session, tasks, bus, loaded, reload, screen, wire, outages>>

-----------------------------------------------------------------------------
(* The screen.  A request that is under way is given up for a new one,     *)
(* but not the first, before there is anything to show (React Query).      *)

EventArrives(n) ==
  /\ n \in wire /\ wire' = wire \ {n}
  /\ reload' = IF loaded \/ reload = Nothing THEN Asked ELSE reload
  /\ UNCHANGED <<session, tasks, bus, socket, offline, loaded, screen, outages>>

\* list_for, unread_count.
Read ==
  /\ reload = Asked /\ reload' = Answered(rows)
  /\ UNCHANGED <<session, tasks, bus, socket, offline, loaded, screen, wire, outages>>

Show ==
  /\ reload.ph = "answered"
  /\ screen' = reload.rows /\ reload' = Nothing /\ loaded' = TRUE
  /\ UNCHANGED <<session, tasks, bus, socket, offline, wire, outages>>

\* Mutant: only until there is something to show.
PollsAtFirst == Polled /\ ~loaded
\* refetchInterval.
Polls == Polled

Poll ==
  /\ Polls /\ reload = Nothing /\ screen # rows
  /\ reload' = Asked
  /\ UNCHANGED <<session, tasks, bus, socket, offline, loaded, screen, wire, outages>>

SessionStep == \/ Begin \/ Savepoint \/ Notify \/ Release \/ CommitRoot
               \/ RollbackSavepoint \/ RollbackRoot
Delivers == \/ \E n \in Notice : Emit(n) \/ EventArrives(n)
            \/ RedisReturns \/ Subscribe \/ Open \/ Close \/ Read \/ Show

LiveNext == SessionStep \/ Delivers \/ RedisDies \/ SocketCut \/ Poll

LiveSpec == LiveInit /\ [][LiveNext]_liveVars

-----------------------------------------------------------------------------
(* Properties. *)

\* Events are about rows that others can read: one of a savepoint or of a
\* transaction that was rolled back is never published
\* (notification_service.py, the comment over _PENDING).
ToldIsCommitted == told \subseteq rows

\* Between transactions nothing waits: every committed row was told, and no
\* event is left for the commit of somebody else.
CommittedIsTold == stack = <<>> => rows \subseteq told /\ pending = {}

\* Events are told of exactly the rows that were committed (_publish_after_commit,
\* _drop_after_rollback), neither of more nor, once the transaction is over, of less.
EventsMatchRows == LiveTypeOK /\ ToldIsCommitted /\ CommittedIsTold

\* The screen gets to show all there is in the database, again and again,
\* whatever Redis and the websocket lose.
ScreenCatchesUp == []<>(rows \subseteq screen)
=============================================================================

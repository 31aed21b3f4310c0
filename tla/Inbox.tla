-------------------------------- MODULE Inbox --------------------------------
(***************************************************************************)
(* How the messages of one Telegram account get into the CRM               *)
(* (services/inbound_service.py, gateway/handlers.py, mtproto_provider):   *)
(* live events, each handled by a task of its own; the walk through the    *)
(* history, which reads what was missed in batches of one transaction; and *)
(* the counters of the chats (unread, waiting for an answer), which those  *)
(* two, the managers and the owner's phone change.                         *)
(*                                                                         *)
(* A message is its number; numbers grow with time, so a number is also a  *)
(* date, and Now is the date of the latest message of the account.  What   *)
(* is not newer than old is more than a week ago.                          *)
(***************************************************************************)
EXTENDS Integers, Sequences, FiniteSets, FiniteSetsExt

CONSTANTS
  Chat,          \* people who write to the account
  Batch,         \* HISTORY_BATCH_COMMIT
  Limit,         \* per_dialog_limit: messages a walk reads of a dialog, newest first
  MaxMsg,        \* bound: messages in Telegram
  MaxTroubles    \* bound: deaths of the gateway, and walks on demand

ASSUME InboxAssumption ==
  /\ Batch \in Nat \ {0} /\ Limit \in Nat
  /\ MaxMsg \in Nat /\ MaxTroubles \in Nat

VARIABLES
  calm,      \* scenario: nothing overtakes anything (see Undisturbed)
  old,       \* how many of the messages are older than CATCH_UP_MAX_LOOKBACK_DAYS
  tg,        \* the messages in Telegram, and whether the gateway was down
  rows,      \* messages the CRM has
  conv,      \* the rows of the conversations
  activity,  \* last_activity_at of the account, 0 when it was connected
  up,        \* the session is connected
  due,       \* it has just been opened: catch_up will look what was missed
  task,      \* live events being handled
  sync,      \* the walk through the history
  reply,     \* requests of managers that answer: the row they have read
  left,      \* bound: crashes and walks on demand still to come
  story      \* history: the messages that rang, up to where each chat was read, what
             \* a walk left out as too old or too far back in its dialog, and the chats
             \* whose number of unread (miscounted) or whose waiting (misdated) was
             \* written from an old reading or out of order

clock == <<calm, old>>
gateway == <<up, due, task, sync>>
vars == <<clock, tg, rows, conv, activity, gateway, reply, left, story>>

Id == 1..MaxMsg
Now == Len(tg)
\* Messages of c.
Of(c) == {i \in 1..Len(tg) : tg[i].chat = c}
Incoming(c) == {i \in Of(c) : ~tg[i].out}
Latest(S) == IF S = {} THEN 0 ELSE Max(S)
Later(a, b) == IF a > b THEN a ELSE b

Row == [exists : BOOLEAN, unread : Nat, awaiting : Nat, manager : Nat]
NoRow == [exists |-> FALSE, unread |-> 0, awaiting |-> 0, manager |-> 0]
NoTask == [at |-> "none", seen |-> NoRow]
NoReply == [open |-> FALSE, seen |-> NoRow]
NoSync == [at |-> "off", since |-> 0, left |-> {}, chat |-> CHOOSE c \in Chat : TRUE,
           known |-> {}, todo |-> {}, cur |-> 0, met |-> FALSE, batch |-> {},
           locked |-> FALSE]

Init ==
  /\ calm \in BOOLEAN /\ old = 0
  /\ tg = <<>> /\ rows = {}
  /\ conv = [c \in Chat |-> NoRow]
  /\ activity = 0
  /\ up = TRUE
  /\ task = [i \in Id |-> NoTask]
  /\ reply = [c \in Chat |-> NoReply]
  /\ due = FALSE
  /\ sync = NoSync
  /\ left = MaxTroubles
  /\ story = [rang |-> {}, read |-> [c \in Chat |-> 0], cut |-> {},
              miscounted |-> {}, misdated |-> {}]

(* In a calm behaviour nothing is written while the history is walked or a *)
(* first message is handled, and the gateway dies only when it is idle.    *)
Idle == sync.at = "off" /\ ~due /\ \A i \in Id : task[i].at = "none"
Undisturbed == calm => Idle

-----------------------------------------------------------------------------
(* Telegram.                                                               *)

\* The task of an event: first the message is taken apart and its files are read.
Arrival == [NoTask EXCEPT !.at = "came"]

(* The client writes, or the owner of the account does from the phone.     *)
Write(c) ==
  /\ Len(tg) < MaxMsg
  /\ Undisturbed
  /\ \E out \in BOOLEAN : tg' = Append(tg, [chat |-> c, out |-> out, missed |-> ~up])
  /\ task' = IF up THEN [task EXCEPT ![Len(tg) + 1] = Arrival] ELSE task
  /\ UNCHANGED <<clock, rows, conv, activity, up, due, sync, reply, left, story>>

(* A week without a message: all there is gets too old for catch_up.  No   *)
(* task, walk or request lasts that long.                                  *)
WeekPasses ==
  /\ old # Now
  /\ Idle /\ \A c \in Chat : ~reply[c].open
  /\ old' = Now
  /\ UNCHANGED <<calm, tg, rows, conv, activity, gateway, reply, left, story>>

(* The gateway dies: open transactions are rolled back, events are lost.   *)
Crash ==
  /\ up /\ left > 0
  /\ Undisturbed
  /\ up' = FALSE
  /\ left' = left - 1
  /\ task' = [i \in Id |-> NoTask]
  /\ sync' = NoSync
  /\ due' = FALSE
  /\ UNCHANGED <<clock, tg, rows, conv, activity, reply, story>>

(* Some process opens the session again and lets catch_up look.            *)
Connect ==
  /\ ~up
  /\ up' = TRUE
  /\ due' = TRUE
  /\ UNCHANGED <<clock, tg, rows, conv, activity, task, sync, reply, left, story>>

-----------------------------------------------------------------------------
(* Counters of a conversation.                                             *)

\* Only live messages ring.
Counted(i, live) == live

\* Mutant: an answer given on the phone does not stop the waiting.
ClearsNever(i) == FALSE
\* Any answer stops it: from the CRM, from the phone, by the funnel.
Clears(i) == tg[i].out

(* _apply_counters: what the messages S make of the row.                   *)
Applied(row, S, live) ==
  LET outs == {i \in S : tg[i].out}
      ringing == {i \in S \ outs : Counted(i, live)}
  IN [exists   |-> TRUE,
      manager  |-> Later(row.manager, Latest(outs)),
      unread   |-> row.unread + Cardinality(ringing),
      awaiting |-> IF \E i \in S : Clears(i) THEN 0
                   ELSE IF row.awaiting = 0 /\ ringing # {} THEN Min(ringing)
                   ELSE row.awaiting]

\* The ORM writes the columns that differ from what was read.
Column(now, was, new) == IF new = was THEN now ELSE new
Merge(row, seen, new) ==
  [exists   |-> row.exists \/ new.exists,
   unread   |-> Column(row.unread, seen.unread, new.unread),
   awaiting |-> Column(row.awaiting, seen.awaiting, new.awaiting),
   manager  |-> Column(row.manager, seen.manager, new.manager)]

\* Messages of c that rang and are newer than every answer.
Open(c) == {i \in story.rang \cap Of(c) : i > conv[c].manager}
\* What the waiting of c says already is newer than i: a message that is open, or the
\* answer to i.
Overtaken(c, i) == (\E j \in Open(c) : j > i) \/ (~tg[i].out /\ i <= conv[c].manager)
\* The waiting, or the last answer, is no longer what was read.
Outdated(c, seen) == seen.awaiting # conv[c].awaiting \/ seen.manager # conv[c].manager

-----------------------------------------------------------------------------
(* Live events.                                                            *)

(* write_inbound: after the media are read, the conversation is read and   *)
(* the message is looked for.                                              *)
LiveRead(i) ==
  /\ task[i].at = "came"
  /\ task' = [task EXCEPT ![i] = IF i \in rows THEN NoTask
                                 ELSE [at |-> "read", seen |-> conv[tg[i].chat]]]
  /\ UNCHANGED <<clock, tg, rows, conv, activity, up, due, sync, reply, left, story>>

\* Creating the conversation in a transaction that is still open.
Creates(i, c) == task[i].at = "inserted" /\ ~task[i].seen.exists /\ tg[i].chat = c
SyncCreates(c) == ~conv[c].exists /\ sync.batch \cap Of(c) # {}

(* The rows are inserted.  A unique index makes an insert wait for another *)
(* transaction that inserted the same; if that commits, this one is rolled *)
(* back: a message that is there already is no loss, but whoever loses the *)
(* race for a new conversation goes on with an expired account and fails.  *)
LiveInsert(i) ==
  LET c == tg[i].chat IN
  /\ task[i].at = "read"
  /\ i \notin sync.batch
  /\ task[i].seen.exists \/ ~(SyncCreates(c) \/ \E j \in Id : Creates(j, c))
  /\ task' = [task EXCEPT ![i] =
                IF i \in rows \/ (~task[i].seen.exists /\ conv[c].exists)
                THEN NoTask ELSE [@ EXCEPT !.at = "inserted"]]
  /\ UNCHANGED <<clock, tg, rows, conv, activity, up, due, sync, reply, left, story>>

(* The counters and the account are written and everything is committed;   *)
(* the walk through the history may hold the row of the account.           *)
LiveCommit(i) ==
  LET c == tg[i].chat  seen == task[i].seen IN
  /\ task[i].at = "inserted"
  /\ ~sync.locked
  /\ rows' = rows \cup {i}
  /\ conv' = [conv EXCEPT ![c] = Merge(@, seen, Applied(seen, {i}, TRUE))]
  /\ activity' = Now
  /\ LET rings == ~tg[i].out
         lost == rings /\ (seen.unread # conv[c].unread \/ i <= story.read[c])
         late == Outdated(c, seen) \/ Overtaken(c, i)
     IN story' = [story EXCEPT !.rang = IF rings THEN @ \cup {i} ELSE @,
                               !.miscounted = IF lost THEN @ \cup {c} ELSE @,
                               !.misdated = IF late THEN @ \cup {c} ELSE @]
  /\ task' = [task EXCEPT ![i] = NoTask]
  /\ UNCHANGED <<clock, tg, up, due, sync, reply, left>>

(* The owner reads the chat on the phone up to k (mark_incoming_read):     *)
(* unread stays what the CRM knows to be newer.                            *)
PhoneRead(c, k) ==
  /\ up /\ conv[c].exists
  /\ k \in Incoming(c) /\ k > story.read[c]
  /\ LET n == Cardinality({i \in Incoming(c) \cap rows : i > k}) IN
     conv' = [conv EXCEPT ![c].unread = IF n < @ THEN n ELSE @]
  /\ story' = [story EXCEPT !.read[c] = k]
  /\ UNCHANGED <<clock, tg, rows, activity, gateway, reply, left>>

-----------------------------------------------------------------------------
(* Managers.                                                               *)

(* mark_read: a manager opens the chat.                                    *)
MarkRead(c) ==
  /\ conv[c].unread > 0
  /\ conv' = [conv EXCEPT ![c].unread = 0]
  /\ story' = [story EXCEPT !.read[c] = Later(@, Latest(Incoming(c) \cap rows))]
  /\ UNCHANGED <<clock, tg, rows, activity, gateway, reply, left>>

(* post_message: the chat is read, then locked, then the counters written  *)
(* (mark_replied).                                                         *)
ReplyRead(c) ==
  /\ conv[c].exists /\ ~reply[c].open
  /\ conv[c].manager < Now
  /\ reply' = [reply EXCEPT ![c] = [open |-> TRUE, seen |-> conv[c]]]
  /\ UNCHANGED <<clock, tg, rows, conv, activity, gateway, left, story>>

Reply(c) ==
  LET seen == reply[c].seen IN
  /\ reply[c].open
  /\ ~(sync.locked /\ \E i \in sync.batch : tg[i].chat = c)
  /\ conv' = [conv EXCEPT ![c] =
                Merge(@, seen, [seen EXCEPT !.manager = Now, !.awaiting = 0])]
  /\ story' = [story EXCEPT !.misdated = IF Outdated(c, seen) THEN @ \cup {c} ELSE @]
  /\ reply' = [reply EXCEPT ![c] = NoReply]
  /\ UNCHANGED <<clock, tg, rows, activity, gateway, left>>

-----------------------------------------------------------------------------
(* The walk through the history.                                           *)

\* Where the walk goes on when todo is left of its dialog.
Onward(todo) == IF todo = {} THEN "next" ELSE "walk"

Walk(since) == [NoSync EXCEPT !.at = "next", !.since = since, !.left = Chat]

\* Mutant: what is missing is taken to begin now.
SinceNow == Now
\* catch_up goes back to what the account last did, and never more than a week.
Since == Later(activity, old)

(* catch_up: connecting the account set its last activity, so there is one. *)
CatchUp ==
  /\ up /\ due /\ sync.at = "off"
  /\ due' = FALSE
  /\ sync' = Walk(Since)
  /\ story' = [story EXCEPT !.cut = @ \cup {i \in 1..old : i > activity /\ i \notin rows}]
  /\ UNCHANGED <<clock, tg, rows, conv, activity, up, task, reply, left>>

(* The command sync_history: from the date in the settings, which is       *)
(* before everything.                                                      *)
Resync ==
  /\ up /\ sync.at = "off" /\ left > 0
  /\ ~calm
  /\ left' = left - 1
  /\ sync' = Walk(0)
  /\ UNCHANGED <<clock, tg, rows, conv, activity, up, due, task, reply, story>>

(* The next dialog: first what the CRM knows of it, then its messages.     *)
Dialog(c) ==
  /\ sync.at = "next" /\ c \in sync.left
  /\ sync' = [sync EXCEPT !.at = "list", !.chat = c, !.left = @ \ {c}, !.known = rows \cap Of(c)]
  /\ UNCHANGED <<clock, tg, rows, conv, activity, up, due, task, reply, left, story>>

\* The newest messages of a dialog, the known ones too.
Page(c) == {i \in Of(c) : Cardinality({j \in Of(c) : j > i}) < Limit}

List ==
  /\ sync.at = "list"
  /\ LET wanted == {i \in Of(sync.chat) : i > sync.since} \ sync.known
         todo == wanted \cap Page(sync.chat)
     IN /\ sync' = [sync EXCEPT !.at = Onward(todo), !.todo = todo, !.known = {}]
        /\ story' = [story EXCEPT !.cut = @ \cup (wanted \ todo)]
  /\ UNCHANGED <<clock, tg, rows, conv, activity, up, due, task, reply, left>>

(* The newest message not seen yet is looked for; looking flushes what the *)
(* transaction has written so far, which locks the row of the account.     *)
Look ==
  /\ sync.at = "walk" /\ sync.todo # {}
  /\ LET i == Max(sync.todo) IN
     sync' = [sync EXCEPT !.at = IF i \in rows THEN Onward(sync.todo \ {i}) ELSE "insert",
                          !.todo = @ \ {i}, !.cur = i, !.locked = sync.batch # {},
                          !.met = conv[tg[i].chat].exists \/ SyncCreates(tg[i].chat)]
  /\ UNCHANGED <<clock, tg, rows, conv, activity, up, due, task, reply, left, story>>

(* The transaction of the walk is committed.  Messages of the past change  *)
(* the dates of the chat and stop the waiting, but do not ring.            *)
Committed(S) ==
  /\ rows' = rows \cup S
  /\ conv' = [c \in Chat |-> LET mine == S \cap Of(c) IN
                IF mine = {} THEN conv[c] ELSE Applied(conv[c], mine, FALSE)]
  /\ activity' = IF S = {} THEN activity ELSE Now
  /\ story' = [story EXCEPT !.misdated = @ \cup
                 {c \in Chat : \E i \in S \cap Of(c) : tg[i].out /\ Overtaken(c, i)}]

\* Every HISTORY_BATCH_COMMIT messages the transaction is committed.
Full(batch) == Cardinality(batch) = Batch

(* The message is inserted; a full batch is committed.                     *)
Insert ==
  LET i == sync.cur  c == tg[i].chat IN
  /\ sync.at = "insert"
  /\ i \notin rows /\ task[i].at # "inserted"
  /\ sync.met \/ ~(conv[c].exists \/ \E j \in Id : Creates(j, c))
  /\ LET batch == sync.batch \cup {i} IN
     IF Full(batch)
     THEN /\ Committed(batch)
          /\ sync' = [sync EXCEPT !.at = Onward(sync.todo), !.batch = {}, !.locked = FALSE]
     ELSE /\ sync' = [sync EXCEPT !.at = Onward(sync.todo), !.batch = batch]
          /\ UNCHANGED <<rows, conv, activity, story>>
  /\ UNCHANGED <<clock, tg, up, due, task, reply, left>>

(* Its live event was faster: the whole batch is rolled back, and with it  *)
(* the account the walk holds expires.  Nothing more is read from this     *)
(* dialog, and another dialog ends the walk with an error.  If it was the  *)
(* conversation that was created meanwhile, the error comes at once.       *)
Conflict ==
  /\ sync.at = "insert"
  /\ IF sync.met THEN sync.cur \in rows ELSE conv[tg[sync.cur].chat].exists
  /\ sync' = NoSync
  /\ UNCHANGED <<clock, tg, rows, conv, activity, up, due, task, reply, left, story>>

(* The live task has inserted the message and waits for the account, the   *)
(* walk holds the account and waits for the message: the database ends one *)
(* of them.                                                                *)
Deadlock(i) ==
  /\ sync.at = "insert" /\ sync.locked
  /\ task[i].at = "inserted"
  /\ sync.cur = i \/ (~sync.met /\ Creates(i, tg[sync.cur].chat))
  /\ \/ /\ task' = [task EXCEPT ![i] = NoTask]
        /\ UNCHANGED <<sync>>
     \/ /\ sync' = NoSync
        /\ UNCHANGED task
  /\ UNCHANGED <<clock, tg, rows, conv, activity, up, due, reply, left, story>>

(* Telegram asks to wait: the rest of the dialog is left out.              *)
Flood ==
  /\ sync.at \in {"list", "walk"}
  /\ ~calm
  /\ sync' = [sync EXCEPT !.at = "next", !.todo = {}]
  /\ UNCHANGED <<clock, tg, rows, conv, activity, up, due, task, reply, left, story>>

(* Nothing is left: what is not committed yet is.                          *)
Finish ==
  /\ sync.at = "next" /\ sync.left = {}
  /\ Committed(sync.batch)
  /\ sync' = NoSync
  /\ UNCHANGED <<clock, tg, up, due, task, reply, left>>

Step == CatchUp \/ (\E c \in Chat : Dialog(c)) \/ List \/ Look \/ Insert \/ Conflict
        \/ Finish
Handle(i) == LiveRead(i) \/ LiveInsert(i) \/ LiveCommit(i)

Next ==
  \/ \E c \in Chat : Write(c) \/ (\E k \in Id : PhoneRead(c, k)) \/ MarkRead(c) \/ ReplyRead(c) \/ Reply(c)
  \/ \E i \in Id : Handle(i) \/ Deadlock(i)
  \/ WeekPasses \/ Crash \/ Connect \/ Resync \/ Flood
  \/ Step

Spec == Init /\ [][Next]_vars

(* A dead session is opened again by some process, the walk goes on, and   *)
(* every task that does not wait for a lock runs; the database breaks      *)
(* deadlocks.                                                              *)
FairSpec ==
  /\ Spec
  /\ WF_vars(Connect) /\ WF_vars(Step)
  /\ \A i \in Id : WF_vars(Handle(i)) /\ WF_vars(Deadlock(i))

-----------------------------------------------------------------------------
(* Properties.                                                             *)

TypeOK ==
  /\ calm \in BOOLEAN /\ up \in BOOLEAN /\ due \in BOOLEAN
  /\ tg \in Seq([chat : Chat, out : BOOLEAN, missed : BOOLEAN]) /\ Len(tg) <= MaxMsg
  /\ old \in 0..Len(tg)
  /\ rows \subseteq 1..Len(tg)
  /\ conv \in [Chat -> Row]
  /\ activity \in 0..Len(tg)
  /\ task \in [Id -> [at : {"none", "came", "read", "inserted"}, seen : Row]]
  /\ \A i \in Id : task[i].at # "none" => up /\ i <= Len(tg)
  /\ reply \in [Chat -> [open : BOOLEAN, seen : Row]]
  /\ sync.at \in {"off", "next", "list", "walk", "insert"}
  /\ sync.batch \subseteq 1..Len(tg) /\ sync.batch \cap rows = {}
  /\ Cardinality(sync.batch) < Batch
  /\ left \in 0..MaxTroubles
  /\ story \in [rang : SUBSET rows, read : [Chat -> Nat], cut : SUBSET (1..Len(tg)),
                miscounted : SUBSET Chat, misdated : SUBSET Chat]

\* A chat waits since the first message that is open, or does not wait.
WaitsFromTheFirst(c) == conv[c].awaiting = IF Open(c) = {} THEN 0 ELSE Min(Open(c))

\* Messages of S that the client wrote in c and nobody has read.
Fresh(c, S) == {i \in S \cap Incoming(c) : i > story.read[c]}
\* The number on a chat is never less than the messages that rang and were not
\* read, and never more than the messages not read.
UnreadIsRight(c) ==
  Cardinality(Fresh(c, story.rang)) <= conv[c].unread
  /\ conv[c].unread <= Cardinality(Fresh(c, rows))

(* In turn, the two counters of a chat, since when it waits and how many   *)
(* are unread, are right (_apply_counters, mark_read, mark_incoming_read): *)
(* each of them until it was itself written by somebody who had read an    *)
(* older value of it, or applied a message after a newer one; what happens *)
(* to one counter or chat never spoils another.                            *)
CountersAreHonestInTurn ==
  /\ TypeOK
  /\ \A c \in Chat \ story.misdated : WaitsFromTheFirst(c)
  /\ \A c \in Chat \ story.miscounted : UnreadIsRight(c)

(* Waiting for an answer begins with the first message without an answer   *)
(* (docs/12-telegram-connect.md, _apply_counters), with no exception.      *)
EveryoneWaitsFromTheFirst == \A c \in Chat : WaitsFromTheFirst(c)

(* Every message of a client adds one to the unread ones of its chat       *)
(* (docs/12-telegram-connect.md): with no exception, what rang and was not *)
(* read is counted.                                                        *)
EveryMessageCounts == \A c \in Chat : Cardinality(Fresh(c, story.rang)) <= conv[c].unread

(* Messages that came while the gateway was down are not lost either       *)
(* (docs/12-telegram-connect.md): they all get into the CRM.               *)
MissedIsCaughtUp == \A i \in Id : i <= Len(tg) /\ tg[i].missed ~> i \in rows

(* Whether the gateway is up or down, every message gets into the CRM if   *)
(* nothing overtakes the catching up and no two messages race, except what *)
(* a walk left out because it was more than a week old or behind the       *)
(* newest Limit messages of its dialog (catch_up, iter_history).           *)
NothingIsLostInTurn == \A i \in Id : calm /\ i <= Len(tg) ~> i \in rows \cup story.cut

=============================================================================

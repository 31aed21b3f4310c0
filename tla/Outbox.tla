------------------------------- MODULE Outbox -------------------------------
(***************************************************************************)
(* The outgoing queue of ONE Telegram account.                             *)
(*                                                                         *)
(* A manager's message is a row of `messages` (QUEUED) and a row of        *)
(* `outbox` (PENDING), written in one transaction by the API process.  The *)
(* gateway process that holds the account's lease drains the queue: it     *)
(* locks one row, makes the Telegram calls of its send plan one after the  *)
(* other, and writes the outcome.  The whole attempt is one database       *)
(* transaction: SENDING is flushed but never committed, so a process that  *)
(* dies gives the row back as PENDING and the same calls are made again    *)
(* with the same random ids.                                               *)
(*                                                                         *)
(* A drain that runs on after the lease moved is part of the model: the    *)
(* loop re-reads the lease only between two drains.                        *)
(***************************************************************************)
EXTENDS Naturals, Sequences, FiniteSets

CONSTANTS
  NMsg,          \* messages the managers write; their ids are 1..NMsg
  ConvOf,        \* the dialog (a number) each message belongs to
  PartsOf,       \* how many Telegram calls the send plan of a message makes
  BatchOf,       \* the forward a message belongs to, 0 for an ordinary message
  FileOf,        \* the state of the message's attachment when it is posted
  Worker,        \* gateway processes
  None,          \* "no message"
  MaxAttempts,   \* MAX_ATTEMPTS
  Backoff,       \* BACKOFF_SECONDS, in ticks
  FileWait,      \* FILE_NOT_READY_WAIT, in ticks
  FloodWait,     \* the delay Telegram names, in ticks
  Tab,           \* where "retry" is pressed: each has one request at a time
  MaxTime,       \* bound: the clock stops here, and every deadline is cut to it
  MaxFaults,     \* bound: calls that fail or are refused in a behaviour
  MaxUpsets      \* bound: crashes, rollbacks and lease moves in a behaviour

Msg == 1..NMsg
Part == Msg \X Nat                    \* <<m, s>>: call s of message m
RandomId == Msg \X Nat \X Nat         \* what step_random_id hashes
FileState == {"none", "pending", "ready", "gone"}

ASSUME OutboxAssumption ==
  /\ NMsg \in Nat
  /\ ConvOf \in [Msg -> Nat]
  /\ PartsOf \in [Msg -> Nat \ {0}]
  /\ BatchOf \in [Msg -> Nat]
  /\ FileOf \in [Msg -> FileState]
  /\ None \notin Msg
  /\ MaxAttempts \in Nat \ {0}
  /\ Backoff \in [1..MaxAttempts -> Nat]
  /\ {FileWait, FloodWait, MaxTime, MaxFaults, MaxUpsets} \subseteq Nat

VARIABLES
  now,       \* the clock
  row,       \* outbox rows as committed
  msg,       \* messages.status as committed
  file,      \* attachments.status of the message's file
  retry,     \* the retry requests of a message: what each has read so far
  online,    \* the account has a link (account_link.has_link)
  blocked,   \* dialogs with is_blocked_by_client
  owner,     \* the process named by telegram_accounts.worker_id
  draining,  \* processes inside drain_account_outbox for this account
  job,       \* the open transaction of a process
  paused,    \* _account_paused_until of a process; 0 when absent
  chat,      \* what the clients' phones show: one set of parts per request
  seen,      \* random ids Telegram has accepted
  ban,       \* the end of Telegram's flood ban on the account
  kept,      \* history: the last postponement of the queue, and its rows
  doubled,   \* history: messages with two retry requests under way at once
  faults,    \* failed calls so far
  upsets     \* crashes, rollbacks and lease moves so far

vars == <<now, row, msg, file, retry, doubled, online, blocked, owner, draining, job,
          paused, chat, seen, ban, kept, faults, upsets>>
db == <<row, msg>>
telegram == <<chat, seen, ban, kept>>
account == <<online, blocked, owner>>
bounds == <<faults, upsets>>

-----------------------------------------------------------------------------
Row == [st : {"none", "PENDING", "DONE", "FAILED"}, att : Nat, due : Nat,
        fwd : BOOLEAN]
NoRow == [st |-> "none", att |-> 0, due |-> 0, fwd |-> FALSE]
NewRow(m) == [st |-> "PENDING", att |-> 0, due |-> now, fwd |-> BatchOf[m] # 0]

(* A retry request: what it has read of the queue row.                     *)
Asked == [ph : {"none", "message", "row"}, st : {"none", "PENDING", "DONE", "FAILED"},
          att : Nat]
NoRetry == [ph |-> "none", st |-> "none", att |-> 0]

Idle == [ph |-> "idle", rows |-> {}, lead |-> None, step |-> 0, until |-> 0]
Busy == [ph : {"calling", "flood", "lost"}, rows : SUBSET Msg, lead : Msg, step : Nat,
         until : Nat]
Job == Busy \cup {Idle}

(* Deadlines past the end of the modelled time are cut to it.              *)
At(delay) == IF now + delay > MaxTime THEN MaxTime ELSE now + delay

Locked == UNION {job[w].rows : w \in Worker}
Pending(m) == row[m].st = "PENDING"
Paused(w) == paused[w] > now
Group(m) == IF BatchOf[m] = 0 THEN {m} ELSE {x \in Msg : BatchOf[x] = BatchOf[m]}

Fault == faults < MaxFaults /\ faults' = faults + 1 /\ UNCHANGED upsets
Upset == upsets < MaxUpsets /\ upsets' = upsets + 1 /\ UNCHANGED faults

Init ==
  /\ now = 0
  /\ row = [m \in Msg |-> NoRow]
  /\ msg = [m \in Msg |-> "none"]
  /\ file = FileOf
  /\ retry = [m \in Msg |-> [t \in Tab |-> NoRetry]]
  /\ doubled = {}
  /\ online = TRUE
  /\ blocked = {}
  /\ owner \in Worker
  /\ draining = {}
  /\ job = [w \in Worker |-> Idle]
  /\ paused = [w \in Worker |-> 0]
  /\ chat = <<>>
  /\ seen = {}
  /\ ban = 0
  /\ kept = [until |-> 0, rows |-> {}]
  /\ faults = 0
  /\ upsets = 0

-----------------------------------------------------------------------------
(* The API process.                                                        *)

(* A message, or all messages of a forward, and their queue rows: one      *)
(* transaction.  lock_for_write keeps ids of a dialog in posting order.    *)
Post(m) ==
  /\ online
  /\ \A x \in Group(m) : row[x].st = "none"
  /\ \A x \in Msg : x < m => row[x].st # "none"
  /\ row' = [x \in Msg |-> IF x \in Group(m) THEN NewRow(x) ELSE row[x]]
  /\ msg' = [x \in Msg |-> IF x \in Group(m) THEN "QUEUED" ELSE msg[x]]
  /\ UNCHANGED <<now, file, retry, doubled, account, draining, job, paused, telegram,
                 bounds>>

(* "Retry" reads the message without a lock...                             *)
RetryRead(m, t) ==
  /\ msg[m] = "FAILED"
  /\ retry[m][t] = NoRetry
  /\ retry' = [retry EXCEPT ![m][t] = [NoRetry EXCEPT !.ph = "message"]]
  /\ doubled' = IF \E u \in Tab \ {t} : retry[m][u] # NoRetry
                THEN doubled \cup {m} ELSE doubled
  /\ UNCHANGED <<now, db, file, account, draining, job, paused, telegram, bounds>>

(* ... then its row, and refuses if the account has no link...             *)
RetryReadRow(m, t) ==
  /\ retry[m][t].ph = "message"
  /\ retry' = [retry EXCEPT ![m][t] =
       IF online THEN [ph |-> "row", st |-> row[m].st, att |-> row[m].att] ELSE NoRetry]
  /\ UNCHANGED <<now, db, file, doubled, account, draining, job, paused, telegram, bounds>>

(* Mutant: the retry does not give the attempts back.                      *)
RetryKeepsAttempts(m, t) ==
  /\ retry[m][t].ph = "row"
  /\ m \notin Locked
  /\ retry' = [retry EXCEPT ![m][t] = NoRetry]
  /\ row' = [row EXCEPT ![m].st = IF retry[m][t].st = "PENDING" THEN @ ELSE "PENDING",
                        ![m].due = now]
  /\ msg' = [msg EXCEPT ![m] = "QUEUED"]
  /\ UNCHANGED <<now, file, doubled, account, draining, job, paused, telegram, bounds>>

(* ... and writes the columns that differ from what it read.  The UPDATE   *)
(* waits for the row lock of a send in progress, then applies all the      *)
(* same.                                                                   *)
RetryWrite(m, t) ==
  /\ retry[m][t].ph = "row"
  /\ m \notin Locked
  /\ retry' = [retry EXCEPT ![m][t] = NoRetry]
  /\ row' = [row EXCEPT ![m].st = IF retry[m][t].st = "PENDING" THEN @ ELSE "PENDING",
                        ![m].att = IF retry[m][t].att = 0 THEN @ ELSE 0,
                        ![m].due = now]
  /\ msg' = [msg EXCEPT ![m] = "QUEUED"]
  /\ UNCHANGED <<now, file, doubled, account, draining, job, paused, telegram, bounds>>

(* The retry has written the message and waits for the row, the send that  *)
(* holds the row wants to write the message: the database aborts one of    *)
(* the two (the send: Rollback).                                           *)
RetryAborted(m, t) ==
  /\ retry[m][t].ph = "row"
  /\ m \in Locked
  /\ retry' = [retry EXCEPT ![m][t] = NoRetry]
  /\ UNCHANGED <<now, db, file, doubled, account, draining, job, paused, telegram, bounds>>

(* The administrator logs the account in again.                            *)
Reconnect ==
  /\ ~online
  /\ online' = TRUE
  /\ UNCHANGED <<now, db, file, retry, doubled, blocked, owner, draining, job, paused,
                 telegram, bounds>>

(* The background download of a pending file ends, one way or the other.   *)
FileSettles(m) ==
  /\ file[m] = "pending"
  /\ \E f \in {"ready", "gone"} : file' = [file EXCEPT ![m] = f]
  /\ UNCHANGED <<now, db, retry, doubled, account, draining, job, paused, telegram,
                 bounds>>

-----------------------------------------------------------------------------
(* The drain loop of a gateway process.                                    *)

(* outbox_loop reads from the database which accounts it holds and drains  *)
(* each of them to the end.  It takes active accounts only, and no deleted *)
(* ones (_held_account_ids): this account is one, switching it off and     *)
(* deleting it belong to module Lease.                                     *)
StartDrain(w) ==
  /\ owner = w
  /\ w \notin draining
  /\ draining' = draining \cup {w}
  /\ UNCHANGED <<now, db, file, retry, doubled, account, job, paused, telegram, bounds>>

(* Mutant: the row is claimed without its lock.                            *)
DueUnlocked == {m \in Msg : Pending(m) /\ row[m].due <= now}

Due == {m \in Msg : Pending(m) /\ row[m].due <= now /\ m \notin Locked}
Before(a, b) == ConvOf[a] < ConvOf[b] \/ (ConvOf[a] = ConvOf[b] /\ a < b)
Siblings(m) == {x \in Msg : /\ x # m /\ ConvOf[x] = ConvOf[m]
                            /\ Pending(x) /\ row[x].fwd
                            /\ BatchOf[x] = BatchOf[m]
                            /\ x \notin Locked}

(* The first due row that nobody has locked (SKIP LOCKED); a native forward*)
(* takes the pending rows of its batch along, whatever their deadline.     *)
Claim(w, m) ==
  /\ w \in draining
  /\ job[w].ph = "idle"
  /\ ~Paused(w)
  /\ m \in Due
  /\ \A x \in Due : x = m \/ Before(m, x)
  /\ job' = [job EXCEPT ![w] =
       [ph |-> "calling", lead |-> m, step |-> 0, until |-> 0,
        rows |-> {m} \cup (IF row[m].fwd THEN Siblings(m) ELSE {})]]
  /\ UNCHANGED <<now, db, file, retry, doubled, account, draining, paused, telegram,
                 bounds>>

(* The drain ends: nothing due, or the account is paused.                  *)
EndDrain(w) ==
  /\ w \in draining
  /\ job[w].ph = "idle"
  /\ Paused(w) \/ Due = {}
  /\ draining' = draining \ {w}
  /\ UNCHANGED <<now, db, file, retry, doubled, account, job, paused, telegram, bounds>>

-----------------------------------------------------------------------------
(* The Telegram calls of one attempt.                                      *)

Lead(w) == job[w].lead
Native(w) == row[Lead(w)].fwd

Calls(w) == IF Native(w) THEN 1 ELSE PartsOf[Lead(w)]

(* load_files has what it needs; a native forward uploads nothing.         *)
FilesReady(w) == Native(w) \/ file[Lead(w)] \in {"none", "ready"}

(* Place of a message among the messages of the request: the row that was  *)
(* claimed first, then its siblings by id.                                 *)
Item(w, x) ==
  IF x = Lead(w) THEN 0
  ELSE 1 + Cardinality({y \in job[w].rows \ {Lead(w)} : y < x})

(* Mutant: every attempt draws new random ids.                             *)
FreshRandomId(w, x) ==
  <<Lead(w), job[w].step + 10 * row[Lead(w)].att, Item(w, x)>>

(* step_random_id(base, step, item): base is the random_id of the claimed  *)
(* message, for the other messages of a forward too.                       *)
StepRandomId(w, x) == <<Lead(w), job[w].step, Item(w, x)>>

RequestIds(w) == {StepRandomId(w, x) : x \in job[w].rows}

RequestParts(w) == {<<x, job[w].step>> : x \in job[w].rows}

(* A request that carries a known random id is refused as a whole          *)
(* (RANDOM_ID_DUPLICATE): the client sees nothing new.                     *)
Accept(w) ==
  IF RequestIds(w) \cap seen = {}
  THEN /\ chat' = Append(chat, RequestParts(w))
       /\ seen' = seen \cup RequestIds(w)
  ELSE UNCHANGED <<chat, seen>>

Calling(w) ==
  /\ job[w].ph = "calling"
  /\ job[w].step < Calls(w)
  /\ FilesReady(w)

(* Telegram takes calls of a live session outside a flood ban.             *)
Answering(w) == Calling(w) /\ online /\ ban <= now

(* Writes the rows of the attempt and ends the transaction.                *)
Settle(w, outcome) ==
  /\ row' = [m \in Msg |-> IF m \in job[w].rows THEN outcome[m] ELSE row[m]]
  /\ msg' = [m \in Msg |->
               IF m \in job[w].rows /\ outcome[m].st = "FAILED" THEN "FAILED"
               ELSE IF m \in job[w].rows /\ outcome[m].st = "DONE" THEN "SENT"
               ELSE msg[m]]
  /\ job' = [job EXCEPT ![w] = Idle]

(* _fail after attempt a: wait for the next one, or give up.               *)
Failed(m, a) ==
  IF a >= MaxAttempts
  THEN [row[m] EXCEPT !.st = "FAILED", !.att = a]
  ELSE [row[m] EXCEPT !.att = a, !.due = At(Backoff[a])]
Retried == [m \in Msg |-> Failed(m, row[m].att + 1)]
(* Mutant: an error without a cure is postponed like any other.            *)
NeverGivenUp == [m \in Msg |-> [row[m] EXCEPT !.due = At(1)]]

GivenUp == [m \in Msg |-> Failed(m, MaxAttempts)]

(* _fail with wait_seconds: the attempt is not spent.                      *)
Postponed(delay) == [m \in Msg |-> [row[m] EXCEPT !.due = At(delay)]]

Copied == [m \in Msg |-> [row[m] EXCEPT !.fwd = FALSE, !.due = now]]

Delivered == [m \in Msg |-> [row[m] EXCEPT !.st = "DONE"]]

(* Telegram takes the call, or says it was made before.                    *)
StepAccepted(w) ==
  /\ Answering(w)
  /\ Accept(w)
  /\ job' = [job EXCEPT ![w].step = @ + 1]
  /\ UNCHANGED <<now, db, file, retry, doubled, account, draining, paused, ban,
                 kept, bounds>>

(* Mutant: a lost answer counts as success.                                *)
LostIsSuccess(w) ==
  /\ Answering(w)
  /\ Fault
  /\ Accept(w)
  /\ Settle(w, Delivered)
  /\ UNCHANGED <<now, file, retry, doubled, account, draining, paused, ban, kept>>

(* Telegram takes the call and the answer is lost.                         *)
StepLost(w) ==
  /\ Answering(w)
  /\ Fault
  /\ Accept(w)
  /\ Settle(w, Retried)
  /\ UNCHANGED <<now, file, retry, doubled, account, draining, paused, ban, kept>>

(* The call fails before Telegram has it.                                  *)
StepRefused(w) ==
  /\ Calling(w)
  /\ Fault
  /\ Settle(w, Retried)
  /\ UNCHANGED <<now, file, retry, doubled, account, draining, paused, telegram>>

(* A refusal that a retry cannot cure: the client blocked the number, or   *)
(* any permanent error.                                                    *)
StepImpossible(w) ==
  /\ Calling(w)
  /\ Fault
  /\ \/ blocked' = blocked \cup {ConvOf[Lead(w)]}
     \/ UNCHANGED blocked
  /\ Settle(w, GivenUp)
  /\ UNCHANGED <<now, file, retry, doubled, online, owner, draining, paused, telegram>>

(* The session is revoked: the account shows an error at once (its own     *)
(* transaction).  Without a link every call ends here, at no cost of a     *)
(* fault.                                                                  *)
SessionRevoked(w) ==
  /\ Calling(w)
  /\ IF online THEN Fault ELSE UNCHANGED bounds
  /\ online' = FALSE
  /\ job' = [job EXCEPT ![w].ph = "lost"]
  /\ UNCHANGED <<now, db, file, retry, doubled, blocked, owner, draining, paused, telegram>>

(* ... then the message fails, whatever its attempts.                      *)
SessionLost(w) ==
  /\ job[w].ph = "lost"
  /\ Settle(w, GivenUp)
  /\ UNCHANGED <<now, file, retry, doubled, account, draining, paused, telegram, bounds>>

(* load_files: the file is still being fetched, or will never be there.    *)
FileNotReady(w) ==
  /\ job[w].ph = "calling" /\ ~Native(w) /\ file[Lead(w)] = "pending"
  /\ Settle(w, Postponed(FileWait))
  /\ UNCHANGED <<now, file, retry, doubled, account, draining, paused, telegram, bounds>>

SendImpossible(w) ==
  /\ job[w].ph = "calling" /\ ~Native(w) /\ file[Lead(w)] = "gone"
  /\ Settle(w, GivenUp)
  /\ UNCHANGED <<now, file, retry, doubled, account, draining, paused, telegram, bounds>>

(* The source chat cannot be forwarded: the rows go back as ordinary       *)
(* messages (a copy), no attempt spent.                                    *)
ForwardImpossible(w) ==
  /\ Calling(w) /\ Native(w)
  /\ Fault
  /\ Settle(w, Copied)
  /\ UNCHANGED <<now, file, retry, doubled, account, draining, paused, telegram>>

(* Mutant: the ban is not remembered.                                      *)
FloodForgotten(w) ==
  /\ Calling(w)
  /\ online
  /\ IF ban > now THEN UNCHANGED bounds ELSE Fault
  /\ ban' = At(FloodWait)
  /\ job' = [job EXCEPT ![w].ph = "flood", ![w].until = At(FloodWait)]
  /\ UNCHANGED <<now, db, file, retry, doubled, account, draining, paused, chat, seen, kept>>

(* FloodWait, first half: Telegram's deadline is remembered in memory.     *)
(* A call made during a ban can have no other answer, and costs no fault.  *)
FloodAnswer(w) ==
  /\ Calling(w)
  /\ online
  /\ IF ban > now THEN UNCHANGED bounds ELSE Fault
  /\ ban' = At(FloodWait)
  /\ paused' = [paused EXCEPT ![w] = At(FloodWait)]
  /\ job' = [job EXCEPT ![w].ph = "flood", ![w].until = At(FloodWait)]
  /\ UNCHANGED <<now, db, file, retry, doubled, account, draining, chat, seen, kept>>

(* Rows the UPDATE of FloodWait postpones: it waits for their locks.       *)
Postponable(w) ==
  {m \in Msg : Pending(m) /\ row[m].due < job[w].until} \ job[w].rows
Waits(w, v) == Postponable(w) \cap job[v].rows # {}

(* FloodWait, second half: the whole queue of the account is postponed to  *)
(* the remembered deadline, the row itself by the delay counted from the   *)
(* moment _fail runs.                                                      *)
FloodCommit(w) ==
  /\ job[w].ph = "flood"
  /\ \A v \in Worker \ {w} : ~Waits(w, v)
  /\ row' = [m \in Msg |->
               IF m \in job[w].rows THEN [row[m] EXCEPT !.due = At(FloodWait)]
               ELSE IF m \in Postponable(w)
                    THEN [row[m] EXCEPT !.due = job[w].until]
                    ELSE row[m]]
  /\ kept' = [until |-> job[w].until, rows |-> {m \in Msg : Pending(m)}]
  /\ job' = [job EXCEPT ![w] = Idle]
  /\ UNCHANGED <<now, msg, file, retry, doubled, account, draining, paused, chat, seen, ban,
                 bounds>>

(* Two processes in that UPDATE wait for each other: the database aborts   *)
(* one of them, and its row is as it was.                                  *)
FloodDeadlock(w) ==
  /\ job[w].ph = "flood"
  /\ \E v \in Worker \ {w} :
       job[v].ph = "flood" /\ Waits(w, v) /\ Waits(v, w)
  /\ job' = [job EXCEPT ![w] = Idle]
  /\ UNCHANGED <<now, db, file, retry, doubled, account, draining, paused, telegram,
                 bounds>>

(* All calls made: the message is SENT, the row DONE.                      *)
SendCommit(w) ==
  /\ job[w].ph = "calling"
  /\ FilesReady(w)
  /\ job[w].step = Calls(w)
  /\ Settle(w, Delivered)
  /\ UNCHANGED <<now, file, retry, doubled, account, draining, paused, telegram, bounds>>

-----------------------------------------------------------------------------
(* What happens to the processes.                                          *)

(* The transaction fails (database gone, commit refused): rollback, the    *)
(* drain goes on with the next row.                                        *)
Rollback(w) ==
  /\ job[w].ph # "idle"
  /\ Upset
  /\ job' = [job EXCEPT ![w] = Idle]
  /\ UNCHANGED <<now, db, file, retry, doubled, account, draining, paused, telegram>>

(* The process dies: its transaction rolls back, its memory is gone.  A    *)
(* successor with a new id is the same process of the model.               *)
Crash(w) ==
  /\ Upset
  /\ job' = [job EXCEPT ![w] = Idle]
  /\ draining' = draining \ {w}
  /\ paused' = [paused EXCEPT ![w] = 0]
  /\ UNCHANGED <<now, db, file, retry, doubled, account, telegram>>

(* The lease runs out and another process claims the account.              *)
LeaseMoves(w) ==
  /\ owner # w
  /\ Upset
  /\ owner' = w
  /\ UNCHANGED <<now, db, file, retry, doubled, online, blocked, draining, job, paused,
                 telegram>>

Tick ==
  /\ now < MaxTime
  /\ now' = now + 1
  /\ UNCHANGED <<db, file, retry, doubled, account, draining, job, paused, telegram,
                 bounds>>

Send(w) ==
  \/ StepAccepted(w) \/ StepLost(w) \/ StepRefused(w) \/ StepImpossible(w)
  \/ SessionRevoked(w) \/ SessionLost(w) \/ FileNotReady(w)
  \/ SendImpossible(w) \/ ForwardImpossible(w) \/ FloodAnswer(w)
  \/ FloodCommit(w) \/ FloodDeadlock(w) \/ SendCommit(w)

Next ==
  \/ \E m \in Msg : \/ Post(m) \/ FileSettles(m)
                    \/ \E t \in Tab : \/ RetryRead(m, t) \/ RetryReadRow(m, t)
                                     \/ RetryWrite(m, t) \/ RetryAborted(m, t)
  \/ \E w \in Worker : \/ StartDrain(w) \/ EndDrain(w)
                       \/ \E m \in Msg : Claim(w, m)
                       \/ Send(w)
                       \/ Rollback(w) \/ Crash(w) \/ LeaseMoves(w)
  \/ Reconnect
  \/ Tick

Spec == Init /\ [][Next]_vars

(* The gateway's loops run, time passes, a request that was started ends,  *)
(* a download ends.  Nothing is assumed of managers, of the administrator  *)
(* or of the faults.                                                       *)
FairSpec ==
  /\ Spec
  /\ WF_vars(Tick)
  /\ \A m \in Msg : /\ WF_vars(FileSettles(m))
                     /\ \A t \in Tab : WF_vars(RetryReadRow(m, t)) /\ WF_vars(RetryWrite(m, t))
  /\ \A w \in Worker : /\ WF_vars(StartDrain(w)) /\ WF_vars(EndDrain(w))
                        /\ WF_vars(\E m \in Msg : Claim(w, m))
                        /\ WF_vars(Send(w))

-----------------------------------------------------------------------------
(* Properties.                                                             *)

TypeOK ==
  /\ now \in Nat
  /\ row \in [Msg -> Row]
  /\ msg \in [Msg -> {"none", "QUEUED", "SENT", "FAILED"}]
  /\ file \in [Msg -> FileState]
  /\ retry \in [Msg -> [Tab -> Asked]]
  /\ doubled \subseteq Msg
  /\ online \in BOOLEAN
  /\ blocked \subseteq Nat
  /\ owner \in Worker
  /\ draining \subseteq Worker
  /\ job \in [Worker -> Job]
  /\ paused \in [Worker -> Nat]
  /\ chat \in Seq(SUBSET Part)
  /\ seen \subseteq RandomId
  /\ ban \in Nat
  /\ kept \in [until : Nat, rows : SUBSET Msg]
  /\ faults \in Nat
  /\ upsets \in Nat

Plain == {m \in Msg : BatchOf[m] = 0}
Shown(p) == \E i \in DOMAIN chat : p \in chat[i]

(* No row is in the hands of two processes, whoever holds the lease, and   *)
(* what a process holds is still to be sent: the row lock of               *)
(* _claim_one_outbox is what "two processes never send one thing twice"    *)
(* (the Outbox docstring) rests on when a drain outlives its lease.        *)
OneSender ==
  \A v, w \in Worker : \A m \in job[v].rows :
    /\ Pending(m)
    /\ m \in job[w].rows => v = w

(* The mark on a message and its queue row tell the same story: a tick has *)
(* a row that is done, a cross one that the retry button can revive, a row *)
(* that will be tried has a clock, and a clock has a row that will be      *)
(* tried - the last unless two requests to retry that message were under   *)
(* way at once (ClockIsQueued).                                            *)
RowMatchesMessage ==
  \A m \in Msg :
    /\ msg[m] = "none" <=> row[m].st = "none"
    /\ msg[m] = "SENT" => row[m].st = "DONE"
    /\ msg[m] = "FAILED" => row[m].st = "FAILED"
    /\ Pending(m) => msg[m] = "QUEUED"
    /\ m \notin doubled /\ msg[m] = "QUEUED" => Pending(m) /\ row[m].att < MaxAttempts

(* An ordinary message reaches the client at most once, part by part:      *)
(* lost answers, crashes between the call and the commit, two processes    *)
(* and the retry button all repeat the same random ids (D-30).             *)
ShownOnce ==
  \A m \in Plain : \A s \in 0..(PartsOf[m] - 1) :
    \A i, j \in DOMAIN chat :
      <<m, s>> \in chat[i] /\ <<m, s>> \in chat[j] => i = j

(* "Sent" is never shown for a message the client did not get in full.     *)
SentIsShown ==
  \A m \in Plain : msg[m] = "SENT" =>
    \A s \in 0..(PartsOf[m] - 1) : Shown(<<m, s>>)

(* The parts of one message come in their order, across interrupted        *)
(* attempts: a caption never precedes the text it was split from.          *)
PartsInOrder ==
  \A m \in Plain : \A i \in DOMAIN chat : \A s \in 1..PartsOf[m] :
    <<m, s>> \in chat[i] =>
      \E j \in DOMAIN chat : j < i /\ <<m, s - 1>> \in chat[j]

(* Rows that were in the queue when Telegram banned the account are not    *)
(* due before the end of the ban, restart or not ("после перезапуска срок  *)
(* переживают отложенные строки очереди в базе", outbox.py), unless a      *)
(* message is retried twice at once: the second request makes the row of   *)
(* the first due at once.                                                  *)
PostponedRowsWait ==
  \A m \in kept.rows \ doubled :
    Pending(m) /\ kept.until > now => row[m].due >= kept.until

(* During a ban the queue of the account is not touched at all, messages   *)
(* queued meanwhile included (the comment on _account_paused_until).       *)
NoClaimDuringBan ==
  [][\A w \in Worker :
       job[w].ph = "idle" /\ job'[w].ph = "calling" => ban <= now]_vars

(* ... which holds for a process that has lived, and held the account,     *)
(* since the ban began.                                                    *)
PauseHolds ==
  [][\A w \in Worker :
       upsets = 0 /\ job[w].ph = "idle" /\ job'[w].ph = "calling" => ban <= now]_vars

(* A message that was reported as sent stays sent: "повторить можно только *)
(* сообщение с ошибкой отправки" (retry_message).                          *)
SentIsFinal == [][\A m \in Msg : msg[m] = "SENT" => msg'[m] = "SENT"]_vars

(* "Часы - в очереди" (docs/05-decisions.md): a message with a clock is in *)
(* the queue.                                                              *)
ClockIsQueued == \A m \in Msg : msg[m] = "QUEUED" => Pending(m)

(* What the manager sees of a message is what happened to it: the mark on  *)
(* it, the row of the queue and the client's screen agree, with the        *)
(* exception of RowMatchesMessage for a message that is retried twice at   *)
(* once.                                                                   *)
MarksAreTrue == TypeOK /\ RowMatchesMessage /\ SentIsShown /\ PartsInOrder

(* While Telegram has banned an account, what was in its queue waits: in   *)
(* the database, and in the memory of a process that has lived since.      *)
BanIsKept == []PostponedRowsWait /\ PauseHolds

(* The earlier of two messages of a dialog is shown first.                 *)
InOrder ==
  \A i, j \in DOMAIN chat : \A p \in chat[i], q \in chat[j] :
    p[1] < q[1] /\ ConvOf[p[1]] = ConvOf[q[1]] => i <= j

(* A flood ban postpones the whole queue, "тогда порядок сохраняется"      *)
(* (_claim_one_outbox): as long as nothing was retried, nothing overtakes. *)
FloodKeepsOrder == (\A m \in Msg : row[m].att = 0) => InOrder

(* The same promise for the messages of a native forward, as long as they  *)
(* are one (ForwardImpossible turns them into copies with ids of their     *)
(* own): repeated requests for the batch carry the same random ids.        *)
ForwardShownOnce ==
  \A m \in Msg \ Plain : row[m].fwd =>
    \A i, j \in DOMAIN chat :
      <<m, 0>> \in chat[i] /\ <<m, 0>> \in chat[j] => i = j

(* Every message the manager sees with a clock ends as sent or failed.     *)
Settled ==
  \A m \in Msg : msg[m] = "QUEUED" ~> msg[m] \in {"SENT", "FAILED"}

(* The queue implements the contract of module Delivery.                   *)
ShownParts == {p \in UNION {chat[i] : i \in DOMAIN chat} : p[1] \in Plain}
Status == [m \in Plain |-> msg[m]]
Raced == doubled \cap Plain
Contract == INSTANCE Delivery WITH
  Message <- Plain, Parts <- PartsOf, status <- Status, shown <- ShownParts,
  raced <- Raced
ImplementsDelivery == Contract!Spec
=============================================================================

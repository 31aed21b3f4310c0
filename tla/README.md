# Formal model of esocrm

esocrm is a CRM in which managers write to clients through several Telegram
accounts. A Python API (`src/backend/app/api`, `services`) keeps everything in
PostgreSQL; a gateway (`src/backend/app/gateway`), one container with several
operating-system processes, holds the Telegram sessions, sends what the API has
queued and writes what clients send; a scheduler runs periodic jobs; browsers
are told of changes over a WebSocket. Processes share nothing but the database,
Redis and the storage of files, and every interesting behaviour is an
interleaving of transactions, background tasks and Telegram calls.

This directory holds TLA+ models of that system, TLC configurations that check
them on small instances, and proofs checked by TLAPS.

    tlc -workers 2 -config MCOutbox.cfg MCOutbox      # one run
    tlapm OutboxProofs.tla                            # one set of proofs

`PROJECT.json` is the index: components, runs, the source lines every
definition stands for, the mutants that show each property can fail, the
disagreements found, the hazards, the theorems. Paths below are relative to
`src/backend/app` unless they start with `docs/` (that is `src/docs/`) or
`src/`.

## 1. Inventory

| Component | State | Operations | What is hard | What makes it correct | Module |
|---|---|---|---|---|---|
| outgoing queue (`gateway/outbox.py`) | `outbox` rows, `messages.status`, in memory the flood pause of an account | claim a due row, make the calls of its plan, settle: sent, retried, given up, postponed; native forwards | the attempt is one transaction around calls that cannot be undone; lost answers; a drain that outlives its lease; a flood ban over the whole account | sent once, in order, never reported as sent when it was not, never stuck | `Outbox`, `Delivery` |
| one attempt (`gateway/send_plan.py`, `mtproto_send.py`) | the plan, random ids, Telegram's numbers | split into parts and albums, send, take an album apart, send a caption ahead, recover numbers | a step that half succeeded is made again; what Telegram refuses the second time | each part shown once, "sent" only when whole | `Sending` |
| posting, retry, forward, edit (`services/message_service.py`, `forward_service.py`) | the same rows | post, retry, forward, edit | several tabs, no lock on retry; an edit is a command that may be late | a retry creates nothing twice; the two texts do not part silently | `Outbox`, `Edits`, `Chats` |
| leases and sessions (`gateway/lease.py`, `runner.py`) | `gateway_workers`, `telegram_accounts.worker_id/lease_until`, `_held`, `_clients` | register, heartbeat, fair share, claim, start, stop, release | stale reads between rounds, background starts and stops, crashes, late heartbeats, disable and delete from outside | one session per account, every account served, nobody takes more than it can carry | `Lease` |
| supervisor, topology, load (`gateway/worker.py`, `topology.py`, `load.py`) | child processes, pools of connections | restart the dead, size pool and places | the pool shrinks as the cores grow | histories leave connections to the rest | `Lease`, `Syncs` |
| login (`gateway/mtproto_provider.py`, `services/account_service.py`) | `_clients`, `_logins`, `_qr`, the account row | sign in by code, password, QR; reconnect; report a dead session; delete | every command is a task; abandoned logins; a stranger signs in | one session works and it is the saved one; nobody else's stays | `Login` |
| command bus (`core/command_bus.py`) | Redis channels | call, serve, reply | nobody answers, answers come late | never served by a stranger | `Lease`, `Login`, `Edits` |
| receiving (`services/inbound_service.py`, `gateway/mtproto_receive.py`) | `messages`, counters of `conversations` | new, edited, read | the same message live and from history; counters read, computed, written | no message twice, counters match messages | `Inbox`, `Edits` |
| history (`gateway/handlers.py`, `governor.py`) | starting date of the walk, places | catch up after a restart, walk on demand, wait for a place | live events meanwhile, floods, deaths; a place holds a connection | nothing is missed, no stop for want of connections | `Inbox`, `Syncs` |
| file backfill (`gateway/backfill.py`) | `attachments.status/meta`, storage | batch, attempt, download, record | the download is outside the transaction; moves and crashes | a ready file can be opened, a pending one settles | `Files` |
| uploads, serving (`services/file_service.py`, `file_serving.py`, `media.py`) | storage, locks in memory | upload, attach, convert for Safari | several puts, locks that are forgotten after a failure | what is attached is whole, each voice converted once | `Attachments` |
| conversations (`services/conversation_service.py`) | responsible, managers | new chat, answer, transfer, change of managers | checks made on rows read before | a chat has somebody who sees it | `Chats` |
| reply queue (`services/reply_queue.py`, `src/frontend/src/features/chats/replyQueue.ts`) | waiting since, seen, the browser's memory | take the first, mark as read | the memory is shorter than the queue | everybody who waits is reached | `Queue` |
| lists | cursors | next page | equal and missing keys, moving rows | nothing skipped, nothing twice | `Paging` |
| deals and payments (`services/deal_service.py`, `api/v1/payments.py`, `scheduler/jobs.py`) | `deals`, invoices at Robokassa | create, edit, send, pay, cancel, expire, notification | some lock before they read, some do not; repeated notifications; old links | paid once and in full, never in silence | `Deal` |
| requisites (`services/requisite_service.py`) | rows, one of which must be active | create, switch, delete, load | two directors count each other's rows | managers always have one to name | `Requisites` |
| authentication (`services/auth_service.py`, `user_service.py`, `password_reset.py`) | users, sessions, links, attempts | log in, reset, invite, edit | checks in a thread, one-time links, open sockets | locked means locked, a link works once, no session outlives its password | `Access` |
| client cards (`services/client_service.py`) | columns of the card | edit, profile and birthday from Telegram | column-wise updates of a card read before | what was entered by hand stays | `Cards` |
| working hours (`services/worktime.py`, `schedule.py`) | - | working time, on shift, wait | shifts over midnight | the readings agree | `Hours` |
| notifications, realtime (`services/notification_service.py`, `realtime/`, `core/redis_bus.py`) | savepoints, waiting events, subscription, socket | notify, commit, roll back, publish, reload | events of nested transactions; Redis and sockets that fail | told exactly what was committed; the screen catches up | `Live`, `Access` |
| statistics, search, catalogue, templates, settings, exports; seed, migrations; screens; deployment | - | - | queries and single-row edits, fixtures, scripts | see section 11 | - |

The components meet in five places: the API and the gateway share the queue
rows; the API sends commands to whoever believes to hold an account; the
processes of the gateway compete for leases; received messages and API edits
touch the same conversation rows; the tasks of one process share its pool of
connections.

## 2. Plan

Every module is parameterised by constants with a named `ASSUME`, has one
action per operation, and uses no RECURSIVE operator. Done, in this order:

1. `Outbox`, `Delivery` (the contract it implements), `OutboxProofs`;
2. `Lease`, `LeaseProofs`;
3. `Deal`, `DealProofs`;
4. `Inbox`, which joins live events, the walk through the history and the
   counters of the chats, and `InboxProofs`;
5. `Access` and `Login`, the ways in for people and for Telegram accounts, with
   `AccessProofs` and `LoginProofs`;
6. the employees' desk: `Chats`, `Cards`, `Hours`, `Paging`, `Sending`,
   `Edits`, `Requisites`, instantiated by `MCDesk` together with `Login`, with
   `DeskProofs` about all seven;
7. what must come to pass: `Files`, `Attachments`, `Queue`, `Live`, `Syncs`,
   instantiated by `MCProgress`, with `ProgressProofs` about the safety of all
   five.

Every safety invariant that a passing run checks is proved, some under
hypotheses (section 11), and so are the safety parts of the properties that also
promise progress. What would come next: a composition of
`Lease` and `Outbox`, in which the owner of the queue is given by the leases
instead of a free move, as it is now (a free move includes every move the
leases can make, so the safety shown carries over); echoes of our own messages
and deletions in `Inbox`.

`MCDesk` and `MCProgress` instantiate several modules that share no state. A
behaviour of such an instance runs one of them, chosen at its start (`stage`):
the state space is the sum, not the product, and each property is about the
variables of its own module. `MCLeaseLive` likewise chooses at the start which
mishaps a behaviour of `Lease` may have: the count of the other is beyond its bound.

A property with several parts is one name for what one reader asks of one
module; the parts are named definitions:
`MarksAreTrue` = `TypeOK`, `RowMatchesMessage`, `SentIsShown`, `PartsInOrder`;
`BanIsKept` = `PostponedRowsWait`, `PauseHolds`;
`BooksAgree` = `TypeOK`, `PaidInFull`, `AckedIsPaid`, `InvoiceIsCurrent`, `ToldOnce`;
`DealsEnd` = `MoneyIsSeen`, `OverdueEnds`;
`CountersAreHonestInTurn` = `TypeOK`, `WaitsFromTheFirst`, `UnreadIsRight`, chat by chat;
`WaysInHold` = `TypeOK`, `LinksWorkOnce`, `OneWayIn`, `LockoutHolds`, `SomebodyRules`;
`OneSessionAtWork` = `TypeOK`, `OneWorkingClient`, `SavedIsWorking`, `ToldOncePerLoss`, `GoneIsSilent`;
`ChatsHold` = `TypeOK`, `NobodysChat`, `SoleManagerHasAll`, `AudienceIsWhoSees`;
`FilesEnd` = `FilesTypeOK`, `AttemptsEnd`, `ReadyStaysInTurn`, `FilesSettle`;
`MadeWholeOnce`, `OfferedInTurn`, `EventsMatchRows`, `CardsHold`, `ListsAreWhole`,
`HoursAgree` and `SentWell` likewise, see the end of their modules.

The code often reads a row, computes, and writes without a lock. Where that can
spoil something, the sentence a reader would like to have is false, and then two
things are stated. The sentence itself, as the document, comment or test has
it, is a definition of its module that TLC finds violated; the three that weigh
most have a run of their own, the others say in section 5 where they fail. And
the property of the passing run says what is left of it: a history variable records the event that
spoils it - as narrowly as the code allows, for one message (`doubled`), one
counter of one chat (`story.miscounted`, `story.misdated`), one person and kind
of request (`tangled`), one chat and cause (`stray`), one account (`returned`) -
and the property says that nothing *else* spoils it, that the damage stays where
it was done, and, where the code repairs it, that it ends there. Every property
of this form names its exception in its comment.

## 3. The outgoing queue

### Module and code

`Outbox` models the queue of **one** account. Order is promised per dialog and
bans apply per account, so nothing is lost by leaving the others out.

| In the model | In the code |
|---|---|
| `row[m]` (`st`, `att`, `due`, `fwd`) | the committed `outbox` row: `status`, `attempts`, `next_attempt_at`, `payload.forward` |
| `msg[m]` | `messages.status`, as committed |
| `file[m]` | `attachments.status`: ready, pending, or not to be had |
| `job[w]` | the transaction of `process_outbox_row`: which rows are locked, how many calls are made |
| `paused[w]` | `_account_paused_until` of that process |
| `owner`, `draining` | `worker_id` of the account; processes inside `drain_account_outbox` |
| `chat`, `seen`, `ban` | Telegram: what clients see, the random ids it knows, its flood ban |
| `retry[m][t]` | requests inside `retry_message`: what each has read of the message and of its row so far |
| `doubled` | history: messages with two such requests under way at once |
| `kept` | history of the last postponement, used only by `PostponedRowsWait` |

`SENDING` never shows up in a committed row, so it is not a state: a process
that dies gives the row back as it was (`Crash`, `Rollback`). `Post`,
`RetryRead`, `RetryReadRow`, `RetryWrite`, `RetryAborted` and `Reconnect` are the
API: a retry reads the message, then its row, in two SELECTs without a lock, and
writes the columns that differ from what it read. If a send holds the row then,
it wants the message the retry has locked, and PostgreSQL aborts one of the two
(`RetryAborted`, or `Rollback` of the send). `StartDrain` is for an account that
is active and not deleted, as `_held_account_ids` selects them; switching it off
and deleting it are in `Lease`. `Claim` is
`_claim_one_outbox` with its order and SKIP LOCKED. The calls are one action
per outcome: `StepAccepted`, `StepLost` (Telegram took it, the answer is lost),
`StepRefused`, `StepImpossible`, `SessionRevoked` then `SessionLost`,
`ForwardImpossible`, `FloodAnswer` then `FloodCommit` (the pause is remembered
before the UPDATE waits for its locks) or `FloodDeadlock`; `FileNotReady` and
`SendImpossible` come from `load_files`. `SendCommit` ends a message.

Random ids are what they are derived from: the claimed message, the number of
the call, the place in the request. A request with a known id is refused as a
whole (RANDOM_ID_DUPLICATE), which is what makes a repetition harmless. What
happens inside one call is `Sending` (section 9).

`Delivery` is the contract for ordinary messages: queued, failed, retried,
sent; the parts come one after the other, once each; "sent" only when all of
them are there. What is sent stays sent, except for messages in `raced`, those
that were retried by two requests at once (begun while the message was failed):
the later request may queue such a message again, whatever has become of it.
`Outbox` implements it with `status` the committed status, `shown` the parts in
`chat` and `raced` the ordinary messages in `doubled` (`ImplementsDelivery`).

Left out, with the reason: the simulated reads of the demo provider; a row
whose message or account has vanished (nothing to say about it); an orderly
stop of a drain (`EndDrain` and `Crash` include it).

### Runs

Constants that are bounds: `MaxTime`, `MaxFaults`, `MaxUpsets`. Two messages
suffice for order and exclusion, two calls for interrupted attempts, two
processes for interleavings, two attempts for "retried, then given up"; two
faults let a message be lost and banned in one behaviour. In `outbox` the clock
has two ticks, the length of a whole ban. Two tabs press retry, on either
message; what two requests do to one *another* is about one message, so once
a message is retried twice at a time (`doubled`) it is looked at with the rest of
the queue empty, and only then does the third fault occur (`RetriedTwiceAlone`).

| Run | Instance | Shows |
|---|---|---|
| `outbox` | 2 messages of one dialog (2 calls + 1), 2 processes, 2 tabs, 3 faults, 2 upsets | `OneSender`, `ShownOnce`, `MarksAreTrue`, `BanIsKept`, `ImplementsDelivery` |
| `outbox_live` | a native forward of 2 messages, the first waits for its file, 2 processes, 2 faults, an upset, no retry button, fairness | `ForwardShownOnce`, `Settled` |

Symmetry of `Worker` and `Tab` is used in the safety runs only; processes and tabs
of this model are interchangeable (no order on them). Deadlock is checked in all.

Fairness (`FairSpec`): time passes; the drain loops run (`StartDrain`, `Claim`,
`Send`, `EndDrain` - `outbox_loop` polls the accounts it holds without end, so
`Settled` is about an account that stays active); a retry request that has
begun ends; a download ends (`backfill` gives up after a fixed
number of attempts, which `Files` shows). Nothing is assumed of managers,
administrators or faults. `Send` is one weakly fair action because the outcome
of a call is Telegram's choice: only that some outcome comes is assumed (calls
have timeouts).

### Proofs (`OutboxProofs`)

For any number of messages, dialogs, parts, processes, attempts and faults,
from `OutboxAssumption` only:

* `TypeCorrect`, `Exclusion`, `Agreement` from the invariant `QueueInv`: the
  types, `OneSender`, `RowMatchesMessage`, and two facts on what a process
  holds - a forward's rows are of one batch (`FwdBatch`), an ordinary message
  goes alone (`GoesAlone`). Exclusion needs agreement (a held row is pending)
  and the other way round (an outcome is written to rows nobody else holds).
  With any number of retry requests a tick has a row that is done, a cross a
  failed one, and a row that will be tried a clock. The other direction, a clock
  has such a row, holds for messages that are not in `doubled`: a single request
  finds the row as it read it (`Fresh`), and so writes what makes it pending.
* `NoDuplicates`, `NothingLost`, `OrderOfParts` from `ChatInv`, which relates
  `chat` to `seen`: a part is shown exactly if its id is known (`SeenShown`),
  no part is shown twice (`Once`), a process that is at call *s* has all
  earlier parts shown (`Progress`). None of the three is inductive by itself:
  a repeated attempt starts from call 0 and moves on only because the earlier
  ids are known. `TrueMarks` puts the parts of `MarksAreTrue` together.
* `Refinement` (`ImplementsDelivery`), however many requests retry a message:
  `Fresh` says that a single request read a failure that is still there, and what
  several do the contract leaves to `raced`.

* `BanIsWaitedFor` (`BanIsKept`) for a queue of ordinary messages, with retries
  (the rows of `doubled` messages are the exception of `PostponedRowsWait`).
  The deadlines in the database rest on `WaitInv`: what an attempt
  holds was due (`HeldWasDue`), a ban being written down ends no later than one
  that began now (`FloodEnds`), and what was postponed is pending, late enough
  and in nobody's hands (`QueueWaits`). The middle part is needed because the
  `UPDATE` waits for the locks of rows it would postpone: whoever holds one at
  that moment holds a row that was due, and is waited for. The memory of a
  process rests on `PauseInv`: before the first upset one process drains, and it
  knows of every ban. With forwards `HeldWasDue` is false - a native forward
  takes its siblings whatever their deadline - and nothing is proved; the run
  `outbox` has ordinary messages too. (With `BatchOf <- ForwardAtEnd` in its
  cfg TLC finds no violation of `BanIsKept` in 276 627 states.)

* `ForwardsOnce` (`ForwardShownOnce`) for queues in which native forwards and
  ordinary messages are mixed, as long as nobody retries a single message of a
  forward (`NeverRetried`; ordinary messages may be retried at will). The
  property is about the random ids of the forward, which derive from the
  message that is claimed first, so the invariant `WholeInv` says that the
  messages of one forward to one dialog share their fate: equal rows while they
  are a forward (`Together`), and an attempt that holds one of them holds all
  and is led by the first (`GoesWhole`). `ForwardInv` then relates what the
  client sees to what Telegram knows: a forwarded message he sees has the ids
  of the first one known (`ShownIsKnown`), a message he sees has been posted
  (`ShownIsPosted`, so that it does not become a forward afterwards). With a
  retry of one part the rows differ, and the property is false (section 5).

`Settled` is model-checked only: liveness is out of reach of the prover.

## 4. Leases and sessions

### Module and code

`Lease` models all processes and a few accounts.

| In the model | In the code |
|---|---|
| `pc[w]` | where `_lease_loop` is: asleep, before the share is read, before the claim, before the held set is rebuilt; released; down |
| `beat[w]`, `left[a]` | `heartbeat_at` and `lease_until` as countdowns in ticks (fresh while above 0) |
| `owner[a]`, `active`, `deleted`, `linked` | `worker_id`, `is_active`, `deleted_at`, a valid `session_enc` |
| `quota[w]`, `claimed[w]` | the `remaining` of `claim_accounts`, its result |
| `held[w]`, `live[w]` | `_held`, `_clients` |
| `starting[w]`, `stopping[w]` | background tasks of `_start_accounts`, `_stop_accounts`, and of a `disconnect` command |
| `calls[w]` | a drain, command, download or catch-up that will call `_connected` |
| `asked[a]` | an API request between its command and its commit |
| `returned` | history: accounts that were switched on while they still carried a process id |

`Heartbeat`, `ReadShare`, `Take`, `Sync` are the steps of one round, in its
order; `RoundFails` is its `except`. `Take` chooses any free rows: there is no
ORDER BY. The three reads of `claim_accounts` before its SELECT are one step
(`ReadShare`): what they read of other processes is stale in either case when
`Take` uses it. `Connected`, `Stop` and `CallConnects` may come at any later
time. A process id is random (`_worker_id`), so a process of the model lives
once, and a replacement is another member of `Worker`; `Worker` is a range of
numbers because `fair_share` orders ids. `Release` and `Exit` are the two
halves of an orderly stop. A failure of the heartbeat's own transaction is left
out (the step does not happen); logins are `Login` (section 8).

`Punctual` is an assumption about scheduling, not a guard of the code: time
does not pass a live process's last tick before it has written its mark. The
code makes it plausible (30 seconds against 10, nothing slow is awaited in the
loop) and cannot guarantee it.

### Runs

| Run | Instance | Shows |
|---|---|---|
| `lease` | 2 processes, 1 account; a crash, 2 toggles, a delete, a fault; fairness | `OneSession`, `AllOwned`, `LostIsStopped` |
| `lease_live` | 2 processes with room for one account each, 2 accounts, a crash; and either an orderly stop, or 2 toggles but no connections on demand (constraint `SwitchedWithoutCalls`); fairness | `WithinCapacity`, `SessionOpens` |

`OneSession` speaks of one account at a time, so one account is enough; two
accounts and two processes of capacity one make the death of a process a
matter of capacity. Both properties of `lease_live` are about what a process
serves by a claim: an account that was switched off, perhaps replaced, and switched
on again comes on top of the capacity and is opened by nobody, until it is claimed
anew (`returned`, section 5). A call that connects is cut off by the
constraint before it begins, so what is cut off is never something fairness
demands. Both runs have heartbeats in time; what late ones
spoil is in section 5.
Two ticks are the least that tell a fresh mark from one
about to end. `CHECK_DEADLOCK FALSE`: when every process has died or been
stopped, nothing is left to happen.

Fairness: time passes, processes start, a running process goes through its
rounds, its background tasks end (Telegram connects or errors), a request that
sent its command commits (`command_bus.call` has a timeout). Not assumed: that a
drain or a command happens to come by, which is what would mend a session that
was never started.

### Proofs (`LeaseProofs`)

For any number of processes and accounts, from `LeaseAssumption`:

* `LeaseTypes`: the type invariant.
* `OneSessionPerAccount`, assuming `Punctual` and no orderly stop. `OneSession`
  is not inductive: a session may be about to open. The invariant `HandsInv` is
  about everything a process has in its hands (`Touch`: open, starting, called
  for, claimed, held): it is its own in the database unless deleted
  (`TouchIsOwned`), nobody else touches it (`TouchIsAlone`, needed for deleted
  accounts), a dead process touches nothing (`DeadTouchNothing`), and the leases
  of a running process last at least as long as its mark (`MarksAreFresh`) -
  here it matters that the heartbeat renews disabled accounts too; a deleted
  account is nobody's (`GoneIsGone`). `FreeIsUntouched` then says that what can
  be claimed is in nobody's hands.
* `CapacityKept` (`WithinCapacity`), with late heartbeats, toggles, deletes,
  deaths and failures: the invariant `Room` says that what was granted to a claim
  still fits beside what the process serves by earlier claims (`Won`) when the
  claim is made. What the share was computed from is more than that (`WonFinite`),
  and switching an account on adds nothing to it, because an account somebody
  serves carries his id and is therefore in `returned`.

Liveness (`AllOwned`, `SessionOpens`, `LostIsStopped`) is model-checked only.

## 5. Where code and documentation disagree

These disagreements have a run of their own, whose property states the quoted
sentence; `PROJECT.json` has the quotes and lines.

| Run | Property | What happens |
|---|---|---|
| `deal_final` | `PaidIsFinal` | `cancel_deal`, `update_deal`, `send_deal` and the expiry job read the deal without its lock and write it later: a payment committed in between is overwritten, the paid deal ends cancelled or expired |
| `inbox_catchup` | `MissedIsCaughtUp` | `catch_up` starts from the latest activity of the account, which a live message and every committed batch of the walk move to the present, and never more than a week ago; it reads the newest 500 messages of a dialog: what was skipped, overtaken, older or further back is never walked again |
| `access_sessions` | `SessionsEnd` | a login has checked the old password in its thread when the password is changed or the person switched off: the session it then opens outlives both |

The following sentences of the repository are false too. Each is a definition
that TLC finds violated when it is put in the place of the properties of the
`.cfg` named here, as it stands unless a change is given:

| Property | `.cfg` | The repository says | What happens |
|---|---|---|---|
| `ClockIsQueued` | `MCOutbox.cfg` | `docs/05-decisions.md:107`: "часы — в очереди" | two requests retry one message; the second read the row as the first had queued it and writes after that attempt failed: the message has a clock, the row stays failed, nobody sends it and the retry button is gone (`services/message_service.py:391-407`) |
| `SentIsFinal` | `MCOutbox.cfg` | `services/message_service.py:398`: "Повторить можно только сообщение с ошибкой отправки" | the same, but the second writes after the message was delivered: it is queued again |
| `SafetyCeiling` | `MCLeaseLive.cfg` | `gateway/lease.py:82`: "Вместимость осталась потолком безопасности" | an account is switched off and keeps its holder, who claims another in its place; switched on again, it is served above the capacity |
| `EveryoneWaitsFromTheFirst` | `MCInbox.cfg` | `docs/12-telegram-connect.md:77-78`: "Ожидание ответа начинается с первого сообщения без ответа, а не с последнего" | two live events of one client are tasks of their own: the later message is committed first and the waiting begins with it |
| `EveryMessageCounts` | `MCInbox.cfg` with `MaxMsg = 3`, `MaxTroubles = 0` | `docs/12-telegram-connect.md:152`, of every message: "счётчик непрочитанных +1" | two live events read the same number of unread messages and write it plus one |
| `CardReleases` | `MCDesk.cfg` | `services/account_service.py:548-549`: chats of somebody who is no longer among the managers "иначе повисают невидимыми никому" | the card of an employee (`update_user`) takes accounts, role or work from him and leaves him his chats, which no other manager sees |
| `AudienceOfEveryChat` | `MCDesk.cfg` | `realtime/events.py:30`: "Ровно тем, кто вправе его видеть" | the managers of a warm-up bot do not see its chats and are sent their live events |
| `GivenToManagers` | `MCDesk.cfg` | `services/conversation_service.py:614`: "Передать можно только тому, кто ведёт аккаунт" | a chat is given to a manager who is taken off the account between the check and the write |

The following were met while modelling. Each is stated as a definition in its
module or is a bound of a cfg, so that TLC shows it.

Sending:

* A message that waits for its next attempt is overtaken within its dialog
  (`InOrder` as an invariant). `docs/05-decisions.md` accepts this.
* The flood pause is lost with the process, and messages queued during the ban
  are sent into it (`NoClaimDuringBan`); the refused message is due a little
  later than the queue it blocked and is overtaken (`FloodKeepsOrder`).
* Retrying the parts of a failed native forward one by one changes the random
  ids: the client gets a message twice (`ForwardShownOnce` with
  `Tab = {t1}`).
* Two retry requests for one message also make a row due that a flood ban
  postponed (the exception of `PostponedRowsWait`).
* An album that is refused, sent file by file, interrupted and begun again is
  refused once more, and its first file, already sent, is skipped as a
  duplicate although later ones are missing: `SentIsWhole` fails, against
  `gateway/mtproto_send.py:307-309`. A caption that is too long and an
  interruption make RANDOM_ID_DUPLICATE escape `execute`: the message is marked
  as failed though its text has arrived (`EscapedDuplicate`). Numbers are
  recovered from the latest outgoing messages of the chat, which need not be
  those of the message (`"blind"` in `mishaps`).
* `NotApartUnlessTold` (Edits): the texts also part when a report of an edit is
  handled after a newer one, names the text the row already has, or is lost
  with the gateway. The echo of an edit of one's own can cause a conflict in
  another tab that is none.

Sessions:

* Disabled and enabled again, an account keeps its holder, which never opens
  its session (`SessionOpens` without `returned`); a session that
  was being opened when its account was disabled stays open (`DisabledGoesQuiet`).
* With late heartbeats (`Punctual = FALSE` in `MCLease.cfg`, no toggles, deletes or
  faults) an account is opened twice (`OneSession`), and one that is lost and
  claimed again is closed by the stop of the first time, after it was reopened,
  and not opened again (`SessionOpens`). `LostIsStopped` still holds.
* A failed round or start after the claim (`MaxFaults = 1` in
  `MCLeaseLive.cfg`) leaves an account claimed without a session.
* A session still being opened when its account is lost to another process is
  missed by the stop and stays open; `LostIsStopped` speaks of sessions that
  were open.
* An orderly stop (`MaxShutdowns = 1` in `MCLease.cfg`) frees accounts before
  it closes their sessions: `OneSession` fails for that time. Under full load a
  process that holds any account claims nothing, not even a dead neighbour's.
* `StaysTheSame` (Login): a QR picture asked for before the first sign-in by
  code accepts anyone. `DeletedIsLoggedOut`: sessions that later sign-ins have
  replaced are disconnected, never logged out. `OneSessionAtWork` is about
  commands in turn; a code and a QR picture completed at once leave two
  clients.

Receiving, histories and files:

* `HistoriesLeaveRoom` with the shipped numbers and `Cores = 4`: a pool of nine
  connections and three places; three histories of one process, each in a dialog,
  take all nine, and the lease waits for one of them to close its lookup.
* `EverySyncEnds` with the shipped numbers, `Cores = 5` and `MaxSyncs = 4`: three
  histories that ask for their third connection and a task that waits for its
  second hold the pool of seven, and nobody gives back. With `Cores = 4` the same
  takes three sends that look their recipient up. The pool's timeout ends it: the
  histories are reported as failed or, when the account is still to be read
  outside of the `try`, lost without a word.
* A walk leaves out what came more than `CATCH_UP_MAX_LOOKBACK_DAYS` (7) ago and
  what is behind the newest `per_dialog_limit` (500) messages of a dialog, and the
  next one begins later: such messages stay in Telegram only (`story.cut`, the
  exception of `NothingIsLostInTurn`). Nothing in the CRM says that they are missing.
* `PendingHasSource` (Files): a file whose storing failed is left pending
  without the place to fetch it from; `services/inbound_service.py` says it
  will be fetched in the background.

Chats, lists and cards:

* For an administrator, who marks nothing as seen, the button never leads to a
  chat when more than `MAX_TAKEN + 1` wait (`IsManager = FALSE`).
* `StillListIsWhole` and `NothingSkipped` with `List = {"deals"}`: the list of
  deals is ordered by a time and continued after an id, so pages skip rows when
  the two orders differ; `docs/07-architecture.md:128` has cursors instead of
  page numbers, with nothing said of rows that are skipped.
* `SignFitsDateInTurn` without `raced`, and `OneBirthTime`: two editors leave
  the sign of one with the date of the other, or both times of birth.
* Round-the-clock shifts that do not begin at midnight: `is_on_shift` takes the
  calendar day, `working_seconds` the day the shift began on.
* `OneActive`: two directors switch off each other's last account. A deleted
  account of the directory that is loaded again stays deleted.

Money and access:

* A second payment of one deal, by another link, is answered as already paid
  and told to nobody (`docs/11-payments-architecture.md:214-226` speaks of
  repeated notifications of one payment).
* The first half of `SomebodyRules` alone: two administrators take the role from
  each other, each checking only that he does not edit himself, and nobody rules.
  No text of the repository promises that somebody does. Likewise an invitation
  accepted in two tabs at once works twice (`LinksWorkOnce` without its second
  half), and one sent again while the first is accepted leaves the person with two
  ways in (`OneWayIn`).
* `ScreenCatchesUp` with `Polled = FALSE`: an event that Redis loses while the
  socket stays open is made up for by the poll of a minute only;
  `docs/07-architecture.md:223` relies on the reconnection.

## 6. Deals and payments

`Deal` models the life of one deal; no handler touches two.

| In the model | In the code |
|---|---|
| `deal` | the row: status, total, method, link, copied requisites, source of the payment |
| `request[p]`, `lock` | what an open request does and the row it has read; who holds the row's lock (`SELECT ... FOR UPDATE`) |
| `overdue`, `Deadline` | `expires_at` has passed |
| `links`, `money`, `acked` | invoices created at Robokassa, those the client has paid, those answered OK |
| `chat` | the last invoice the client was sent |
| `told` | notifications: paid, paid for a deal that is over, wrong sum |
| `edition`, `EditRequisite` | the text of the requisites in the directory, against the copy in the deal |
| `raced` | history: a write was applied to a row changed since it was read |

`Create`, `Read` then `Work` (update, send, cancel), `PayLock` then `Work`
(`pay_deal`), `ExpireRead` then `Expire` (the job), `ClientPays`, `Notify` then
`Confirm` (`api/v1/payments.py`, `confirm_paid_by_provider`), `Fail` (a
transaction rolled back). An UPDATE without a lock waits for the row and is
applied to what it has become; this is what separates the operations that lock
before they read from those that do not.

| Run | Instance | Shows |
|---|---|---|
| `deal` | 1 manager, the job, 2 notifications at a time, sums {1, 2}, 1 requisite, 2 links, 2 edits, 2 editions; fairness | `BooksAgree`, `PaidIsFinalInTurn`, `DealsEnd` |
| `deal_final` | the same with 1 notification | `PaidIsFinal` is violated (section 5) |

Two sums tell a right payment from a wrong one, two links an old from a new
one, two edits let the sum go and come back. A larger instance (2 managers, 1
edit, 877 000 states) gives the same result. `CHECK_DEADLOCK FALSE`: a deal
that is over may stay as it is.

Fairness: requests end; Robokassa repeats a notification until OK and the job
runs every minute, and neither fails for ever - strong fairness, because a
transaction may be rolled back in between.

Proofs (`DealProofs`), for any numbers of managers, notifications, sums and
links: `BooksAreRight` and `PaidStays` from `DealInv`: who locks knows the row
as it is and who does not knows what it allowed (`Asked`); row, chat, links and
money agree unless `raced` (`Honest`); nobody was told twice (`ToldFew`).
`DealsEnd` is model-checked only.

## 7. Receiving messages and reading histories

`Inbox` models one account with some chats. A message is its number, and its
number is its date.

| In the model | In the code |
|---|---|
| `tg`, `rows` | messages in Telegram; messages in the CRM (unique by `tg_message_id`) |
| `conv[c]` | `unread_count`, `awaiting_reply_since`, the last messages of client and manager |
| `activity`, `old` | `last_activity_at`, where `catch_up` begins, and what is more than a week ago (`CATCH_UP_MAX_LOOKBACK_DAYS`), where it begins at the earliest |
| `Limit`, `Page` | `per_dialog_limit`: the newest messages of a dialog, the known ones included |
| `task[i]` | the task of a live event: came, has read the chat, has inserted |
| `sync` | the walk: list of dialogs, batches of one transaction |
| `reply[c]` | a manager's answer between its read and its write |
| `calm` | scenario chosen at the start: nothing overtakes anything |
| `story` | history: which messages rang (`rang`), up to where each chat was read (`read`), what a walk left out as too old or too far back (`cut`), the chats whose number of unread (`miscounted`) or whose waiting (`misdated`) was written from an old reading or out of order |

`Handle` is a live event in its steps, `Step` the walk in its, `Write`,
`PhoneRead` the client and the phone, `WeekPasses` a week of silence,
`MarkRead`, `ReplyRead`, `Reply` the
managers, `Connect`, `Resync`, `Flood`, `Crash`, `Deadlock` the gateway and the
database.

| Run | Instance | Shows |
|---|---|---|
| `inbox` | 2 chats, batch of 2, 1 message of a dialog in a walk, 2 messages, 1 trouble; fairness | `CountersAreHonestInTurn`, `NothingIsLostInTurn` |
| `inbox_catchup` | as `inbox` | `MissedIsCaughtUp` is violated (section 5) |

Two messages suffice for "older found after newer", a batch of two for a walk
that commits half-way, a limit of one for a dialog with more messages than a walk
reads. Fairness: some process opens a dead session again, the walk goes
on, tasks run, and PostgreSQL breaks deadlocks (`Deadlock`).

`CountersAreHonestInTurn` speaks of each counter of each chat by itself: since
when a chat waits is right until *that* was written by somebody who had read an
older value of it, or by a message that is older than one applied before; the
number of unread likewise. A race on one counter excuses neither the other
counter nor another chat. `NothingIsLostInTurn` is about behaviours in which
nothing overtakes the catching up (`calm`): of a death, a gap, a walk in batches,
a week and a long dialog it says that everything gets in but what was `cut`.

Not modelled: deletions, reactions, echoes of our own messages.

Proofs (`InboxProofs`), for any number of chats, messages, managers' answers,
walks and troubles, any size of a batch and any limit: `CountersStayHonest`
(`CountersAreHonestInTurn`), from `InboxInv`. The counters are close to being
inductive, three things are missing. What rang came from the client (`RangIn`).
What a task is about to insert is not in the CRM and not in the batch of the
walk (`InsertedIsNew`): the unique number decides who counts a message. What
the walk has in hand are messages of Telegram (`WalkIsReal`). The proof has one
lemma for what each kind of writing does to each counter: a live message
(`LiveWaits`, `LiveCounts`), a batch of the walk (`PastWaits`, `PastCounts`), a
reader (`ReadCounts`), an answer (`AnswerWaits`); each asks only that this counter
was not written from an old reading, and `CountersStay` carries the rest. Messages and
counters of a batch are committed together, which is why a death between two
batches leaves them right. The minimum and maximum of sets of messages are treated by
`Least` and `Greatest`, from the well-foundedness of the numbers.
`NothingIsLostInTurn` is liveness and model-checked only.

`Syncs` (instance `progress`) is the queue for histories as one process sees
it. A place is an advisory lock held by a connection; between two commits the
session of the history has a second one; for every dialog (`_known_since`) and
for the setting on files (`history_policy`) a session of its own asks for a third.
`queued`, `looking`, `placed`, `reading`, `asking`, `knowing` count tasks by what
they hold and wait for; `placed` is also where a history is after each commit
(`CommitBatch`). All connections come from the pool that the rest of the process
uses too (`Lend`, `GiveBack`); of the rest a send asks for a second connection
while it holds its first (`AskRecipient`, `_entity` inside the transaction of
`drain_account_outbox`). Who waits too long gives up (`WaitTimesOut`), which may
happen and is never counted on. Other processes take places. Numbers of places and
connections follow from `Cores` as in `gateway/topology.py` and `core/db.py`. The
run has three cores, a smaller budget than the shipped one so that the pool of
seven is just larger than three connections for each of the two places, three
histories, one elsewhere, one send, one crash. Strong fairness of `Look`, `BeginReading`
and `LookUp`: SQLAlchemy's pool is first-in, first-out; of `EndReading`: a history
has finitely many dialogs.
`ProgressProofs` shows for any number of cores and connections that a pool larger
than three connections a place leaves room (`RoomIsLeft`), that one larger than
two a place and one for each such send never comes to a stop (`NoHoldAndWait`),
and that with the shipped numbers the first is so up to three cores and the second
up to four, with at most two such sends there (`RoomUpToThree`, `NoStopUpToFour`);
beyond that both fail (section 5).

## 8. Ways in: people and Telegram accounts

`Access`: `user`, `session`, `attempt` are the tables; `request[r]` is a request
between the read it decides on and the write after a password was hashed in a
thread (`LoginRead`, `AcceptRead`, `ResetRead`, `PasswordRead`, `EditRead`,
`IssueRead`, `ResendRead`, then `Answer`, `Issue`, `Resend`); only the use of a
link for a new password locks its row. `Connect` and `Revalidate` are the
websocket, `Forget` the end of the lockout window. A link that expires is one
that is not used any more.

| Run | Instance | Shows |
|---|---|---|
| `access` | 2 people, 2 requests at a time, 4 in all, 1 wrong password allowed, 2 invitations, 1 reset, 3 attempts kept | `WaysInHold`, `SessionsAreCurrent`, `SocketsEnd` |
| `access_sessions` | the same, 1 attempt kept | `SessionsEnd` is violated (section 5) |

Two people let administrators edit each other, two requests overtake each
other, two invitations make the first one worthless. `tangled` records who was written
by a request of which kind after somebody else had changed what it read. Each part
names the kinds it excuses: `OneWayIn` an invitation sent again to that person,
`SessionsAreCurrent` a login, an acceptance or a repeated invitation of the
session's owner, `LinksWorkOnce` an invitation accepted, `SomebodyRules` an edit. A new password, a link, an administrator who switches somebody
off and a role that is taken away are excused nowhere else. Fairness: an open socket
looks at its session every 30 seconds.

`Login`: `working`, `login`, `qr` are `_clients`, `_logins`, `_qr` of the
process that holds the account; `client` the Telegram client objects, with the
session each speaks with; `pass` what Telegram knows of each session; `worker[t]`
where the task of a command or of a QR picture stands (`SendCode`, `Confirm`,
`SignIn`, `QrStart`, `Scan`, `Stranger`, `Swap`, `Save`, `Report`, `Delete`, ...,
one action per await); `Crash` ends all of them. `story` records that commands
went out of turn.

It is checked in the run `desk`, as the stage `login`, with 2 tasks, 3 clients, 3
commands, 1 trouble and symmetry of tasks (`OneSessionAtWork`, `NoStrangerStays`).
Three clients are the one that works, the one that signs in and one by QR; with
four commands (5.2 million states) the result is the same.

`CHECK_DEADLOCK FALSE`: with the bounds used up nothing has to happen.

Proofs (`AccessProofs`), for any number of people, requests, links and attempts:
`TheWaysInHold` and `SessionsStayCurrent`, from `AccessInv`. Its core is
`Known`: what a request may still rely on after its password was hashed - for the
link it locked the row itself, for others only what nobody takes back (that the
person has a password, that the session it came with is his or somebody else's).
`LinksInv` says that a link that still stands in a row was not used and stands in
no other; `SessionsInv` that a session that is not current belongs to somebody in
`tangled` by a login, an acceptance or a repeated invitation; two requests
never reset one password (`RequestsInv`), which the row lock is for. `TriesInv`
counts wrong passwords together with logins under way - the limit is checked
before the password, so it can be passed by as many as are under way, and
`LockoutHolds` allows exactly that. `BudgetInv` ties sessions to the bound on
requests. `SocketsEnd` is liveness and model-checked only.

Proofs (`LoginProofs`), for any number of handlers, clients, commands and
troubles: `OneSessionWorks` and `NoStrangerIsLeft`, from `LoginInv`. Both speak
of an account that nobody is working on; a handler at work breaks each of them
on its way (the new client is connected before the old one is closed, the new
session works before it is saved, a stranger is signed in before he is logged
out). So the invariant has two halves: `LoginRows`, which holds however handlers
interleave (what can stand where, the locked row, the loss told once); and, as
long as commands went in turn, *one* worker whose turn it is (`TurnOf`), with
what it has in hand explaining every deviation: what is connected
(`OpenForSomething`), what works (`OneAlive`), what is saved (`SavedIsKept`),
who is signed in (`AllOurs`), and what must hold at the very place it stands
(`Stage`). The whole takes about ten minutes to check.

## 9. The employees' desk

Run `desk` (`MCDesk`), seven modules and `Login` (section 8):

| Module | Models | Instance | Shows |
|---|---|---|---|
| `Chats` | `get_or_create_conversation`, `mark_replied`, `transfer`, `set_managers`, `update_user`, the audience of live events; a request reads, an administrator changes the managers, the request writes | 3 employees, 1 chat, 2 requests, 3 changes | `ChatsHold`, `FirstAnswerKeeps` |
| `Cards` | the columns of a client's card: edits, the profile an inbound message brings, the birthday Telegram answers later | 2 editors, 3 dates, 2 edits | `CardsHold` |
| `Hours` | `working_seconds`, `is_on_shift`, `seconds_between` as operators | days of 4 hours, a week of 3, all intervals of 3 days, all shifts | `HoursAgree` |
| `Paging` | order, cursor and page of the lists of chats, the queue, clients, notes | 3 rows, pages of 1, a row moves, appears or goes | `ListsAreWhole` |
| `Sending` | `plan`, `execute`, albums, captions, `_recoverer` | 5 messages of up to 3 files, 3 tries, 2 interruptions | `SentWell` |
| `Edits` | `edit_message`, the command, its late or lost answer, reports of edits in tasks of their own, the phone | 2 tabs, 3 texts, 2 rewrites, 1 edit on the phone | `NotApartSilently` |
| `Requisites` | create, switch, delete, load; each reads, then writes | 3 accounts, 2 directors, 4 changes | `OneActiveInTurn` |

In `Chats` a request is `late` once managers or roles were changed under it, and
`stray` says of a chat that it was settled by a late request, or that its
responsible's card was changed, since the managers of the account were last set.
`ChatsHold` is about all other chats: `SetManagers` empties `stray`, so the
property says that setting the managers on the account's screen brings back every
chat that hangs, whatever went wrong before. A warm-up bot's managers are the one
exception of the audience. `CardReleases`, `AudienceOfEveryChat` and `GivenToManagers` are the sentences of
the code without these exceptions (section 5).

Symmetry is of requests and of the employees who are not the founder; all
properties of this run are safety. Three rows with equal and missing keys and a
page of one reach every border of a page. The five messages cover every branch
of `plan`: an album that is too large, kinds that do not go together, a voice
message, a text that is too long, no text. A larger `Edits` (3 rewrites, 1.6
million states) agrees.

Proofs (`DeskProofs`), for any numbers:

* `ChatsAreSomebodys` and `FirstAnswer` from `ChatsInv`: what a request has read
  is still right when it writes unless it is late (`StillRight`); a chat that is
  not stray has nobody or somebody who sees it (`NobodysChat`), and a sole manager
  has it or declined it (`SoleManagerHasAll`).
* `CardsStayWhole` from `CardsInv`: a flush writes single columns, so the date
  of one writer and the sign of another can meet in a card. `SeenWhole` says
  that every card somebody has read was whole when it was read; he writes date
  and sign together or neither, and that keeps the row whole unless somebody
  wrote the date meanwhile (`raced`).
* `NobodyIsDeceived` from `EditsInv`. The property allows a difference that
  somebody was told of, or whose report or answer is on its way. To keep it one
  must know that a request that was overtaken will notice: the mark it, or a
  report, is going to write is in nobody's hands yet (`MarksAreNew`), because
  numbers grow. `DifferenceExplained` lists why the texts may differ,
  `ConfirmedIsLast` says of a confirmed edit that Telegram has its text or that
  somebody else's is on its way, `CommandIsAwaited` that a command belongs to a
  request.
* `PagesAreWhole` for any number of rows, any size of a page, any moves, from
  `PagingInv`: of the rows nobody touched, those the cursor stands before are
  still to be given and the others were given once. The proof needs that every
  order the lists use is strict and total over the rows, that a page ends with
  its last row (`SomebodyIsLast`, from finiteness) and that the filter of a
  cursor cuts exactly there. It assumes that the list of deals is not among
  them: with it the statement is false (section 5).
* `ManagersCanName`, from the fact that while one director works at a time, what
  he counted is still so when he commits (`CheckStillHolds`).

* `ClocksAgree` (`HoursAgree`) for shifts, days and weeks of any length and any
  interval. Working time is summed day by day; `Worked` counts the union of the
  ticks of all days, and since no tick is of two days that is the sum. Written as
  a set, the facts about it (waits add up, a longer interval has no less, what
  nothing limits counts whole) are facts about finite sets, with no induction over
  the days.
* `SentMeansSent` (`SentWell`) for any texts and files, any limits, any number of
  tries and interruptions, from `SendInv`. The plan is written by rank: a file has
  its place among those of its group, `SameAlbum` says which places share an album,
  and albums are sent in the order of their first files (`InOrder`); that every
  step is a call Telegram takes and every file is in exactly one step is then a
  fact about numbers (`PlanIsWhole`). What Telegram has seen is told by the ids of
  the parts (`step_random_id`): `DoneSoFar` says that what lies behind the present
  step is there, and of a step taken apart what lies behind the present item;
  `FirstTime`, that an attempt nothing has interrupted sends no id twice; `Known`,
  that without mishaps the numbers collected are those of the steps behind. `Torn`
  is the exception of the property: an album sent file by file met an interruption
  (section 5).
  The one assumption on constants with a meaning is `ALBUM_LIMIT < APART`: the id
  of a caption sent ahead is that of item 99 of its step (`step_random_id`), which
  no file of an album may have.

## 10. What must come to pass

Run `progress` (`MCProgress`), five modules (`Syncs` is in section 7):

| Module | State and code | Instance | Shows |
|---|---|---|---|
| `Files` | `row` the `attachments`, `stored` the storage, `fetch[w]` where the loop of a process is, `keeper` who holds the account, `room` disk and load; `ReceiveFile`, `TakeBatch`, `BeginFetch`, `DownloadFile`, `RecordFetch`, `PauseEnds`, `MoveAccount`, `WorkerCrash`, `RoomChanges` | 1 video of 10 MB, 2 processes, 2 attempts, 1 change of the disk, 2 moves, 1 crash | `ReadyHasObject`, `FilesEnd` |
| `Attachments` | uploads put to the storage in two steps and attached later; conversion of voice messages behind a lock per process, forgotten after a failure | 1 upload, 2 voice messages, 3 listeners, 1 process, 1 failed conversion | `MadeWholeOnce`, `EveryoneIsAnswered` |
| `Queue` | `since`, `seen` of the chats, `taken` what the browser remembers; `TakeFirst` is the button with `next_in_queue` and the circle that starts anew | 3 chats, a memory of 1 (`MAX_TAKEN`), 3 messages, a manager | `OfferedInTurn` |
| `Live` | `stack` of savepoints, `pending` events in `session.info`, tasks that publish, Redis, the hub, the socket, the screen that reloads | 2 notices, 2 savepoints, 1 outage, the poll of a minute | `EventsMatchRows`, `ScreenCatchesUp` |

The bounds: two processes and two moves bring an account back to the process
that left it, two attempts are "tried, then given up"; three listeners are one
who converts, one who waits with the same lock and one who comes after the lock
was forgotten; three chats with a memory of one make the button forget; two
savepoints are one inside the other or one after the other. Two files (4
million states) keep the safety of `Files`. `CHECK_DEADLOCK FALSE`: with
everything settled nothing is left to happen.

Fairness, stated in `MCProgress` for each part: the loop of a process goes on
and its pauses end (`LoopStep`, `PauseEnds`); a request that is being served
goes on, ffmpeg ends or is killed in time (`ServeStep`); the employee keeps
pressing (`TakeFirst`) - "everybody is reached" is about one who does; loops,
timers and reconnections of the hub and the browser run. `FilesSettle` has its
own premise, that in the end the server has room and somebody holds the account.

Proofs (`ProgressProofs`), for any numbers:

* `ReadyIsStored` and `ReadyStays` from `FilesInv`: what a download reports is
  in the storage (`OutcomeIsTrue`), and as long as no file was fetched twice at
  a time, who fetches a file is the only one and its row is pending (`Alone`).
* `FilesAreMadeWholeOnce` (`MadeWholeOnce`) from `AttachInv`. A lock is forgotten
  when the conversion is over, while others still wait with it, so there can be
  two locks for one voice message. `OneLock` says when there cannot: until a
  conversion was done or failed, everybody who is under way has the lock of the
  table; `LocksAreHeld`, that who is past it holds it; `BegunOnce`, that what was
  begun is under way or done and nobody is about to begin again.
* `EventsMatch` from `SessionInv`: every event waits on the level its row is on,
  and every row has its event (`EventHasRow`, `RowHasEvent`; `InsideUpTo` says of
  which open savepoints an event is).
* the places and connections of `Syncs`, see section 7.

* `AttemptsAreFew` (the part `AttemptsEnd` of `FilesEnd`) from `AttemptsInv`. That
  an attempt is counted before the download bounds the row's counter only together
  with who is at it: a process fetches only after it was given the account
  (`FewActive`: the active processes are no more than the moves so far), and a row
  at its limit still waits only while somebody is at its last attempt or died in
  it (`Counted`). With more moves or crashes one attempt more each is possible,
  and TLC finds states in which it happens.
* `QueueTakesTurns` (the safety of `OfferedInTurn`) from `QueueInv`: while the
  browser's list has lost nothing of the circle it holds every offer that is a
  chat's present wait (`ListHoldsCircle`); a chat taken off the list waits anew,
  and a new wait is later than every offer (`WaitsAreOld`). The list is thinned out
  by `Without`, written with an ascending enumeration of the places that stay:
  the provers have no definition of `SelectSeq`.

Liveness is model-checked only: `FilesSettle`, `EachIsOffered`,
`EveryoneIsAnswered`, `ScreenCatchesUp`, `EverySyncEnds`.

## 11. What is not modelled

Statistics, search, the catalogue, templates, settings and exports are queries
over committed rows or edits of single rows that nobody else writes: what is
hard there is SQL, which these models would have to trust. The seed and the
migrations run once, with nothing beside them. The screens of the web client
are not modelled except for what decides about the behaviours above (the memory
of the queue's button, the websocket, reloading). Deployment is shell scripts
and a plan of resources computed at installation.

Inside modelled components: simulated answers of demo accounts; deletions,
reactions and echoes of our own messages in `Inbox`; the choice of what a
forward copies; marking notices as read; when somebody was seen last; tags and
notes of a client; what ffmpeg computes. Effective capacity under load is a free
choice among its values, so what holds in `Lease` holds for any reading of
memory and load.

Out of reach of the prover, and therefore only model-checked: every liveness
property (`Settled`, `AllOwned`, `LostIsStopped`, `SessionOpens`, `DealsEnd`,
`NothingIsLostInTurn`, `SocketsEnd`, `EveryoneIsAnswered`, `ScreenCatchesUp`,
`EverySyncEnds`, and the liveness in `FilesEnd` and `OfferedInTurn`). Sums and
lists over data are written with sets and ranks instead of folds, recursion and
`SelectSeq` where something is proved of them, because the provers can neither
do induction over data nor expand `SelectSeq`.

Some theorems have a hypothesis beyond the assumptions of their module. Without
it the statement is false, and section 5 has the counterexample: no retry of a
single message of a forward (`NeverRetried`), a list that is not that of deals, no
orderly stop (`OneSessionPerAccount`), connections enough for the places
(`RoomIsLeft`, `NoHoldAndWait`). Two hypotheses are of another kind: `Punctual` is
an assumption about scheduling (section 4), and `BanIsWaitedFor` leaves out native
forwards because its invariant does not hold of them (section 3).

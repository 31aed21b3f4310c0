------------------------------- MODULE Files -------------------------------
(***************************************************************************)
(* The files clients send.  A message is written together with a row for   *)
(* its file; small files are downloaded first, large ones and those the    *)
(* server has no room for are left pending, and the gateway process that   *)
(* holds the account fetches them in the background, a batch at a time:    *)
(* count the attempt, download, store, record the outcome.  The account    *)
(* may move to another process, a process may crash, the disk may fill.    *)
(*                                                                         *)
(* Files are numbered by the id of their row.  Sizes are in megabytes.     *)
(* The texts shown to the manager are left out.                            *)
(***************************************************************************)
EXTENDS Integers, Sequences, FiniteSets

CONSTANTS File, Worker, NoWorker, NoKey,
          FileSize, FileKind,     \* what the client sent
          MAX_DOWNLOAD,           \* telegram_max_download_mb
          MAX_ATTEMPTS, BATCH,
          MaxDiskChanges, MaxFileMoves, MaxFileCrashes   \* bounds

ASSUME FilesAssumption ==
    /\ File \subseteq Nat
    /\ NoWorker \notin Worker
    /\ "inbox" \notin Worker
    /\ NoKey \notin File \X (Worker \cup {"inbox"})
    /\ FileSize \in [File -> Nat]
    /\ MAX_ATTEMPTS \in Nat \ {0}
    /\ BATCH \in Nat \ {0}

VARIABLES row,       \* the rows of table attachments
          stored,    \* the objects in the storage
          fetch,     \* what the background loop of each process is doing
          keeper,    \* the process that holds the account
          room,      \* the disk level and the load
          overlap,   \* some file was once fetched by two processes at a time
          filesSpent \* the bounds used up

filesVars == <<row, stored, fetch, keeper, room, overlap, filesSpent>>

-----------------------------------------------------------------------------
HEAVY == 5           \* HEAVY_BYTES
SYNC_DOWNLOAD == 20  \* SYNC_DOWNLOAD_BYTES

\* DiskLevel
OK == 0
TIGHT == 1
PAUSED == 2
CRITICAL == 3

\* One object per download; the fresh uuid is the file and who stored it.
StorageKey == File \X (Worker \cup {"inbox"})

FileRow == [status: {"none", "pending", "ready", "failed", "too_large"},
            source: BOOLEAN,      \* meta.source: where to fetch it from
            attempts: Nat,
            resting: BOOLEAN,     \* meta.next_at is in the future
            key: StorageKey \cup {NoKey}]

NoRow == [status |-> "none", source |-> FALSE, attempts |-> 0,
          resting |-> FALSE, key |-> NoKey]

Fetching == [at: {"idle", "take", "download", "record"}, todo: SUBSET File,
             file: File \cup {0}, attempt: Nat,
             outcome: {"none", "ok", "gone", "error"}]

NotFetching == [at |-> "idle", todo |-> {}, file |-> 0, attempt |-> 0,
                outcome |-> "none"]

FilesTypeOK ==
    /\ row \in [File -> FileRow]
    /\ stored \subseteq StorageKey
    /\ fetch \in [Worker -> Fetching]
    /\ keeper \in Worker \cup {NoWorker}
    /\ room \in [level: OK..CRITICAL, busy: BOOLEAN]
    /\ overlap \in BOOLEAN
    /\ filesSpent \in [changes: Nat, moves: Nat, crashes: Nat]

FilesInit ==
    /\ row = [f \in File |-> NoRow]
    /\ stored = {}
    /\ fetch = [w \in Worker |-> NotFetching]
    /\ keeper = NoWorker
    /\ room = [level |-> OK, busy |-> FALSE]
    /\ overlap = FALSE
    /\ filesSpent = [changes |-> 0, moves |-> 0, crashes |-> 0]

-----------------------------------------------------------------------------
(* What may be downloaded now. *)

Heavy(f) == FileKind[f] = "video" \/ FileSize[f] > HEAVY

Minimal(f) == FileKind[f] \in {"photo", "voice", "sticker"} /\ FileSize[f] <= HEAVY

\* The setting "history files"; it may be another one for every message.
Policy == {"all", "light", "minimal"}

SkippedByPolicy(f, policy) == \/ policy = "minimal" /\ ~Minimal(f)
                              \/ policy = "light" /\ Heavy(f)

\* decide_media; the setting is about history, never about a live message.
DecideMedia(f, live, policy) ==
    CASE room.level >= CRITICAL -> "defer"
      [] room.level < CRITICAL /\ live -> "download"
      [] room.level < CRITICAL /\ ~live /\ SkippedByPolicy(f, policy) -> "skip"
      [] room.level < CRITICAL /\ ~live /\ ~SkippedByPolicy(f, policy) ->
           IF room.level >= PAUSED \/ (room.level = TIGHT /\ Heavy(f))
           THEN "defer" ELSE "download"

\* backfill_limit: whether the background loop may take f now.
WithinLimit(f) == /\ room.level < PAUSED
                  /\ ~room.busy
                  /\ room.level = TIGHT => FileSize[f] <= HEAVY

\* Mutant: a file that failed once is never due again.
DueOnce == {f \in File : /\ row[f].status = "pending"
                         /\ row[f].source
                         /\ row[f].attempts = 0
                         /\ ~row[f].resting
                         /\ WithinLimit(f)}
\* _due
Due == {f \in File : /\ row[f].status = "pending"
                     /\ row[f].source
                     /\ ~row[f].resting
                     /\ WithinLimit(f)}

FirstDue == {f \in Due : Cardinality({g \in Due : g < f}) < BATCH}

-----------------------------------------------------------------------------
(* Receiving a message with a file. *)

\* A file that waits for the background loop.
Pending == [NoRow EXCEPT !.status = "pending", !.source = TRUE]

\* Mutant: the row is written for a failed put as for a good one.
KeptAnyway(f, put) == [NoRow EXCEPT !.status = "ready", !.key = <<f, "inbox">>]
\* The row of a file that was downloaded at once and given to the storage;
\* read_media left no source in it, a failed put leaves it pending as it is.
Kept(f, put) == IF put THEN [NoRow EXCEPT !.status = "ready", !.key = <<f, "inbox">>]
                       ELSE [NoRow EXCEPT !.status = "pending"]

\* The rows read_media and _save_attachments may write for f, and whether an
\* object goes to the storage.
Received(f, live, policy) ==
    IF FileSize[f] > MAX_DOWNLOAD \/ DecideMedia(f, live, policy) = "skip"
    THEN {[row |-> [NoRow EXCEPT !.status = "too_large"], put |-> FALSE]}
    ELSE IF DecideMedia(f, live, policy) = "defer" \/ FileSize[f] > SYNC_DOWNLOAD
         THEN {[row |-> Pending, put |-> FALSE]}
         ELSE {[row |-> Pending, put |-> FALSE]}     \* Telegram gave nothing
              \cup {[row |-> Kept(f, put), put |-> put] : put \in BOOLEAN}

\* The message is committed with the row, or the process fails before the
\* commit: an object may be left in the storage without a row.
ReceiveFile(f, live) ==
    /\ row[f].status = "none"
    /\ \E policy \in Policy : \E r \in Received(f, live, policy), committed \in BOOLEAN :
         /\ r.put \/ committed
         /\ stored' = IF r.put THEN stored \cup {<<f, "inbox">>} ELSE stored
         /\ row' = IF committed THEN [row EXCEPT ![f] = r.row] ELSE row
    /\ UNCHANGED <<fetch, keeper, room, overlap, filesSpent>>

-----------------------------------------------------------------------------
(* The background loop of process w. *)

\* A pass: the accounts of this process, a batch of what is due.
TakeBatch(w) ==
    /\ fetch[w].at = "idle"
    /\ keeper = w
    /\ FirstDue # {}
    /\ fetch' = [fetch EXCEPT ![w].at = "take", ![w].todo = FirstDue]
    /\ UNCHANGED <<row, stored, keeper, room, overlap, filesSpent>>

\* A file of the batch that is no longer pending is passed over.
StillPending(f) == row[f].status = "pending"

FetchedElsewhere(w, f) ==
    \E o \in Worker \ {w} : fetch[o].at \in {"download", "record"} /\ fetch[o].file = f

\* The first transaction of fetch_one: count the attempt, set the next one.
BeginFetch(w) ==
    /\ fetch[w].at = "take"
    /\ fetch[w].todo # {}
    /\ LET f == CHOOSE g \in fetch[w].todo : \A h \in fetch[w].todo : g <= h
           rest == fetch[w].todo \ {f}
       IN IF StillPending(f)
          THEN /\ row' = [row EXCEPT ![f].attempts = @ + 1, ![f].resting = TRUE]
               /\ fetch' = [fetch EXCEPT ![w] =
                    [at |-> "download", todo |-> rest, file |-> f,
                     attempt |-> row[f].attempts + 1, outcome |-> "none"]]
               /\ overlap' = (overlap \/ FetchedElsewhere(w, f))
          ELSE /\ fetch' = [fetch EXCEPT ![w].todo = rest]
               /\ UNCHANGED <<row, overlap>>
    /\ UNCHANGED <<stored, keeper, room, filesSpent>>

\* Telegram is asked and the file goes to the storage; either may fail, and
\* Telegram may say the file is gone.
DownloadFile(w) ==
    /\ fetch[w].at = "download"
    /\ \E outcome \in {"ok", "gone", "error"} :
         /\ fetch' = [fetch EXCEPT ![w].at = "record", ![w].outcome = outcome]
         /\ stored' = IF outcome = "ok" THEN stored \cup {<<fetch[w].file, w>>} ELSE stored
    /\ UNCHANGED <<row, keeper, room, overlap, filesSpent>>

LastAttempt(w) == fetch[w].outcome = "gone" \/ fetch[w].attempt >= MAX_ATTEMPTS

\* The second transaction of fetch_one; the row is not looked at again.
Recorded(w) ==
    LET r == row[fetch[w].file]
    IN CASE fetch[w].outcome = "ok" ->
              [r EXCEPT !.status = "ready", !.key = <<fetch[w].file, w>>, !.resting = FALSE]
         [] fetch[w].outcome # "ok" /\ LastAttempt(w) -> [r EXCEPT !.status = "failed"]
         [] OTHER -> r

RecordFetch(w) ==
    /\ fetch[w].at = "record"
    /\ row' = [row EXCEPT ![fetch[w].file] = Recorded(w)]
    /\ fetch' = [fetch EXCEPT ![w] = [NotFetching EXCEPT !.at = "take", !.todo = fetch[w].todo]]
    /\ UNCHANGED <<stored, keeper, room, overlap, filesSpent>>

\* The batch is done.
EndBatch(w) ==
    /\ fetch[w].at = "take"
    /\ fetch[w].todo = {}
    /\ fetch' = [fetch EXCEPT ![w] = NotFetching]
    /\ UNCHANGED <<row, stored, keeper, room, overlap, filesSpent>>

\* The pause before the next attempt has passed.
PauseEnds(f) ==
    /\ row[f].resting
    /\ row' = [row EXCEPT ![f].resting = FALSE]
    /\ UNCHANGED <<stored, fetch, keeper, room, overlap, filesSpent>>

-----------------------------------------------------------------------------
(* The surroundings. *)

\* The lease of the account passes to another process or is taken at start.
MoveAccount(w) ==
    /\ keeper # w
    /\ filesSpent.moves < MaxFileMoves
    /\ keeper' = w
    /\ filesSpent' = [filesSpent EXCEPT !.moves = @ + 1]
    /\ UNCHANGED <<row, stored, fetch, room, overlap>>

\* The process dies or is stopped and starts again with an empty memory.
WorkerCrash(w) ==
    /\ fetch[w].at # "idle"
    /\ filesSpent.crashes < MaxFileCrashes
    /\ fetch' = [fetch EXCEPT ![w] = NotFetching]
    /\ filesSpent' = [filesSpent EXCEPT !.crashes = @ + 1]
    /\ UNCHANGED <<row, stored, keeper, room, overlap>>

\* The governor sees another disk or another load.
RoomChanges ==
    /\ filesSpent.changes < MaxDiskChanges
    /\ \E level \in OK..CRITICAL, busy \in BOOLEAN :
         /\ room # [level |-> level, busy |-> busy]
         /\ room' = [level |-> level, busy |-> busy]
    /\ filesSpent' = [filesSpent EXCEPT !.changes = @ + 1]
    /\ UNCHANGED <<row, stored, fetch, keeper, overlap>>

LoopStep(w) == TakeBatch(w) \/ BeginFetch(w) \/ DownloadFile(w) \/ RecordFetch(w) \/ EndBatch(w)

FilesNext ==
    \/ \E f \in File, live \in BOOLEAN : ReceiveFile(f, live)
    \/ \E w \in Worker : LoopStep(w) \/ MoveAccount(w) \/ WorkerCrash(w)
    \/ \E f \in File : PauseEnds(f)
    \/ RoomChanges

FilesSpec == FilesInit /\ [][FilesNext]_filesVars

-----------------------------------------------------------------------------
(* Properties. *)

\* A row never says a file can be opened when its object is not in the
\* storage, or is the object of another file: the object is written before
\* the row, by a process that may die in between, and two processes may be
\* fetching the same file after the account moved.
ReadyHasObject ==
    \A f \in File : row[f].status = "ready" =>
        row[f].key \in stored /\ row[f].key[1] = f

\* A file that can be opened stays so.  fetch_one writes its outcome without
\* looking at the row again, so this rests on no file being fetched twice at
\* a time; the check that the file is still pending is what keeps a batch
\* chosen earlier from spoiling what another process fetched meanwhile.
ReadyStaysInTurn ==
    [][\A f \in File : row[f].status = "ready" /\ ~overlap' => row'[f].status = "ready"]_filesVars

\* Attempts are counted before the download, in the row, so that a restart
\* loses none: only a crash, or a move of the account after the first process
\* took it, adds one to the five.
AttemptsEnd ==
    \A f \in File : row[f].attempts < MAX_ATTEMPTS + filesSpent.crashes + filesSpent.moves

\* A pending file is fetched or given up when the server has room for good:
\* no crash, move or failure leaves it loading for ever.  (Of a file with a
\* source; see PendingHasSource.)
RoomForGood == <>[](room.level = OK /\ ~room.busy /\ keeper # NoWorker)

FilesSettle ==
    RoomForGood =>
        \A f \in File : (row[f].status = "pending" /\ row[f].source) ~> row[f].status # "pending"

\* Files come and stay: the attempts are bounded, what can be opened stays
\* so, and what waits is fetched or given up (fetch_one).
FilesEnd == [](FilesTypeOK /\ AttemptsEnd) /\ ReadyStaysInTurn /\ FilesSettle

\* What the comment at inbound_service.py says of a file that was not saved:
\* the gateway will fetch it in the background.  For that the row must say
\* where from.
PendingHasSource == \A f \in File : row[f].status = "pending" => row[f].source

=============================================================================

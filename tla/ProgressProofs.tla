-------------------------- MODULE ProgressProofs ----------------------------
(***************************************************************************)
(* Theorems about the parts in which something must come to pass, for any  *)
(* number of files, processes, uploads, notices and cores, any depth of    *)
(* savepoints and any sequence of crashes and outages.  They say what      *)
(* never goes wrong meanwhile; that it comes to pass is checked by TLC.    *)
(***************************************************************************)
EXTENDS Files, Attachments, Queue, Live, Syncs,
        FiniteSetTheorems, SequenceTheorems, NaturalsInduction, WellFoundedInduction, TLAPS

-----------------------------------------------------------------------------
(* The download of a file.  As long as nobody else fetches it, its outcome *)
(* is recorded once.                                                       *)
Busy(w) == fetch[w].at \in {"download", "record"}

\* What the outcome of a download says is true of the storage.
OutcomeIsTrue(w) ==
    /\ Busy(w) => fetch[w].file \in File
    /\ fetch[w].at = "record" /\ fetch[w].outcome = "ok" =>
         <<fetch[w].file, w>> \in stored

\* As long as no file was fetched twice at a time, who fetches a file is the
\* only one and nobody else has recorded anything for it.
Alone(w) ==
    /\ row[fetch[w].file].status = "pending"
    /\ \A o \in Worker \ {w} : Busy(o) => fetch[o].file # fetch[w].file

FilesInv ==
    /\ FilesTypeOK
    /\ \A w \in Worker : OutcomeIsTrue(w)
    /\ ~overlap => \A w \in Worker : Busy(w) => Alone(w)
    /\ ReadyHasObject

-----------------------------------------------------------------------------

(* A set of numbers that is not empty has a least one.                     *)
LEMMA Least ==
    ASSUME NEW S \in SUBSET Nat, S # {}
    PROVE  \E x \in S : \A y \in S : x <= y
<1>1. \E x \in S : \A y \in S : ~ (<<y, x>> \in OpToRel(<, Nat))
  BY NatLessThanWellFounded, WFMin
<1>2. \A x, y \in Nat : <<y, x>> \in OpToRel(<, Nat) <=> y < x
  BY DEF OpToRel
<1>3. PICK x \in S : \A y \in S : ~ (<<y, x>> \in OpToRel(<, Nat))
  BY <1>1
<1>4. \A y \in S : ~ (y < x)
  BY <1>2, <1>3
<1>5. \A y \in S : x <= y
  BY <1>4
<1> QED BY <1>5

LEMMA FilesStart == FilesInit => FilesInv
<1> SUFFICES ASSUME FilesInit PROVE FilesInv
  OBVIOUS
<1>1. NoRow \in FileRow /\ NoRow.status = "none"
  BY DEF NoRow, FileRow
<1>2. NotFetching \in Fetching /\ NotFetching.at = "idle"
  BY DEF NotFetching, Fetching
<1>3. FilesTypeOK
  <2>1. room \in [level: OK..CRITICAL, busy: BOOLEAN]
    BY DEF FilesInit, OK, CRITICAL
  <2>2. filesSpent \in [changes: Nat, moves: Nat, crashes: Nat]
    BY DEF FilesInit
  <2> QED BY <1>1, <1>2, <2>1, <2>2 DEF FilesInit, FilesTypeOK
<1>4. \A w \in Worker : ~Busy(w) /\ fetch[w].at = "idle"
  BY <1>2 DEF FilesInit, Busy
<1>5. ReadyHasObject
  BY <1>1 DEF FilesInit, ReadyHasObject
<1> QED BY <1>3, <1>4, <1>5 DEF FilesInv, OutcomeIsTrue

-----------------------------------------------------------------------------
(* The background loop.                                                    *)

\* Taking a batch, passing over a file of it and ending it change the batch.
LEMMA BatchKeeps ==
    ASSUME FilesInv, NEW w \in Worker, ~Busy(w),
           NEW f \in Fetching, f.at \in {"idle", "take"},
           fetch' = [fetch EXCEPT ![w] = f],
           UNCHANGED <<row, stored, keeper, room, overlap, filesSpent>>
    PROVE  FilesInv'
<1>1. fetch' \in [Worker -> Fetching]
  BY DEF FilesInv, FilesTypeOK
<1>2. FilesTypeOK'
  BY <1>1 DEF FilesInv, FilesTypeOK
<1>3. fetch'[w] = f /\ \A o \in Worker \ {w} : fetch'[o] = fetch[o]
  BY DEF FilesInv, FilesTypeOK
<1>4. ~Busy(w)' /\ \A o \in Worker \ {w} : Busy(o)' <=> Busy(o)
  BY <1>3 DEF Busy
<1>5. \A o \in Worker : OutcomeIsTrue(o)'
  BY <1>3, <1>4 DEF OutcomeIsTrue, FilesInv, Busy
<1>6. ~overlap => \A o \in Worker : Busy(o)' => Alone(o)'
  BY <1>3, <1>4 DEF Alone, FilesInv
<1> QED BY <1>2, <1>5, <1>6 DEF FilesInv, ReadyHasObject

LEMMA TakeBatchKeeps == ASSUME FilesInv, NEW w \in Worker, TakeBatch(w) PROVE FilesInv'
<1>1. fetch[w] \in Fetching /\ fetch \in [Worker -> Fetching]
  BY DEF FilesInv, FilesTypeOK
<1>2. FirstDue \subseteq File
  BY DEF FirstDue, Due
<1> DEFINE f == [fetch[w] EXCEPT !.at = "take", !.todo = FirstDue]
<1>3. f \in Fetching /\ f.at = "take" /\ ~Busy(w)
  BY <1>1, <1>2 DEF Fetching, TakeBatch, Busy
<1>4. fetch' = [fetch EXCEPT ![w] = f]
  BY <1>1 DEF TakeBatch, Fetching
<1> QED BY <1>2, <1>3, <1>4, BatchKeeps DEF TakeBatch

LEMMA EndBatchKeeps == ASSUME FilesInv, NEW w \in Worker, EndBatch(w) PROVE FilesInv'
<1>1. NotFetching \in Fetching /\ NotFetching.at = "idle" /\ ~Busy(w)
  BY DEF NotFetching, Fetching, EndBatch, Busy
<1> QED BY <1>1, BatchKeeps DEF EndBatch

LEMMA BeginFetchKeeps == ASSUME FilesInv, NEW w \in Worker, BeginFetch(w) PROVE FilesInv'
<1> DEFINE f == CHOOSE g \in fetch[w].todo : \A h \in fetch[w].todo : g <= h
           rest == fetch[w].todo \ {f}
<1>1. fetch[w] \in Fetching /\ fetch \in [Worker -> Fetching] /\ row \in [File -> FileRow]
  BY DEF FilesInv, FilesTypeOK
<1>2. fetch[w].todo \subseteq File /\ fetch[w].todo # {} /\ fetch[w].todo \in SUBSET Nat
  BY <1>1, FilesAssumption DEF Fetching, BeginFetch
<1>3. f \in File /\ rest \in SUBSET File
  <2>1. \E g \in fetch[w].todo : \A h \in fetch[w].todo : g <= h
    BY <1>2, Least
  <2>2. f \in fetch[w].todo
    BY <2>1
  <2> QED BY <1>2, <2>2
<1>4. ~Busy(w) /\ UNCHANGED <<stored, keeper, room, filesSpent>>
  BY DEF BeginFetch, Busy
<1>5. CASE StillPending(f)
  <2> DEFINE n == [at |-> "download", todo |-> rest, file |-> f,
                   attempt |-> row[f].attempts + 1, outcome |-> "none"]
  <2>1. /\ row' = [row EXCEPT ![f].attempts = @ + 1, ![f].resting = TRUE]
        /\ fetch' = [fetch EXCEPT ![w] = n]
        /\ overlap' = (overlap \/ FetchedElsewhere(w, f))
    BY <1>5 DEF BeginFetch
  <2>2. row[f] \in FileRow /\ row[f].attempts \in Nat
    BY <1>1, <1>3 DEF FileRow
  <2>3. n \in Fetching
    BY <1>3, <2>2 DEF Fetching
  <2>4. fetch' \in [Worker -> Fetching] /\ fetch'[w] = n
        /\ \A o \in Worker \ {w} : fetch'[o] = fetch[o]
    BY <1>1, <2>1, <2>3
  <2> DEFINE a == row[f].attempts + 1
             r == [row[f] EXCEPT !.attempts = a, !.resting = TRUE]
  <2>4a. a \in Nat
    BY <2>2
  <2>4b. row' = [row EXCEPT ![f].attempts = a, ![f].resting = TRUE]
    BY <2>1, <1>1, <1>3
  <2> HIDE DEF a
  <2>5. r \in FileRow /\ r.status = row[f].status /\ r.key = row[f].key
    BY <2>2, <2>4a DEF FileRow
  <2>6. row' = [row EXCEPT ![f] = r]
    <3>1. row[f] \in FileRow /\ f \in DOMAIN row
      BY <1>1, <1>3
    <3>2. DOMAIN row' = DOMAIN row /\ \A g \in File \ {f} : row'[g] = row[g]
      BY <1>1, <2>4b
    <3>3. row'[f] = r
      BY <2>4b, <3>1 DEF FileRow
    <3> QED BY <1>1, <1>3, <2>4b, <3>2, <3>3
  <2>7. row' \in [File -> FileRow]
        /\ \A g \in File : row'[g].status = row[g].status /\ row'[g].key = row[g].key
    <3> HIDE DEF r
    <3> QED BY <1>1, <1>3, <2>5, <2>6
  <2>8. FilesTypeOK'
    BY <1>4, <2>1, <2>4, <2>7 DEF FilesInv, FilesTypeOK, FetchedElsewhere
  <2>9. \A o \in Worker \ {w} : Busy(o)' <=> Busy(o)
    BY <2>4 DEF Busy
  <2>10. \A o \in Worker : OutcomeIsTrue(o)'
    <3>1. OutcomeIsTrue(w)'
      BY <1>3, <2>4 DEF OutcomeIsTrue
    <3>2. \A o \in Worker \ {w} : OutcomeIsTrue(o)'
      BY <1>4, <2>4, <2>9 DEF OutcomeIsTrue, FilesInv
    <3> QED BY <3>1, <3>2
  <2>11. ASSUME ~overlap' PROVE \A o \in Worker : Busy(o)' => Alone(o)'
    <3>1. ~overlap /\ \A o \in Worker \ {w} : Busy(o) => fetch[o].file # f
      BY <2>1, <2>11 DEF FetchedElsewhere, Busy
    <3>2. Alone(w)'
      BY <1>3, <1>5, <2>4, <2>7, <2>9, <3>1 DEF Alone, StillPending
    <3>3. ASSUME NEW o \in Worker \ {w}, Busy(o)' PROVE Alone(o)'
      <4>1. Busy(o) /\ fetch[o].file \in File /\ Alone(o) /\ fetch'[o] = fetch[o]
        BY <2>4, <2>9, <3>1, <3>3 DEF FilesInv, OutcomeIsTrue
      <4>2. fetch[o].file # f /\ row'[fetch[o].file].status = "pending"
        BY <2>7, <3>1, <4>1 DEF Alone
      <4>3. \A p \in Worker \ {o} : Busy(p)' => fetch'[p].file # fetch'[o].file
        BY <2>4, <2>9, <4>1, <4>2 DEF Alone
      <4> QED BY <4>1, <4>2, <4>3 DEF Alone
    <3> QED BY <3>2, <3>3
  <2>12. ReadyHasObject'
    BY <1>4, <2>7 DEF FilesInv, ReadyHasObject
  <2> QED BY <2>8, <2>10, <2>11, <2>12 DEF FilesInv
<1>6. CASE ~StillPending(f)
  <2> DEFINE n == [fetch[w] EXCEPT !.todo = rest]
  <2>1. fetch' = [fetch EXCEPT ![w].todo = rest] /\ UNCHANGED <<row, overlap>>
    BY <1>6 DEF BeginFetch
  <2>2. n \in Fetching /\ n.at = "take"
    BY <1>1, <1>3 DEF Fetching, BeginFetch
  <2>3. fetch' = [fetch EXCEPT ![w] = n]
    BY <1>1, <2>1 DEF Fetching
  <2> QED BY <1>3, <1>4, <2>1, <2>2, <2>3, BatchKeeps
<1> QED BY <1>5, <1>6

\* The object is stored before anything is recorded.
LEMMA DownloadFileKeeps == ASSUME FilesInv, NEW w \in Worker, DownloadFile(w) PROVE FilesInv'
<1>1. PICK outcome \in {"ok", "gone", "error"} :
         /\ fetch' = [fetch EXCEPT ![w].at = "record", ![w].outcome = outcome]
         /\ stored' = IF outcome = "ok" THEN stored \cup {<<fetch[w].file, w>>} ELSE stored
  BY DEF DownloadFile
<1>2. fetch[w] \in Fetching /\ fetch \in [Worker -> Fetching]
  BY DEF FilesInv, FilesTypeOK
<1> DEFINE n == [fetch[w] EXCEPT !.at = "record", !.outcome = outcome]
<1>3. n \in Fetching /\ n.at = "record" /\ n.file = fetch[w].file /\ n.outcome = outcome
  BY <1>2 DEF Fetching
<1>4. fetch' = [fetch EXCEPT ![w] = n]
  BY <1>1, <1>2 DEF Fetching
<1>5. fetch' \in [Worker -> Fetching] /\ fetch'[w] = n
      /\ \A o \in Worker \ {w} : fetch'[o] = fetch[o]
  BY <1>2, <1>3, <1>4
<1>6. Busy(w) /\ Busy(w)' /\ fetch[w].file \in File
  BY <1>3, <1>5 DEF Busy, DownloadFile, FilesInv, OutcomeIsTrue
<1>7. \A o \in Worker : (Busy(o)' <=> Busy(o)) /\ fetch'[o].file = fetch[o].file
  BY <1>3, <1>5, <1>6 DEF Busy
<1>8. stored' \subseteq StorageKey /\ stored \subseteq stored'
  BY <1>1, <1>6 DEF FilesInv, FilesTypeOK, StorageKey
<1>9. FilesTypeOK'
  BY <1>5, <1>8 DEF DownloadFile, FilesInv, FilesTypeOK
<1>10. \A o \in Worker : OutcomeIsTrue(o)'
  <2>1. OutcomeIsTrue(w)'
    BY <1>1, <1>3, <1>5, <1>6 DEF OutcomeIsTrue
  <2>2. \A o \in Worker \ {w} : OutcomeIsTrue(o)'
    BY <1>5, <1>7, <1>8 DEF OutcomeIsTrue, FilesInv
  <2> QED BY <2>1, <2>2
<1>11. ~overlap' => \A o \in Worker : Busy(o)' => Alone(o)'
  BY <1>7 DEF Alone, FilesInv, DownloadFile
<1>12. ReadyHasObject'
  BY <1>8 DEF FilesInv, ReadyHasObject, DownloadFile
<1> QED BY <1>9, <1>10, <1>11, <1>12 DEF FilesInv

LEMMA RecordFetchKeeps == ASSUME FilesInv, NEW w \in Worker, RecordFetch(w) PROVE FilesInv'
<1> DEFINE f == fetch[w].file
           n == [NotFetching EXCEPT !.at = "take", !.todo = fetch[w].todo]
<1>1. fetch[w] \in Fetching /\ fetch \in [Worker -> Fetching] /\ row \in [File -> FileRow]
  BY DEF FilesInv, FilesTypeOK
<1>2. Busy(w) /\ f \in File /\ row[f] \in FileRow
  BY <1>1 DEF RecordFetch, Busy, FilesInv, OutcomeIsTrue
<1>3. n \in Fetching /\ n.at = "take"
  BY <1>1 DEF NotFetching, Fetching
<1>4. fetch' \in [Worker -> Fetching] /\ fetch'[w] = n
      /\ \A o \in Worker \ {w} : fetch'[o] = fetch[o]
  BY <1>1, <1>3 DEF RecordFetch
<1>5. ~Busy(w)' /\ \A o \in Worker \ {w} : Busy(o)' <=> Busy(o)
  BY <1>3, <1>4 DEF Busy
<1>6. /\ Recorded(w) \in FileRow
      /\ Recorded(w).status = "ready" =>
           \/ fetch[w].outcome = "ok" /\ Recorded(w).key = <<f, w>>
           \/ row[f].status = "ready" /\ Recorded(w).key = row[f].key
  <2>1. <<f, w>> \in StorageKey
    BY <1>2 DEF StorageKey
  <2>2. CASE fetch[w].outcome = "ok"
    BY <1>2, <2>1, <2>2 DEF Recorded, FileRow
  <2>3. CASE fetch[w].outcome # "ok" /\ LastAttempt(w)
    BY <1>2, <2>3 DEF Recorded, FileRow
  <2>4. CASE fetch[w].outcome # "ok" /\ ~LastAttempt(w)
    BY <1>2, <2>4 DEF Recorded, FileRow
  <2> QED BY <2>2, <2>3, <2>4
<1>7. /\ row' \in [File -> FileRow] /\ row'[f] = Recorded(w)
      /\ \A g \in File \ {f} : row'[g] = row[g]
  BY <1>1, <1>2, <1>6 DEF RecordFetch
<1>8. FilesTypeOK'
  BY <1>4, <1>7 DEF RecordFetch, FilesInv, FilesTypeOK
<1>9. \A o \in Worker : OutcomeIsTrue(o)'
  BY <1>4, <1>5 DEF OutcomeIsTrue, FilesInv, RecordFetch, Busy
<1>10. ASSUME ~overlap', NEW o \in Worker, Busy(o)' PROVE Alone(o)'
  <2>1. o # w /\ Busy(o) /\ fetch[o].file \in File /\ Alone(o) /\ ~overlap
    BY <1>5, <1>10 DEF FilesInv, OutcomeIsTrue, RecordFetch
  <2>2. fetch[o].file # f
    BY <1>2, <2>1 DEF Alone
  <2> QED BY <1>4, <1>5, <1>7, <2>1, <2>2 DEF Alone
<1>11. ReadyHasObject'
  <2>1. fetch[w].outcome = "ok" => <<f, w>> \in stored
    BY DEF FilesInv, OutcomeIsTrue, RecordFetch
  <2>2. row[f].status = "ready" => row[f].key \in stored /\ row[f].key[1] = f
    BY <1>2 DEF FilesInv, ReadyHasObject
  <2>3. row'[f].status = "ready" => row'[f].key \in stored /\ row'[f].key[1] = f
    BY <1>6, <1>7, <2>1, <2>2
  <2> QED BY <1>7, <2>3 DEF FilesInv, ReadyHasObject, RecordFetch
<1> QED BY <1>8, <1>9, <1>10, <1>11 DEF FilesInv

-----------------------------------------------------------------------------
(* Receiving, and the surroundings.                                        *)

\* A row that says ready names the object that was just stored.
LEMMA ReceivedRows ==
    ASSUME NEW f \in File, NEW live, NEW policy, NEW r \in Received(f, live, policy)
    PROVE  /\ r.row \in FileRow /\ r.put \in BOOLEAN
           /\ r.row.status = "ready" => r.put /\ r.row.key = <<f, "inbox">>
<1>1. <<f, "inbox">> \in StorageKey
  BY DEF StorageKey
<1>2. NoRow \in FileRow /\ Pending \in FileRow
  BY DEF NoRow, Pending, FileRow
<1> DEFINE large == [row |-> [NoRow EXCEPT !.status = "too_large"], put |-> FALSE]
           later == [row |-> Pending, put |-> FALSE]
           kept(put) == [row |-> Kept(f, put), put |-> put]
<1>3. r \in {large, later} \cup {kept(put) : put \in BOOLEAN}
  BY DEF Received
<1>4. CASE r = large
  BY <1>4 DEF NoRow, FileRow
<1>5. CASE r = later
  BY <1>2, <1>5 DEF NoRow, Pending
<1>6. CASE r = kept(TRUE)
  BY <1>1, <1>6 DEF Kept, NoRow, FileRow
<1>7. CASE r = kept(FALSE)
  BY <1>7 DEF Kept, NoRow, FileRow
<1> QED BY <1>3, <1>4, <1>5, <1>6, <1>7

LEMMA ReceiveFileKeeps ==
    ASSUME FilesInv, NEW f \in File, NEW live \in BOOLEAN, ReceiveFile(f, live) PROVE FilesInv'
<1>0. PICK policy \in Policy :
         \E r \in Received(f, live, policy), committed \in BOOLEAN :
           /\ stored' = IF r.put THEN stored \cup {<<f, "inbox">>} ELSE stored
           /\ row' = IF committed THEN [row EXCEPT ![f] = r.row] ELSE row
  BY DEF ReceiveFile
<1>1. PICK r \in Received(f, live, policy), committed \in BOOLEAN :
         /\ stored' = IF r.put THEN stored \cup {<<f, "inbox">>} ELSE stored
         /\ row' = IF committed THEN [row EXCEPT ![f] = r.row] ELSE row
  BY <1>0
<1>2. /\ r.row \in FileRow /\ r.put \in BOOLEAN
      /\ r.row.status = "ready" => r.put /\ r.row.key = <<f, "inbox">>
  BY ReceivedRows
<1>3. row[f].status = "none" /\ UNCHANGED <<fetch, keeper, room, overlap, filesSpent>>
  BY DEF ReceiveFile
<1>4. stored' \subseteq StorageKey /\ stored \subseteq stored'
  BY <1>1 DEF FilesInv, FilesTypeOK, StorageKey
<1>5. row' \in [File -> FileRow] /\ (\A g \in File \ {f} : row'[g] = row[g])
      /\ row'[f] \in {row[f], r.row}
  BY <1>1, <1>2 DEF FilesInv, FilesTypeOK
<1>6. FilesTypeOK'
  BY <1>3, <1>4, <1>5 DEF FilesInv, FilesTypeOK
<1>7. \A o \in Worker : OutcomeIsTrue(o)' /\ (Busy(o)' <=> Busy(o))
  BY <1>3, <1>4 DEF OutcomeIsTrue, Busy, FilesInv
<1>8. ASSUME ~overlap', NEW o \in Worker, Busy(o)' PROVE Alone(o)'
  <2>1. Busy(o) /\ fetch[o].file \in File /\ Alone(o)
    BY <1>3, <1>7, <1>8 DEF FilesInv, OutcomeIsTrue
  <2>2. fetch[o].file # f
    BY <1>3, <2>1 DEF Alone
  <2> QED BY <1>3, <1>5, <1>7, <2>1, <2>2 DEF Alone
<1>9. ReadyHasObject'
  <2>1. row'[f].status = "ready" => row'[f].key \in stored' /\ row'[f].key[1] = f
    BY <1>1, <1>2, <1>3, <1>5
  <2> QED BY <1>4, <1>5, <2>1 DEF FilesInv, ReadyHasObject
<1> QED BY <1>6, <1>7, <1>8, <1>9 DEF FilesInv

LEMMA PauseEndsKeeps == ASSUME FilesInv, NEW f \in File, PauseEnds(f) PROVE FilesInv'
<1>1. row \in [File -> FileRow] /\ row[f] \in FileRow
  BY DEF FilesInv, FilesTypeOK
<1> DEFINE r == [row[f] EXCEPT !.resting = FALSE]
<1>2. r \in FileRow /\ r.status = row[f].status /\ r.key = row[f].key
  BY <1>1 DEF FileRow
<1>3. row' = [row EXCEPT ![f] = r]
  BY <1>1 DEF PauseEnds, FileRow
<1>4. row' \in [File -> FileRow]
      /\ \A g \in File : row'[g].status = row[g].status /\ row'[g].key = row[g].key
  BY <1>1, <1>2, <1>3
<1>5. FilesTypeOK' /\ UNCHANGED <<stored, fetch, overlap>>
  BY <1>4 DEF FilesInv, FilesTypeOK, PauseEnds
<1>6. \A o \in Worker : OutcomeIsTrue(o)' /\ (Busy(o)' <=> Busy(o))
  BY <1>5 DEF OutcomeIsTrue, Busy, FilesInv
<1>7. ASSUME ~overlap', NEW o \in Worker, Busy(o)' PROVE Alone(o)'
  BY <1>4, <1>5, <1>6, <1>7 DEF Alone, FilesInv, OutcomeIsTrue
<1> QED BY <1>4, <1>5, <1>6, <1>7 DEF FilesInv, ReadyHasObject

LEMMA WorkerCrashKeeps == ASSUME FilesInv, NEW w \in Worker, WorkerCrash(w) PROVE FilesInv'
<1>1. NotFetching \in Fetching /\ NotFetching.at = "idle"
  BY DEF NotFetching, Fetching
<1>2. fetch' \in [Worker -> Fetching] /\ fetch'[w] = NotFetching
      /\ \A o \in Worker \ {w} : fetch'[o] = fetch[o]
  BY <1>1 DEF WorkerCrash, FilesInv, FilesTypeOK
<1>3. filesSpent' \in [changes: Nat, moves: Nat, crashes: Nat]
  BY DEF WorkerCrash, FilesInv, FilesTypeOK
<1>4. FilesTypeOK' /\ UNCHANGED <<row, stored, overlap>>
  BY <1>2, <1>3 DEF WorkerCrash, FilesInv, FilesTypeOK
<1>5. ~Busy(w)' /\ \A o \in Worker \ {w} : Busy(o)' <=> Busy(o)
  BY <1>1, <1>2 DEF Busy
<1>6. \A o \in Worker : OutcomeIsTrue(o)'
  BY <1>1, <1>2, <1>4, <1>5 DEF OutcomeIsTrue, FilesInv
<1>7. ~overlap' => \A o \in Worker : Busy(o)' => Alone(o)'
  BY <1>2, <1>4, <1>5 DEF Alone, FilesInv
<1> QED BY <1>4, <1>6, <1>7 DEF FilesInv, ReadyHasObject

\* The account moves, or the disk and the load change.
LEMMA SurroundingsKeep ==
    ASSUME FilesInv, RoomChanges \/ \E w \in Worker : MoveAccount(w) PROVE FilesInv'
<1>1. filesSpent' \in [changes: Nat, moves: Nat, crashes: Nat]
  BY DEF RoomChanges, MoveAccount, FilesInv, FilesTypeOK
<1>2. /\ keeper' \in Worker \cup {NoWorker}
      /\ room' \in [level: OK..CRITICAL, busy: BOOLEAN]
      /\ UNCHANGED <<row, stored, fetch, overlap>>
  BY DEF RoomChanges, MoveAccount, FilesInv, FilesTypeOK
<1> QED BY <1>1, <1>2
   DEF FilesInv, FilesTypeOK, OutcomeIsTrue, Busy, Alone, ReadyHasObject

LEMMA FilesStep == FilesInv /\ [FilesNext]_filesVars => FilesInv'
<1> SUFFICES ASSUME FilesInv, [FilesNext]_filesVars PROVE FilesInv'
  OBVIOUS
<1>1. ASSUME NEW f \in File, NEW live \in BOOLEAN, ReceiveFile(f, live) PROVE FilesInv'
  BY <1>1, ReceiveFileKeeps
<1>2. ASSUME NEW w \in Worker, LoopStep(w) PROVE FilesInv'
  BY <1>2, TakeBatchKeeps, BeginFetchKeeps, DownloadFileKeeps, RecordFetchKeeps,
     EndBatchKeeps
     DEF LoopStep
<1>3. ASSUME NEW w \in Worker, WorkerCrash(w) PROVE FilesInv'
  BY <1>3, WorkerCrashKeeps
<1>4. ASSUME NEW f \in File, PauseEnds(f) PROVE FilesInv'
  BY <1>4, PauseEndsKeeps
<1>5. CASE RoomChanges \/ \E w \in Worker : MoveAccount(w)
  BY <1>5, SurroundingsKeep
<1>6. CASE UNCHANGED filesVars
  BY <1>6
     DEF filesVars, FilesInv, FilesTypeOK, OutcomeIsTrue, Busy, Alone, ReadyHasObject
<1> QED BY <1>1, <1>2, <1>3, <1>4, <1>5, <1>6 DEF FilesNext

LEMMA FilesCorrect == FilesSpec => []FilesInv
BY FilesStart, FilesStep, PTL DEF FilesSpec

-----------------------------------------------------------------------------

(* A row that says a file can be opened names an object of this very file  *)
(* in the storage (fetch_one, _save_attachments), however processes crash, *)
(* the account moves and two processes fetch one file at a time.           *)
THEOREM ReadyIsStored == FilesSpec => []ReadyHasObject
<1>1. FilesInv => ReadyHasObject
  BY DEF FilesInv
<1> QED BY <1>1, FilesCorrect, PTL

(* A file that can be opened stays so (the second transaction of fetch_one *)
(* does not look at the row again) unless two processes once fetched one   *)
(* file at a time.                                                         *)
THEOREM ReadyStays == FilesSpec => ReadyStaysInTurn
<1>1. ASSUME FilesInv, [FilesNext]_filesVars, NEW f \in File, row[f].status = "ready", ~overlap'
      PROVE  row'[f].status = "ready"
  <2>1. row \in [File -> FileRow]
    BY <1>1 DEF FilesInv, FilesTypeOK
  <2>2. ASSUME NEW w \in Worker, RecordFetch(w) PROVE row'[f] = row[f]
    <3>1. ~overlap /\ Busy(w) /\ Alone(w)
      BY <1>1, <2>2 DEF RecordFetch, Busy, FilesInv
    <3>2. fetch[w].file # f
      BY <1>1, <3>1 DEF Alone
    <3> QED BY <2>1, <2>2, <3>2 DEF RecordFetch
  <2>3. ASSUME NEW w \in Worker, BeginFetch(w) PROVE row'[f].status = row[f].status
    <3>1. CASE UNCHANGED row
      BY <3>1
    <3>2. CASE \E g : row' = [row EXCEPT ![g].attempts = @ + 1, ![g].resting = TRUE]
      BY <2>1, <3>2 DEF FileRow
    <3> QED BY <2>3, <3>1, <3>2 DEF BeginFetch
  <2>4. ASSUME NEW g \in File, NEW live \in BOOLEAN, ReceiveFile(g, live) PROVE row'[f] = row[f]
    BY <1>1, <2>1, <2>4 DEF ReceiveFile
  <2>5. ASSUME NEW g \in File, PauseEnds(g) PROVE row'[f].status = row[f].status
    BY <2>1, <2>5 DEF PauseEnds, FileRow
  <2>6. CASE UNCHANGED row
    BY <1>1, <2>6
  <2> QED BY <1>1, <2>2, <2>3, <2>4, <2>5, <2>6
          DEF FilesNext, LoopStep, TakeBatch, DownloadFile, EndBatch, MoveAccount,
              WorkerCrash,
              RoomChanges, filesVars
<1>2. FilesInv /\ [FilesNext]_filesVars =>
        [\A f \in File : row[f].status = "ready" /\ ~overlap' => row'[f].status = "ready"]_filesVars
  BY <1>1
<1> QED BY <1>2, FilesCorrect, PTL DEF FilesSpec, ReadyStaysInTurn

-----------------------------------------------------------------------------
(* The attempts at one file.  A process fetches only after it was given    *)
(* the account, so no more of them are at it than the account has moved;   *)
(* and a file still waits after its last attempt only while somebody is at *)
(* that attempt, or has died in it.                                        *)
Active == {w \in Worker : fetch[w].at # "idle" \/ keeper = w}

\* Those who are at the last attempt a file has.
LastOnes(f) == {w \in Worker : Busy(w) /\ fetch[w].file = f /\ fetch[w].attempt >= MAX_ATTEMPTS}

FewActive == IsFiniteSet(Active) /\ Cardinality(Active) <= filesSpent.moves

Counted(f) ==
    row[f].status = "pending" =>
        row[f].attempts < MAX_ATTEMPTS + filesSpent.crashes + Cardinality(LastOnes(f))

LEMMA SubsetIsFew ==
    ASSUME NEW A, IsFiniteSet(A), NEW S \in SUBSET A
    PROVE  IsFiniteSet(S) /\ Cardinality(S) \in Nat /\ Cardinality(S) <= Cardinality(A)
BY FS_Subset, FS_CardinalityType

LEMMA OneMore ==
    ASSUME NEW A, IsFiniteSet(A), NEW x
    PROVE  /\ IsFiniteSet(A \cup {x}) /\ Cardinality(A) \in Nat
           /\ Cardinality(A \cup {x}) <= Cardinality(A) + 1
           /\ x \notin A => Cardinality(A \cup {x}) = Cardinality(A) + 1
<1>1. Cardinality(A) \in Nat
  BY FS_CardinalityType
<1>2. IsFiniteSet(A \cup {x})
      /\ Cardinality(A \cup {x}) = IF x \in A THEN Cardinality(A) ELSE Cardinality(A) + 1
  BY FS_AddElement
<1> QED BY <1>1, <1>2

LEMMA Spent ==
    ASSUME FilesInv
    PROVE  /\ filesSpent.moves \in Nat /\ filesSpent.crashes \in Nat /\ MAX_ATTEMPTS \in Nat \ {0}
           /\ row \in [File -> FileRow] /\ fetch \in [Worker -> Fetching]
           /\ \A f \in File : row[f].attempts \in Nat
           /\ \A w \in Worker : fetch[w].attempt \in Nat
           /\ filesSpent \in [changes: Nat, moves: Nat, crashes: Nat]
<1>1. row \in [File -> FileRow] /\ fetch \in [Worker -> Fetching]
      /\ filesSpent \in [changes: Nat, moves: Nat, crashes: Nat]
  BY DEF FilesInv, FilesTypeOK
<1>2. \A f \in File : row[f].attempts \in Nat
  BY <1>1 DEF FileRow
<1>3. \A w \in Worker : fetch[w].attempt \in Nat
  BY <1>1 DEF Fetching
<1> QED BY <1>1, <1>2, <1>3, FilesAssumption

\* Only a move of the account makes one more process active.
LEMMA ActiveStep ==
    ASSUME FilesInv, FewActive, [FilesNext]_filesVars
    PROVE  FewActive'
<1>1. fetch \in [Worker -> Fetching] /\ filesSpent.moves \in Nat
      /\ filesSpent \in [changes: Nat, moves: Nat, crashes: Nat]
  BY Spent
<1>2. ASSUME Active' \subseteq Active, filesSpent'.moves = filesSpent.moves PROVE FewActive'
  <2> DEFINE A == Active
             B == Active'
  <2>1. IsFiniteSet(A) /\ Cardinality(A) <= filesSpent.moves /\ B \in SUBSET A
    BY <1>2 DEF FewActive
  <2> HIDE DEF A, B
  <2>2. IsFiniteSet(B) /\ Cardinality(B) \in Nat /\ Cardinality(B) <= Cardinality(A) /\ Cardinality(A) \in Nat
    BY <2>1, SubsetIsFew, FS_CardinalityType
  <2>3. Cardinality(B) <= filesSpent.moves
    BY <1>1, <2>1, <2>2
  <2> QED BY <1>2, <2>2, <2>3 DEF FewActive, B
<1>3. ASSUME NEW w \in Worker, MoveAccount(w) PROVE FewActive'
  <2> DEFINE A == Active
             B == Active'
  <2>1. IsFiniteSet(A) /\ Cardinality(A) <= filesSpent.moves
    BY DEF FewActive
  <2>2. B \in SUBSET (A \cup {w})
    BY <1>3 DEF MoveAccount, Active
  <2>3. filesSpent'.moves = filesSpent.moves + 1
    BY <1>1, <1>3 DEF MoveAccount
  <2> HIDE DEF A, B
  <2>4. IsFiniteSet(A \cup {w}) /\ Cardinality(A) \in Nat /\ Cardinality(A \cup {w}) <= Cardinality(A) + 1
    BY <2>1, OneMore
  <2>5. Cardinality(A \cup {w}) \in Nat
    BY <2>4, FS_CardinalityType
  <2>6. IsFiniteSet(B) /\ Cardinality(B) \in Nat /\ Cardinality(B) <= Cardinality(A \cup {w})
    BY <2>2, <2>4, SubsetIsFew
  <2>7. Cardinality(B) <= filesSpent'.moves
    BY <1>1, <2>1, <2>3, <2>4, <2>5, <2>6
  <2> QED BY <2>6, <2>7 DEF FewActive, B
<1>4. ASSUME NEW w \in Worker, NEW n, n.at = "idle" \/ w \in Active,
             fetch' = [fetch EXCEPT ![w] = n], keeper' = keeper
      PROVE  Active' \subseteq Active
  <2>1. fetch'[w] = n /\ \A o \in Worker \ {w} : fetch'[o] = fetch[o]
    BY <1>1, <1>4
  <2> QED BY <1>4, <2>1 DEF Active
<1>5. ASSUME NEW w \in Worker, LoopStep(w) PROVE FewActive'
  <2>1. filesSpent' = filesSpent /\ keeper' = keeper
    BY <1>5 DEF LoopStep, TakeBatch, BeginFetch, DownloadFile, RecordFetch, EndBatch
  <2>2. \A o \in Worker \ {w} : fetch'[o] = fetch[o]
    BY <1>1, <1>5 DEF LoopStep, TakeBatch, BeginFetch, DownloadFile, RecordFetch, EndBatch
  <2>3. w \in Active
    BY <1>5 DEF Active, LoopStep, TakeBatch, BeginFetch, DownloadFile, RecordFetch, EndBatch
  <2>4. Active' \subseteq Active
    BY <2>1, <2>2, <2>3 DEF Active
  <2> QED BY <1>2, <2>1, <2>4
<1>6. ASSUME NEW w \in Worker, WorkerCrash(w) PROVE FewActive'
  <2>1. NotFetching.at = "idle"
    BY DEF NotFetching
  <2>2. Active' \subseteq Active
    BY <1>4, <1>6, <2>1 DEF WorkerCrash
  <2>3. filesSpent'.moves = filesSpent.moves
    BY <1>1, <1>6 DEF WorkerCrash
  <2> QED BY <1>2, <2>2, <2>3
<1>7. CASE RoomChanges
  <2>1. Active' = Active
    BY <1>7 DEF RoomChanges, Active
  <2>2. filesSpent'.moves = filesSpent.moves
    BY <1>1, <1>7 DEF RoomChanges
  <2> QED BY <1>2, <2>1, <2>2
<1>8. CASE UNCHANGED <<fetch, keeper, filesSpent>>
  BY <1>2, <1>8 DEF Active
<1> QED BY <1>3, <1>5, <1>6, <1>7, <1>8 DEF FilesNext, ReceiveFile, PauseEnds, filesVars

\* A row with a file that was received has no attempts.
LEMMA ReceivedFresh ==
    ASSUME NEW f \in File, NEW live, NEW policy, NEW r \in Received(f, live, policy)
    PROVE  r.row.attempts = 0
<1> DEFINE large == [row |-> [NoRow EXCEPT !.status = "too_large"], put |-> FALSE]
           later == [row |-> Pending, put |-> FALSE]
           kept(put) == [row |-> Kept(f, put), put |-> put]
<1>1. r \in {large, later} \cup {kept(put) : put \in BOOLEAN}
  BY DEF Received
<1>2. large.row.attempts = 0 /\ later.row.attempts = 0
  BY DEF NoRow, Pending
<1>3. Kept(f, TRUE).attempts = 0 /\ Kept(f, FALSE).attempts = 0
  BY DEF Kept, NoRow
<1>4. \A put \in BOOLEAN : kept(put).row = Kept(f, put)
  OBVIOUS
<1> QED BY <1>1, <1>2, <1>3, <1>4

\* One step of the count for one file.
LEMMA CountStays ==
    ASSUME FilesInv, IsFiniteSet(Active'), NEW f \in File, Counted(f), row[f].status = "pending",
           row'[f].attempts = row[f].attempts, filesSpent'.crashes = filesSpent.crashes,
           LastOnes(f) \subseteq LastOnes(f)'
    PROVE  Counted(f)'
<1> DEFINE L == LastOnes(f)
           M == LastOnes(f)'
<1>1. M \in SUBSET Active' /\ L \in SUBSET M
  BY DEF LastOnes, Active, Busy
<1>2. row[f].attempts < MAX_ATTEMPTS + filesSpent.crashes + Cardinality(L)
  BY DEF Counted
<1> HIDE DEF L, M
<1>3. IsFiniteSet(M) /\ Cardinality(M) \in Nat
  BY <1>1, SubsetIsFew
<1>4. Cardinality(L) \in Nat /\ Cardinality(L) <= Cardinality(M)
  BY <1>1, <1>3, SubsetIsFew
<1>5. row'[f].attempts < MAX_ATTEMPTS + filesSpent'.crashes + Cardinality(M)
  BY <1>2, <1>3, <1>4, Spent
<1> QED BY <1>5 DEF Counted, M

LEMMA CountStep ==
    ASSUME FilesInv, FilesInv', FewActive', NEW f \in File, Counted(f), [FilesNext]_filesVars
    PROVE  /\ Counted(f)'
           /\ \/ row'[f].status = "pending"
              \/ row'[f].attempts = row[f].attempts
              \/ row'[f].attempts = 0
<1> DEFINE Both == /\ Counted(f)'
                   /\ \/ row'[f].status = "pending"
                      \/ row'[f].attempts = row[f].attempts
                      \/ row'[f].attempts = 0
<1>1. /\ filesSpent.crashes \in Nat /\ MAX_ATTEMPTS \in Nat \ {0}
      /\ row \in [File -> FileRow] /\ fetch \in [Worker -> Fetching]
      /\ row[f].attempts \in Nat /\ row[f] \in FileRow
      /\ filesSpent \in [changes: Nat, moves: Nat, crashes: Nat]
  BY Spent
<1>2. IsFiniteSet(Active') /\ filesSpent'.crashes \in Nat /\ row'[f].attempts \in Nat
  BY DEF FewActive, FilesInv, FilesTypeOK, FileRow
<1>3. IsFiniteSet(LastOnes(f)') /\ Cardinality(LastOnes(f)') \in Nat
  <2> DEFINE M == LastOnes(f)'
  <2>1. M \in SUBSET Active'
    BY DEF LastOnes, Active, Busy
  <2> HIDE DEF M
  <2>2. IsFiniteSet(M) /\ Cardinality(M) \in Nat
    BY <1>2, <2>1, SubsetIsFew
  <2> QED BY <2>2 DEF M
<1>4. ASSUME row'[f].attempts < MAX_ATTEMPTS PROVE Counted(f)'
  <2>1. row'[f].attempts < MAX_ATTEMPTS + filesSpent'.crashes + Cardinality(LastOnes(f)')
    <3> DEFINE c == Cardinality(LastOnes(f)')
    <3>1. c \in Nat
      BY <1>3
    <3> HIDE DEF c
    <3>2. row'[f].attempts < MAX_ATTEMPTS + filesSpent'.crashes + c
      BY <1>1, <1>2, <1>4, <3>1
    <3> QED BY <3>2 DEF c
  <2> QED BY <2>1 DEF Counted
\* Who does not fetch f at its last attempt takes nothing from the count.
<1>5. ASSUME NEW w \in Worker, \A o \in Worker \ {w} : fetch'[o] = fetch[o],
             w \notin LastOnes(f) \/ w \in LastOnes(f)'
      PROVE  LastOnes(f) \subseteq LastOnes(f)'
  BY <1>5 DEF LastOnes, Busy
<1>6. ASSUME NEW w \in Worker, BeginFetch(w) PROVE Both
  <2> DEFINE g == CHOOSE g \in fetch[w].todo : \A h \in fetch[w].todo : g <= h
             rest == fetch[w].todo \ {g}
             n == [at |-> "download", todo |-> rest, file |-> g,
                   attempt |-> row[g].attempts + 1, outcome |-> "none"]
  <2>1. /\ filesSpent' = filesSpent /\ w \notin LastOnes(f)
        /\ \A o \in Worker \ {w} : fetch'[o] = fetch[o]
    BY <1>1, <1>6 DEF BeginFetch, LastOnes, Busy
  <2>2. LastOnes(f) \subseteq LastOnes(f)'
    BY <1>5, <2>1
  <2>3. CASE StillPending(g)
    <3>1. row' = [row EXCEPT ![g].attempts = @ + 1, ![g].resting = TRUE]
          /\ fetch' = [fetch EXCEPT ![w] = n]
      BY <1>6, <2>3 DEF BeginFetch
    <3>2. CASE f # g
      <4>1. row'[f] = row[f]
        BY <1>1, <3>1, <3>2
      <4> QED BY <1>2, <2>1, <2>2, <4>1, CountStays DEF Counted
    <3>3. CASE f = g
      <4>1. row'[f].attempts = row[f].attempts + 1 /\ row'[f].status = row[f].status
        BY <1>1, <3>1, <3>3 DEF FileRow
      <4>2. row[f].status = "pending"
        BY <2>3, <3>3 DEF StillPending
      <4>3. CASE row[f].attempts + 1 < MAX_ATTEMPTS
        BY <1>4, <4>1, <4>2, <4>3
      <4>4. CASE ~(row[f].attempts + 1 < MAX_ATTEMPTS)
        <5> DEFINE L == LastOnes(f)
                   M == LastOnes(f)'
        <5>1. fetch'[w] = n
          BY <1>1, <3>1
        <5>2. n.at = "download" /\ n.file = f /\ n.attempt = row[f].attempts + 1
          BY <3>3
        <5>3. row[f].attempts + 1 >= MAX_ATTEMPTS
          BY <1>1, <4>4
        <5>4. w \in M
          BY <5>1, <5>2, <5>3 DEF LastOnes, Busy
        <5>5. L \cup {w} \in SUBSET M /\ w \notin L
          BY <2>1, <2>2, <5>4
        <5>6. row[f].attempts < MAX_ATTEMPTS + filesSpent.crashes + Cardinality(L)
          BY <4>2 DEF Counted
        <5>7. IsFiniteSet(M) /\ Cardinality(M) \in Nat
          BY <1>3
        <5> HIDE DEF L, M
        <5>8. IsFiniteSet(L) /\ Cardinality(L) \in Nat
          BY <5>5, <5>7, SubsetIsFew
        <5>9. Cardinality(L \cup {w}) = Cardinality(L) + 1
          BY <5>5, <5>8, OneMore
        <5>10. Cardinality(L \cup {w}) <= Cardinality(M)
          BY <5>5, <5>7, SubsetIsFew
        <5>11. row'[f].attempts < MAX_ATTEMPTS + filesSpent'.crashes + Cardinality(M)
          BY <1>1, <2>1, <4>1, <5>6, <5>7, <5>8, <5>9, <5>10
        <5> QED BY <4>1, <4>2, <5>11 DEF Counted, M
      <4> QED BY <4>3, <4>4
    <3> QED BY <3>2, <3>3
  <2>4. CASE ~StillPending(g)
    <3>1. row' = row
      BY <1>6, <2>4 DEF BeginFetch
    <3> QED BY <1>2, <2>1, <2>2, <3>1, CountStays DEF Counted
  <2> QED BY <2>3, <2>4
<1>7. ASSUME NEW w \in Worker, RecordFetch(w) PROVE Both
  <2>1. fetch[w].file \in File /\ row[fetch[w].file] \in FileRow
    BY <1>1, <1>7 DEF RecordFetch, Busy, FilesInv, OutcomeIsTrue
  <2>2. /\ filesSpent' = filesSpent /\ \A o \in Worker \ {w} : fetch'[o] = fetch[o]
        /\ row' = [row EXCEPT ![fetch[w].file] = Recorded(w)]
    BY <1>1, <1>7 DEF RecordFetch
  <2>3. CASE f # fetch[w].file
    <3>1. row'[f] = row[f] /\ w \notin LastOnes(f)
      BY <1>1, <2>2, <2>3 DEF LastOnes
    <3> QED BY <1>2, <1>5, <2>2, <3>1, CountStays DEF Counted
  <2>4. CASE f = fetch[w].file
    <3>1. row'[f] = Recorded(w)
      BY <1>1, <2>2, <2>4
    <3>2. Recorded(w).attempts = row[f].attempts
          /\ (Recorded(w).status = "pending" => Recorded(w) = row[f] /\ ~LastAttempt(w))
      <4>1. CASE fetch[w].outcome = "ok"
        BY <2>1, <2>4, <4>1 DEF Recorded, FileRow
      <4>2. CASE fetch[w].outcome # "ok" /\ LastAttempt(w)
        BY <2>1, <2>4, <4>2 DEF Recorded, FileRow
      <4>3. CASE fetch[w].outcome # "ok" /\ ~LastAttempt(w)
        BY <2>1, <2>4, <4>3 DEF Recorded, FileRow
      <4> QED BY <4>1, <4>2, <4>3
    <3>3. ASSUME row'[f].status = "pending" PROVE Counted(f)'
      <4>1. row[f].status = "pending" /\ ~LastAttempt(w)
        BY <3>1, <3>2, <3>3
      <4>2. w \notin LastOnes(f)
        BY <4>1 DEF LastAttempt, LastOnes
      <4> QED BY <1>2, <1>5, <2>2, <3>1, <3>2, <4>1, <4>2, CountStays
    <3> QED BY <3>1, <3>2, <3>3 DEF Counted
  <2> QED BY <2>3, <2>4
<1>8. ASSUME NEW w \in Worker, TakeBatch(w) \/ EndBatch(w) \/ DownloadFile(w) PROVE Both
  <2>1. /\ filesSpent' = filesSpent /\ row' = row /\ \A o \in Worker \ {w} : fetch'[o] = fetch[o]
    BY <1>1, <1>8 DEF TakeBatch, EndBatch, DownloadFile
  <2>2. CASE TakeBatch(w) \/ EndBatch(w)
    <3>1. w \notin LastOnes(f)
      BY <2>2 DEF TakeBatch, EndBatch, LastOnes, Busy
    <3> QED BY <1>2, <1>5, <2>1, <3>1, CountStays DEF Counted
  <2>3. CASE DownloadFile(w)
    <3>1. fetch'[w].at = "record" /\ fetch'[w].file = fetch[w].file /\ fetch'[w].attempt = fetch[w].attempt
      BY <1>1, <2>3 DEF DownloadFile, Fetching
    <3>2. w \notin LastOnes(f) \/ w \in LastOnes(f)'
      BY <3>1 DEF LastOnes, Busy
    <3> QED BY <1>2, <1>5, <2>1, <3>2, CountStays DEF Counted
  <2> QED BY <1>8, <2>2, <2>3
<1>9. ASSUME NEW w \in Worker, WorkerCrash(w) PROVE Both
  <2>1. row' = row /\ filesSpent'.crashes = filesSpent.crashes + 1
        /\ \A o \in Worker \ {w} : fetch'[o] = fetch[o]
    BY <1>1, <1>9 DEF WorkerCrash
  <2> SUFFICES ASSUME row[f].status = "pending" PROVE Counted(f)'
    BY <2>1 DEF Counted
  <2> DEFINE L == LastOnes(f)
             M == LastOnes(f)'
  <2>2. L \in SUBSET (M \cup {w})
    BY <2>1 DEF LastOnes, Busy
  <2>3. row[f].attempts < MAX_ATTEMPTS + filesSpent.crashes + Cardinality(L)
    BY DEF Counted
  <2>4. IsFiniteSet(M) /\ Cardinality(M) \in Nat
    BY <1>3
  <2> HIDE DEF L, M
  <2>5. IsFiniteSet(M \cup {w}) /\ Cardinality(M \cup {w}) <= Cardinality(M) + 1
        /\ Cardinality(M \cup {w}) \in Nat
    BY <2>4, OneMore, FS_CardinalityType
  <2>6. Cardinality(L) \in Nat /\ Cardinality(L) <= Cardinality(M \cup {w})
    BY <2>2, <2>5, SubsetIsFew
  <2>7. row'[f].attempts < MAX_ATTEMPTS + filesSpent'.crashes + Cardinality(M)
    BY <1>1, <2>1, <2>3, <2>4, <2>5, <2>6
  <2> QED BY <2>7 DEF Counted, M
<1>10. ASSUME NEW g \in File, NEW live \in BOOLEAN, ReceiveFile(g, live) PROVE Both
  <2>1. PICK policy \in Policy :
          \E r \in Received(g, live, policy), committed \in BOOLEAN :
            row' = IF committed THEN [row EXCEPT ![g] = r.row] ELSE row
    BY <1>10 DEF ReceiveFile
  <2>2. PICK r \in Received(g, live, policy), committed \in BOOLEAN :
          row' = IF committed THEN [row EXCEPT ![g] = r.row] ELSE row
    BY <2>1
  <2>3. fetch' = fetch /\ filesSpent' = filesSpent
    BY <1>10 DEF ReceiveFile
  <2>4. row'[f] = row[f] \/ row'[f].attempts = 0
    BY <1>1, <2>2, ReceivedFresh
  <2>5. LastOnes(f) \subseteq LastOnes(f)'
    BY <2>3 DEF LastOnes, Busy
  <2>6. CASE row'[f] = row[f]
    BY <1>2, <2>3, <2>5, <2>6, CountStays DEF Counted
  <2>7. CASE row'[f].attempts = 0
    BY <1>1, <1>4, <2>7
  <2> QED BY <2>4, <2>6, <2>7
<1>11. CASE \/ \E g \in File : PauseEnds(g)
            \/ RoomChanges
            \/ \E w \in Worker : MoveAccount(w)
            \/ UNCHANGED filesVars
  <2>1. fetch' = fetch /\ filesSpent'.crashes = filesSpent.crashes
    BY <1>1, <1>11 DEF PauseEnds, RoomChanges, MoveAccount, filesVars
  <2>2. row'[f].attempts = row[f].attempts /\ row'[f].status = row[f].status
    BY <1>1, <1>11 DEF PauseEnds, RoomChanges, MoveAccount, filesVars, FileRow
  <2>3. LastOnes(f) \subseteq LastOnes(f)'
    BY <2>1 DEF LastOnes, Busy
  <2> QED BY <1>2, <2>1, <2>2, <2>3, CountStays DEF Counted
<1> QED BY <1>6, <1>7, <1>8, <1>9, <1>10, <1>11 DEF FilesNext, LoopStep

AttemptsInv ==
    /\ FilesInv /\ FewActive /\ AttemptsEnd
    /\ \A f \in File : Counted(f)

LEMMA AttemptsStart == FilesInit => AttemptsInv
<1> SUFFICES ASSUME FilesInit PROVE AttemptsInv
  OBVIOUS
<1>1. FilesInv
  BY FilesStart
<1>2. Active = {}
  BY FilesAssumption DEF FilesInit, Active, NotFetching
<1>3. filesSpent.moves = 0 /\ filesSpent.crashes = 0 /\ \A f \in File : row[f] = NoRow
  BY DEF FilesInit
<1>4. FewActive
  BY <1>2, <1>3, FS_EmptySet DEF FewActive
<1>5. NoRow.attempts = 0 /\ NoRow.status = "none"
  BY DEF NoRow
<1>6. AttemptsEnd
  BY <1>3, <1>5, FilesAssumption DEF AttemptsEnd
<1> QED BY <1>1, <1>3, <1>4, <1>5, <1>6 DEF AttemptsInv, Counted

LEMMA AttemptsStep == AttemptsInv /\ [FilesNext]_filesVars => AttemptsInv'
<1> SUFFICES ASSUME AttemptsInv, [FilesNext]_filesVars PROVE AttemptsInv'
  OBVIOUS
<1>1. FilesInv' /\ FewActive'
  BY FilesStep, ActiveStep DEF AttemptsInv
<1>2. /\ filesSpent.moves \in Nat /\ filesSpent.crashes \in Nat /\ MAX_ATTEMPTS \in Nat \ {0}
      /\ filesSpent \in [changes: Nat, moves: Nat, crashes: Nat]
      /\ filesSpent'.moves \in Nat /\ filesSpent'.crashes \in Nat
      /\ \A f \in File : row'[f].attempts \in Nat /\ row[f].attempts \in Nat
  <2>1. filesSpent'.moves \in Nat /\ filesSpent'.crashes \in Nat /\ \A f \in File : row'[f].attempts \in Nat
    BY <1>1 DEF FilesInv, FilesTypeOK, FileRow
  <2> QED BY <2>1, Spent DEF AttemptsInv
<1>3. filesSpent'.moves >= filesSpent.moves /\ filesSpent'.crashes >= filesSpent.crashes
  <2>1. CASE filesSpent' = filesSpent
    BY <1>2, <2>1
  <2>2. CASE RoomChanges \/ \E w \in Worker : MoveAccount(w) \/ WorkerCrash(w)
    BY <1>2, <2>2 DEF RoomChanges, MoveAccount, WorkerCrash
  <2> QED BY <2>1, <2>2 DEF FilesNext, LoopStep, TakeBatch, BeginFetch, DownloadFile, RecordFetch,
                            EndBatch, ReceiveFile, PauseEnds, filesVars
<1>4. \A f \in File : /\ Counted(f)'
                      /\ \/ row'[f].status = "pending"
                         \/ row'[f].attempts = row[f].attempts
                         \/ row'[f].attempts = 0
  BY <1>1, CountStep DEF AttemptsInv
<1>5. ASSUME NEW f \in File
      PROVE  row'[f].attempts < MAX_ATTEMPTS + filesSpent'.crashes + filesSpent'.moves
  <2>1. CASE row'[f].status = "pending"
    <3> DEFINE A == Active'
               M == LastOnes(f)'
    <3>1. IsFiniteSet(A) /\ Cardinality(A) <= filesSpent'.moves /\ M \in SUBSET A
      BY <1>1 DEF FewActive, LastOnes, Active, Busy
    <3>2. row'[f].attempts < MAX_ATTEMPTS + filesSpent'.crashes + Cardinality(M)
      BY <1>4, <2>1 DEF Counted
    <3> HIDE DEF A, M
    <3>3. Cardinality(M) \in Nat /\ Cardinality(M) <= Cardinality(A) /\ Cardinality(A) \in Nat
      BY <3>1, SubsetIsFew, FS_CardinalityType
    <3> QED BY <1>2, <3>1, <3>2, <3>3
  <2>2. CASE row'[f].attempts = row[f].attempts
    <3>1. row[f].attempts < MAX_ATTEMPTS + filesSpent.crashes + filesSpent.moves
      BY DEF AttemptsInv, AttemptsEnd
    <3> QED BY <1>2, <1>3, <2>2, <3>1
  <2>3. CASE row'[f].attempts = 0
    BY <1>2, <2>3
  <2> QED BY <1>4, <2>1, <2>2, <2>3
<1>6. AttemptsEnd'
  BY <1>5 DEF AttemptsEnd
<1> QED BY <1>1, <1>4, <1>6 DEF AttemptsInv

(* A file is tried no more often than the limit says (fetch_one,           *)
(* MAX_ATTEMPTS), but for one attempt more with each death of a process    *)
(* and each move of the account after the first.                           *)
THEOREM AttemptsAreFew == FilesSpec => []AttemptsEnd
<1>1. AttemptsInv => AttemptsEnd
  BY DEF AttemptsInv
<1> QED BY <1>1, AttemptsStart, AttemptsStep, PTL DEF FilesSpec

-----------------------------------------------------------------------------
(* Files on their way out.  Whoever converts a voice message holds the     *)
(* lock that everybody else who asked for it waits for.                    *)
Past == {"inside", "slot", "convert"}

\* Whoever queues has a lock, and whoever is past it holds it.
LocksAreHeld ==
    \A r \in Request :
        /\ request[r].at \in Undone => request[r].lock \in Request
        /\ request[r].at \in Past => owner[request[r].lock] = r
        /\ request[r].at = "convert" => converted[Slot(r)] >= 1

\* Until a conversion was done or failed, one lock guards it in a process.
OneLock ==
    \A r \in Request :
        /\ failures[AskedFor[r]] = 0
        /\ request[r].at \in Undone
        /\ AskedFor[r] \notin derived \/ converted[Slot(r)] = 0
        => request[r].lock = lockFor[Slot(r)]

\* What was begun is under way or done, and nobody is about to begin again.
BegunOnce ==
    \A pv \in Process \X Voice :
        failures[pv[2]] = 0 /\ converted[pv] >= 1 =>
            /\ converted[pv] = 1
            /\ \A r \in Request : Slot(r) = pv => request[r].at # "slot"
            /\ \/ pv[2] \in derived
               \/ \E r \in Request : Slot(r) = pv /\ request[r].at = "convert"

FilesAreWhole ==
    /\ \A u \in Upload : <<u, "file">> \in object => upload[u] = "done"
    /\ \A u \in attached : <<u, "file">> \in object

AttachInv == /\ AttachTypeOK /\ FilesAreWhole /\ LocksAreReturned
             /\ LocksAreHeld /\ OneLock /\ BegunOnce

State == {"none", "miss", "served", "failed"} \cup Undone
RequestRow == [at: State, lock: Request \cup {NoLock}]

-----------------------------------------------------------------------------
LEMMA AttachStart == AttachmentsAssumption /\ AttachInit => AttachInv
<1> SUFFICES ASSUME AttachmentsAssumption, AttachInit PROVE AttachInv
  OBVIOUS
<1>1. AttachTypeOK
  BY DEF AttachInit, AttachTypeOK, Undone
<1>2. \A r \in Request : request[r].at = "none"
  BY DEF AttachInit
<1>3. FilesAreWhole /\ LocksAreReturned
  BY DEF AttachInit, FilesAreWhole, LocksAreReturned
<1>4. LocksAreHeld /\ OneLock
  BY <1>2 DEF LocksAreHeld, OneLock, Undone, Past
<1>5. BegunOnce
  BY DEF AttachInit, BegunOnce
<1> QED BY <1>1, <1>3, <1>4, <1>5 DEF AttachInv

(* An answer changes how one request stands, and no lock.                  *)
LEMMA AnswerChanges ==
    ASSUME AttachTypeOK, NEW r \in Request, NEW how \in State, Answer(r, how)
    PROVE  /\ request' \in [Request -> RequestRow]
           /\ request'[r].at = how /\ request'[r].lock = request[r].lock
           /\ \A o \in Request \ {r} : request'[o] = request[o]
           /\ \A o \in Request : request'[o].lock = request[o].lock
<1>1. request \in [Request -> RequestRow]
  BY DEF AttachTypeOK, RequestRow, State
<1>2. request' = [request EXCEPT ![r] = [request[r] EXCEPT !.at = how]]
  BY <1>1 DEF Answer
<1>3. [request[r] EXCEPT !.at = how] \in RequestRow
  BY <1>1 DEF RequestRow
<1>4. /\ [request[r] EXCEPT !.at = how].at = how
      /\ [request[r] EXCEPT !.at = how].lock = request[r].lock
  BY <1>1 DEF RequestRow
<1> QED BY <1>1, <1>2, <1>3, <1>4

(* A request is served in one process and asks for one voice message.      *)
LEMMA SlotIsSlot ==
    ASSUME AttachmentsAssumption, NEW r \in Request
    PROVE  /\ Slot(r) \in Process \X Voice /\ Slot(r)[2] = AskedFor[r]
           /\ AskedFor[r] \in Voice
BY DEF AttachmentsAssumption, Slot

-----------------------------------------------------------------------------
(* Uploads share nothing with conversions.                                 *)
LEMMA UploadingKeeps ==
    ASSUME AttachInv, UNCHANGED serveVars,
           \/ \E u \in Upload : Analyze(u) \/ PutUpload(u)
           \/ \E some \in SUBSET Upload : AttachUploads(some)
    PROVE  AttachInv'
<1>1. AttachTypeOK' /\ FilesAreWhole'
  <2>1. ASSUME NEW u \in Upload, Analyze(u) PROVE AttachTypeOK' /\ FilesAreWhole'
    BY <2>1 DEF AttachInv, AttachTypeOK, FilesAreWhole, Analyze, serveVars
  <2>2. ASSUME NEW u \in Upload, PutUpload(u) PROVE AttachTypeOK' /\ FilesAreWhole'
    <3>1. /\ upload[u] \in {"analyzed", "plain", "thumb"}
          /\ attached' = attached /\ UNCHANGED serveVars
      BY <2>2 DEF PutUpload
    <3>2. CASE object' = object /\ upload' = [upload EXCEPT ![u] = "failed"]
      BY <3>1, <3>2 DEF AttachInv, AttachTypeOK, FilesAreWhole, serveVars
    <3>3. CASE /\ object' = object \cup {<<u, NextPut(u).part>>}
               /\ upload' = [upload EXCEPT ![u] = NextPut(u).then]
      <4>1. CASE upload[u] = "analyzed"
        <5>1. NextPut(u) = [part |-> "thumb", then |-> "thumb"]
          BY <4>1 DEF NextPut
        <5>2. object' = object \cup {<<u, "thumb">>} /\ upload' = [upload EXCEPT ![u] = "thumb"]
          BY <3>3, <5>1
        <5> QED BY <3>1, <4>1, <5>2
                DEF AttachInv, AttachTypeOK, FilesAreWhole, serveVars, UploadPart
      <4>2. CASE upload[u] \in {"plain", "thumb"}
        <5>1. NextPut(u) = [part |-> "file", then |-> "done"]
          BY <4>2 DEF NextPut
        <5>2. object' = object \cup {<<u, "file">>} /\ upload' = [upload EXCEPT ![u] = "done"]
          BY <3>3, <5>1
        <5> QED BY <3>1, <4>2, <5>2
                DEF AttachInv, AttachTypeOK, FilesAreWhole, serveVars, UploadPart
      <4> QED BY <3>1, <4>1, <4>2
    <3> QED BY <2>2, <3>2, <3>3 DEF PutUpload
  <2>3. ASSUME NEW some \in SUBSET Upload, AttachUploads(some)
        PROVE  AttachTypeOK' /\ FilesAreWhole'
    BY <2>3 DEF AttachInv, AttachTypeOK, FilesAreWhole, AttachUploads, Found, serveVars
  <2> QED BY <2>1, <2>2, <2>3
<1>2. LocksAreReturned' /\ LocksAreHeld' /\ OneLock' /\ BegunOnce'
  BY DEF AttachInv, LocksAreReturned, LocksAreHeld, OneLock, BegunOnce, serveVars, Slot
<1> QED BY <1>1, <1>2 DEF AttachInv

LEMMA AskVoiceKeeps ==
    ASSUME AttachmentsAssumption, AttachInv, NEW r \in Request, AskVoice(r)
    PROVE  AttachInv'
<1>1. PICK how \in {"served", "miss"} : Answer(r, how)
  BY DEF AskVoice
<1>2. /\ request' \in [Request -> RequestRow]
      /\ request'[r].at = how
      /\ \A o \in Request \ {r} : request'[o] = request[o]
  BY <1>1, AnswerChanges DEF AttachInv, State
<1>3. UNCHANGED <<uploadVars, derived, lockFor, owner, converted, failures>>
      /\ request[r].at = "none"
  BY DEF AskVoice
<1>4. AttachTypeOK'
  BY <1>2, <1>3 DEF AttachInv, AttachTypeOK, RequestRow, State, uploadVars
<1>5. FilesAreWhole'
  BY <1>3 DEF AttachInv, FilesAreWhole, uploadVars
<1>6. LocksAreReturned'
  BY <1>2, <1>3, <1>4 DEF AttachInv, LocksAreReturned, Undone, AttachTypeOK
<1>7. LocksAreHeld'
  BY <1>2, <1>3 DEF AttachInv, LocksAreHeld, Undone, Past, Slot
<1>8. OneLock'
  BY <1>2, <1>3 DEF AttachInv, OneLock, Undone, Slot
<1>9. BegunOnce'
  BY <1>2, <1>3 DEF AttachInv, BegunOnce, Slot
<1> QED BY <1>4, <1>5, <1>6, <1>7, <1>8, <1>9 DEF AttachInv

LEMMA QueueForLockKeeps ==
    ASSUME AttachmentsAssumption, AttachInv, NEW r \in Request, QueueForLock(r)
    PROVE  AttachInv'
<1> DEFINE lock == IF lockFor[Slot(r)] = NoLock THEN r ELSE lockFor[Slot(r)]
<1>1. /\ request[r].at = "miss"
      /\ lockFor' = [lockFor EXCEPT ![Slot(r)] = lock]
      /\ request' = [request EXCEPT ![r] = [at |-> "lock", lock |-> lock]]
      /\ UNCHANGED <<uploadVars, derived, owner, converted, failures>>
  BY DEF QueueForLock
<1>2. /\ AttachTypeOK /\ Slot(r) \in Process \X Voice /\ lock \in Request
      /\ lockFor[Slot(r)] # NoLock => lock = lockFor[Slot(r)]
  BY SlotIsSlot DEF AttachInv, AttachTypeOK
<1> HIDE DEF lock
<1>3. /\ request'[r] = [at |-> "lock", lock |-> lock]
      /\ \A o \in Request \ {r} : request'[o] = request[o]
      /\ lockFor'[Slot(r)] = lock
      /\ \A o \in Request : Slot(o) # Slot(r) => lockFor'[Slot(o)] = lockFor[Slot(o)]
  BY <1>1, <1>2, SlotIsSlot DEF AttachTypeOK
<1>4. AttachTypeOK'
  BY <1>1, <1>2 DEF AttachTypeOK, uploadVars, Undone
<1>5. FilesAreWhole'
  BY <1>1 DEF AttachInv, FilesAreWhole, uploadVars
<1>6. LocksAreReturned'
  BY <1>1, <1>3, <1>2, <1>4 DEF AttachInv, LocksAreReturned, Undone, AttachTypeOK
<1>7. LocksAreHeld'
  BY <1>1, <1>2, <1>3 DEF AttachInv, LocksAreHeld, Undone, Past, Slot
<1>8. OneLock'
  <2> SUFFICES ASSUME NEW o \in Request,
                      failures[AskedFor[o]] = 0, request'[o].at \in Undone,
                      AskedFor[o] \notin derived \/ converted[Slot(o)] = 0
               PROVE  request'[o].lock = lockFor'[Slot(o)]
    BY <1>1 DEF OneLock
  <2>1. CASE o = r
    BY <1>3, <2>1
  <2>2. CASE o # r /\ Slot(o) # Slot(r)
    BY <1>3, <2>2 DEF AttachInv, OneLock
  <2>3. CASE o # r /\ Slot(o) = Slot(r)
    <3>1. request[o].at \in Undone /\ request'[o].lock = request[o].lock
      BY <1>3, <2>3
    <3>2. request[o].lock = lockFor[Slot(r)] /\ request[o].lock \in Request
      BY <2>3, <3>1 DEF AttachInv, OneLock, LocksAreHeld
    <3> QED BY <1>2, <1>3, <2>3, <3>1, <3>2 DEF AttachmentsAssumption
  <2> QED BY <2>1, <2>2, <2>3
<1>9. BegunOnce'
  BY <1>1, <1>3 DEF AttachInv, BegunOnce, Slot
<1> QED BY <1>4, <1>5, <1>6, <1>7, <1>8, <1>9 DEF AttachInv

LEMMA TakeLockKeeps ==
    ASSUME AttachmentsAssumption, AttachInv, NEW r \in Request, TakeLock(r)
    PROVE  AttachInv'
<1>1. /\ request' \in [Request -> RequestRow]
      /\ request'[r].at = "inside" /\ request'[r].lock = request[r].lock
      /\ \A o \in Request \ {r} : request'[o] = request[o]
  BY AnswerChanges DEF AttachInv, State, TakeLock, Undone
<1>2. /\ UNCHANGED <<uploadVars, derived, lockFor, converted, failures>>
      /\ request[r].at = "lock" /\ owner[request[r].lock] = NoLock
      /\ owner' = [owner EXCEPT ![request[r].lock] = r]
  BY DEF TakeLock
<1>3. AttachTypeOK /\ request[r].lock \in Request
  BY <1>2 DEF AttachInv, LocksAreHeld, Undone
<1>4. AttachTypeOK'
  BY <1>1, <1>2, <1>3 DEF AttachTypeOK, RequestRow, State, uploadVars
<1>5. FilesAreWhole'
  BY <1>2 DEF AttachInv, FilesAreWhole, uploadVars
<1>5a. /\ owner'[request[r].lock] = r
       /\ \A l \in Request : l # request[r].lock => owner'[l] = owner[l]
  BY <1>2, <1>3 DEF AttachTypeOK
<1>6. LocksAreReturned'
  <2> SUFFICES ASSUME NEW l \in Request, owner'[l] # NoLock
               PROVE  /\ request'[owner'[l]].at \in Undone \ {"lock"}
                      /\ request'[owner'[l]].lock = l
    BY DEF LocksAreReturned
  <2>1. CASE l = request[r].lock
    BY <1>1, <1>5a, <2>1 DEF Undone
  <2>2. CASE l # request[r].lock
    <3>1. owner'[l] = owner[l] /\ owner[l] \in Request
      BY <1>3, <1>5a, <2>2 DEF AttachTypeOK
    <3>2. request[owner[l]].at # "lock" /\ request[owner[l]].at \in Undone
          /\ request[owner[l]].lock = l
      BY <3>1 DEF AttachInv, LocksAreReturned
    <3> QED BY <1>1, <1>2, <3>1, <3>2
  <2> QED BY <2>1, <2>2
<1>7. LocksAreHeld'
  BY <1>1, <1>2, <1>3, <1>5a
     DEF AttachInv, LocksAreHeld, Undone, Past, AttachmentsAssumption
<1>8. OneLock'
  BY <1>1, <1>2 DEF AttachInv, OneLock, Undone
<1>9. BegunOnce'
  BY <1>1, <1>2 DEF AttachInv, BegunOnce
<1> QED BY <1>4, <1>5, <1>6, <1>7, <1>8, <1>9 DEF AttachInv

\* Giving the lock back, with the answer.
LEMMA ReleaseLockKeeps ==
    ASSUME AttachmentsAssumption, AttachInv, NEW r \in Request, request[r].at \in Past,
           owner' = Released(r), NEW how \in {"served", "failed"}, Answer(r, how)
    PROVE  /\ owner' \in [Request -> Request \cup {NoLock}]
           /\ LocksAreReturned'
           /\ \A o \in Request : request'[o].at \in Past =>
                o # r /\ owner'[request'[o].lock] = o
<1>1. /\ request' \in [Request -> RequestRow]
      /\ request'[r].at = how /\ request'[r].lock = request[r].lock
      /\ \A o \in Request \ {r} : request'[o] = request[o]
  BY AnswerChanges DEF AttachInv, State
<1>2. /\ request[r].lock \in Request /\ owner[request[r].lock] = r
      /\ owner \in [Request -> Request \cup {NoLock}]
  BY DEF AttachInv, LocksAreHeld, AttachTypeOK, Past, Undone
<1>3. /\ owner'[request[r].lock] = NoLock
      /\ owner' \in [Request -> Request \cup {NoLock}]
      /\ \A l \in Request : l # request[r].lock => owner'[l] = owner[l]
  BY <1>2 DEF Released
<1>4. LocksAreReturned'
  <2> SUFFICES ASSUME NEW l \in Request, owner'[l] # NoLock
               PROVE  /\ request'[owner'[l]].at \in Undone \ {"lock"}
                      /\ request'[owner'[l]].lock = l
    BY DEF LocksAreReturned
  <2>1. /\ l # request[r].lock /\ owner'[l] = owner[l] /\ owner[l] \in Request
        /\ owner[l] # NoLock
    BY <1>2, <1>3
  <2>2. request[owner[l]].at \in Undone \ {"lock"} /\ request[owner[l]].lock = l
    BY <2>1 DEF AttachInv, LocksAreReturned
  <2>3. owner[l] # r
    BY <2>1, <2>2
  <2> QED BY <1>1, <2>1, <2>2, <2>3
<1>5. ASSUME NEW o \in Request, request'[o].at \in Past
      PROVE  o # r /\ owner'[request'[o].lock] = o
  <2>1. o # r
    BY <1>1, <1>5 DEF Past
  <2>2. /\ request'[o] = request[o] /\ request[o].lock \in Request
        /\ owner[request[o].lock] = o
    BY <1>1, <1>5, <2>1 DEF AttachInv, LocksAreHeld, Past, Undone
  <2>3. request[o].lock # request[r].lock
    BY <1>2, <2>1, <2>2
  <2> QED BY <1>3, <2>1, <2>2, <2>3
<1> QED BY <1>3, <1>4, <1>5

LEMMA LookAgainKeeps ==
    ASSUME AttachmentsAssumption, AttachInv, NEW r \in Request, LookAgain(r)
    PROVE  AttachInv'
<1>1. /\ UNCHANGED <<uploadVars, derived, lockFor, converted, failures>>
      /\ request[r].at = "inside"
  BY DEF LookAgain
<1>2. FilesAreWhole' /\ AttachTypeOK
  BY <1>1 DEF AttachInv, FilesAreWhole, uploadVars
<1>3. CASE AskedFor[r] \in derived
  <2>1. Answer(r, "served") /\ owner' = Released(r)
    BY <1>3 DEF LookAgain, MadeMeanwhile, Released
  <2>2. /\ request' \in [Request -> RequestRow]
        /\ request'[r].at = "served"
        /\ \A o \in Request \ {r} : request'[o] = request[o]
    BY <2>1, AnswerChanges DEF AttachInv, State
  <2>3. /\ owner' \in [Request -> Request \cup {NoLock}]
        /\ LocksAreReturned'
        /\ \A o \in Request : request'[o].at \in Past =>
                o # r /\ owner'[request'[o].lock] = o
    BY <1>1, <2>1, ReleaseLockKeeps DEF Past
  <2>4. AttachTypeOK'
    BY <1>1, <1>2, <2>2, <2>3 DEF AttachTypeOK, RequestRow, State, uploadVars
  <2>5. LocksAreHeld'
    BY <1>1, <2>2, <2>3 DEF AttachInv, LocksAreHeld, Undone
  <2>6. OneLock'
    BY <1>1, <2>2 DEF AttachInv, OneLock, Undone
  <2>7. BegunOnce'
    BY <1>1, <2>2 DEF AttachInv, BegunOnce
  <2> QED BY <1>2, <2>3, <2>4, <2>5, <2>6, <2>7 DEF AttachInv
<1>4. CASE AskedFor[r] \notin derived
  <2>1. Answer(r, "slot") /\ owner' = owner
    BY <1>4 DEF LookAgain, MadeMeanwhile
  <2>2. /\ request' \in [Request -> RequestRow]
        /\ request'[r].at = "slot" /\ request'[r].lock = request[r].lock
        /\ \A o \in Request \ {r} : request'[o] = request[o]
    BY <2>1, AnswerChanges DEF AttachInv, State, Undone
  <2>3. AttachTypeOK'
    BY <1>1, <1>2, <2>1, <2>2 DEF AttachTypeOK, RequestRow, State, uploadVars
  <2>4. LocksAreReturned'
    BY <1>1, <1>2, <2>1, <2>2 DEF AttachInv, LocksAreReturned, Undone, AttachTypeOK
  <2>5. LocksAreHeld'
    BY <1>1, <2>1, <2>2 DEF AttachInv, LocksAreHeld, Undone, Past
  <2>6. OneLock'
    BY <1>1, <2>2 DEF AttachInv, OneLock, Undone
  <2>7. BegunOnce'
    <3> SUFFICES ASSUME NEW pv \in Process \X Voice,
                        failures[pv[2]] = 0, converted[pv] >= 1
                 PROVE  /\ converted[pv] = 1
                        /\ \A o \in Request : Slot(o) = pv => request'[o].at # "slot"
                        /\ \/ pv[2] \in derived
                           \/ \E o \in Request : Slot(o) = pv /\ request'[o].at = "convert"
      BY <1>1 DEF BegunOnce
    <3>1. /\ converted[pv] = 1
          /\ \A o \in Request : Slot(o) = pv => request[o].at # "slot"
          /\ \/ pv[2] \in derived
             \/ \E o \in Request : Slot(o) = pv /\ request[o].at = "convert"
      BY DEF AttachInv, BegunOnce
    <3>2. \/ pv[2] \in derived
          \/ \E o \in Request : Slot(o) = pv /\ request'[o].at = "convert"
      BY <1>1, <2>2, <3>1
    <3>3. Slot(r) # pv
      <4> SUFFICES ASSUME Slot(r) = pv PROVE FALSE
        OBVIOUS
      <4>1. pv[2] = AskedFor[r]
        BY SlotIsSlot
      <4>2. PICK c \in Request : Slot(c) = pv /\ request[c].at = "convert"
        BY <1>4, <3>1, <4>1
      <4>3. AskedFor[c] = AskedFor[r]
        BY <4>1, <4>2, SlotIsSlot
      <4>4. request[c].lock = lockFor[pv] /\ request[r].lock = lockFor[pv]
        BY <1>1, <1>4, <4>1, <4>2, <4>3 DEF AttachInv, OneLock, Undone
      <4>5. owner[request[c].lock] = c /\ owner[request[r].lock] = r
        BY <1>1, <4>2 DEF AttachInv, LocksAreHeld, Past
      <4> QED BY <1>1, <4>2, <4>4, <4>5
    <3> QED BY <2>2, <3>1, <3>2, <3>3
  <2> QED BY <1>2, <2>3, <2>4, <2>5, <2>6, <2>7 DEF AttachInv
<1> QED BY <1>3, <1>4

LEMMA BeginConversionKeeps ==
    ASSUME AttachmentsAssumption, AttachInv, NEW r \in Request, BeginConversion(r)
    PROVE  AttachInv'
<1>1. /\ UNCHANGED <<uploadVars, derived, lockFor, owner, failures>>
      /\ request[r].at = "slot" /\ Answer(r, "convert")
      /\ converted' = [converted EXCEPT ![Slot(r)] = @ + 1]
  BY DEF BeginConversion
<1>2. FilesAreWhole' /\ AttachTypeOK /\ Slot(r) \in Process \X Voice
  BY <1>1, SlotIsSlot DEF AttachInv, FilesAreWhole, uploadVars
<1>3. /\ request' \in [Request -> RequestRow]
      /\ request'[r].at = "convert" /\ request'[r].lock = request[r].lock
      /\ \A o \in Request \ {r} : request'[o] = request[o]
  BY <1>1, AnswerChanges DEF AttachInv, State, Undone
<1>4. /\ converted' \in [Process \X Voice -> Nat]
      /\ converted'[Slot(r)] = converted[Slot(r)] + 1
      /\ \A pv \in Process \X Voice : pv # Slot(r) => converted'[pv] = converted[pv]
      /\ \A pv \in Process \X Voice : converted[pv] \in Nat /\ converted'[pv] >= converted[pv]
  BY <1>1, <1>2 DEF AttachTypeOK
<1>5. AttachTypeOK'
  BY <1>1, <1>2, <1>3, <1>4 DEF AttachTypeOK, RequestRow, State, uploadVars
<1>6. LocksAreReturned'
  BY <1>1, <1>2, <1>3 DEF AttachInv, LocksAreReturned, Undone, AttachTypeOK
<1>7. LocksAreHeld'
  <2>1. \A o \in Request : Slot(o) \in Process \X Voice
    BY SlotIsSlot
  <2>2. \A o \in Request : Slot(o)' = Slot(o)
    BY DEF Slot
  <2> HIDE DEF Slot
  <2>3. ASSUME NEW o \in Request PROVE
          /\ request'[o].at \in Undone => request'[o].lock \in Request
          /\ request'[o].at \in Past => owner'[request'[o].lock] = o
    BY <1>1, <1>3 DEF AttachInv, LocksAreHeld, Undone, Past
  <2>4. ASSUME NEW o \in Request, request'[o].at = "convert"
        PROVE  converted'[Slot(o)] >= 1
    <3>1. CASE o = r
      BY <1>2, <1>4, <3>1
    <3>2. CASE o # r
      <4>1. converted[Slot(o)] >= 1
        BY <1>3, <2>4, <3>2 DEF AttachInv, LocksAreHeld
      <4> QED BY <1>4, <2>1, <4>1
    <3> QED BY <3>1, <3>2
  <2> QED BY <2>2, <2>3, <2>4 DEF LocksAreHeld
<1>8. OneLock'
  <2>1. ASSUME NEW o \in Request, converted'[Slot(o)] = 0 PROVE converted[Slot(o)] = 0
    BY <1>4, <2>1, SlotIsSlot
  <2>2. \A o \in Request : Slot(o)' = Slot(o)
    BY DEF Slot
  <2> HIDE DEF Slot
  <2> QED BY <1>1, <1>3, <2>1, <2>2 DEF AttachInv, OneLock, Undone
<1>9. BegunOnce'
  <2> SUFFICES ASSUME NEW pv \in Process \X Voice,
                      failures[pv[2]] = 0, converted'[pv] >= 1
               PROVE  /\ converted'[pv] = 1
                      /\ \A o \in Request : Slot(o) = pv => request'[o].at # "slot"
                      /\ \/ pv[2] \in derived
                         \/ \E o \in Request : Slot(o) = pv /\ request'[o].at = "convert"
    BY <1>1 DEF BegunOnce, Slot
  <2>1. CASE pv # Slot(r)
    BY <1>3, <1>4, <2>1 DEF AttachInv, BegunOnce
  <2>2. CASE pv = Slot(r)
    <3>1. converted[pv] = 0
      BY <1>1, <1>4, <2>2 DEF AttachInv, BegunOnce
    <3>2. ASSUME NEW o \in Request, Slot(o) = pv, request'[o].at = "slot" PROVE FALSE
      <4>1. o # r /\ request[o].at = "slot"
        BY <1>3, <3>2
      <4>2. AskedFor[o] = pv[2] /\ AskedFor[r] = pv[2]
        BY <2>2, <3>2, SlotIsSlot
      <4>3. request[o].lock = lockFor[pv] /\ request[r].lock = lockFor[pv]
        BY <1>1, <2>2, <3>1, <3>2, <4>1, <4>2 DEF AttachInv, OneLock, Undone
      <4>4. owner[request[o].lock] = o /\ owner[request[r].lock] = r
        BY <1>1, <4>1 DEF AttachInv, LocksAreHeld, Past
      <4> QED BY <4>1, <4>3, <4>4
    <3> QED BY <1>3, <1>4, <2>2, <3>1, <3>2
  <2> QED BY <2>1, <2>2
<1> QED BY <1>2, <1>5, <1>6, <1>7, <1>8, <1>9 DEF AttachInv

LEMMA ConversionEndsKeeps ==
    ASSUME AttachmentsAssumption, AttachInv, NEW r \in Request, ConversionEnds(r)
    PROVE  AttachInv'
<1>1. /\ UNCHANGED <<uploadVars, converted>>
      /\ request[r].at = "convert"
      /\ lockFor' = [lockFor EXCEPT ![Slot(r)] = NoLock]
      /\ owner' = Released(r)
  BY DEF ConversionEnds, Forget
<1>2. FilesAreWhole' /\ AttachTypeOK /\ Slot(r) \in Process \X Voice
      /\ Slot(r)[2] = AskedFor[r] /\ AskedFor[r] \in Voice
  BY <1>1, SlotIsSlot DEF AttachInv, FilesAreWhole, uploadVars
<1>3. PICK how \in {"served", "failed"} : Answer(r, how)
  BY DEF ConversionEnds
<1>4. /\ derived' \subseteq Voice /\ derived \subseteq derived'
      /\ failures' \in [Voice -> Nat]
      /\ \A v \in Voice : failures'[v] = 0 => failures[v] = 0
      /\ AskedFor[r] \in derived' \/ failures'[AskedFor[r]] # 0
  <2>1. failures \in [Voice -> Nat] /\ derived \subseteq Voice
    BY <1>2 DEF AttachTypeOK
  <2>2. CASE derived' = derived \cup {AskedFor[r]} /\ UNCHANGED failures
    BY <1>2, <2>1, <2>2
  <2>3. CASE failures' = [failures EXCEPT ![AskedFor[r]] = @ + 1] /\ UNCHANGED derived
    BY <1>2, <2>1, <2>3
  <2> QED BY <2>2, <2>3 DEF ConversionEnds
<1>5. /\ request' \in [Request -> RequestRow]
      /\ request'[r].at = how
      /\ \A o \in Request \ {r} : request'[o] = request[o]
  BY <1>3, AnswerChanges DEF AttachInv, State
<1>6. /\ owner' \in [Request -> Request \cup {NoLock}]
      /\ LocksAreReturned'
      /\ \A o \in Request : request'[o].at \in Past =>
                o # r /\ owner'[request'[o].lock] = o
  BY <1>1, <1>3, ReleaseLockKeeps DEF Past
<1>7. /\ lockFor' \in [Process \X Voice -> Request \cup {NoLock}]
      /\ \A pv \in Process \X Voice : pv # Slot(r) => lockFor'[pv] = lockFor[pv]
  BY <1>1, <1>2 DEF AttachTypeOK
<1>8. AttachTypeOK'
  BY <1>1, <1>2, <1>4, <1>5, <1>6, <1>7 DEF AttachTypeOK, RequestRow, State, uploadVars
<1>9. LocksAreHeld'
  BY <1>1, <1>5, <1>6 DEF AttachInv, LocksAreHeld, Undone, Slot
<1>10. OneLock'
  <2> SUFFICES ASSUME NEW o \in Request,
                      failures'[AskedFor[o]] = 0, request'[o].at \in Undone,
                      AskedFor[o] \notin derived' \/ converted[Slot(o)] = 0
               PROVE  request'[o].lock = lockFor'[Slot(o)]
    BY <1>1 DEF OneLock, Slot
  <2>1. /\ o # r /\ request'[o] = request[o] /\ Slot(o) \in Process \X Voice
        /\ AskedFor[o] \in Voice /\ Slot(o)[2] = AskedFor[o]
    BY <1>5, SlotIsSlot DEF Undone
  <2>2. Slot(o) # Slot(r)
    <3> SUFFICES ASSUME Slot(o) = Slot(r) PROVE FALSE
      OBVIOUS
    <3>1. AskedFor[o] = AskedFor[r]
      BY <1>2, <2>1
    <3>2. converted[Slot(r)] = 0
      BY <1>4, <3>1
    <3>3. converted[Slot(r)] >= 1
      BY <1>1 DEF AttachInv, LocksAreHeld
    <3> QED BY <3>2, <3>3
  <2>3. request[o].lock = lockFor[Slot(o)]
    BY <1>4, <2>1 DEF AttachInv, OneLock
  <2> QED BY <1>7, <2>1, <2>2, <2>3
<1>11. BegunOnce'
  <2> SUFFICES ASSUME NEW pv \in Process \X Voice,
                      failures'[pv[2]] = 0, converted[pv] >= 1
               PROVE  /\ converted[pv] = 1
                      /\ \A o \in Request : Slot(o) = pv => request'[o].at # "slot"
                      /\ \/ pv[2] \in derived'
                         \/ \E o \in Request : Slot(o) = pv /\ request'[o].at = "convert"
    BY <1>1 DEF BegunOnce, Slot
  <2>1. /\ converted[pv] = 1
        /\ \A o \in Request : Slot(o) = pv => request[o].at # "slot"
        /\ \/ pv[2] \in derived
           \/ \E o \in Request : Slot(o) = pv /\ request[o].at = "convert"
    BY <1>4 DEF AttachInv, BegunOnce
  <2>2. \A o \in Request : Slot(o) = pv => request'[o].at # "slot"
    BY <1>5, <2>1
  <2>3. ASSUME NEW o \in Request, Slot(o) = pv, request[o].at = "convert"
        PROVE  pv[2] \in derived' \/ request'[o].at = "convert"
    <3>1. CASE o = r
      BY <1>2, <1>4, <2>3, <3>1
    <3>2. CASE o # r
      BY <1>5, <2>3, <3>2
    <3> QED BY <3>1, <3>2
  <2> QED BY <1>4, <2>1, <2>2, <2>3
<1> QED BY <1>2, <1>6, <1>8, <1>9, <1>10, <1>11 DEF AttachInv

LEMMA AttachStep ==
    ASSUME AttachmentsAssumption, AttachInv, [AttachNext]_attachVars
    PROVE  AttachInv'
<1>1. ASSUME NEW u \in Upload, Analyze(u) \/ PutUpload(u) PROVE AttachInv'
  <2>1. UNCHANGED serveVars
    BY <1>1 DEF Analyze, PutUpload
  <2> QED BY <1>1, <2>1, UploadingKeeps
<1>2. ASSUME NEW some \in SUBSET Upload, AttachUploads(some) PROVE AttachInv'
  <2>1. UNCHANGED serveVars
    BY <1>2 DEF AttachUploads
  <2> QED BY <1>2, <2>1, UploadingKeeps
<1>3. ASSUME NEW r \in Request, ServeStep(r) PROVE AttachInv'
  BY <1>3, AskVoiceKeeps, QueueForLockKeeps, TakeLockKeeps, LookAgainKeeps,
     BeginConversionKeeps, ConversionEndsKeeps DEF ServeStep
<1>4. CASE UNCHANGED attachVars
  BY <1>4 DEF attachVars, AttachInv, AttachTypeOK, FilesAreWhole, LocksAreReturned,
              LocksAreHeld, OneLock, BegunOnce, Slot
<1> QED BY <1>1, <1>2, <1>3, <1>4 DEF AttachNext

(* Whatever uploads and requests for voice messages interleave, and        *)
(* whatever fails: a file is attached to a message only when it is in the  *)
(* storage (`attach_uploads`), a process converts a voice message at most  *)
(* once as long as no conversion of it has failed, and no lock is held by a*)
(* request that has its answer (`_ensure_m4a`). For any number of          *)
(* processes, requests and files.                                          *)
THEOREM FilesAreMadeWholeOnce == AttachSpec => []MadeWholeOnce
<1>1. AttachInit => AttachInv
  BY AttachmentsAssumption, AttachStart
<1>2. AttachInv /\ [AttachNext]_attachVars => AttachInv'
  BY AttachmentsAssumption, AttachStep
<1>3. AttachInv => MadeWholeOnce
  <2> SUFFICES ASSUME AttachInv PROVE MadeWholeOnce
    OBVIOUS
  <2>1. AttachedIsWhole
    BY DEF AttachInv, AttachTypeOK, FilesAreWhole, AttachedIsWhole
  <2>2. MadeOnce
    <3>1. \A pv \in Process \X Voice : converted[pv] \in Nat
      BY DEF AttachInv, AttachTypeOK
    <3> QED BY <3>1 DEF AttachInv, BegunOnce, MadeOnce
  <2> QED BY <2>1, <2>2 DEF AttachInv, MadeWholeOnce
<1> QED BY <1>1, <1>2, <1>3, PTL DEF AttachSpec

-----------------------------------------------------------------------------
(* Notices of a transaction.  Each event waits on the level of savepoints  *)
(* its row is on.                                                          *)
Frame == [tx : 0..MaxSavepoints, rows : SUBSET Notice]
Event == [notice : Notice, inside : SUBSET (1..MaxSavepoints)]

\* Of the savepoints that are open, p is in those up to level i.
InsideUpTo(p, i) == \A j \in 2..Top : stack[j].tx \in p.inside <=> j <= i

\* Each event waits with its row, on the level the row is on by now.
EventHasRow == \A p \in pending : \E i \in 1..Top : p.notice \in stack[i].rows /\ InsideUpTo(p, i)
RowHasEvent == \A i \in 1..Top : \A n \in stack[i].rows :
                 \E p \in pending : p.notice = n /\ InsideUpTo(p, i)

SessionInv ==
  /\ stack \in Seq(Frame)
  /\ made \in 0..MaxNotices /\ savepoints \in 0..MaxSavepoints
  /\ \A i \in 1..Top : stack[i].rows \subseteq 1..made
  /\ \A i \in 2..Top : stack[i].tx \in 1..savepoints
  /\ \A p \in pending : p \in Event /\ p.notice <= made /\ p.inside \subseteq 1..savepoints
  /\ EventHasRow /\ RowHasEvent
  /\ rows = told /\ rows \subseteq 1..made

BrowserInv ==
  /\ tasks \subseteq told /\ wire \subseteq told /\ screen \subseteq rows
  /\ reload \in {Nothing, Asked} \cup {Answered(r) : r \in SUBSET rows}
  /\ socket \in {"none", "open", "cut"}
  /\ redis \in BOOLEAN /\ hub \in BOOLEAN /\ (hub => redis)
  /\ outages \in 0..MaxOutages

-----------------------------------------------------------------------------

LEMMA Bounds == MaxNotices \in Nat /\ MaxSavepoints \in Nat /\ MaxOutages \in Nat
BY LiveAssumption

LEMMA LiveStart == LiveInit => SessionInv /\ BrowserInv
<1> SUFFICES ASSUME LiveInit PROVE SessionInv /\ BrowserInv
  OBVIOUS
<1>1. stack \in Seq(Frame) /\ Top = 0
  BY EmptySeq DEF LiveInit, Top
<1>2. SessionInv
  BY <1>1, Bounds DEF LiveInit, SessionInv, EventHasRow, RowHasEvent
<1>3. BrowserInv
  <2>1. outages \in 0..MaxOutages /\ reload = Asked
    BY Bounds DEF LiveInit
  <2>2. redis \in BOOLEAN /\ hub \in BOOLEAN /\ (hub => redis)
    BY DEF LiveInit
  <2> QED BY <2>1, <2>2 DEF LiveInit, BrowserInv
<1> QED BY <1>2, <1>3

LEMMA TopIsLength == ASSUME SessionInv PROVE Top \in Nat /\ \A i \in 1..Top : stack[i] \in Frame
BY LenProperties, ElementOfSeq DEF SessionInv, Top

-----------------------------------------------------------------------------
(* The session.                                                            *)

LEMMA BeginKeeps == ASSUME SessionInv, Begin PROVE SessionInv'
<1>1. [tx |-> 0, rows |-> {}] \in Frame
  BY Bounds DEF Frame
<1>2. stack' \in Seq(Frame) /\ Top' = 1 /\ stack'[1].rows = {}
  BY <1>1 DEF Begin, Top
<1>3. Top = 0
  BY DEF Begin, Top
<1>4. pending = {}
  BY <1>3 DEF SessionInv, EventHasRow
<1> QED BY <1>2, <1>4 DEF Begin, SessionInv, EventHasRow, RowHasEvent

LEMMA SavepointKeeps == ASSUME SessionInv, Savepoint PROVE SessionInv'
<1> DEFINE f == [tx |-> savepoints + 1, rows |-> {}]
<1>1. f \in Frame /\ savepoints + 1 \in 0..MaxSavepoints
  BY Bounds DEF Frame, Savepoint, SessionInv
<1>2. stack' = Append(stack, f) /\ savepoints' = savepoints + 1
      /\ UNCHANGED <<pending, made, rows, told>>
  BY DEF Savepoint
<1>3. Top \in Nat /\ Top' = Top + 1 /\ stack' \in Seq(Frame) /\ stack'[Top + 1] = f
      /\ \A i \in 1..Top : stack'[i] = stack[i]
  BY <1>1, <1>2, TopIsLength, AppendProperties DEF SessionInv, Top
<1>4. stack'[Top + 1].tx = savepoints + 1 /\ stack'[Top + 1].rows = {}
  BY <1>3
<1> HIDE DEF f
<1>5. \A p \in pending : savepoints + 1 \notin p.inside
  BY <1>1 DEF SessionInv
<1>6. \A p \in pending, i \in 1..Top : InsideUpTo(p, i) => InsideUpTo(p, i)'
  <2> SUFFICES ASSUME NEW p \in pending, NEW i \in 1..Top, InsideUpTo(p, i), NEW j \in 2..(Top + 1)
               PROVE  stack'[j].tx \in p.inside <=> j <= i
    BY <1>3 DEF InsideUpTo
  <2>1. CASE j <= Top
    BY <1>3, <2>1 DEF InsideUpTo
  <2>2. CASE j = Top + 1
    BY <1>3, <1>4, <1>5, <2>2
  <2> QED BY <1>3, <2>1, <2>2
<1>7. EventHasRow'
  <2> SUFFICES ASSUME NEW p \in pending
               PROVE  \E i \in 1..(Top + 1) : p.notice \in stack'[i].rows /\ InsideUpTo(p, i)'
    BY <1>2, <1>3 DEF EventHasRow
  <2>1. PICK i \in 1..Top : p.notice \in stack[i].rows /\ InsideUpTo(p, i)
    BY DEF SessionInv, EventHasRow
  <2> QED BY <1>3, <1>6, <2>1
<1>8. RowHasEvent'
  <2> SUFFICES ASSUME NEW i \in 1..(Top + 1), NEW n \in stack'[i].rows
               PROVE  \E p \in pending : p.notice = n /\ InsideUpTo(p, i)'
    BY <1>2, <1>3 DEF RowHasEvent
  <2>1. i \in 1..Top /\ n \in stack[i].rows
    BY <1>3, <1>4
  <2> QED BY <1>6, <2>1 DEF SessionInv, RowHasEvent
<1>9. ASSUME NEW i \in 1..(Top + 1)
      PROVE  stack'[i].rows \subseteq 1..made' /\ (i >= 2 => stack'[i].tx \in 1..savepoints')
  <2>0. savepoints \in Nat /\ savepoints' = savepoints + 1 /\ made' = made
    BY <1>2 DEF SessionInv
  <2>1. CASE i = Top + 1
    BY <1>4, <2>0, <2>1
  <2>2. CASE i \in 1..Top
    <3>1. stack[i].rows \subseteq 1..made /\ (i >= 2 => stack[i].tx \in 1..savepoints)
      BY <1>3, <2>2 DEF SessionInv
    <3> QED BY <1>3, <2>0, <2>2, <3>1
  <2> QED BY <1>3, <2>1, <2>2
<1>10. /\ \A i \in 1..Top' : stack'[i].rows \subseteq 1..made'
       /\ \A i \in 2..Top' : stack'[i].tx \in 1..savepoints'
  BY <1>3, <1>9
<1>11. \A p \in pending : p.inside \subseteq 1..(savepoints + 1)
  BY <1>1 DEF SessionInv
<1> QED BY <1>1, <1>2, <1>3, <1>7, <1>8, <1>10, <1>11 DEF SessionInv

LEMMA NotifyKeeps == ASSUME SessionInv, Notify PROVE SessionInv'
<1> DEFINE n == made + 1
           e == [notice |-> n, inside |-> Inside]
           f == [stack[Top] EXCEPT !.rows = @ \cup {n}]
<1>1. Top \in Nat /\ Top > 0 /\ stack[Top] \in Frame /\ n \in Notice /\ n \in 0..MaxNotices
  BY TopIsLength, Bounds DEF Notify, SessionInv, Notice
<1>2. /\ made' = n /\ pending' = pending \cup {e}
      /\ UNCHANGED <<savepoints, rows, told>>
  BY DEF Notify, Deferred
<1>3. f \in Frame /\ f.tx = stack[Top].tx /\ f.rows = stack[Top].rows \cup {n}
  BY <1>1 DEF Frame
<1>4. stack' = [stack EXCEPT ![Top] = f]
  BY <1>2 DEF Notify
<1>5. /\ stack' \in Seq(Frame) /\ Top' = Top
      /\ \A i \in 1..Top : stack'[i] = IF i = Top THEN f ELSE stack[i]
  BY <1>1, <1>3, <1>4, ExceptSeq DEF SessionInv, Top
<1>6. \A i \in 1..Top : stack'[i].tx = stack[i].tx /\ stack[i].rows \subseteq stack'[i].rows
                        /\ stack'[i].rows \subseteq stack[i].rows \cup {n}
  BY <1>3, <1>5
<1>7. \A p, i : InsideUpTo(p, i)' <=> InsideUpTo(p, i)
  BY <1>1, <1>5, <1>6 DEF InsideUpTo
<1>8. InsideUpTo(e, Top)
  BY <1>1 DEF InsideUpTo, Inside
<1>9. e \in Event /\ e.inside \subseteq 1..savepoints
  <2>1. Inside \subseteq 1..savepoints /\ savepoints \in 0..MaxSavepoints
    BY DEF Inside, SessionInv
  <2>2. Inside \in SUBSET (1..MaxSavepoints)
    BY <2>1, Bounds
  <2> QED BY <1>1, <2>1, <2>2 DEF Event
<1>10. EventHasRow'
  <2> SUFFICES ASSUME NEW p \in pending \cup {e}
               PROVE  \E i \in 1..Top : p.notice \in stack'[i].rows /\ InsideUpTo(p, i)
    BY <1>2, <1>5, <1>7 DEF EventHasRow
  <2>1. CASE p \in pending
    BY <1>6, <2>1 DEF SessionInv, EventHasRow
  <2>2. CASE p = e
    <3>1. n \in stack'[Top].rows
      <4> HIDE DEF f
      <4> QED BY <1>1, <1>3, <1>5
    <3>2. e.notice = n
      OBVIOUS
    <3> QED BY <1>1, <1>8, <2>2, <3>1, <3>2
  <2> QED BY <2>1, <2>2
<1>11. RowHasEvent'
  <2> SUFFICES ASSUME NEW i \in 1..Top, NEW m \in stack'[i].rows
               PROVE  \E p \in pending \cup {e} : p.notice = m /\ InsideUpTo(p, i)
    BY <1>2, <1>5, <1>7 DEF RowHasEvent
  <2>1. CASE m \in stack[i].rows
    BY <2>1 DEF SessionInv, RowHasEvent
  <2>2. CASE m \notin stack[i].rows
    BY <1>1, <1>3, <1>5, <1>8, <2>2
  <2> QED BY <2>1, <2>2
<1>12. \A p \in pending \cup {e} : p \in Event /\ p.notice <= n /\ p.inside \subseteq 1..savepoints
  BY <1>1, <1>9 DEF SessionInv, Event, Notice
<1>13. \A i \in 1..Top : stack'[i].rows \subseteq 1..n
  <2>1. \A i \in 1..Top : stack[i].rows \subseteq 1..made
    BY DEF SessionInv
  <2>2. (1..made) \cup {n} \subseteq 1..n
    BY <1>1 DEF SessionInv
  <2> HIDE DEF n
  <2> QED BY <1>6, <2>1, <2>2
<1>14. rows' = told' /\ rows' \subseteq 1..n /\ \A i \in 2..Top : stack'[i].tx \in 1..savepoints
  <2>1. rows' = told' /\ rows' \subseteq 1..made /\ 1..made \subseteq 1..n
    BY <1>2 DEF SessionInv
  <2>2. \A i \in 2..Top : i \in 1..Top /\ stack[i].tx \in 1..savepoints
    BY <1>1 DEF SessionInv
  <2> HIDE DEF n
  <2>3. \A i \in 2..Top : stack'[i].tx \in 1..savepoints
    BY <1>6, <2>2
  <2> QED BY <2>1, <2>3
<1> QED BY <1>1, <1>2, <1>5, <1>10, <1>11, <1>12, <1>13, <1>14 DEF SessionInv

\* The stack without its top.
LEMMA Lower ==
  ASSUME SessionInv, Top > 1
  PROVE  LET low == SubSeq(stack, 1, Top - 1) IN
         low \in Seq(Frame) /\ Len(low) = Top - 1 /\ \A i \in 1..(Top - 1) : low[i] = stack[i]
BY TopIsLength, SubSeqProperties

LEMMA ReleaseKeeps == ASSUME SessionInv, Release PROVE SessionInv'
<1> DEFINE low == SubSeq(stack, 1, Top - 1)
           f == [low[Top - 1] EXCEPT !.rows = @ \cup stack[Top].rows]
<1>1. Top \in Nat /\ Top > 1 /\ Top - 1 \in 1..Top
      /\ low \in Seq(Frame) /\ Len(low) = Top - 1 /\ \A i \in 1..(Top - 1) : low[i] = stack[i]
  BY TopIsLength, Lower DEF Release
<1>2. stack[Top] \in Frame /\ stack[Top - 1] \in Frame /\ low[Top - 1] = stack[Top - 1]
  BY <1>1, TopIsLength
<1>3. f \in Frame /\ f.tx = stack[Top - 1].tx
      /\ f.rows = stack[Top - 1].rows \cup stack[Top].rows
  BY <1>2 DEF Frame
<1>4. stack' = [low EXCEPT ![Top - 1] = f] /\ UNCHANGED <<savepoints, made, rows>>
  BY DEF Release
<1>5. UNCHANGED <<pending, told>>
  BY <1>1 DEF Release, Publish, PublishedAt
<1> HIDE DEF low, f
<1>6. /\ stack' \in Seq(Frame) /\ Len(stack') = Top - 1
      /\ \A i \in 1..(Top - 1) : stack'[i] = IF i = Top - 1 THEN f ELSE low[i]
  BY <1>1, <1>3, <1>4, ExceptSeq
<1>7. PICK k \in Nat : k = Top - 1
  BY <1>1
<1>8. Top = k + 1 /\ k >= 1 /\ Top' = k
  BY <1>1, <1>6, <1>7 DEF Top
<1>9. /\ \A i \in 1..k : stack'[i].tx = stack[i].tx
      /\ \A i \in 1..k : i # k => stack'[i].rows = stack[i].rows
      /\ stack'[k].rows = stack[k].rows \cup stack[k + 1].rows
  BY <1>1, <1>3, <1>6, <1>8
<1>10. \A p : \A i \in 1..k : InsideUpTo(p, i) => InsideUpTo(p, i)'
  BY <1>8, <1>9 DEF InsideUpTo
<1>11. \A p : InsideUpTo(p, k + 1) => InsideUpTo(p, k)'
  BY <1>8, <1>9 DEF InsideUpTo
<1>12. EventHasRow'
  <2> SUFFICES ASSUME NEW p \in pending
               PROVE  \E i \in 1..k : p.notice \in stack'[i].rows /\ InsideUpTo(p, i)'
    BY <1>5, <1>8 DEF EventHasRow
  <2>1. PICK i \in 1..(k + 1) : p.notice \in stack[i].rows /\ InsideUpTo(p, i)
    BY <1>8 DEF SessionInv, EventHasRow
  <2>2. CASE i = k + 1
    BY <1>8, <1>9, <1>11, <2>1, <2>2
  <2>3. CASE i # k + 1
    <3>1. i \in 1..k /\ stack[i].rows \subseteq stack'[i].rows
      BY <1>8, <1>9, <2>3
    <3> QED BY <1>10, <2>1, <3>1
  <2> QED BY <2>2, <2>3
<1>13. RowHasEvent'
  <2> SUFFICES ASSUME NEW i \in 1..k, NEW m \in stack'[i].rows
               PROVE  \E p \in pending : p.notice = m /\ InsideUpTo(p, i)'
    BY <1>5, <1>8 DEF RowHasEvent
  <2>1. CASE m \in stack[i].rows
    <3>1. PICK p \in pending : p.notice = m /\ InsideUpTo(p, i)
      BY <1>8, <2>1 DEF SessionInv, RowHasEvent
    <3> QED BY <1>10, <3>1
  <2>2. CASE m \notin stack[i].rows
    <3>1. i = k /\ m \in stack[k + 1].rows
      BY <1>9, <2>2
    <3>2. PICK p \in pending : p.notice = m /\ InsideUpTo(p, k + 1)
      BY <1>8, <3>1 DEF SessionInv, RowHasEvent
    <3> QED BY <1>11, <3>1, <3>2
  <2> QED BY <2>1, <2>2
<1>14. \A i \in 1..k : stack'[i].rows \subseteq 1..made
  <2>1. \A i \in 1..(k + 1) : stack[i].rows \subseteq 1..made
    BY <1>8 DEF SessionInv
  <2> QED BY <1>8, <1>9, <2>1
<1>15. \A i \in 2..k : stack'[i].tx \in 1..savepoints
  BY <1>8, <1>9 DEF SessionInv
<1> QED BY <1>4, <1>5, <1>6, <1>8, <1>12, <1>13, <1>14, <1>15 DEF SessionInv

LEMMA RollbackSavepointKeeps == ASSUME SessionInv, RollbackSavepoint PROVE SessionInv'
<1>1. /\ Top \in Nat /\ Top > 1 /\ Top' = Top - 1
      /\ stack' \in Seq(Frame) /\ \A i \in 1..(Top - 1) : stack'[i] = stack[i]
  BY TopIsLength, Lower DEF RollbackSavepoint, Top
<1>2. /\ pending' = {p \in pending : stack[Top].tx \notin p.inside}
      /\ UNCHANGED <<savepoints, made, rows, told>>
  BY DEF RollbackSavepoint, KeptAfter
<1>3. \A p : \A i \in 1..(Top - 1) : InsideUpTo(p, i) => InsideUpTo(p, i)'
  BY <1>1 DEF InsideUpTo
<1>4. \A p : \A i \in 1..Top : InsideUpTo(p, i) => (stack[Top].tx \in p.inside <=> i = Top)
  BY <1>1 DEF InsideUpTo
<1>5. EventHasRow'
  <2> SUFFICES ASSUME NEW p \in pending, stack[Top].tx \notin p.inside
               PROVE  \E i \in 1..(Top - 1) : p.notice \in stack[i].rows /\ InsideUpTo(p, i)'
    BY <1>1, <1>2 DEF EventHasRow
  <2>1. PICK i \in 1..Top : p.notice \in stack[i].rows /\ InsideUpTo(p, i)
    BY DEF SessionInv, EventHasRow
  <2>2. i \in 1..(Top - 1)
    BY <1>1, <1>4, <2>1
  <2> QED BY <1>3, <2>1, <2>2
<1>6. RowHasEvent'
  <2> SUFFICES ASSUME NEW i \in 1..(Top - 1), NEW m \in stack[i].rows
               PROVE  \E p \in pending' : p.notice = m /\ InsideUpTo(p, i)'
    BY <1>1 DEF RowHasEvent
  <2>1. PICK p \in pending : p.notice = m /\ InsideUpTo(p, i)
    BY <1>1 DEF SessionInv, RowHasEvent
  <2>2. p \in pending'
    BY <1>1, <1>2, <1>4, <2>1
  <2> QED BY <1>3, <2>1, <2>2
<1>7. \A i \in 1..(Top - 1) : stack'[i].rows \subseteq 1..made
  BY <1>1 DEF SessionInv
<1>8. \A i \in 2..(Top - 1) : stack'[i].tx \in 1..savepoints
  BY <1>1 DEF SessionInv
<1> QED BY <1>1, <1>2, <1>5, <1>6, <1>7, <1>8 DEF SessionInv

\* What waits at the commit of the transaction is what it commits.
LEMMA CommitRootKeeps == ASSUME SessionInv, CommitRoot PROVE SessionInv'
<1>1. Top = 1 /\ rows' = rows \cup stack[1].rows /\ stack' = <<>>
      /\ UNCHANGED <<savepoints, made>>
  BY DEF CommitRoot
<1>2. {p.notice : p \in pending} = stack[1].rows
  <2>1. \A p \in pending : p.notice \in stack[1].rows
    BY <1>1 DEF SessionInv, EventHasRow
  <2>2. \A n \in stack[1].rows : \E p \in pending : p.notice = n
    BY <1>1 DEF SessionInv, RowHasEvent
  <2> QED BY <2>1, <2>2
<1>3. told' = told \cup stack[1].rows /\ pending' = {}
  <2>1. PublishedAt(Top) = {p.notice : p \in pending}
    BY <1>1 DEF PublishedAt
  <2>2. pending' = IF {p.notice : p \in pending} = {} THEN pending ELSE {}
    BY <2>1 DEF CommitRoot, Publish
  <2> QED BY <1>2, <2>1, <2>2 DEF CommitRoot, Publish
<1>4. stack' \in Seq(Frame) /\ Top' = 0
  BY <1>1, EmptySeq DEF Top
<1>5. stack[1].rows \subseteq 1..made
  BY <1>1 DEF SessionInv
<1>6. EventHasRow' /\ RowHasEvent'
  BY <1>3, <1>4 DEF EventHasRow, RowHasEvent
<1>7. rows' = told' /\ rows' \subseteq 1..made
  BY <1>1, <1>3, <1>5 DEF SessionInv
<1>8. (\A i \in 1..Top' : FALSE) /\ (\A i \in 2..Top' : FALSE)
  BY <1>4
<1> QED BY <1>1, <1>3, <1>4, <1>6, <1>7, <1>8 DEF SessionInv

LEMMA RollbackRootKeeps == ASSUME SessionInv, RollbackRoot PROVE SessionInv'
<1>1. stack' \in Seq(Frame) /\ Top' = 0 /\ pending' = {}
  BY EmptySeq DEF RollbackRoot, Forgotten, Top
<1> QED BY <1>1 DEF RollbackRoot, SessionInv, EventHasRow, RowHasEvent

\* What the steps of the session do to the rest.
LEMMA Growing ==
  ASSUME SessionInv, BrowserInv, SessionStep
  PROVE  /\ rows \subseteq rows' /\ told \subseteq told' /\ tasks' \subseteq told'
         /\ UNCHANGED <<bus, socket, browser, wire, outages>>
BY DEF SessionStep, Begin, Savepoint, Notify, Release, CommitRoot, RollbackSavepoint,
       RollbackRoot,
       Publish, BrowserInv

LEMMA SessionSteps ==
  ASSUME SessionInv, BrowserInv, SessionStep PROVE SessionInv' /\ BrowserInv'
<1>1. SessionInv'
  BY BeginKeeps, SavepointKeeps, NotifyKeeps, ReleaseKeeps, CommitRootKeeps,
     RollbackSavepointKeeps, RollbackRootKeeps DEF SessionStep
<1>2. /\ rows \subseteq rows' /\ told \subseteq told' /\ tasks' \subseteq told'
      /\ UNCHANGED <<redis, hub, socket, reload, screen, wire, outages>>
  BY Growing DEF bus, browser
<1>3. reload' \in {Nothing, Asked} \cup {Answered(r) : r \in SUBSET rows'}
  BY <1>2 DEF BrowserInv
<1> QED BY <1>1, <1>2, <1>3 DEF BrowserInv

-----------------------------------------------------------------------------
(* Redis, the websocket and the screen.                                    *)

LEMMA DeliveryKeeps ==
  ASSUME BrowserInv, Delivers \/ RedisDies \/ SocketCut \/ Poll
  PROVE  BrowserInv' /\ UNCHANGED session
<1> USE DEF session, bus, browser
<1>1. UNCHANGED session
  BY DEF Delivers, Emit, EventArrives, RedisReturns, Subscribe, Open, Close, Read, Show,
         RedisDies, SocketCut, Poll
<1>2. /\ tasks' \subseteq told /\ wire' \subseteq told
  BY DEF Delivers, Emit, EventArrives, RedisReturns, Subscribe, Open, Close, Read, Show,
         RedisDies, SocketCut, Poll, BrowserInv
<1>3. socket' \in {"none", "open", "cut"}
  BY DEF Delivers, Emit, EventArrives, RedisReturns, Subscribe, Open, Close, Read, Show,
         RedisDies, SocketCut, Poll, BrowserInv
<1>4. redis' \in BOOLEAN /\ hub' \in BOOLEAN /\ (hub' => redis')
  <2>1. CASE RedisDies
    BY <2>1, Zenon DEF RedisDies, BrowserInv
  <2>2. CASE RedisReturns
    BY <2>2, Zenon DEF RedisReturns, BrowserInv
  <2>3. CASE Subscribe
    BY <2>3, Zenon DEF Subscribe, BrowserInv
  <2>4. CASE UNCHANGED <<redis, hub>>
    BY <2>4, Zenon DEF BrowserInv
  <2> QED BY <2>1, <2>2, <2>3, <2>4
          DEF Delivers, Emit, EventArrives, Open, Close, Read, Show, SocketCut, Poll
<1>5. outages' \in 0..MaxOutages
  BY Bounds DEF Delivers, Emit, EventArrives, RedisReturns, Subscribe, Open, Close,
         Read, Show,
         RedisDies, SocketCut, Poll, BrowserInv
<1>6. reload' \in {Nothing, Asked} \cup {Answered(r) : r \in SUBSET rows}
  BY DEF Delivers, Emit, EventArrives, RedisReturns, Subscribe, Open, Close, Read, Show,
         RedisDies, SocketCut, Poll, BrowserInv
<1>7. screen' \subseteq rows
  BY DEF Delivers, Emit, EventArrives, RedisReturns, Subscribe, Open, Close, Read, Show,
         RedisDies, SocketCut, Poll, BrowserInv, Nothing, Asked, Answered
<1> QED BY <1>1, <1>2, <1>3, <1>4, <1>5, <1>6, <1>7 DEF BrowserInv

LEMMA LiveStep == SessionInv /\ BrowserInv /\ [LiveNext]_liveVars => SessionInv' /\ BrowserInv'
<1> SUFFICES ASSUME SessionInv, BrowserInv, [LiveNext]_liveVars PROVE SessionInv' /\ BrowserInv'
  OBVIOUS
<1>1. ASSUME UNCHANGED session PROVE SessionInv'
  <2>1. UNCHANGED <<stack, pending, savepoints, made, rows, told>>
    BY <1>1 DEF session
  <2>2. Top' = Top /\ \A p, i : InsideUpTo(p, i)' <=> InsideUpTo(p, i)
    BY <2>1 DEF Top, InsideUpTo
  <2>3. EventHasRow' /\ RowHasEvent'
    BY <2>1, <2>2 DEF SessionInv, EventHasRow, RowHasEvent
  <2> QED BY <2>1, <2>2, <2>3 DEF SessionInv
<1>2. CASE SessionStep
  BY <1>2, SessionSteps
<1>3. CASE Delivers \/ RedisDies \/ SocketCut \/ Poll
  BY <1>1, <1>3, DeliveryKeeps
<1>4. CASE UNCHANGED liveVars
  BY <1>1, <1>4 DEF liveVars, session, bus, browser, BrowserInv
<1> QED BY <1>2, <1>3, <1>4 DEF LiveNext

-----------------------------------------------------------------------------

(* Events are published of exactly the rows that others can read           *)
(* (_defer_events, _publish_after_commit, _drop_after_rollback): never of  *)
(* one that was rolled back, and of every one once the transaction is over.*)
THEOREM EventsMatch == LiveSpec => []EventsMatchRows
<1>1. SessionInv /\ BrowserInv => EventsMatchRows
  <2> SUFFICES ASSUME SessionInv, BrowserInv PROVE EventsMatchRows
    OBVIOUS
  <2>1. \A i \in DOMAIN stack : stack[i] \in [tx : 0..MaxSavepoints, rows : SUBSET Notice]
    BY LenProperties, TopIsLength DEF SessionInv, Top, Frame
  <2>2. pending \subseteq [notice : Notice, inside : SUBSET (1..MaxSavepoints)]
    BY DEF SessionInv, Event
  <2>3. rows \subseteq Notice
    BY Bounds DEF SessionInv, Notice
  <2>4. reload \in {Nothing, Asked} \cup {Answered(r) : r \in SUBSET Notice}
    BY <2>3 DEF BrowserInv
  <2>5. LiveTypeOK
    BY <2>1, <2>2, <2>4 DEF LiveTypeOK, SessionInv, BrowserInv
  <2>6. ToldIsCommitted /\ (stack = <<>> => rows \subseteq told)
    BY DEF SessionInv, ToldIsCommitted
  <2>7. stack = <<>> => pending = {}
    BY EmptySeq DEF SessionInv, EventHasRow, Top
  <2> QED BY <2>5, <2>6, <2>7 DEF EventsMatchRows, CommittedIsTold
<1> QED BY <1>1, LiveStart, LiveStep, PTL DEF LiveSpec

-----------------------------------------------------------------------------
(* The reply queue.  What the browser remembers is a list, thinned out and *)
(* grown at its end.                                                       *)

\* While the list has lost nothing of the circle, it holds every offer of it
\* that is a chat's present wait.
ListHoldsCircle ==
    circle # Lost =>
        \A e \in circle : e.since # Never /\ since[e.id] = e.since =>
            \E i \in DOMAIN taken : taken[i] = e

\* No wait was offered, and none is running, that begins later than now.
WaitsAreOld ==
    /\ \A c \in Chat : since[c] <= hour
    /\ \A e \in circle : e.since <= hour

QueueInv == QueueTypeOK /\ WaitsAreOld /\ ListHoldsCircle

(* The numbers of a finite set can be listed in ascending order.           *)
LEMMA Ascending ==
    ASSUME NEW S \in SUBSET Nat, IsFiniteSet(S)
    PROVE  /\ Cardinality(S) \in Nat
           /\ \E f \in [1..Cardinality(S) -> S] :
                 /\ \A m, n \in 1..Cardinality(S) : m < n => f[m] < f[n]
                 /\ \A s \in S : \E n \in 1..Cardinality(S) : f[n] = s
<1> DEFINE N == Cardinality(S)
           upTo == [s \in S |-> {t \in S : t <= s}]
           rank == [s \in S |-> Cardinality(upTo[s])]
<1>1. \A s, t \in S : t \in upTo[s] <=> t <= s
  OBVIOUS
<1>2. \A s \in S : upTo[s] \subseteq S /\ IsFiniteSet(upTo[s]) /\ Cardinality(upTo[s]) \in Nat
  <2> TAKE s \in S
  <2>1. upTo[s] \subseteq S
    OBVIOUS
  <2> HIDE DEF upTo
  <2>2. IsFiniteSet(upTo[s])
    BY <2>1, FS_Subset
  <2> QED BY <2>1, <2>2, FS_CardinalityType
<1>3. N \in Nat
  BY FS_CardinalityType
<1>4. \A s, t \in S : s < t => rank[s] < rank[t]
  <2> TAKE s \in S, t \in S
  <2> HAVE s < t
  <2>1. \A u \in S : u \in upTo[s] => u \in upTo[t]
    BY <1>1
  <2>2. t \in upTo[t] /\ t \notin upTo[s]
    BY <1>1
  <2>3. rank[s] = Cardinality(upTo[s]) /\ rank[t] = Cardinality(upTo[t])
    OBVIOUS
  <2> HIDE DEF upTo, rank
  <2>4. upTo[s] \in SUBSET upTo[t] /\ upTo[s] # upTo[t]
    BY <1>2, <2>1, <2>2
  <2>5. /\ Cardinality(upTo[s]) <= Cardinality(upTo[t])
        /\ Cardinality(upTo[s]) # Cardinality(upTo[t])
    BY <1>2, <2>4, FS_Subset
  <2> QED BY <1>2, <2>3, <2>5
<1>5. \A s \in S : rank[s] \in 1..N
  <2> TAKE s \in S
  <2>1. rank[s] = Cardinality(upTo[s]) /\ s \in upTo[s]
    BY <1>1
  <2> HIDE DEF upTo, rank
  <2>2. Cardinality(upTo[s]) <= N
    BY <1>2, FS_Subset
  <2>3. Cardinality(upTo[s]) # 0
    BY <1>2, <2>1, FS_EmptySet
  <2>4. Cardinality(upTo[s]) \in Nat
    BY <1>2
  <2> HIDE DEF N
  <2> QED BY <1>3, <2>1, <2>2, <2>3, <2>4
<1>6. \A s, t \in S : rank[s] = rank[t] => s = t
  <2> HIDE DEF rank, upTo
  <2> TAKE s \in S, t \in S
  <2> HAVE rank[s] = rank[t]
  <2>1. s \in Int /\ t \in Int /\ rank[s] \in Int
    BY <1>5
  <2>2. ~ (s < t) /\ ~ (t < s)
    BY <1>4, <2>1
  <2> QED BY <2>1, <2>2
<1>7. \A n \in 1..N : \E s \in S : rank[s] = n
  <2>1. IsFiniteSet(1..N) /\ Cardinality(1..N) = Cardinality(S)
    <3>1. IsFiniteSet(1..N) /\ Cardinality(1..N) = IF 1 > N THEN 0 ELSE N - 1 + 1
      BY <1>3, FS_Interval
    <3> QED BY <1>3, <3>1
  <2>2. rank \in Injection(S, 1..N)
    <3>1. rank \in [S -> 1..N]
      <4>1. rank = [s \in S |-> rank[s]]
        OBVIOUS
      <4> HIDE DEF rank
      <4> QED BY <1>5, <4>1
    <3> HIDE DEF rank
    <3> QED BY <1>6, <3>1 DEF Injection, IsInjective
  <2>3. rank \in Surjection(S, 1..N)
    <3> HIDE DEF rank
    <3> QED BY <2>1, <2>2, FS_Injection
  <2> HIDE DEF rank
  <2> QED BY <2>3 DEF Surjection
<1> DEFINE f == [n \in 1..N |-> CHOOSE s \in S : rank[s] = n]
<1> HIDE DEF rank
<1>8. \A n \in 1..N : f[n] \in S /\ rank[f[n]] = n
  BY <1>7
<1>9. f \in [1..N -> S]
  BY <1>8
<1>10. \A m, n \in 1..N : m < n => f[m] < f[n]
  <2> HIDE DEF f
  <2> TAKE m \in 1..N, n \in 1..N
  <2> HAVE m < n
  <2>1. f[m] \in S /\ f[n] \in S /\ rank[f[m]] = m /\ rank[f[n]] = n
    BY <1>8
  <2>2. f[m] \in Int /\ f[n] \in Int /\ ~ (n < m)
    <3>1. S \subseteq Int
      OBVIOUS
    <3>2. ~ (n < m)
      <4> HIDE DEF N
      <4> QED BY <1>3
    <3> QED BY <2>1, <3>1, <3>2
  <2>3. ~ (f[n] < f[m]) /\ f[m] # f[n]
    <3> HIDE DEF N
    <3> QED BY <1>3, <1>4, <2>1, <2>2
  <2> QED BY <2>2, <2>3
<1>11. ASSUME NEW s \in S PROVE \E n \in 1..N : f[n] = s
  <2> HIDE DEF f
  <2>1. rank[s] \in 1..N
    BY <1>5
  <2>2. f[rank[s]] \in S /\ rank[f[rank[s]]] = rank[s]
    BY <1>8, <2>1
  <2> QED BY <1>6, <2>1, <2>2
<1> HIDE DEF f
<1> QED BY <1>3, <1>9, <1>10, <1>11

(* A thinned list is one of the same entries, no longer than before, and   *)
(* has just those that were not to go.                                     *)
LEMMA WithoutIs ==
    ASSUME NEW S, NEW t \in Seq(S), NEW gone
    PROVE  /\ Without(t, gone) \in Seq(S)
           /\ Len(Without(t, gone)) <= Len(t)
           /\ \A i \in DOMAIN t : t[i] \notin gone =>
                 \E j \in DOMAIN Without(t, gone) : Without(t, gone)[j] = t[i]
<1> DEFINE stay == {i \in DOMAIN t : t[i] \notin gone}
           N == Cardinality(stay)
           Rises(f) == \A m, n \in DOMAIN f : m < n => f[m] < f[n]
           from == CHOOSE f \in [1..N -> stay] : Rises(f)
           thin == [n \in DOMAIN from |-> t[from[n]]]
<1>1. DOMAIN t = 1..Len(t) /\ Len(t) \in Nat
  OBVIOUS
<1>2. stay \subseteq DOMAIN t /\ stay \in SUBSET Nat
  BY <1>1
<1>3. IsFiniteSet(stay) /\ N \in Nat /\ N <= Len(t)
  <2> HIDE DEF stay
  <2>1. IsFiniteSet(DOMAIN t) /\ Cardinality(DOMAIN t) = Len(t)
    <3>1. IsFiniteSet(1..Len(t)) /\ Cardinality(1..Len(t)) = IF 1 > Len(t) THEN 0 ELSE Len(t) - 1 + 1
      BY <1>1, FS_Interval
    <3> QED BY <1>1, <3>1
  <2>2. IsFiniteSet(stay) /\ Cardinality(stay) <= Cardinality(DOMAIN t)
    BY <1>2, <2>1, FS_Subset
  <2> QED BY <2>1, <2>2, FS_CardinalityType
<1>4. from \in [1..N -> stay] /\ Rises(from)
  <2>1. \E f \in [1..N -> stay] : Rises(f)
    <3> HIDE DEF stay
    <3>1. PICK f \in [1..N -> stay] : \A m, n \in 1..N : m < n => f[m] < f[n]
      BY <1>2, <1>3, Ascending
    <3> QED BY <3>1
  <2> HIDE DEF stay, Rises, N
  <2> QED BY <2>1
<1>5. Without(t, gone) = thin
  BY DEF Without
<1>6. \A i \in stay : \E n \in 1..N : from[n] = i
  <2>1. from \in Injection(1..N, stay)
    <3>1. \A m, n \in 1..N : from[m] = from[n] => m = n
      <4> TAKE m \in 1..N, n \in 1..N
      <4> HAVE from[m] = from[n]
      <4>1. DOMAIN from = 1..N /\ from[m] \in Int /\ from[n] \in Int
        <5> HIDE DEF from, stay, N
        <5> QED BY <1>2, <1>4
      <4>2. ~ (m < n) /\ ~ (n < m)
        <5> HIDE DEF from, stay, N
        <5> QED BY <1>4, <4>1
      <4> QED BY <1>3, <4>2
    <3> HIDE DEF from, stay, N
    <3> QED BY <1>4, <3>1 DEF Injection, IsInjective
  <2>2. IsFiniteSet(1..N) /\ Cardinality(1..N) = N
    <3>1. IsFiniteSet(1..N) /\ Cardinality(1..N) = IF 1 > N THEN 0 ELSE N - 1 + 1
      <4>1. 1 \in Int /\ N \in Int
        BY <1>3
      <4> HIDE DEF N
      <4> QED BY <4>1, FS_Interval
    <3> QED BY <1>3, <3>1
  <2>3. from \in Surjection(1..N, stay)
    <3> HIDE DEF from, stay
    <3> QED BY <1>3, <2>1, <2>2, FS_Injection
  <2> HIDE DEF from, stay, N
  <2> QED BY <2>3 DEF Surjection
<1>7. DOMAIN from = 1..N /\ \A n \in 1..N : from[n] \in stay
  <2> HIDE DEF from, stay, N
  <2> QED BY <1>4
<1>8. thin \in [1..N -> S] /\ \A n \in 1..N : thin[n] = t[from[n]]
  <2>1. \A n \in 1..N : t[from[n]] \in S
    <3>1. \A i \in DOMAIN t : t[i] \in S
      OBVIOUS
    <3> HIDE DEF from, stay, N
    <3> QED BY <1>2, <1>7, <3>1
  <2> HIDE DEF from, stay, N
  <2> QED BY <1>7, <2>1
<1>9. thin \in Seq(S) /\ Len(thin) = N /\ DOMAIN thin = 1..N
  <2> HIDE DEF thin, from, stay, N
  <2> QED BY <1>3, <1>8
<1>10. ASSUME NEW i \in DOMAIN t, t[i] \notin gone
       PROVE  \E j \in 1..N : thin[j] = t[i]
  <2>1. i \in stay
    BY <1>10
  <2>2. PICK n \in 1..N : from[n] = i
    <3> HIDE DEF from, stay, N
    <3> QED BY <1>6, <2>1
  <2> HIDE DEF thin, from, stay, N
  <2> QED BY <1>8, <2>2
<1> HIDE DEF thin, from, stay, N
<1> QED BY <1>3, <1>5, <1>9, <1>10

(* What is pushed is last; a list with room keeps the entries of other     *)
(* chats.                                                                  *)
LEMMA PushedIs ==
    ASSUME NEW t \in Seq(Entry), NEW e \in Entry
    PROVE  /\ Pushed(t, e) \in Seq(Entry) /\ Len(Pushed(t, e)) \in 1..MAX_TAKEN
           /\ Pushed(t, e)[Len(Pushed(t, e))] = e
           /\ Len(t) < MAX_TAKEN =>
                \A i \in DOMAIN t : t[i].id # e.id =>
                    \E j \in DOMAIN Pushed(t, e) : Pushed(t, e)[j] = t[i]
<1> DEFINE gone == {x \in Entry : x.id = e.id}
           kept == Without(t, gone)
           all == Append(kept, e)
           first == IF Len(all) > MAX_TAKEN THEN Len(all) - MAX_TAKEN + 1 ELSE 1
           list == SubSeq(all, first, Len(all))
<1>1. /\ kept \in Seq(Entry) /\ Len(kept) <= Len(t)
      /\ \A i \in DOMAIN t : t[i] \notin gone => \E j \in DOMAIN kept : kept[j] = t[i]
  <2> HIDE DEF gone
  <2> QED BY WithoutIs
<1>2. \A x : x \in gone => x.id = e.id
  OBVIOUS
<1>3. Pushed(t, e) = list
  BY DEF Pushed
<1>4. MAX_TAKEN \in Nat \ {0}
  BY QueueAssumption
<1> HIDE DEF gone, kept
<1>5. Len(kept) \in Nat /\ DOMAIN kept = 1..Len(kept) /\ Len(t) \in Nat
  BY <1>1
<1>6. /\ all \in Seq(Entry) /\ Len(all) = Len(kept) + 1
      /\ \A i \in 1..Len(kept) : all[i] = kept[i]
      /\ all[Len(all)] = e
  BY <1>1, AppendProperties
<1> HIDE DEF all
<1>7. first \in 1..Len(all) /\ Len(all) - first + 1 \in 1..MAX_TAKEN
      /\ (Len(all) <= MAX_TAKEN => first = 1)
  BY <1>4, <1>5, <1>6
<1> HIDE DEF first
<1>8. /\ list \in Seq(Entry) /\ Len(list) = Len(all) - first + 1
      /\ \A i \in 1..(Len(all) - first + 1) : list[i] = all[first + i - 1]
  <2>1. \A i \in first..Len(all) : all[i] \in Entry
    BY <1>5, <1>6, <1>7
  <2>2. first \in Int /\ Len(all) \in Int /\ first <= Len(all)
    BY <1>5, <1>6, <1>7
  <2> QED BY <2>1, <2>2, SubSeqProperties
<1> HIDE DEF list
<1>9. list[Len(list)] = e
  <2>1. first + (Len(all) - first + 1) - 1 = Len(all)
    BY <1>5, <1>6, <1>7
  <2>2. Len(list) \in 1..(Len(all) - first + 1)
    BY <1>5, <1>6, <1>7, <1>8
  <2> QED BY <1>6, <1>8, <2>1, <2>2
<1>10. ASSUME Len(t) < MAX_TAKEN, NEW i \in DOMAIN t, t[i].id # e.id
       PROVE  \E j \in DOMAIN list : list[j] = t[i]
  <2>1. PICK j \in 1..Len(kept) : kept[j] = t[i]
    BY <1>1, <1>2, <1>5, <1>10
  <2>2. first = 1
    BY <1>1, <1>4, <1>5, <1>6, <1>7, <1>10
  <2>3. list[j] = all[j] /\ j \in 1..Len(list)
    BY <1>5, <1>6, <1>8, <2>2
  <2> QED BY <1>6, <1>8, <2>1, <2>3
<1> QED BY <1>3, <1>7, <1>8, <1>9, <1>10

(* Thinning the list out leaves every offer that is a chat's present wait. *)
LEMMA RememberedIs ==
    ASSUME QueueTypeOK, NEW t \in {taken, Pruned}
    PROVE  /\ t \in Seq(Entry)
           /\ \A e \in Entry : since[e.id] = e.since /\ (\E i \in DOMAIN taken : taken[i] = e)
                => \E j \in DOMAIN t : t[j] = e
<1>1. taken \in Seq(Entry)
  BY DEF QueueTypeOK
<1>2. CASE t = taken
  BY <1>1, <1>2
<1>3. CASE t = Pruned
  <2> DEFINE gone == {e \in Entry : WaitsAnew(e)}
  <2>1. t = Without(taken, gone)
    BY <1>3 DEF Pruned
  <2>2. \A e \in Entry : since[e.id] = e.since => e \notin gone
    BY QueueAssumption DEF WaitsAnew, Entry, Never
  <2> HIDE DEF gone
  <2> QED BY <1>1, <2>1, <2>2, WithoutIs
<1> QED BY <1>2, <1>3

(* The chat the button leads to was not in the list; if it is one that     *)
(* waits, its wait is not of the circle.                                   *)
LEMMA LedToNew ==
    ASSUME QueueInv, circle # Lost, NEW t \in {taken, Pruned}, NEW c \in NextInQueue(Ids(t)), c # NoChat
    PROVE  /\ c \in Chat
           /\ Waiting = {} \/ [id |-> c, since |-> since[c]] \notin circle
<1> DEFINE e == [id |-> c, since |-> since[c]]
<1>1. c \in Chat /\ c \notin Ids(t) /\ (c \in Waiting \/ Waiting = {})
  BY DEF NextInQueue, Offered, Waiting
<1>2. ASSUME c \in Waiting PROVE e \notin circle
  <2>1. since[c] # Never /\ e \in Entry
    BY <1>2 DEF Waiting, QueueInv, QueueTypeOK, Entry
  <2>2. ASSUME e \in circle PROVE FALSE
    <3>1. \E i \in DOMAIN taken : taken[i] = e
      BY <2>1, <2>2 DEF QueueInv, ListHoldsCircle
    <3>2. PICK j \in DOMAIN t : t[j] = e
      BY <2>1, <3>1, RememberedIs DEF QueueInv
    <3>3. c \in Ids(t)
      BY <3>2 DEF Ids
    <3> QED BY <1>1, <3>3
  <2> QED BY <2>2
<1> QED BY <1>1, <1>2

LEMMA QueueStart == QueueInit => QueueInv
<1> SUFFICES ASSUME QueueInit PROVE QueueInv
  OBVIOUS
<1>1. MAX_TAKEN \in Nat /\ MaxMessages \in Nat
  BY QueueAssumption
<1>2. <<>> \in Seq(Entry) /\ Len(<<>>) = 0
  OBVIOUS
<1>3. QueueTypeOK
  BY <1>1, <1>2 DEF QueueInit, QueueTypeOK, Never
<1>4. WaitsAreOld /\ ListHoldsCircle
  BY DEF QueueInit, WaitsAreOld, ListHoldsCircle, Never
<1> QED BY <1>3, <1>4 DEF QueueInv

(* A wait that begins is later than every offer.                           *)
LEMMA WritesKeeps == ASSUME QueueInv, NEW c \in Chat, ClientWrites(c) PROVE QueueInv'
<1>1. /\ hour' = hour + 1 /\ hour \in Nat /\ hour' \in Never..MaxMessages
      /\ taken' = taken /\ marks' = marks /\ circle' = circle
      /\ since \in [Chat -> Never..MaxMessages] /\ seen \in [Chat -> BOOLEAN]
  BY QueueAssumption DEF ClientWrites, QueueInv, QueueTypeOK, Never
<1>2. QueueTypeOK'
  BY <1>1 DEF ClientWrites, QueueInv, QueueTypeOK
<1>3. \A d \in Chat : since'[d] = since[d] \/ since'[d] = hour'
  BY <1>1 DEF ClientWrites
<1>4. \A d \in Chat : since[d] \in Int
  BY <1>1 DEF Never
<1>5. \A e \in circle : e.id \in Chat /\ e.since \in Int /\ e.since <= hour
  BY QueueAssumption DEF QueueInv, QueueTypeOK, WaitsAreOld, Entry, Never
<1>6. WaitsAreOld'
  BY <1>1, <1>3, <1>4, <1>5 DEF QueueInv, WaitsAreOld
<1>7. \A e \in circle : since'[e.id] = e.since => since[e.id] = e.since
  BY <1>1, <1>3, <1>5
<1>8. Lost' = Lost
  BY DEF Lost
<1>9. ListHoldsCircle'
  BY <1>1, <1>7, <1>8 DEF QueueInv, ListHoldsCircle
<1> QED BY <1>2, <1>6, <1>9 DEF QueueInv

(* An answer ends a wait, opening a chat touches none.                     *)
LEMMA AnsweredKeeps == ASSUME QueueInv, NEW c \in Chat, ClientAnswered(c) PROVE QueueInv'
<1>1. /\ hour' = hour /\ taken' = taken /\ marks' = marks /\ circle' = circle
      /\ since' = [since EXCEPT ![c] = Never] /\ seen' = [seen EXCEPT ![c] = FALSE]
      /\ hour \in Nat /\ MaxMessages \in Nat
      /\ since \in [Chat -> Never..MaxMessages] /\ seen \in [Chat -> BOOLEAN]
  BY QueueAssumption DEF ClientAnswered, QueueInv, QueueTypeOK, Never
<1>2. QueueTypeOK'
  BY <1>1 DEF QueueInv, QueueTypeOK, Never
<1>3. \A d \in Chat : since'[d] = since[d] \/ since'[d] = Never
  BY <1>1
<1>4. WaitsAreOld'
  BY <1>1, <1>3 DEF QueueInv, WaitsAreOld, Never
<1>5. \A e \in circle : e.id \in Chat
  BY DEF QueueInv, QueueTypeOK, Entry
<1>6. Lost' = Lost
  BY DEF Lost
<1>7. ListHoldsCircle'
  BY <1>1, <1>3, <1>5, <1>6 DEF QueueInv, ListHoldsCircle
<1> QED BY <1>2, <1>4, <1>7 DEF QueueInv

LEMMA OpenKeeps ==
    ASSUME QueueInv, NEW c \in Chat, OpenFromList(c) \/ MarkRead(c)
    PROVE  QueueInv'
<1>1. /\ hour' = hour /\ taken' = taken /\ circle' = circle /\ since' = since
      /\ marks' \subseteq Chat
  BY DEF OpenFromList, MarkRead, QueueInv, QueueTypeOK
<1>2. seen' \in [Chat -> BOOLEAN]
  <2>1. SeenOnOpen(c) \in BOOLEAN
    BY QueueAssumption DEF SeenOnOpen, QueueInv, QueueTypeOK
  <2>2. seen \in [Chat -> BOOLEAN]
    BY DEF QueueInv, QueueTypeOK
  <2>3. CASE OpenFromList(c)
    BY <2>2, <2>3 DEF OpenFromList
  <2>4. CASE MarkRead(c)
    BY <2>1, <2>2, <2>4 DEF MarkRead
  <2> QED BY <2>3, <2>4
<1>3. QueueTypeOK'
  BY <1>1, <1>2 DEF QueueInv, QueueTypeOK
<1>4. Lost' = Lost
  BY DEF Lost
<1> QED BY <1>1, <1>3, <1>4 DEF QueueInv, WaitsAreOld, ListHoldsCircle

(* The button adds its offer to the circle and to the end of the list.     *)
LEMMA TakeKeeps == ASSUME QueueInv, TakeFirst PROVE QueueInv'
<1> DEFINE Led(t, c) ==
      \/ /\ c = NoChat
         /\ taken' = <<>> /\ circle' = {}
         /\ UNCHANGED marks
      \/ /\ c # NoChat
         /\ LET e == [id |-> c, since |-> since[c]] IN
              /\ taken' = Pushed(t, e)
              /\ circle' = IF Holds(circle, t) THEN circle \cup {e} ELSE Lost
         /\ marks' = marks \cup {c}
<1>1. PICK t \in {taken, Pruned} : \E c \in NextInQueue(Ids(t)) : Led(t, c)
  BY DEF TakeFirst
<1>2. PICK c \in NextInQueue(Ids(t)) : Led(t, c)
  BY <1>1
<1>3. /\ since' = since /\ seen' = seen /\ hour' = hour
      /\ MAX_TAKEN \in Nat \ {0} /\ hour \in Nat
      /\ since \in [Chat -> Never..MaxMessages] /\ circle \subseteq Entry
  BY QueueAssumption DEF TakeFirst, QueueInv, QueueTypeOK, Never
<1>4. Lost' = Lost
  BY DEF Lost
<1>5. CASE c = NoChat
  <2>1. taken' = <<>> /\ circle' = {} /\ marks' = marks
    BY <1>2, <1>5
  <2>2. <<>> \in Seq(Entry) /\ Len(<<>>) = 0
    OBVIOUS
  <2>3. QueueTypeOK'
    BY <1>3, <2>1, <2>2 DEF QueueInv, QueueTypeOK
  <2> QED BY <1>3, <2>1, <2>3 DEF QueueInv, WaitsAreOld, ListHoldsCircle
<1>6. CASE c # NoChat
  <2> DEFINE e == [id |-> c, since |-> since[c]]
  <2>1. /\ taken' = Pushed(t, e) /\ marks' = marks \cup {c}
        /\ circle' = IF Holds(circle, t) THEN circle \cup {e} ELSE Lost
    BY <1>2, <1>6
  <2>2. c \in Chat
    BY <1>6 DEF NextInQueue, Offered, Waiting
  <2>3. e \in Entry /\ e.id = c /\ e.since = since[c]
    BY <1>3, <2>2 DEF Entry
  <2>4. Never \in Never..MaxMessages
    BY QueueAssumption DEF Never
  <2>5. Lost \subseteq Entry /\ \A x \in Lost : x.since = Never
    BY <2>4 DEF Lost, Entry
  <2> HIDE DEF e
  <2>6. t \in Seq(Entry)
    BY RememberedIs DEF QueueInv
  <2>7. /\ taken' \in Seq(Entry) /\ Len(taken') \in 1..MAX_TAKEN
        /\ taken'[Len(taken')] = e
        /\ Len(t) < MAX_TAKEN =>
             \A i \in DOMAIN t : t[i].id # e.id => \E j \in DOMAIN taken' : taken'[j] = t[i]
    BY <2>1, <2>3, <2>6, PushedIs
  <2>8. QueueTypeOK'
    <3>1. circle' \subseteq Entry
      BY <1>3, <2>1, <2>3, <2>5
    <3>2. Len(taken') <= MAX_TAKEN
      BY <1>3, <2>7
    <3>3. marks' \subseteq Chat
      BY <2>1, <2>2 DEF QueueInv, QueueTypeOK
    <3> QED BY <1>3, <2>7, <3>1, <3>2, <3>3 DEF QueueInv, QueueTypeOK
  <2>9. WaitsAreOld'
    <3>1. \A x \in circle' : x \in circle \/ x = e \/ x.since = Never
      BY <2>1, <2>5
    <3>2. e.since <= hour /\ Never <= hour
      BY <1>3, <2>2, <2>3 DEF QueueInv, WaitsAreOld, Never
    <3> QED BY <1>3, <3>1, <3>2 DEF QueueInv, WaitsAreOld
  <2>10. ListHoldsCircle'
    <3> SUFFICES ASSUME circle' # Lost, NEW x \in circle', x.since # Never, since[x.id] = x.since
                 PROVE  \E j \in DOMAIN taken' : taken'[j] = x
      BY <1>3, <1>4 DEF ListHoldsCircle
    <3>1. Holds(circle, t) /\ circle' = circle \cup {e}
      BY <2>1
    <3>2. circle # Lost /\ Len(t) < MAX_TAKEN
      BY <3>1 DEF Holds
    <3>3. CASE x = e
      <4>1. Len(taken') \in DOMAIN taken'
        BY <1>3, <2>7
      <4> QED BY <2>7, <3>3, <4>1
    <3>4. CASE x # e
      <4>1. x \in circle /\ x \in Entry
        BY <1>3, <3>1, <3>4
      <4>2. \E i \in DOMAIN taken : taken[i] = x
        BY <3>2, <4>1 DEF QueueInv, ListHoldsCircle
      <4>3. PICK i \in DOMAIN t : t[i] = x
        BY <4>1, <4>2, RememberedIs DEF QueueInv
      <4>4. x.id # c
        <5>1. ASSUME x.id = c PROVE FALSE
          <6>1. x.since = e.since /\ x.id = e.id
            BY <2>3, <5>1
          <6>2. x = e
            BY <2>3, <4>1, <6>1 DEF Entry
          <6> QED BY <3>4, <6>2
        <5> QED BY <5>1
      <4> QED BY <2>3, <2>7, <3>2, <4>3, <4>4
    <3> QED BY <3>3, <3>4
  <2> QED BY <2>8, <2>9, <2>10 DEF QueueInv
<1> QED BY <1>5, <1>6

LEMMA QueueStep == QueueInv /\ [QueueNext]_queueVars => QueueInv'
<1> SUFFICES ASSUME QueueInv, [QueueNext]_queueVars PROVE QueueInv'
  OBVIOUS
<1>1. ASSUME NEW c \in Chat, ClientWrites(c) PROVE QueueInv'
  BY <1>1, WritesKeeps
<1>2. ASSUME NEW c \in Chat, ClientAnswered(c) PROVE QueueInv'
  BY <1>2, AnsweredKeeps
<1>3. ASSUME NEW c \in Chat, OpenFromList(c) \/ MarkRead(c) PROVE QueueInv'
  BY <1>3, OpenKeeps
<1>4. CASE TakeFirst
  BY <1>4, TakeKeeps
<1>5. CASE UNCHANGED queueVars
  BY <1>5 DEF queueVars, QueueInv, QueueTypeOK, WaitsAreOld, ListHoldsCircle, Lost
<1> QED BY <1>1, <1>2, <1>3, <1>4, <1>5 DEF QueueNext

(* The button leads nobody to the same wait twice while another one waits  *)
(* in the queue (takeNextInQueue, pruneTaken, pushTaken), as long as the   *)
(* list has not grown beyond its limit, and only a manager who opens a     *)
(* chat makes its wait a seen one (mark_read).                             *)
THEOREM QueueTakesTurns == QueueSpec => []QueueTypeOK /\ NoRepeatWhileOthers /\ SeenIsSeen
<1>1. QueueInv => QueueTypeOK
  BY DEF QueueInv
<1>2. ASSUME QueueInv, TakeFirst, taken' # <<>>, circle # Lost
      PROVE  \/ taken'[Len(taken')] \notin circle
             \/ \A c \in Waiting : [id |-> c, since |-> since[c]] \in circle
  <2> DEFINE Led(t, c) ==
        \/ c = NoChat /\ taken' = <<>>
        \/ c # NoChat /\ taken' = Pushed(t, [id |-> c, since |-> since[c]])
  <2>1. PICK t \in {taken, Pruned} : \E c \in NextInQueue(Ids(t)) : Led(t, c)
    BY <1>2 DEF TakeFirst
  <2>2. PICK c \in NextInQueue(Ids(t)) : Led(t, c)
    BY <2>1
  <2> DEFINE e == [id |-> c, since |-> since[c]]
  <2>3. c # NoChat /\ taken' = Pushed(t, e)
    BY <1>2, <2>2
  <2>4. c \in Chat /\ (Waiting = {} \/ e \notin circle)
    BY <1>2, <2>3, LedToNew
  <2>5. e \in Entry
    BY <1>2, <2>4 DEF Entry, QueueInv, QueueTypeOK
  <2>6. taken'[Len(taken')] = e
    <3>1. t \in Seq(Entry)
      BY <1>2, RememberedIs DEF QueueInv
    <3> HIDE DEF e
    <3> QED BY <2>3, <2>5, <3>1, PushedIs
  <2> QED BY <2>4, <2>6
<1>3. ASSUME QueueInv, [QueueNext]_queueVars, NEW c \in Chat, seen'[c], ~seen[c]
      PROVE  c \in marks /\ IsManager /\ since[c] # Never
  <2>1. seen \in [Chat -> BOOLEAN]
    BY <1>3 DEF QueueInv, QueueTypeOK
  <2>2. \A d \in Chat : ~ ClientWrites(d) /\ ~ ClientAnswered(d) /\ ~ OpenFromList(d)
    BY <1>3, <2>1 DEF ClientWrites, ClientAnswered, OpenFromList
  <2>3. ~ TakeFirst /\ ~ UNCHANGED queueVars
    BY <1>3 DEF TakeFirst, queueVars
  <2>4. PICK d \in Chat : MarkRead(d)
    BY <1>3, <2>2, <2>3 DEF QueueNext
  <2>5. d = c
    BY <1>3, <2>1, <2>4 DEF MarkRead
  <2> QED BY <1>3, <2>1, <2>4, <2>5 DEF MarkRead, SeenOnOpen
<1>4. QueueInv /\ [QueueNext]_queueVars =>
        [TakeFirst /\ taken' # <<>> /\ circle # Lost =>
           \/ taken'[Len(taken')] \notin circle
           \/ \A c \in Waiting : [id |-> c, since |-> since[c]] \in circle]_queueVars
  BY <1>2
<1>5. QueueInv /\ [QueueNext]_queueVars =>
        [\A c \in Chat : seen'[c] /\ ~seen[c] => c \in marks /\ IsManager /\ since[c] # Never]_queueVars
  BY <1>3
<1> QED BY <1>1, <1>4, <1>5, QueueStart, QueueStep, PTL DEF QueueSpec, NoRepeatWhileOthers, SeenIsSeen

-----------------------------------------------------------------------------
(* Reading histories.  The counters never promise more connections than    *)
(* there are.                                                              *)
\* What the counters stand for: tasks are counted once, and places are only
\* taken while there are some.
SyncsInv ==
  /\ {queued, looking, placed, reading, asking, knowing, sending, others, elsewhere} \subseteq Nat
  /\ {begun, begunElsewhere, crashed} \subseteq Nat
  /\ queued + looking + placed + reading + asking + knowing <= begun /\ begun <= MaxSyncs
  /\ sending <= MaxSenders
  /\ elsewhere <= begunElsewhere /\ begunElsewhere <= MaxElsewhere
  /\ crashed <= MaxSyncCrashes
  /\ InUse <= Pool
  /\ Places <= SyncSlots

LEMMA Numbers == SyncSlots \in Nat /\ Pool \in Nat /\ SyncSlots >= 2 /\ Pool >= 4
<1>1. Workers \in Nat /\ Workers >= 1
  BY SyncsAssumption DEF Workers, AtMost, AtLeast
<1>2. \A n \in Nat : n \div Workers \in Int
  BY <1>1
<1> QED BY <1>2, SyncsAssumption DEF SyncSlots, Pool, AtMost, AtLeast

LEMMA CountersInit == SyncsInit => SyncsInv
BY Numbers, SyncsAssumption DEF SyncsInit, SyncsInv, InUse, HeldByHistories, Places

LEMMA CountersStep == SyncsInv /\ [SyncsNext]_syncVars => SyncsInv'
<1> SUFFICES ASSUME SyncsInv, [SyncsNext]_syncVars PROVE SyncsInv'
  OBVIOUS
<1> USE Numbers, SyncsAssumption DEF SyncsInv, InUse, HeldByHistories, Places
<1>1. CASE AskSync
  BY <1>1 DEF AskSync
<1>2. CASE Look
  BY <1>2 DEF Look, ConnectionFree, bounds
<1>3. CASE TakePlace
  BY <1>3 DEF TakePlace, PlaceFree, bounds
<1>4. CASE StandInQueue
  BY <1>4 DEF StandInQueue, bounds
<1>5. CASE BeginReading
  BY <1>5 DEF BeginReading, ConnectionFree, bounds
<1>6. CASE CommitBatch
  BY <1>6 DEF CommitBatch, bounds
<1>7. CASE NextDialog
  BY <1>7 DEF NextDialog, bounds
<1>8. CASE LookUp
  BY <1>8 DEF LookUp, ConnectionFree, bounds
<1>9. CASE EndLookUp
  BY <1>9 DEF EndLookUp, bounds
<1>10. CASE EndReading
  BY <1>10 DEF EndReading, LeavesPlace, bounds
<1>11. CASE Lend
  BY <1>11 DEF Lend, ConnectionFree, readers, bounds
<1>12. CASE GiveBack
  BY <1>12 DEF GiveBack, readers, bounds
<1>13. CASE AskRecipient
  BY <1>13 DEF AskRecipient, readers, bounds
<1>14. CASE LookUpRecipient
  BY <1>14 DEF LookUpRecipient, ConnectionFree, readers, bounds
<1>15. CASE WaitTimesOut
  BY <1>15 DEF WaitTimesOut, readers, bounds
<1>16. CASE ElsewhereTakes
  BY <1>16 DEF ElsewhereTakes, PlaceFree, readers
<1>17. CASE ElsewhereLeaves
  BY <1>17 DEF ElsewhereLeaves, readers, bounds
<1>18. CASE SyncCrash
  BY <1>18 DEF SyncCrash
<1>19. CASE UNCHANGED syncVars
  BY <1>19 DEF syncVars, readers, bounds
<1> QED BY <1>1, <1>2, <1>3, <1>4, <1>5, <1>6, <1>7, <1>8, <1>9, <1>10,
           <1>11, <1>12, <1>13, <1>14, <1>15, <1>16, <1>17, <1>18, <1>19 DEF SyncsNext

LEMMA CountersCorrect == SyncsSpec => []SyncsInv
BY CountersInit, CountersStep, PTL DEF SyncsSpec

(* Every reachable state is well formed, and a process never uses more     *)
(* connections than its pool has.                                          *)
THEOREM SyncsTypes == SyncsSpec => []SyncsTypeOK
<1>1. SyncsInv => SyncsTypeOK
  BY Numbers, SyncsAssumption DEF SyncsInv, SyncsTypeOK, InUse, HeldByHistories
<1> QED BY <1>1, CountersCorrect, PTL

-----------------------------------------------------------------------------
(* If the pool is larger than three connections for each place of the      *)
(* server, all the histories a process reads at once, each of them in a    *)
(* dialog (_known_since), leave it one for the lease and the queue         *)
(* (_pool_kwargs), whoever else takes places.                              *)
THEOREM RoomIsLeft ==
  ASSUME 3 * SyncSlots < Pool PROVE SyncsSpec => []HistoriesLeaveRoom
<1>1. SyncsInv => HistoriesLeaveRoom
  BY Numbers DEF SyncsInv, HistoriesLeaveRoom, HeldByHistories, Places
<1> QED BY <1>1, CountersCorrect, PTL

\* Those who hold a connection and wait for another one do not wait only for
\* each other: somebody has a connection he needs no other to give back.
SomebodyGivesBack ==
  placed + asking + sending > 0 /\ ~ConnectionFree => looking + reading + knowing + others > 0

(* If the pool is larger than two connections for each place and one for   *)
(* each send that asks for its second one, those who hold connections and  *)
(* ask for more never wait only for each other (SyncSlot, _known_since,    *)
(* _entity).                                                               *)
THEOREM NoHoldAndWait ==
  ASSUME 2 * SyncSlots + MaxSenders < Pool PROVE SyncsSpec => []SomebodyGivesBack
<1>1. SyncsInv => SomebodyGivesBack
  BY Numbers, SyncsAssumption
     DEF SyncsInv, SomebodyGivesBack, ConnectionFree, InUse, HeldByHistories, Places
<1> QED BY <1>1, CountersCorrect, PTL

-----------------------------------------------------------------------------
\* The budget of a container as it is shipped.
Shipped == DbPoolSize = 10 /\ DbMaxOverflow = 20

(* With the shipped numbers a server of up to three cores leaves room ...  *)
THEOREM RoomUpToThree ==
  ASSUME Shipped, Cores \in 1..3 PROVE SyncsSpec => []HistoriesLeaveRoom
<1>1. 3 * SyncSlots < Pool
  <2>1. Cores = 1 \/ Cores = 2 \/ Cores = 3
    OBVIOUS
  <2> QED BY <2>1 DEF Shipped, SyncSlots, Pool, Workers, AtMost, AtLeast
<1> QED BY <1>1, RoomIsLeft

(* ... and never comes to a stop as long as no more sends at once ask for  *)
(* their second connection than 25 on up to two cores (gateway_capacity),  *)
(* ten on three, two on four.                                              *)
THEOREM NoStopUpToFour ==
  ASSUME Shipped, \/ Cores \in 1..2 /\ MaxSenders <= 25
                  \/ Cores = 3 /\ MaxSenders <= 10
                  \/ Cores = 4 /\ MaxSenders <= 2
  PROVE  SyncsSpec => []SomebodyGivesBack
<1> DEFINE Enough == 2 * SyncSlots + MaxSenders < Pool
<1> USE SyncsAssumption DEF Shipped, SyncSlots, Pool, Workers, AtMost, AtLeast
<1>1. CASE Cores \in 1..2 /\ MaxSenders <= 25
  <2>1. Cores = 1 \/ Cores = 2
    BY <1>1
  <2>2. Enough
    BY <1>1, <2>1
  <2> QED BY <2>2, NoHoldAndWait
<1>2. CASE Cores = 3 /\ MaxSenders <= 10
  <2>1. Enough
    BY <1>2
  <2> QED BY <2>1, NoHoldAndWait
<1>3. CASE Cores = 4 /\ MaxSenders <= 2
  <2>1. Enough
    BY <1>3
  <2> QED BY <2>1, NoHoldAndWait
<1> QED BY <1>1, <1>2, <1>3

=============================================================================

---------------------------- MODULE Attachments ----------------------------
(***************************************************************************)
(* Files on their way out.  A manager uploads a file: the server looks     *)
(* into it, puts a preview and then the file itself to the storage and     *)
(* returns a key; nothing is in the database until the message is sent,    *)
(* when the rows are made from what the storage says of the keys.  A       *)
(* voice message asked for by Safari is converted on the first request of  *)
(* an api process and kept; the processes share only the storage.          *)
(***************************************************************************)
EXTENDS Naturals, FiniteSets

CONSTANTS Upload, Voice,       \* uploaded files; voice messages asked for
          Request, Process, NoLock,
          AskedFor, ServedBy,  \* the voice message and the process of a request
          MaxParallel,         \* conversions a process runs at a time
          MaxConvertFailures   \* bound

ASSUME AttachmentsAssumption ==
    /\ NoLock \notin Request
    /\ AskedFor \in [Request -> Voice]
    /\ ServedBy \in [Request -> Process]
    /\ MaxParallel \in Nat \ {0}

VARIABLES upload,      \* how far the request that uploads a file came
          object,      \* objects of uploads in the storage
          attached,    \* uploads with a row in the database
          derived,     \* converted voice messages in the storage
          lockFor,     \* _derive_locks: the lock a process has for a voice message
          owner,       \* who holds each lock; a lock is named for its creator
          request,     \* how far the request for a voice message came
          converted,   \* conversions begun, by process and voice message
          failures     \* conversions failed, by voice message

attachVars == <<upload, object, attached, derived, lockFor, owner, request,
                converted, failures>>

-----------------------------------------------------------------------------
\* What the storage holds of an upload; its metadata names the preview.
UploadPart == Upload \X {"thumb", "file"}

Undone == {"lock", "inside", "slot", "convert"}

AttachTypeOK ==
    /\ upload \in [Upload -> {"none", "analyzed", "plain", "thumb", "done", "failed"}]
    /\ object \subseteq UploadPart
    /\ attached \subseteq Upload
    /\ derived \subseteq Voice
    /\ lockFor \in [Process \X Voice -> Request \cup {NoLock}]
    /\ owner \in [Request -> Request \cup {NoLock}]
    /\ request \in [Request -> [at: {"none", "miss", "served", "failed"} \cup Undone,
                                lock: Request \cup {NoLock}]]
    /\ converted \in [Process \X Voice -> Nat]
    /\ failures \in [Voice -> Nat]

AttachInit ==
    /\ upload = [u \in Upload |-> "none"]
    /\ object = {}
    /\ attached = {}
    /\ derived = {}
    /\ lockFor = [pv \in Process \X Voice |-> NoLock]
    /\ owner = [l \in Request |-> NoLock]
    /\ request = [r \in Request |-> [at |-> "none", lock |-> NoLock]]
    /\ converted = [pv \in Process \X Voice |-> 0]
    /\ failures = [v \in Voice |-> 0]

serveVars == <<derived, lockFor, owner, request, converted, failures>>

-----------------------------------------------------------------------------
(* Uploading. *)

\* The file is spooled and analyzed; a video may get a preview.  A file of a
\* forbidden type, too large, or met by a full disk is refused.
Analyze(u) ==
    /\ upload[u] = "none"
    /\ \E outcome \in {"analyzed", "plain", "failed"} : upload' = [upload EXCEPT ![u] = outcome]
    /\ UNCHANGED <<object, attached, serveVars>>

\* What goes to the storage next, and where that leaves the request.
NextPut(u) == CASE upload[u] = "analyzed" -> [part |-> "thumb", then |-> "thumb"]
                [] upload[u] \in {"plain", "thumb"} -> [part |-> "file", then |-> "done"]

\* A put, after which the request goes on, or breaks off.
PutUpload(u) ==
    /\ upload[u] \in {"analyzed", "plain", "thumb"}
    /\ \/ /\ object' = object \cup {<<u, NextPut(u).part>>}
          /\ upload' = [upload EXCEPT ![u] = NextPut(u).then]
       \/ /\ upload' = [upload EXCEPT ![u] = "failed"]
          /\ UNCHANGED object
    /\ UNCHANGED <<attached, serveVars>>

\* head: the key is known to the storage.
Found(u) == <<u, "file">> \in object

\* attach_uploads: all rows with the message, or none.  The keys are what the
\* browser says; it may have kept one of an upload that broke off.
AttachUploads(some) ==
    /\ some # {}
    /\ some \cap attached = {}
    /\ \A u \in some : upload[u] # "none" /\ Found(u)
    /\ attached' = attached \cup some
    /\ UNCHANGED <<upload, object, serveVars>>

-----------------------------------------------------------------------------
(* Serving a voice message to Safari: _ensure_m4a. *)

uploadVars == <<upload, object, attached>>

Slot(r) == <<ServedBy[r], AskedFor[r]>>

Answer(r, how) == request' = [request EXCEPT ![r].at = how]

\* The first look at the storage.
AskVoice(r) ==
    /\ request[r].at = "none"
    /\ Answer(r, IF AskedFor[r] \in derived THEN "served" ELSE "miss")
    /\ UNCHANGED <<uploadVars, derived, lockFor, owner, converted, failures>>

\* _derive_locks.setdefault: the lock known to the process, or a new one.
QueueForLock(r) ==
    /\ request[r].at = "miss"
    /\ LET lock == IF lockFor[Slot(r)] = NoLock THEN r ELSE lockFor[Slot(r)]
       IN /\ lockFor' = [lockFor EXCEPT ![Slot(r)] = lock]
          /\ request' = [request EXCEPT ![r] = [at |-> "lock", lock |-> lock]]
    /\ UNCHANGED <<uploadVars, derived, owner, converted, failures>>

TakeLock(r) ==
    /\ request[r].at = "lock"
    /\ owner[request[r].lock] = NoLock
    /\ owner' = [owner EXCEPT ![request[r].lock] = r]
    /\ Answer(r, "inside")
    /\ UNCHANGED <<uploadVars, derived, lockFor, converted, failures>>

\* Mutant: no second look under the lock.
NoSecondLook(r) == FALSE
\* The second look, under the lock.
MadeMeanwhile(r) == AskedFor[r] \in derived

LookAgain(r) ==
    /\ request[r].at = "inside"
    /\ IF MadeMeanwhile(r)
       THEN /\ Answer(r, "served")
            /\ owner' = [owner EXCEPT ![request[r].lock] = NoLock]
       ELSE Answer(r, "slot") /\ UNCHANGED owner
    /\ UNCHANGED <<uploadVars, derived, lockFor, converted, failures>>

Converting(p) == {r \in Request : ServedBy[r] = p /\ request[r].at = "convert"}

\* media._run: the semaphore of the process, then ffmpeg.
BeginConversion(r) ==
    /\ request[r].at = "slot"
    /\ Cardinality(Converting(ServedBy[r])) < MaxParallel
    /\ Answer(r, "convert")
    /\ converted' = [converted EXCEPT ![Slot(r)] = @ + 1]
    /\ UNCHANGED <<uploadVars, derived, lockFor, owner, failures>>

\* Mutant: a failure leaves the lock taken.
StillOwned(r) == owner
\* The end of the locked block, good or bad: the lock is forgotten by the
\* process and released; requests that queued for it still do.
Released(r) == [owner EXCEPT ![request[r].lock] = NoLock]

Forget(r) == /\ lockFor' = [lockFor EXCEPT ![Slot(r)] = NoLock]
             /\ owner' = Released(r)

ConversionEnds(r) ==
    /\ request[r].at = "convert"
    /\ \/ /\ Answer(r, "served")
          /\ derived' = derived \cup {AskedFor[r]}
          /\ UNCHANGED failures
       \/ /\ failures[AskedFor[r]] < MaxConvertFailures   \* ffmpeg failed or was killed
          /\ Answer(r, "failed")
          /\ failures' = [failures EXCEPT ![AskedFor[r]] = @ + 1]
          /\ UNCHANGED derived
    /\ Forget(r)
    /\ UNCHANGED <<uploadVars, converted>>

ServeStep(r) == AskVoice(r) \/ QueueForLock(r) \/ TakeLock(r) \/ LookAgain(r)
                \/ BeginConversion(r) \/ ConversionEnds(r)

AttachNext ==
    \/ \E u \in Upload : Analyze(u) \/ PutUpload(u)
    \/ \E some \in SUBSET Upload : AttachUploads(some)
    \/ \E r \in Request : ServeStep(r)

AttachSpec == AttachInit /\ [][AttachNext]_attachVars

-----------------------------------------------------------------------------
(* Properties. *)

\* A row made from an upload leads to the file, and to the preview its
\* metadata names, whatever request broke off between the two puts.
AttachedIsWhole ==
    \A u \in attached :
        /\ <<u, "file">> \in object
        /\ upload[u] = "done"

\* The voice message is made once per process and kept (file_serving.py says
\* "once"): requests that wait for the one that makes it do not make it
\* again.  Only after a failure may two requests convert side by side, one
\* with the forgotten lock and one with a new one.
MadeOnce == \A pv \in Process \X Voice : failures[pv[2]] = 0 => converted[pv] <= 1

\* No lock is held by a request that has its answer.
LocksAreReturned ==
    \A l \in Request : owner[l] # NoLock =>
        request[owner[l]].at \in Undone \ {"lock"} /\ request[owner[l]].lock = l

\* What is attached was uploaded whole, what is converted is converted once,
\* and the locks for it are given back (attach_uploads, _ensure_m4a).
MadeWholeOnce == AttachTypeOK /\ AttachedIsWhole /\ MadeOnce /\ LocksAreReturned

\* Every request for a voice message is answered, behind a failed one too:
\* again and again none is being served.
EveryoneIsAnswered == []<>(\A r \in Request : request[r].at \notin Undone \cup {"miss"})

=============================================================================

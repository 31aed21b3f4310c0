----------------------------- MODULE MCProgress -----------------------------
(***************************************************************************)
(* Instances for TLC of the parts in which something must come to pass: a  *)
(* file fetched, a listener served, a waiting client reached, a change     *)
(* shown, a history read.  They share no state, so a behaviour is one of   *)
(* them, chosen at the start.                                              *)
(***************************************************************************)
EXTENDS Files, Attachments, Queue, Live, Syncs

VARIABLE stage     \* the part that runs

progressVars == <<stage, filesVars, attachVars, queueVars, liveVars, syncVars>>

ProgressInit ==
  /\ stage \in {"files", "attachments", "queue", "live", "syncs"}
  /\ FilesInit /\ AttachInit /\ QueueInit /\ LiveInit /\ SyncsInit

ProgressNext ==
  \/ /\ stage = "files" /\ FilesNext
     /\ UNCHANGED <<stage, attachVars, queueVars, liveVars, syncVars>>
  \/ /\ stage = "attachments" /\ AttachNext
     /\ UNCHANGED <<stage, filesVars, queueVars, liveVars, syncVars>>
  \/ /\ stage = "queue" /\ QueueNext
     /\ UNCHANGED <<stage, filesVars, attachVars, liveVars, syncVars>>
  \/ /\ stage = "live" /\ LiveNext
     /\ UNCHANGED <<stage, filesVars, attachVars, queueVars, syncVars>>
  \/ /\ stage = "syncs" /\ SyncsNext
     /\ UNCHANGED <<stage, filesVars, attachVars, queueVars, liveVars>>

\* The loop runs, every download ends, time passes.
FilesFairness ==
  /\ \A w \in Worker : WF_filesVars(stage = "files" /\ LoopStep(w))
  /\ \A f \in File : WF_filesVars(stage = "files" /\ PauseEnds(f))

\* A request that is being served goes on; ffmpeg ends or is killed in time.
AttachFairness ==
  \A r \in Request : WF_attachVars(stage = "attachments" /\ request[r].at # "none" /\ ServeStep(r))

\* The employee keeps pressing, and requests arrive.
QueueFairness ==
  /\ WF_queueVars(stage = "queue" /\ TakeFirst)
  /\ \A c \in Chat : WF_queueVars(stage = "queue" /\ MarkRead(c))

\* Loops and timers run, connections are made again, transactions end; of
\* what one conjunct names no two are possible at once.
LiveFairness ==
  /\ \A n \in Notice : /\ WF_liveVars(stage = "live" /\ Emit(n))
                        /\ WF_liveVars(stage = "live" /\ EventArrives(n))
  /\ WF_liveVars(stage = "live" /\ (RedisReturns \/ Subscribe))
  /\ WF_liveVars(stage = "live" /\ (Open \/ Close))
  /\ WF_liveVars(stage = "live" /\ (Read \/ Show \/ Poll))

\* Connections are handed out in the order they are asked for, a look at the
\* queue and a lookup go on, a history has an end, the rest of the process gives
\* connections back.
SyncsFairness ==
  /\ SF_syncVars(stage = "syncs" /\ Look) /\ SF_syncVars(stage = "syncs" /\ BeginReading)
  /\ SF_syncVars(stage = "syncs" /\ LookUp) /\ SF_syncVars(stage = "syncs" /\ EndReading)
  /\ WF_syncVars(stage = "syncs" /\ EndLookUp)
  /\ WF_syncVars(stage = "syncs" /\ (TakePlace \/ StandInQueue))
  /\ WF_syncVars(stage = "syncs" /\ GiveBack) /\ WF_syncVars(stage = "syncs" /\ ElsewhereLeaves)

ProgressSpec ==
  /\ ProgressInit /\ [][ProgressNext]_progressVars
  /\ FilesFairness /\ AttachFairness /\ QueueFairness /\ LiveFairness /\ SyncsFairness

Sizes == <<10>>
Kinds == <<"video">>
Voices == [r \in Request |-> "v1"]
Served == [r \in Request |-> "p1"]
=============================================================================

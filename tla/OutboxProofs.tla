---------------------------- MODULE OutboxProofs ----------------------------
(***************************************************************************)
(* Proofs about the outgoing queue, for any number of messages, dialogs,   *)
(* processes, attempts and faults.                                         *)
(***************************************************************************)
EXTENDS Outbox, FiniteSetTheorems, TLAPS

-----------------------------------------------------------------------------
(* Facts about the operators of the model.                                 *)

(* A cut deadline is a time.                                               *)
LEMMA AtType == ASSUME TypeOK, NEW d \in Nat PROVE At(d) \in Nat
  BY OutboxAssumption DEF At, TypeOK

(* A fresh row, a settled row and a postponed row are rows.                *)
LEMMA NewRowType == ASSUME TypeOK, NEW m \in Msg PROVE NewRow(m) \in Row
  BY DEF NewRow, Row, TypeOK

LEMMA FailedType ==
  ASSUME TypeOK, NEW m \in Msg, NEW a \in Nat \ {0} PROVE Failed(m, a) \in Row
<1>1. row[m] \in Row
  BY DEF TypeOK
<1>2. CASE a >= MaxAttempts
  BY <1>1, <1>2 DEF Failed, Row
<1>3. CASE ~(a >= MaxAttempts)
  <2>1. a \in 1..MaxAttempts
    BY <1>3, OutboxAssumption
  <2>2. At(Backoff[a]) \in Nat
    BY <2>1, AtType, OutboxAssumption
  <2> QED BY <1>1, <1>3, <2>2 DEF Failed, Row
<1> QED BY <1>2, <1>3

LEMMA RetriedType ==
  ASSUME TypeOK PROVE Retried \in [Msg -> Row] /\ GivenUp \in [Msg -> Row]
<1>1. ASSUME NEW m \in Msg PROVE row[m].att + 1 \in Nat \ {0}
  BY DEF TypeOK, Row
<1>2. Retried \in [Msg -> Row]
  BY <1>1, FailedType DEF Retried
<1>3. GivenUp \in [Msg -> Row]
  BY FailedType, OutboxAssumption DEF GivenUp
<1> QED BY <1>2, <1>3

LEMMA PostponedType ==
  ASSUME TypeOK, NEW d \in Nat PROVE Postponed(d) \in [Msg -> Row]
<1>1. At(d) \in Nat
  BY AtType
<1> QED BY <1>1 DEF Postponed, TypeOK, Row

LEMMA OutcomeType ==
  ASSUME TypeOK PROVE Copied \in [Msg -> Row] /\ Delivered \in [Msg -> Row]
<1>1. Copied \in [Msg -> Row]
  BY DEF Copied, TypeOK, Row
<1>2. Delivered \in [Msg -> Row]
  BY DEF Delivered, TypeOK, Row
<1> QED BY <1>1, <1>2

(* An attempt under way is led by a message and holds messages.            *)
LEMMA BusyType ==
  ASSUME TypeOK, NEW w \in Worker
  PROVE  /\ job[w].rows \subseteq Msg
         /\ job[w].until \in Nat
         /\ job[w].ph # "idle" => job[w] \in Busy
  BY DEF TypeOK, Job, Busy, Idle

(* The place of a message in a request is a number.                        *)
LEMMA ItemType ==
  ASSUME TypeOK, NEW w \in Worker, NEW x \in Msg PROVE Item(w, x) \in Nat
<1> DEFINE S == {y \in job[w].rows \ {Lead(w)} : y < x}
<1>1. IsFiniteSet(Msg)
  BY FS_Interval, OutboxAssumption DEF Msg
<1>2. S \subseteq Msg
  BY BusyType
<1>3. Cardinality(S) \in Nat
  BY <1>1, <1>2, FS_Subset, FS_CardinalityType
<1> QED BY <1>3 DEF Item

(* The end of an attempt keeps the types of what it writes.                *)
LEMMA SettleType ==
  ASSUME TypeOK, NEW w \in Worker, NEW o \in [Msg -> Row], Settle(w, o)
  PROVE  /\ row' \in [Msg -> Row]
         /\ msg' \in [Msg -> {"none", "QUEUED", "SENT", "FAILED"}]
         /\ job' \in [Worker -> Job]
<1>1. row' \in [Msg -> Row]
  BY DEF Settle, TypeOK
<1>2. msg' \in [Msg -> {"none", "QUEUED", "SENT", "FAILED"}]
  BY DEF Settle, TypeOK
<1>3. job' \in [Worker -> Job]
  BY DEF Settle, TypeOK, Job, Busy
<1> QED BY <1>1, <1>2, <1>3

(* So does a call that Telegram takes.                                     *)
LEMMA AcceptType ==
  ASSUME TypeOK, NEW w \in Worker, job[w].ph = "calling", Accept(w)
  PROVE  chat' \in Seq(SUBSET Part) /\ seen' \subseteq RandomId
<1>1. job[w].rows \subseteq Msg /\ job[w].lead \in Msg /\ job[w].step \in Nat
  BY BusyType DEF Busy
<1>2. RequestParts(w) \in SUBSET Part
  BY <1>1 DEF RequestParts, Part
<1>3. RequestIds(w) \subseteq RandomId
  BY <1>1, ItemType DEF RequestIds, StepRandomId, RandomId, Lead
<1>4. CASE UNCHANGED <<chat, seen>>
  BY <1>4 DEF TypeOK
<1>5. CASE chat' = Append(chat, RequestParts(w)) /\ seen' = seen \cup RequestIds(w)
  <2>1. chat' \in Seq(SUBSET Part)
    BY <1>2, <1>5 DEF TypeOK
  <2>2. seen' \subseteq RandomId
    BY <1>3, <1>5 DEF TypeOK
  <2> QED BY <2>1, <2>2
<1> QED BY <1>4, <1>5 DEF Accept

(* What a retry request reads changes nothing but the request.             *)
Asks(m) == \E t \in Tab : RetryRead(m, t) \/ RetryReadRow(m, t) \/ RetryAborted(m, t)
Writes(m) == \E t \in Tab : RetryWrite(m, t)

LEMMA AsksOnly ==
  ASSUME NEW m \in Msg, Asks(m)
  PROVE  UNCHANGED <<now, row, msg, file, online, blocked, owner, draining, job, paused,
                     chat, seen, ban, kept, faults, upsets>>
  BY DEF Asks, RetryRead, RetryReadRow, RetryAborted, db, account, telegram, bounds

(* A retry writes its message and the columns of its row.                  *)
LEMMA WritesOnly ==
  ASSUME TypeOK, NEW m \in Msg, Writes(m)
  PROVE  /\ UNCHANGED <<now, file, doubled, online, blocked, owner, draining, job, paused,
                       chat, seen, ban, kept, faults, upsets>>
         /\ m \notin Locked /\ msg' = [msg EXCEPT ![m] = "QUEUED"] /\ msg'[m] = "QUEUED"
         /\ \A x \in Msg \ {m} : row'[x] = row[x] /\ msg'[x] = msg[x]
         /\ row'[m] \in Row /\ row'[m].fwd = row[m].fwd /\ row'[m].st \in {row[m].st, "PENDING"}
         /\ row' = [row EXCEPT ![m] = row'[m]]
         /\ \E t \in Tab : /\ retry[m][t].ph = "row"
                          /\ retry' = [retry EXCEPT ![m][t] = NoRetry]
                          /\ row'[m].st = (IF retry[m][t].st = "PENDING" THEN row[m].st ELSE "PENDING")
                          /\ row'[m].att = (IF retry[m][t].att = 0 THEN row[m].att ELSE 0)
<1>1. PICK t \in Tab : RetryWrite(m, t)
  BY DEF Writes
<1>2. row \in [Msg -> Row] /\ row[m] \in Row /\ now \in Nat
  BY DEF TypeOK
<1> DEFINE st == IF retry[m][t].st = "PENDING" THEN row[m].st ELSE "PENDING"
           att == IF retry[m][t].att = 0 THEN row[m].att ELSE 0
           r == [row[m] EXCEPT !.st = st, !.att = att, !.due = now]
<1>3. r \in Row /\ r.st = st /\ r.att = att /\ r.fwd = row[m].fwd
  BY <1>2 DEF Row
<1>4. row' = [row EXCEPT ![m] = r]
  BY <1>1, <1>2 DEF RetryWrite
<1>5. row'[m] = r /\ \A x \in Msg \ {m} : row'[x] = row[x]
  BY <1>2, <1>4
<1>6. /\ msg' = [msg EXCEPT ![m] = "QUEUED"] /\ msg'[m] = "QUEUED"
      /\ \A x \in Msg \ {m} : msg'[x] = msg[x]
  BY <1>1 DEF RetryWrite, TypeOK
<1>7. /\ UNCHANGED <<now, file, doubled, online, blocked, owner, draining, job, paused,
                    chat, seen, ban, kept, faults, upsets>>
      /\ m \notin Locked /\ retry[m][t].ph = "row"
      /\ retry' = [retry EXCEPT ![m][t] = NoRetry]
  BY <1>1 DEF RetryWrite, account, telegram, bounds
<1>8. row' = [row EXCEPT ![m] = row'[m]]
  BY <1>4, <1>5
<1> HIDE DEF r
<1>9. row'[m].fwd = row[m].fwd /\ row'[m].st \in {row[m].st, "PENDING"}
      /\ row'[m].st = (IF retry[m][t].st = "PENDING" THEN row[m].st ELSE "PENDING")
      /\ row'[m].att = (IF retry[m][t].att = 0 THEN row[m].att ELSE 0)
  BY <1>3, <1>5 DEF st, att
<1> QED BY <1>3, <1>5, <1>6, <1>7, <1>8, <1>9

-----------------------------------------------------------------------------
(* Every step keeps the types.                                             *)
LEMMA TypeStep == ASSUME TypeOK, [Next]_vars PROVE TypeOK'
<1> USE DEF db, account, telegram, bounds
<1>1. ASSUME NEW m \in Msg, Post(m) PROVE TypeOK'
  <2>1. \A x \in Msg : NewRow(x) \in Row
    BY NewRowType
  <2> QED BY <1>1, <2>1 DEF Post, TypeOK
<1>2. ASSUME NEW m \in Msg, Asks(m) PROVE TypeOK'
  <2>1. retry' \in [Msg -> [Tab -> Asked]] /\ doubled' \subseteq Msg
    <3>1. PICK t \in Tab : RetryRead(m, t) \/ RetryReadRow(m, t) \/ RetryAborted(m, t)
      BY <1>2 DEF Asks
    <3>2. NoRetry \in Asked /\ [NoRetry EXCEPT !.ph = "message"] \in Asked
      BY DEF NoRetry, Asked
    <3>3. [ph |-> "row", st |-> row[m].st, att |-> row[m].att] \in Asked
      BY DEF TypeOK, Row, Asked
    <3>4. \E q \in Asked : retry' = [retry EXCEPT ![m][t] = q]
      BY <3>1, <3>2, <3>3 DEF RetryRead, RetryReadRow, RetryAborted
    <3>5. doubled' \subseteq Msg
      BY <3>1 DEF RetryRead, RetryReadRow, RetryAborted, TypeOK
    <3> QED BY <3>4, <3>5 DEF TypeOK
  <2> QED BY <1>2, <2>1, AsksOnly DEF TypeOK
<1>3. ASSUME NEW m \in Msg, Writes(m) PROVE TypeOK'
  <2>1. row' \in [Msg -> Row]
    BY <1>3, WritesOnly DEF TypeOK
  <2>2. msg' \in [Msg -> {"none", "QUEUED", "SENT", "FAILED"}]
    BY <1>3, WritesOnly DEF TypeOK
  <2>3. retry' \in [Msg -> [Tab -> Asked]]
    <3>1. NoRetry \in Asked /\ retry \in [Msg -> [Tab -> Asked]]
      BY DEF NoRetry, Asked, TypeOK
    <3>2. PICK t \in Tab : retry' = [retry EXCEPT ![m][t] = NoRetry]
      BY <1>3, WritesOnly
    <3> QED BY <3>1, <3>2
  <2>4. UNCHANGED <<now, file, doubled, online, blocked, owner, draining, job, paused,
                    chat, seen, ban, kept, faults, upsets>>
    BY <1>3, WritesOnly
  <2> QED BY <2>1, <2>2, <2>3, <2>4 DEF TypeOK
<1>4. CASE Reconnect
  BY <1>4 DEF Reconnect, TypeOK
<1>5. ASSUME NEW m \in Msg, FileSettles(m) PROVE TypeOK'
  BY <1>5 DEF FileSettles, TypeOK, FileState
<1>6. ASSUME NEW w \in Worker, StartDrain(w) PROVE TypeOK'
  BY <1>6 DEF StartDrain, TypeOK
<1>7. ASSUME NEW w \in Worker, NEW m \in Msg, Claim(w, m) PROVE TypeOK'
  <2>1. Siblings(m) \subseteq Msg
    BY DEF Siblings
  <2>2. job' \in [Worker -> Job]
    BY <1>7, <2>1 DEF Claim, TypeOK, Job, Busy
  <2> QED BY <1>7, <2>2 DEF Claim, TypeOK
<1>8. ASSUME NEW w \in Worker, EndDrain(w) PROVE TypeOK'
  BY <1>8 DEF EndDrain, TypeOK
<1>9. ASSUME NEW w \in Worker, StepAccepted(w) PROVE TypeOK'
  <2>1. chat' \in Seq(SUBSET Part) /\ seen' \subseteq RandomId
    BY <1>9, AcceptType DEF StepAccepted, Answering, Calling
  <2>2. job[w] \in Busy
    BY <1>9, BusyType DEF StepAccepted, Answering, Calling
  <2>3. [job[w] EXCEPT !.step = @ + 1] \in Job
    BY <2>2 DEF Busy, Job
  <2>4. job' \in [Worker -> Job]
    BY <1>9, <2>3 DEF StepAccepted, TypeOK
  <2> QED BY <1>9, <2>1, <2>4 DEF StepAccepted, TypeOK
<1>10. ASSUME NEW w \in Worker, StepLost(w) PROVE TypeOK'
  <2>1. chat' \in Seq(SUBSET Part) /\ seen' \subseteq RandomId
    BY <1>10, AcceptType DEF StepLost, Answering, Calling
  <2> QED BY <1>10, <2>1, RetriedType, SettleType DEF StepLost, Fault, TypeOK
<1>11. ASSUME NEW w \in Worker, StepRefused(w) PROVE TypeOK'
  BY <1>11, RetriedType, SettleType DEF StepRefused, Fault, TypeOK
<1>12. ASSUME NEW w \in Worker, StepImpossible(w) PROVE TypeOK'
  <2>1. blocked' \subseteq Nat
    <3>1. Lead(w) \in Msg
      BY <1>12, BusyType DEF StepImpossible, Calling, Lead, Busy
    <3>2. ConvOf[Lead(w)] \in Nat
      BY <3>1, OutboxAssumption
    <3> QED BY <1>12, <3>2 DEF StepImpossible, TypeOK
  <2> QED BY <1>12, <2>1, RetriedType, SettleType
      DEF StepImpossible, Fault, TypeOK
<1>13. ASSUME NEW w \in Worker, SessionLost(w) PROVE TypeOK'
  BY <1>13, RetriedType, SettleType DEF SessionLost, TypeOK
<1>26. ASSUME NEW w \in Worker, SessionRevoked(w) PROVE TypeOK'
  <2>1. faults' \in Nat /\ upsets' \in Nat
    BY <1>26 DEF SessionRevoked, Fault, TypeOK
  <2>2. online' \in BOOLEAN
    BY <1>26 DEF SessionRevoked
  <2>3. job' \in [Worker -> Job]
    <3>1. job[w] \in Busy
      BY <1>26, BusyType DEF SessionRevoked, Calling
    <3>2. [job[w] EXCEPT !.ph = "lost"] \in Job
      BY <3>1 DEF Busy, Job
    <3> QED BY <1>26, <3>2 DEF SessionRevoked, TypeOK
  <2> QED BY <1>26, <2>1, <2>2, <2>3 DEF SessionRevoked, TypeOK
<1>14. ASSUME NEW w \in Worker, FileNotReady(w) PROVE TypeOK'
  <2>1. Postponed(FileWait) \in [Msg -> Row]
    BY PostponedType, OutboxAssumption
  <2> QED BY <1>14, <2>1, SettleType DEF FileNotReady, TypeOK
<1>15. ASSUME NEW w \in Worker, SendImpossible(w) PROVE TypeOK'
  BY <1>15, RetriedType, SettleType DEF SendImpossible, TypeOK
<1>16. ASSUME NEW w \in Worker, ForwardImpossible(w) PROVE TypeOK'
  BY <1>16, OutcomeType, SettleType DEF ForwardImpossible, Fault, TypeOK
<1>17. ASSUME NEW w \in Worker, FloodAnswer(w) PROVE TypeOK'
  <2>1. At(FloodWait) \in Nat
    BY AtType, OutboxAssumption
  <2>2. job' \in [Worker -> Job]
    <3>1. job[w] \in Busy
      BY <1>17, BusyType DEF FloodAnswer, Calling
    <3>2. [job[w] EXCEPT !.ph = "flood", !.until = At(FloodWait)] \in Job
      BY <2>1, <3>1 DEF Busy, Job
    <3> QED BY <1>17, <3>2 DEF FloodAnswer, TypeOK
  <2> QED BY <1>17, <2>1, <2>2 DEF FloodAnswer, Fault, TypeOK
<1>18. ASSUME NEW w \in Worker, FloodCommit(w) PROVE TypeOK'
  <2>1. At(FloodWait) \in Nat /\ job[w].until \in Nat
    BY AtType, BusyType, OutboxAssumption
  <2>2. row' \in [Msg -> Row]
    BY <1>18, <2>1 DEF FloodCommit, TypeOK, Row
  <2>3. job' \in [Worker -> Job]
    BY <1>18 DEF FloodCommit, TypeOK, Job, Busy
  <2>4. kept' \in [until : Nat, rows : SUBSET Msg]
    BY <1>18, <2>1 DEF FloodCommit
  <2> QED BY <1>18, <2>2, <2>3, <2>4 DEF FloodCommit, TypeOK
<1>19. ASSUME NEW w \in Worker, FloodDeadlock(w) PROVE TypeOK'
  BY <1>19 DEF FloodDeadlock, TypeOK, Job, Busy
<1>20. ASSUME NEW w \in Worker, SendCommit(w) PROVE TypeOK'
  BY <1>20, OutcomeType, SettleType DEF SendCommit, TypeOK
<1>21. ASSUME NEW w \in Worker, Rollback(w) PROVE TypeOK'
  BY <1>21 DEF Rollback, Upset, TypeOK, Job, Busy
<1>22. ASSUME NEW w \in Worker, Crash(w) PROVE TypeOK'
  <2>1. job' \in [Worker -> Job]
    BY <1>22 DEF Crash, TypeOK, Job, Busy
  <2> QED BY <1>22, <2>1 DEF Crash, Upset, TypeOK
<1>23. ASSUME NEW w \in Worker, LeaseMoves(w) PROVE TypeOK'
  BY <1>23 DEF LeaseMoves, Upset, TypeOK
<1>24. CASE Tick
  BY <1>24 DEF Tick, TypeOK
<1>25. CASE UNCHANGED vars
  BY <1>25 DEF vars, TypeOK
<1> QED
  BY <1>1, <1>2, <1>3, <1>4, <1>5, <1>6, <1>7, <1>8, <1>9, <1>10, <1>11,
     <1>12, <1>13, <1>14, <1>15, <1>16, <1>17, <1>18, <1>19, <1>20, <1>21,
     <1>22, <1>23, <1>24, <1>25, <1>26 DEF Next, Send, Asks, Writes

LEMMA TypeInit == ASSUME Init PROVE TypeOK
<1>1. row \in [Msg -> Row]
  BY DEF Init, NoRow, Row
<1>2. job \in [Worker -> Job]
  BY DEF Init, Job
<1>3. chat \in Seq(SUBSET Part)
  BY DEF Init
<1>4. retry \in [Msg -> [Tab -> Asked]]
  BY DEF Init, NoRetry, Asked
<1> QED BY <1>1, <1>2, <1>3, <1>4, OutboxAssumption DEF Init, TypeOK

(* Type correctness: rows keep a legal status and attempt count, an open   *)
(* transaction names real messages.                                        *)
THEOREM TypeCorrect == Spec => []TypeOK
<1> QED BY TypeInit, TypeStep, PTL DEF Spec

-----------------------------------------------------------------------------
(* The queue: what makes OneSender and RowMatchesMessage inductive.        *)

(* Only the rows of a forward are sent natively.                           *)
FwdBatch == \A m \in Msg : row[m].fwd => BatchOf[m] # 0

(* The claimed message is held; an ordinary message goes alone.            *)
GoesAlone ==
  \A w \in Worker : job[w].ph # "idle" =>
    /\ job[w].lead \in job[w].rows
    /\ \A x \in job[w].rows \cap Plain : job[w].rows = {x}

(* A retry request is about a posted message.  The only request for a      *)
(* message will find it, and the row it has read, as they were.            *)
Fresh ==
  \A m \in Msg : \A t \in Tab : retry[m][t] # NoRetry =>
    /\ row[m].st # "none"
    /\ m \notin doubled =>
         /\ msg[m] = "FAILED"
         /\ \A u \in Tab : retry[m][u] # NoRetry => u = t
         /\ retry[m][t].ph = "row" =>
              retry[m][t].st = row[m].st /\ retry[m][t].att = row[m].att

QueueInv ==
  /\ TypeOK
  /\ OneSender
  /\ RowMatchesMessage
  /\ FwdBatch
  /\ GoesAlone
  /\ Fresh

(* Only retry requests touch retry requests, and a message that was        *)
(* retried twice at once stays one that was.                               *)
LEMMA RetryMoves ==
  ASSUME [Next]_vars
  PROVE  \/ UNCHANGED <<retry, doubled>>
         \/ \E m \in Msg : Asks(m) \/ Writes(m)
  BY DEF Next, Send, vars, Post, FileSettles, StartDrain, EndDrain, Claim,
         StepAccepted, StepLost, StepRefused, StepImpossible, SessionRevoked,
         SessionLost, FileNotReady, SendImpossible, ForwardImpossible, FloodAnswer,
         FloodCommit, FloodDeadlock, SendCommit, Rollback, Crash, LeaseMoves,
         Reconnect, Tick, Asks, Writes

LEMMA DoubledGrows == ASSUME TypeOK, [Next]_vars PROVE doubled \subseteq doubled'
<1>1. ASSUME NEW m \in Msg, Asks(m) PROVE doubled \subseteq doubled'
  BY <1>1 DEF Asks, RetryRead, RetryReadRow, RetryAborted
<1>2. ASSUME NEW m \in Msg, Writes(m) PROVE doubled \subseteq doubled'
  BY <1>2, WritesOnly
<1> QED BY <1>1, <1>2, RetryMoves

(* Processes that only let rows go, or keep them as they are, keep the     *)
(* exclusion.                                                              *)
LEMMA StillOneSender ==
  ASSUME OneSender,
         \A w \in Worker : job'[w].rows \subseteq job[w].rows,
         \A w \in Worker : \A m \in job'[w].rows : row'[m].st = "PENDING"
  PROVE  OneSender'
  BY DEF OneSender, Pending

(* What Settle may write for a row that was due: it waits again, it is     *)
(* sent, or it failed.                                                     *)
Outcome(m, r) ==
  \/ r.st = "PENDING" /\ (m \notin doubled => r.att < MaxAttempts)
  \/ r.st = "FAILED"
  \/ r.st = "DONE"

LEMMA SettleQueue ==
  ASSUME QueueInv, NEW w \in Worker, NEW o \in [Msg -> Row], Settle(w, o),
         \A m \in job[w].rows : Outcome(m, o[m]), doubled \subseteq doubled',
         \A m \in job[w].rows : o[m].fwd => row[m].fwd
  PROVE  OneSender' /\ RowMatchesMessage' /\ FwdBatch' /\ GoesAlone'
<1> USE DEF QueueInv
<1>1. /\ job[w].rows \subseteq Msg
      /\ row \in [Msg -> Row] /\ msg \in [Msg -> {"none", "QUEUED", "SENT", "FAILED"}]
      /\ job \in [Worker -> Job]
  BY BusyType DEF TypeOK
<1>2. /\ job'[w] = Idle
      /\ \A v \in Worker \ {w} : job'[v] = job[v]
  BY <1>1 DEF Settle
<1>3. \A m \in Msg : /\ m \in job[w].rows => row'[m] = o[m]
                     /\ m \notin job[w].rows => row'[m] = row[m]
  BY DEF Settle
<1>4. OneSender'
  <2>1. \A v \in Worker : job'[v].rows \subseteq job[v].rows
    BY <1>2 DEF Idle
  <2>2. ASSUME NEW v \in Worker, NEW m \in job'[v].rows
        PROVE  row'[m].st = "PENDING"
    <3>1. v # w /\ m \in job[v].rows
      BY <1>2, <2>2 DEF Idle
    <3>2. m \notin job[w].rows /\ row[m].st = "PENDING" /\ m \in Msg
      BY <3>1, BusyType DEF OneSender, Pending
    <3> QED BY <1>3, <3>2
  <2> QED BY <2>1, <2>2, StillOneSender
<1>5. RowMatchesMessage'
  <2> SUFFICES ASSUME NEW m \in Msg
               PROVE  /\ msg'[m] = "none" <=> row'[m].st = "none"
                      /\ msg'[m] = "SENT" => row'[m].st = "DONE"
                      /\ msg'[m] = "FAILED" => row'[m].st = "FAILED"
                      /\ row'[m].st = "PENDING" => msg'[m] = "QUEUED"
                      /\ m \notin doubled' /\ msg'[m] = "QUEUED" =>
                           row'[m].st = "PENDING" /\ row'[m].att < MaxAttempts
    BY DEF RowMatchesMessage, Pending
  <2>1. CASE m \notin job[w].rows
    <3>1. row'[m] = row[m] /\ msg'[m] = msg[m]
      BY <1>3, <2>1 DEF Settle
    <3> QED BY <3>1 DEF RowMatchesMessage, Pending
  <2>2. CASE m \in job[w].rows
    <3>1. row[m].st = "PENDING" /\ row'[m] = o[m] /\ Outcome(m, o[m])
      BY <1>3, <2>2 DEF OneSender, Pending
    <3>2. msg[m] = "QUEUED"
      BY <3>1, <1>1 DEF RowMatchesMessage, Pending
    <3>3. msg'[m] = IF o[m].st = "FAILED" THEN "FAILED"
                    ELSE IF o[m].st = "DONE" THEN "SENT" ELSE "QUEUED"
      BY <2>2, <3>2 DEF Settle
    <3> QED BY <3>1, <3>3 DEF Outcome
  <2> QED BY <2>1, <2>2
<1>6. FwdBatch'
  BY <1>3 DEF FwdBatch
<1>7. GoesAlone'
  BY <1>2 DEF GoesAlone, Idle
<1> QED BY <1>4, <1>5, <1>6, <1>7

(* Every outcome the code writes is one of those.                          *)
LEMMA Outcomes ==
  ASSUME QueueInv, NEW w \in Worker, NEW m \in job[w].rows
  PROVE  /\ Outcome(m, Retried[m])   /\ Retried[m].fwd = row[m].fwd
         /\ Outcome(m, GivenUp[m])   /\ GivenUp[m].fwd = row[m].fwd
         /\ Outcome(m, Delivered[m]) /\ Delivered[m].fwd = row[m].fwd
         /\ Outcome(m, Copied[m])    /\ ~Copied[m].fwd
         /\ \A d \in Nat : /\ Outcome(m, Postponed(d)[m])
                           /\ Postponed(d)[m].fwd = row[m].fwd
<1> USE DEF QueueInv
<1>1. m \in Msg /\ row[m] \in Row
  BY BusyType DEF TypeOK
<1>2. /\ row[m].st = "PENDING" /\ row[m].att \in Nat
      /\ m \notin doubled => row[m].att < MaxAttempts
  BY <1>1 DEF OneSender, Pending, RowMatchesMessage, Row
<1>3. \A a \in Nat : Outcome(m, Failed(m, a)) /\ Failed(m, a).fwd = row[m].fwd
  BY <1>1, <1>2, OutboxAssumption DEF Failed, Outcome, Row
<1>4. Outcome(m, Retried[m]) /\ Retried[m].fwd = row[m].fwd
  BY <1>1, <1>2, <1>3 DEF Retried
<1>5. Outcome(m, GivenUp[m]) /\ GivenUp[m].fwd = row[m].fwd
  BY <1>1, <1>3, OutboxAssumption DEF GivenUp
<1>6. Outcome(m, Delivered[m]) /\ Delivered[m].fwd = row[m].fwd
  BY <1>1 DEF Delivered, Outcome, Row
<1>7. Outcome(m, Copied[m]) /\ ~Copied[m].fwd
  BY <1>1, <1>2 DEF Copied, Outcome, Row
<1>8. \A d \in Nat : Outcome(m, Postponed(d)[m]) /\ Postponed(d)[m].fwd = row[m].fwd
  BY <1>1, <1>2 DEF Postponed, Outcome, Row
<1> QED BY <1>4, <1>5, <1>6, <1>7, <1>8

(* The ways an attempt ends.                                               *)
LEMMA EndOfAttempt ==
  ASSUME QueueInv, doubled \subseteq doubled', NEW w \in Worker,
         \/ Settle(w, Retried) \/ Settle(w, GivenUp) \/ Settle(w, Delivered)
         \/ Settle(w, Copied) \/ Settle(w, Postponed(FileWait))
  PROVE  OneSender' /\ RowMatchesMessage' /\ FwdBatch' /\ GoesAlone'
<1>1. TypeOK /\ FileWait \in Nat
  BY OutboxAssumption DEF QueueInv
<1>2. CASE Settle(w, Retried)
  BY <1>1, <1>2, RetriedType, Outcomes, SettleQueue
<1>3. CASE Settle(w, GivenUp)
  BY <1>1, <1>3, RetriedType, Outcomes, SettleQueue
<1>4. CASE Settle(w, Delivered)
  BY <1>1, <1>4, OutcomeType, Outcomes, SettleQueue
<1>5. CASE Settle(w, Copied)
  BY <1>1, <1>5, OutcomeType, Outcomes, SettleQueue
<1>6. CASE Settle(w, Postponed(FileWait))
  BY <1>1, <1>6, PostponedType, Outcomes, SettleQueue
<1> QED BY <1>2, <1>3, <1>4, <1>5, <1>6

(* A transaction that rolls back gives its rows up as they were.           *)
LEMMA Released ==
  ASSUME QueueInv, UNCHANGED db, doubled \subseteq doubled', NEW w \in Worker,
         job' = [job EXCEPT ![w] = Idle]
  PROVE  OneSender' /\ RowMatchesMessage' /\ FwdBatch' /\ GoesAlone'
<1> USE DEF QueueInv, db
<1>1. /\ job'[w] = Idle
      /\ \A v \in Worker \ {w} : job'[v] = job[v]
  BY DEF TypeOK
<1>2. OneSender'
  <2>1. \A v \in Worker : job'[v].rows \subseteq job[v].rows
    BY <1>1 DEF Idle
  <2>2. \A v \in Worker : \A m \in job'[v].rows : row'[m].st = "PENDING"
    BY <2>1 DEF OneSender, Pending
  <2> QED BY <2>1, <2>2, StillOneSender
<1>3. RowMatchesMessage' /\ FwdBatch'
  BY DEF RowMatchesMessage, Pending, FwdBatch
<1>4. GoesAlone'
  BY <1>1 DEF GoesAlone, Idle
<1> QED BY <1>2, <1>3, <1>4

(* A step of the call keeps the rows and the leader of the attempt.        *)
LEMMA SameAttempts ==
  ASSUME QueueInv, UNCHANGED db, doubled \subseteq doubled',
         \A v \in Worker : /\ job'[v].rows = job[v].rows
                           /\ job'[v].lead = job[v].lead
                           /\ job'[v].ph # "idle" => job[v].ph # "idle"
  PROVE  OneSender' /\ RowMatchesMessage' /\ FwdBatch' /\ GoesAlone'
<1> USE DEF QueueInv, db
<1>1. OneSender'
  BY DEF OneSender, Pending
<1>2. RowMatchesMessage' /\ FwdBatch'
  BY DEF RowMatchesMessage, Pending, FwdBatch
<1>3. GoesAlone'
  BY DEF GoesAlone
<1> QED BY <1>1, <1>2, <1>3

LEMMA MarksStep ==
  ASSUME QueueInv, [Next]_vars
  PROVE  OneSender' /\ RowMatchesMessage' /\ FwdBatch' /\ GoesAlone'
<1>0. TypeOK /\ TypeOK' /\ doubled \subseteq doubled'
  BY TypeStep, DoubledGrows DEF QueueInv
<1>1. ASSUME NEW m \in Msg, Post(m)
      PROVE  OneSender' /\ RowMatchesMessage' /\ FwdBatch' /\ GoesAlone'
  <2>1. \A x \in Msg : /\ x \in Group(m) => row'[x] = NewRow(x) /\ msg'[x] = "QUEUED"
                       /\ x \notin Group(m) => row'[x] = row[x] /\ msg'[x] = msg[x]
    BY <1>1 DEF Post
  <2>2. \A x \in Msg : x \in Group(m) => row[x].st = "none"
    BY <1>1 DEF Post
  <2>3. job' = job
    BY <1>1 DEF Post
  <2>4. OneSender'
    <3>1. ASSUME NEW v \in Worker, NEW x \in job[v].rows PROVE row'[x].st = "PENDING"
      <4>1. x \in Msg /\ row[x].st = "PENDING"
        BY BusyType DEF QueueInv, OneSender, Pending
      <4> QED BY <2>1, <2>2, <4>1
    <3> QED BY <2>3, <3>1, StillOneSender DEF QueueInv
  <2>5. RowMatchesMessage'
    <3> SUFFICES ASSUME NEW x \in Msg
                 PROVE  /\ msg'[x] = "none" <=> row'[x].st = "none"
                        /\ msg'[x] = "SENT" => row'[x].st = "DONE"
                        /\ msg'[x] = "FAILED" => row'[x].st = "FAILED"
                        /\ row'[x].st = "PENDING" => msg'[x] = "QUEUED"
                        /\ x \notin doubled' /\ msg'[x] = "QUEUED" =>
                             row'[x].st = "PENDING" /\ row'[x].att < MaxAttempts
      BY DEF RowMatchesMessage, Pending
    <3>1. CASE x \in Group(m)
      <4>1. NewRow(x).st = "PENDING" /\ NewRow(x).att = 0
        BY DEF NewRow
      <4>2. 0 < MaxAttempts
        BY OutboxAssumption
      <4> QED BY <2>1, <3>1, <4>1, <4>2
    <3>2. CASE x \notin Group(m)
      BY <1>0, <2>1, <3>2 DEF QueueInv, RowMatchesMessage, Pending
    <3> QED BY <3>1, <3>2
  <2>6. FwdBatch'
    <3>1. \A x \in Msg : NewRow(x).fwd => BatchOf[x] # 0
      BY DEF NewRow
    <3> QED BY <2>1, <3>1 DEF QueueInv, FwdBatch
  <2>7. GoesAlone'
    BY <2>3 DEF QueueInv, GoesAlone
  <2> QED BY <2>4, <2>5, <2>6, <2>7
<1>2. ASSUME NEW m \in Msg, Writes(m)
      PROVE  OneSender' /\ RowMatchesMessage' /\ FwdBatch' /\ GoesAlone'
  <2>1. /\ row'[m].st \in {row[m].st, "PENDING"} /\ row'[m].fwd = row[m].fwd
        /\ msg'[m] = "QUEUED" /\ m \notin Locked /\ job' = job
        /\ \A x \in Msg \ {m} : row'[x] = row[x] /\ msg'[x] = msg[x]
    BY <1>0, <1>2, WritesOnly
  <2>2. PICK t \in Tab :
          /\ retry[m][t].ph = "row"
          /\ row'[m].st = IF retry[m][t].st = "PENDING" THEN row[m].st ELSE "PENDING"
          /\ row'[m].att = IF retry[m][t].att = 0 THEN row[m].att ELSE 0
    BY <1>0, <1>2, WritesOnly
  <2>3. row[m].st # "none" /\ retry[m][t] # NoRetry
    BY <2>2 DEF QueueInv, Fresh, NoRetry
  <2>4. OneSender'
    <3>1. ASSUME NEW v \in Worker, NEW x \in job[v].rows PROVE row'[x].st = "PENDING"
      <4>1. x \in Msg /\ row[x].st = "PENDING"
        BY <1>0, BusyType DEF QueueInv, OneSender, Pending
      <4> QED BY <2>1, <4>1
    <3> QED BY <2>1, <3>1, StillOneSender DEF QueueInv
  <2>5. m \notin doubled => row'[m].st = "PENDING" /\ row'[m].att = 0
    <3> SUFFICES ASSUME m \notin doubled PROVE row'[m].st = "PENDING" /\ row'[m].att = 0
      OBVIOUS
    <3>1. /\ msg[m] = "FAILED" /\ retry[m][t].st = row[m].st
          /\ retry[m][t].att = row[m].att
      BY <2>2, <2>3 DEF QueueInv, Fresh
    <3>2. row[m].st = "FAILED"
      BY <3>1 DEF QueueInv, RowMatchesMessage
    <3> QED BY <2>2, <3>1, <3>2
  <2>6. RowMatchesMessage'
    <3> SUFFICES ASSUME NEW x \in Msg
                 PROVE  /\ msg'[x] = "none" <=> row'[x].st = "none"
                        /\ msg'[x] = "SENT" => row'[x].st = "DONE"
                        /\ msg'[x] = "FAILED" => row'[x].st = "FAILED"
                        /\ row'[x].st = "PENDING" => msg'[x] = "QUEUED"
                        /\ x \notin doubled' /\ msg'[x] = "QUEUED" =>
                             row'[x].st = "PENDING" /\ row'[x].att < MaxAttempts
      BY DEF RowMatchesMessage, Pending
    <3>1. CASE x = m
      <4>1. 0 < MaxAttempts
        BY OutboxAssumption
      <4> QED BY <1>0, <2>1, <2>3, <2>5, <3>1, <4>1
    <3>2. CASE x # m
      BY <1>0, <2>1, <3>2 DEF QueueInv, RowMatchesMessage, Pending
    <3> QED BY <3>1, <3>2
  <2>7. FwdBatch'
    BY <2>1 DEF QueueInv, FwdBatch
  <2>8. GoesAlone'
    BY <2>1 DEF QueueInv, GoesAlone
  <2> QED BY <2>4, <2>6, <2>7, <2>8
<1>3. ASSUME NEW w \in Worker, NEW m \in Msg, Claim(w, m)
      PROVE  OneSender' /\ RowMatchesMessage' /\ FwdBatch' /\ GoesAlone'
  <2> DEFINE taken == {m} \cup (IF row[m].fwd THEN Siblings(m) ELSE {})
  <2>1. /\ job'[w].rows = taken /\ job'[w].lead = m
        /\ \A v \in Worker \ {w} : job'[v] = job[v]
    BY <1>0, <1>3 DEF Claim, TypeOK
  <2>2. UNCHANGED db
    BY <1>3 DEF Claim
  <2>3. \A x \in taken : /\ x \in Msg /\ Pending(x) /\ x \notin Locked
                         /\ x = m \/ (row[m].fwd /\ row[x].fwd)
    BY <1>3 DEF Claim, Due, Siblings
  <2>4. OneSender'
    <3> SUFFICES ASSUME NEW u \in Worker, NEW v \in Worker, NEW x \in job'[u].rows
                 PROVE  row'[x].st = "PENDING" /\ (x \in job'[v].rows => u = v)
      BY DEF OneSender, Pending
    <3> HIDE DEF taken
    <3>1. CASE u = w
      BY <2>1, <2>2, <2>3, <3>1 DEF db, Locked, Pending
    <3>2. CASE u # w
      <4>1. x \in job[u].rows /\ x \in Locked
        BY <2>1, <3>2 DEF Locked
      <4>2. x \notin taken
        BY <2>3, <4>1
      <4>3. row'[x].st = "PENDING"
        BY <2>2, <4>1 DEF db, QueueInv, OneSender, Pending
      <4>4. x \in job'[v].rows => u = v
        BY <2>1, <4>1, <4>2 DEF QueueInv, OneSender
      <4> QED BY <4>3, <4>4
    <3> QED BY <3>1, <3>2
  <2>5. RowMatchesMessage' /\ FwdBatch'
    BY <1>0, <2>2 DEF db, QueueInv, RowMatchesMessage, Pending, FwdBatch
  <2>6. GoesAlone'
    <3>1. \A x \in taken \cap Plain : taken = {x}
      BY <1>3, <2>3 DEF QueueInv, FwdBatch, Plain
    <3> HIDE DEF taken
    <3>2. m \in taken
      BY DEF taken
    <3> QED BY <2>1, <3>1, <3>2 DEF QueueInv, GoesAlone
  <2> QED BY <2>4, <2>5, <2>6
<1>4. ASSUME NEW w \in Worker, StepAccepted(w)
      PROVE  OneSender' /\ RowMatchesMessage' /\ FwdBatch' /\ GoesAlone'
  <2>1. \A v \in Worker : /\ job'[v].rows = job[v].rows
                          /\ job'[v].lead = job[v].lead
                          /\ job'[v].ph = job[v].ph
    BY <1>0, <1>4, BusyType DEF StepAccepted, Answering, Calling, TypeOK, Busy
  <2> QED BY <1>0, <1>4, <2>1, SameAttempts DEF StepAccepted
<1>5. ASSUME NEW w \in Worker, FloodAnswer(w)
      PROVE  OneSender' /\ RowMatchesMessage' /\ FwdBatch' /\ GoesAlone'
  <2>1. job[w] \in Busy
    BY <1>0, <1>5, BusyType DEF FloodAnswer, Calling
  <2>2. \A v \in Worker : /\ job'[v].rows = job[v].rows
                          /\ job'[v].lead = job[v].lead
                          /\ job'[v].ph # "idle" => job[v].ph # "idle"
    BY <1>0, <1>5, <2>1 DEF FloodAnswer, TypeOK, Busy
  <2> QED BY <1>0, <1>5, <2>2, SameAttempts DEF FloodAnswer
<1>13. ASSUME NEW w \in Worker, SessionRevoked(w)
      PROVE  OneSender' /\ RowMatchesMessage' /\ FwdBatch' /\ GoesAlone'
  <2>1. job[w] \in Busy
    BY <1>0, <1>13, BusyType DEF SessionRevoked, Calling
  <2>2. \A v \in Worker : /\ job'[v].rows = job[v].rows
                          /\ job'[v].lead = job[v].lead
                          /\ job'[v].ph # "idle" => job[v].ph # "idle"
    BY <1>0, <1>13, <2>1 DEF SessionRevoked, TypeOK, Busy
  <2> QED BY <1>0, <1>13, <2>2, SameAttempts DEF SessionRevoked
<1>6. ASSUME NEW w \in Worker, FloodCommit(w)
      PROVE  OneSender' /\ RowMatchesMessage' /\ FwdBatch' /\ GoesAlone'
  <2>1. \A x \in Msg : /\ row'[x].st = row[x].st /\ row'[x].att = row[x].att
                       /\ row'[x].fwd = row[x].fwd
    <3>1. row \in [Msg -> Row]
      BY <1>0 DEF TypeOK
    <3> QED BY <1>6, <3>1 DEF FloodCommit, Row
  <2>2. msg' = msg /\ job'[w] = Idle /\ \A v \in Worker \ {w} : job'[v] = job[v]
    BY <1>0, <1>6 DEF FloodCommit, TypeOK
  <2>3. OneSender'
    <3>1. \A v \in Worker : job'[v].rows \subseteq job[v].rows
      BY <2>2 DEF Idle
    <3>2. ASSUME NEW v \in Worker, NEW x \in job'[v].rows PROVE row'[x].st = "PENDING"
      <4>1. x \in Msg /\ row[x].st = "PENDING"
        BY <1>0, <3>1, BusyType DEF QueueInv, OneSender, Pending
      <4> QED BY <2>1, <4>1
    <3> QED BY <3>1, <3>2, StillOneSender DEF QueueInv
  <2>4. RowMatchesMessage' /\ FwdBatch'
    BY <1>0, <2>1, <2>2 DEF QueueInv, RowMatchesMessage, Pending, FwdBatch
  <2>5. GoesAlone'
    BY <2>2 DEF QueueInv, GoesAlone, Idle
  <2> QED BY <2>3, <2>4, <2>5
<1>7. ASSUME NEW w \in Worker,
             \/ StepLost(w) \/ StepRefused(w) \/ StepImpossible(w) \/ SessionLost(w)
             \/ FileNotReady(w) \/ SendImpossible(w) \/ ForwardImpossible(w)
             \/ SendCommit(w)
      PROVE  OneSender' /\ RowMatchesMessage' /\ FwdBatch' /\ GoesAlone'
  <2>1. \/ Settle(w, Retried) \/ Settle(w, GivenUp) \/ Settle(w, Delivered)
        \/ Settle(w, Copied) \/ Settle(w, Postponed(FileWait))
    BY <1>7 DEF StepLost, StepRefused, StepImpossible, SessionLost, FileNotReady,
                SendImpossible, ForwardImpossible, SendCommit
  <2> QED BY <1>0, <2>1, EndOfAttempt
<1>8. ASSUME NEW w \in Worker, Rollback(w) \/ Crash(w) \/ FloodDeadlock(w)
      PROVE  OneSender' /\ RowMatchesMessage' /\ FwdBatch' /\ GoesAlone'
  <2>1. UNCHANGED db /\ job' = [job EXCEPT ![w] = Idle]
    BY <1>8 DEF Rollback, Crash, FloodDeadlock
  <2> QED BY <1>0, <2>1, Released
<1>9. ASSUME UNCHANGED <<db, job>>
      PROVE  OneSender' /\ RowMatchesMessage' /\ FwdBatch' /\ GoesAlone'
  BY <1>0, <1>9, SameAttempts
<1>10. ASSUME NEW m \in Msg, Asks(m) \/ FileSettles(m) PROVE UNCHANGED <<db, job>>
  BY <1>10, AsksOnly DEF FileSettles, db
<1>11. ASSUME NEW w \in Worker, StartDrain(w) \/ EndDrain(w) \/ LeaseMoves(w)
       PROVE  UNCHANGED <<db, job>>
  BY <1>11 DEF StartDrain, EndDrain, LeaseMoves
<1>12. Reconnect \/ Tick \/ UNCHANGED vars => UNCHANGED <<db, job>>
  BY DEF Reconnect, Tick, vars, db
<1> QED
  BY <1>1, <1>2, <1>3, <1>4, <1>5, <1>6, <1>7, <1>8, <1>9, <1>10, <1>11, <1>12,
     <1>13 DEF Next, Send, Asks, Writes

(* How the status of a message can change.                                 *)
StatusMove(m) ==
  \/ msg'[m] = msg[m]
  \/ msg[m] = "none" /\ msg'[m] = "QUEUED"
  \/ msg[m] = "QUEUED" /\ msg'[m] \in {"SENT", "FAILED"}
  \/ Writes(m)

LEMMA SettleMoves ==
  ASSUME QueueInv, NEW w \in Worker, NEW o, Settle(w, o), NEW m \in Msg
  PROVE  StatusMove(m)
<1>1. ASSUME m \in job[w].rows PROVE msg[m] = "QUEUED"
  <2>1. row[m].st = "PENDING"
    BY <1>1 DEF QueueInv, OneSender, Pending
  <2>2. msg[m] \in {"none", "QUEUED", "SENT", "FAILED"}
    BY DEF QueueInv, TypeOK
  <2> QED BY <2>1, <2>2 DEF QueueInv, RowMatchesMessage, Pending
<1> QED BY <1>1 DEF Settle, StatusMove

LEMMA StatusMoves == ASSUME QueueInv, [Next]_vars PROVE \A m \in Msg : StatusMove(m)
<1>1. ASSUME NEW x \in Msg, Post(x) PROVE \A m \in Msg : StatusMove(m)
  BY <1>1 DEF Post, StatusMove, QueueInv, RowMatchesMessage
<1>2. ASSUME NEW x \in Msg, Writes(x) PROVE \A m \in Msg : StatusMove(m)
  <2>1. \A m \in Msg \ {x} : msg'[m] = msg[m]
    BY <1>2, WritesOnly DEF QueueInv
  <2> QED BY <1>2, <2>1 DEF StatusMove
<1>3. ASSUME NEW w \in Worker,
             \/ StepLost(w) \/ StepRefused(w) \/ StepImpossible(w) \/ SessionLost(w)
             \/ FileNotReady(w) \/ SendImpossible(w) \/ ForwardImpossible(w)
             \/ SendCommit(w)
      PROVE  \A m \in Msg : StatusMove(m)
  <2>1. PICK o : Settle(w, o)
    BY <1>3 DEF StepLost, StepRefused, StepImpossible, SessionLost, FileNotReady,
                SendImpossible, ForwardImpossible, SendCommit
  <2> QED BY <2>1, SettleMoves
<1>4. ASSUME msg' = msg PROVE \A m \in Msg : StatusMove(m)
  BY <1>4 DEF StatusMove
<1>5. ASSUME NEW m \in Msg, Asks(m) \/ FileSettles(m) PROVE msg' = msg
  BY <1>5, AsksOnly DEF FileSettles, db
<1>6. ASSUME NEW w \in Worker,
             \/ StartDrain(w) \/ EndDrain(w) \/ (\E m \in Msg : Claim(w, m))
             \/ StepAccepted(w) \/ SessionRevoked(w) \/ FloodAnswer(w)
             \/ FloodCommit(w) \/ FloodDeadlock(w) \/ Rollback(w) \/ Crash(w) \/ LeaseMoves(w)
      PROVE  msg' = msg
  BY <1>6 DEF StartDrain, EndDrain, Claim, StepAccepted, SessionRevoked, FloodAnswer,
              FloodCommit, FloodDeadlock, Rollback, Crash, LeaseMoves, db
<1>7. Reconnect \/ Tick \/ UNCHANGED vars => msg' = msg
  BY DEF Reconnect, Tick, vars, db
<1> QED BY <1>1, <1>2, <1>3, <1>4, <1>5, <1>6, <1>7 DEF Next, Send, Asks, Writes

(* Rows become native forwards when they are posted; the row of a message  *)
(* that failed is written by a retry only.                                 *)
LEMMA RowMoves ==
  ASSUME QueueInv, [Next]_vars, NEW m \in Msg
  PROVE  /\ row'[m].fwd => row[m].fwd \/ row[m].st = "none"
         /\ row'[m].st = "none" => row[m].st = "none"
         /\ msg[m] = "FAILED" /\ ~Writes(m) =>
              row'[m].st = row[m].st /\ row'[m].att = row[m].att
<1> DEFINE Moves == /\ row'[m].fwd => row[m].fwd \/ row[m].st = "none"
                    /\ row'[m].st = "none" => row[m].st = "none"
                    /\ msg[m] = "FAILED" /\ ~Writes(m) =>
                         row'[m].st = row[m].st /\ row'[m].att = row[m].att
<1>0. TypeOK /\ row[m] \in Row /\ (msg[m] = "FAILED" => row[m].st = "FAILED")
  BY DEF QueueInv, TypeOK, RowMatchesMessage
<1>1. ASSUME NEW x \in Msg, Post(x) PROVE Moves
  BY <1>0, <1>1 DEF Post, NewRow
<1>2. ASSUME NEW x \in Msg, Writes(x) PROVE Moves
  <2>1. CASE x = m
    <3>1. row[m].st # "none"
      BY <1>0, <1>2, <2>1, WritesOnly DEF QueueInv, Fresh, NoRetry
    <3> QED BY <1>0, <1>2, <2>1, <3>1, WritesOnly
  <2>2. CASE x # m
    BY <1>0, <1>2, <2>2, WritesOnly
  <2> QED BY <2>1, <2>2
<1>3. ASSUME NEW w \in Worker, FloodCommit(w) PROVE Moves
  BY <1>0, <1>3 DEF FloodCommit, Row
<1>4. ASSUME NEW w \in Worker,
             \/ Settle(w, Retried) \/ Settle(w, GivenUp) \/ Settle(w, Delivered)
             \/ Settle(w, Copied) \/ Settle(w, Postponed(FileWait))
      PROVE  Moves
  <2>1. CASE m \notin job[w].rows
    BY <1>4, <2>1 DEF Settle
  <2>2. CASE m \in job[w].rows
    <3>1. FileWait \in Nat
      BY OutboxAssumption
    <3>2. \A o \in {Retried, GivenUp, Delivered, Copied, Postponed(FileWait)} :
            Outcome(m, o[m]) /\ (o[m].fwd => row[m].fwd)
      BY <2>2, <3>1, Outcomes
    <3>3. PICK o \in {Retried, GivenUp, Delivered, Copied, Postponed(FileWait)} : row'[m] = o[m]
      BY <1>4, <2>2 DEF Settle
    <3>4. row[m].st = "PENDING"
      BY <2>2 DEF QueueInv, OneSender, Pending
    <3> QED BY <1>0, <3>2, <3>3, <3>4 DEF Outcome
  <2> QED BY <2>1, <2>2
<1>5. ASSUME NEW w \in Worker,
             \/ StepLost(w) \/ StepRefused(w) \/ StepImpossible(w) \/ SessionLost(w)
             \/ FileNotReady(w) \/ SendImpossible(w) \/ ForwardImpossible(w)
             \/ SendCommit(w)
      PROVE  Moves
  <2>1. \/ Settle(w, Retried) \/ Settle(w, GivenUp) \/ Settle(w, Delivered)
        \/ Settle(w, Copied) \/ Settle(w, Postponed(FileWait))
    BY <1>5 DEF StepLost, StepRefused, StepImpossible, SessionLost, FileNotReady,
                SendImpossible, ForwardImpossible, SendCommit
  <2> QED BY <1>4, <2>1
<1>6. ASSUME UNCHANGED row PROVE Moves
  BY <1>6
<1>7. ASSUME NEW x \in Msg, Asks(x) \/ FileSettles(x) PROVE UNCHANGED row
  BY <1>7, AsksOnly DEF FileSettles, db
<1>8. ASSUME NEW w \in Worker,
             \/ StartDrain(w) \/ EndDrain(w) \/ (\E x \in Msg : Claim(w, x))
             \/ StepAccepted(w) \/ SessionRevoked(w) \/ FloodAnswer(w)
             \/ FloodDeadlock(w) \/ Rollback(w) \/ Crash(w) \/ LeaseMoves(w)
      PROVE  UNCHANGED row
  BY <1>8 DEF StartDrain, EndDrain, Claim, StepAccepted, SessionRevoked, FloodAnswer,
              FloodDeadlock, Rollback, Crash, LeaseMoves, db
<1>9. Reconnect \/ Tick \/ UNCHANGED vars => UNCHANGED row
  BY DEF Reconnect, Tick, vars, db
<1> HIDE DEF Moves
<1>10. Moves
  BY <1>1, <1>2, <1>3, <1>5, <1>6, <1>7, <1>8, <1>9 DEF Next, Send, Asks, Writes
<1> QED BY <1>10 DEF Moves

LEMMA FreshStep == ASSUME QueueInv, [Next]_vars PROVE Fresh'
<1> SUFFICES ASSUME NEW m \in Msg, NEW t \in Tab, retry'[m][t] # NoRetry
             PROVE  /\ row'[m].st # "none"
                    /\ m \notin doubled' =>
                         /\ msg'[m] = "FAILED"
                         /\ \A u \in Tab : retry'[m][u] # NoRetry => u = t
                         /\ retry'[m][t].ph = "row" =>
                              /\ retry'[m][t].st = row'[m].st
                              /\ retry'[m][t].att = row'[m].att
  BY DEF Fresh
<1>0. /\ TypeOK /\ retry \in [Msg -> [Tab -> Asked]] /\ Fresh /\ RowMatchesMessage
      /\ doubled \subseteq doubled'
  BY DoubledGrows DEF QueueInv, TypeOK
<1>1. ASSUME retry'[m] = retry[m], ~Writes(m)
      PROVE  /\ row'[m].st # "none"
             /\ m \notin doubled' =>
                  /\ msg'[m] = "FAILED"
                  /\ \A u \in Tab : retry'[m][u] # NoRetry => u = t
                  /\ retry'[m][t].ph = "row" =>
                       /\ retry'[m][t].st = row'[m].st
                       /\ retry'[m][t].att = row'[m].att
  <2>1. row[m].st # "none" /\ row'[m].st # "none"
    BY <1>0, <1>1, RowMoves DEF Fresh
  <2> SUFFICES ASSUME m \notin doubled
               PROVE  /\ msg'[m] = "FAILED"
                      /\ \A u \in Tab : retry'[m][u] # NoRetry => u = t
                      /\ retry'[m][t].ph = "row" =>
                           /\ retry'[m][t].st = row'[m].st
                           /\ retry'[m][t].att = row'[m].att
    BY <1>0, <2>1
  <2>2. /\ msg[m] = "FAILED" /\ \A u \in Tab : retry[m][u] # NoRetry => u = t
        /\ retry[m][t].ph = "row" =>
             retry[m][t].st = row[m].st /\ retry[m][t].att = row[m].att
    BY <1>0, <1>1 DEF Fresh
  <2>3. msg'[m] = "FAILED"
    BY <1>1, <2>2, StatusMoves DEF StatusMove
  <2>4. row'[m].st = row[m].st /\ row'[m].att = row[m].att
    BY <1>1, <2>2, RowMoves
  <2> QED BY <1>1, <2>2, <2>3, <2>4
<1>2. CASE UNCHANGED <<retry, doubled>>
  <2>1. ~Writes(m)
    <3> SUFFICES ASSUME Writes(m) PROVE FALSE
      OBVIOUS
    <3>1. PICK u \in Tab : retry[m][u].ph = "row" /\ retry' = [retry EXCEPT ![m][u] = NoRetry]
      BY <1>0, WritesOnly
    <3> QED BY <1>0, <1>2, <3>1 DEF NoRetry
  <2> QED BY <1>1, <1>2, <2>1
<1>3. ASSUME NEW x \in Msg, Asks(x)
      PROVE  /\ row'[m].st # "none"
             /\ m \notin doubled' =>
                  /\ msg'[m] = "FAILED"
                  /\ \A u \in Tab : retry'[m][u] # NoRetry => u = t
                  /\ retry'[m][t].ph = "row" =>
                       /\ retry'[m][t].st = row'[m].st
                       /\ retry'[m][t].att = row'[m].att
  <2>1. row' = row /\ msg' = msg
    BY <1>3, AsksOnly
  <2>2. PICK v \in Tab : RetryRead(x, v) \/ RetryReadRow(x, v) \/ RetryAborted(x, v)
    BY <1>3 DEF Asks
  <2>3. CASE x # m
    <3>1. retry'[m] = retry[m]
      BY <1>0, <2>2, <2>3 DEF RetryRead, RetryReadRow, RetryAborted
    <3> QED BY <1>0, <2>1, <3>1 DEF Fresh
  <2>4. CASE x = m /\ RetryRead(m, v)
    <3>1. msg[m] = "FAILED" /\ row[m].st = "FAILED"
      BY <1>0, <2>4 DEF RetryRead, RowMatchesMessage
    <3>2. /\ retry'[m][v] = [NoRetry EXCEPT !.ph = "message"]
          /\ \A u \in Tab \ {v} : retry'[m][u] = retry[m][u]
      BY <1>0, <2>4 DEF RetryRead
    <3>3. m \notin doubled' => \A u \in Tab \ {v} : retry[m][u] = NoRetry
      BY <2>4 DEF RetryRead
    <3>4. m \notin doubled' => t = v /\ retry'[m][t].ph = "message"
      BY <3>2, <3>3 DEF NoRetry
    <3> QED BY <2>1, <3>1, <3>2, <3>3, <3>4
  <2>5. CASE x = m /\ (RetryReadRow(m, v) \/ RetryAborted(m, v))
    <3>1. /\ retry[m][v].ph \in {"message", "row"} /\ doubled' = doubled
          /\ \A u \in Tab \ {v} : retry'[m][u] = retry[m][u]
          /\ retry'[m][v] \in {NoRetry, [ph |-> "row", st |-> row[m].st, att |-> row[m].att]}
      BY <1>0, <2>5 DEF RetryReadRow, RetryAborted
    <3>2. retry[m][v] # NoRetry
      BY <3>1 DEF NoRetry
    <3>3. row[m].st # "none" /\ (m \notin doubled => msg[m] = "FAILED")
      BY <1>0, <3>2 DEF Fresh
    <3>4. m \notin doubled => \A u \in Tab : retry'[m][u] # NoRetry => u = v
      BY <1>0, <3>1, <3>2 DEF Fresh
    <3>5. m \notin doubled =>
            t = v /\ retry'[m][t] = [ph |-> "row", st |-> row[m].st, att |-> row[m].att]
      BY <3>1, <3>4
    <3> QED BY <2>1, <3>1, <3>3, <3>4, <3>5
  <2> QED BY <2>2, <2>3, <2>4, <2>5
<1>4. ASSUME NEW x \in Msg, Writes(x)
      PROVE  /\ row'[m].st # "none"
             /\ m \notin doubled' =>
                  /\ msg'[m] = "FAILED"
                  /\ \A u \in Tab : retry'[m][u] # NoRetry => u = t
                  /\ retry'[m][t].ph = "row" =>
                       /\ retry'[m][t].st = row'[m].st
                       /\ retry'[m][t].att = row'[m].att
  <2>1. PICK v \in Tab : retry[x][v].ph = "row" /\ retry' = [retry EXCEPT ![x][v] = NoRetry]
    BY <1>0, <1>4, WritesOnly
  <2>2. CASE x # m
    <3>1. /\ retry'[m] = retry[m] /\ row'[m] = row[m] /\ msg'[m] = msg[m]
          /\ doubled' = doubled
      BY <1>0, <1>4, <2>1, <2>2, WritesOnly
    <3> QED BY <1>0, <3>1 DEF Fresh
  <2>3. CASE x = m
    <3>1. /\ retry[m][v] # NoRetry /\ retry'[m][v] = NoRetry
          /\ \A u \in Tab \ {v} : retry'[m][u] = retry[m][u]
      BY <1>0, <2>1, <2>3 DEF NoRetry
    <3>2. t # v /\ retry[m][t] # NoRetry
      BY <3>1
    <3>3. row'[m].st # "none"
      BY <1>0, <3>2, RowMoves DEF Fresh
    <3>4. m \in doubled
      BY <1>0, <3>1, <3>2 DEF Fresh
    <3> QED BY <1>0, <3>3, <3>4
  <2> QED BY <2>2, <2>3
<1> QED BY <1>2, <1>3, <1>4, RetryMoves

LEMMA QueueStep == ASSUME QueueInv, [Next]_vars PROVE QueueInv'
  BY TypeStep, MarksStep, FreshStep DEF QueueInv

LEMMA QueueInit == ASSUME Init PROVE QueueInv
<1>1. OneSender /\ GoesAlone
  BY DEF Init, Idle, OneSender, GoesAlone
<1>2. RowMatchesMessage /\ FwdBatch
  BY DEF Init, NoRow, RowMatchesMessage, Pending, FwdBatch
<1>3. Fresh
  BY DEF Init, Fresh
<1> QED BY <1>1, <1>2, <1>3, TypeInit DEF QueueInv

LEMMA QueueCorrect == Spec => []QueueInv
<1> QED BY QueueInit, QueueStep, PTL DEF Spec

(* No two processes ever hold one row, however the lease moves and however *)
(* long a drain outlives it.                                               *)
THEOREM Exclusion == Spec => []OneSender
<1>1. QueueInv => OneSender
  BY DEF QueueInv
<1> QED BY <1>1, QueueCorrect, PTL

(* The clock, tick and cross the manager sees match the queue row, the     *)
(* clock of a message that was retried twice at once excepted.             *)
THEOREM Agreement == Spec => []RowMatchesMessage
<1>1. QueueInv => RowMatchesMessage
  BY DEF QueueInv
<1> QED BY <1>1, QueueCorrect, PTL

-----------------------------------------------------------------------------
(* The client's side: what makes ShownOnce inductive.                      *)

(* Telegram knows the random id of a part exactly when the client has it.  *)
SeenShown ==
  \A m \in Plain : \A s \in Nat : <<m, s, 0>> \in seen <=> Shown(<<m, s>>)

(* Each part is in one request of the history.                             *)
Once ==
  \A m \in Plain : \A s \in Nat : \A i, j \in DOMAIN chat :
    <<m, s>> \in chat[i] /\ <<m, s>> \in chat[j] => i = j

(* An attempt at step n has seen the n parts before to the client, in this *)
(* attempt or in an earlier one.                                           *)
Progress ==
  \A w \in Worker : job[w].ph # "idle" /\ job[w].lead \in Plain =>
    \A s \in Nat : s < job[w].step => Shown(<<job[w].lead, s>>)

ChatInv ==
  /\ SeenShown
  /\ Once
  /\ Progress
  /\ PartsInOrder
  /\ SentIsShown

(* What a request means for ordinary messages: it carries one part of the  *)
(* claimed message, under the id of that part.                             *)
LEMMA PlainRequest ==
  ASSUME QueueInv, NEW w \in Worker, job[w].ph = "calling"
  PROVE  /\ job[w].lead \in Msg /\ job[w].step \in Nat
         /\ \A m \in Plain : \A s \in Nat :
              /\ <<m, s>> \in RequestParts(w) <=> m = job[w].lead /\ s = job[w].step
              /\ <<m, s, 0>> \in RequestIds(w) <=> m = job[w].lead /\ s = job[w].step
         /\ job[w].lead \in Plain => RequestIds(w) = {<<job[w].lead, job[w].step, 0>>}
<1>1. job[w].lead \in Msg /\ job[w].step \in Nat /\ job[w].lead \in job[w].rows
  BY BusyType DEF QueueInv, GoesAlone, Busy
<1>2. \A x \in job[w].rows \cap Plain : job[w].rows = {x} /\ x = job[w].lead
  BY <1>1 DEF QueueInv, GoesAlone
<1>3. Item(w, job[w].lead) = 0
  BY DEF Item, Lead
<1>4. ASSUME NEW m \in Plain, NEW s \in Nat
      PROVE  <<m, s>> \in RequestParts(w) <=> m = job[w].lead /\ s = job[w].step
  BY <1>1, <1>2 DEF RequestParts
<1>5. ASSUME NEW m \in Plain, NEW s \in Nat
      PROVE  <<m, s, 0>> \in RequestIds(w) <=> m = job[w].lead /\ s = job[w].step
  BY <1>1, <1>3 DEF RequestIds, StepRandomId, Lead
<1>6. job[w].lead \in Plain => RequestIds(w) = {<<job[w].lead, job[w].step, 0>>}
  BY <1>1, <1>2, <1>3 DEF RequestIds, StepRandomId, Lead
<1> QED BY <1>1, <1>4, <1>5, <1>6

(* The history grows at its end.                                           *)
LEMMA Grown ==
  ASSUME TypeOK, NEW e \in SUBSET Part, chat' = Append(chat, e)
  PROVE  /\ Len(chat) \in Nat
         /\ DOMAIN chat = 1..Len(chat)
         /\ DOMAIN chat' = 1..(Len(chat) + 1)
         /\ \A i \in DOMAIN chat : chat'[i] = chat[i]
         /\ chat'[Len(chat) + 1] = e
  BY DEF TypeOK

(* A call that Telegram takes: an accepted id is a part shown for the first*)
(* time, a known id is a part shown before.                                *)
LEMMA CallTaken ==
  ASSUME QueueInv, ChatInv, NEW w \in Worker, job[w].ph = "calling", Accept(w)
  PROVE  /\ SeenShown' /\ Once' /\ PartsInOrder'
         /\ \A p : Shown(p) => Shown(p)'
         /\ \A m \in Plain : \A s \in Nat :
              m = job[w].lead /\ s = job[w].step => Shown(<<m, s>>)'
<1> DEFINE lead == job[w].lead
           step == job[w].step
           n == Len(chat) + 1
<1> USE DEF ChatInv
<1>1. TypeOK /\ lead \in Msg /\ step \in Nat
  BY PlainRequest DEF QueueInv
<1>2. CASE ~(RequestIds(w) \cap seen = {})
  <2>1. UNCHANGED <<chat, seen>>
    BY <1>2 DEF Accept
  <2>2. SeenShown' /\ Once' /\ PartsInOrder' /\ \A p : Shown(p) => Shown(p)'
    BY <2>1 DEF SeenShown, Once, PartsInOrder, Shown
  <2>3. ASSUME NEW m \in Plain, NEW s \in Nat, m = lead, s = step
        PROVE  Shown(<<m, s>>)'
    <3>1. <<m, s, 0>> \in seen
      BY <1>2, <2>3, PlainRequest
    <3>2. Shown(<<m, s>>)
      BY <3>1 DEF SeenShown
    <3> QED BY <2>1, <3>2 DEF Shown
  <2> QED BY <2>2, <2>3
<1>3. CASE RequestIds(w) \cap seen = {}
  <2> DEFINE parts == RequestParts(w)
  <2>1. chat' = Append(chat, parts) /\ seen' = seen \cup RequestIds(w)
    BY <1>3 DEF Accept
  <2>2. parts \in SUBSET Part
    BY <1>1, BusyType DEF RequestParts, Part
  <2>3. /\ n \in Nat /\ DOMAIN chat = 1..(n - 1) /\ DOMAIN chat' = 1..n
        /\ \A i \in DOMAIN chat : i \in DOMAIN chat' /\ i < n /\ chat'[i] = chat[i]
        /\ n \in DOMAIN chat' /\ chat'[n] = parts
        /\ \A i \in DOMAIN chat' : i \in DOMAIN chat \/ i = n
    BY <1>1, <2>1, <2>2, Grown
  <2> HIDE DEF n, parts
  <2>4. \A p : Shown(p)' <=> Shown(p) \/ p \in parts
    BY <2>3 DEF Shown
  <2>5. \A m \in Plain : \A s \in Nat :
          /\ <<m, s>> \in parts <=> m = lead /\ s = step
          /\ <<m, s, 0>> \in RequestIds(w) <=> m = lead /\ s = step
    BY PlainRequest DEF parts
  <2>6. \A m \in Plain : \A s \in Nat : <<m, s>> \in parts => ~Shown(<<m, s>>)
    BY <1>3, <2>5 DEF SeenShown
  <2>7. SeenShown'
    BY <2>1, <2>4, <2>5 DEF SeenShown
  <2>8. Once'
    <3> SUFFICES ASSUME NEW m \in Plain, NEW s \in Nat,
                        NEW i \in DOMAIN chat', NEW j \in DOMAIN chat',
                        <<m, s>> \in chat'[i], <<m, s>> \in chat'[j]
                 PROVE  i = j
      BY DEF Once
    <3>1. CASE i \in DOMAIN chat /\ j \in DOMAIN chat
      BY <2>3, <3>1 DEF Once
    <3>2. CASE i = n \/ j = n
      <4>1. <<m, s>> \in parts
        BY <2>3, <3>2
      <4>2. i \notin DOMAIN chat /\ j \notin DOMAIN chat
        BY <2>3, <2>6, <4>1 DEF Shown
      <4> QED BY <2>3, <4>2
    <3> QED BY <2>3, <3>1, <3>2
  <2>9. PartsInOrder'
    <3> SUFFICES ASSUME NEW m \in Plain, NEW i \in DOMAIN chat',
                        NEW s \in 1..PartsOf[m], <<m, s>> \in chat'[i]
                 PROVE  \E j \in DOMAIN chat' : j < i /\ <<m, s - 1>> \in chat'[j]
      BY DEF PartsInOrder
    <3>1. CASE i \in DOMAIN chat
      <4>1. PICK j \in DOMAIN chat : j < i /\ <<m, s - 1>> \in chat[j]
        BY <2>3, <3>1 DEF PartsInOrder
      <4> QED BY <2>3, <4>1
    <3>2. CASE i = n
      <4>1. s \in Nat /\ s - 1 \in Nat /\ s - 1 < s
        BY OutboxAssumption DEF Plain
      <4>2. m = lead /\ s = step
        BY <2>3, <2>5, <3>2, <4>1
      <4>3. Shown(<<m, s - 1>>)
        BY <4>1, <4>2 DEF Progress
      <4> QED BY <2>3, <3>2, <4>3 DEF Shown
    <3> QED BY <2>3, <3>1, <3>2
  <2>10. ASSUME NEW m \in Plain, NEW s \in Nat, m = lead, s = step
         PROVE  Shown(<<m, s>>)'
    <3>1. <<m, s>> \in parts
      BY <2>5, <2>10
    <3> QED BY <2>4, <3>1
  <2> QED BY <2>4, <2>7, <2>8, <2>9, <2>10
<1> QED BY <1>2, <1>3

(* An attempt that goes on has kept its place, or made the next call, or   *)
(* is new.                                                                 *)
Continues(v) ==
  \/ job'[v].ph = "idle"
  \/ job'[v].step = 0
  \/ /\ job[v].ph # "idle" /\ job'[v].lead = job[v].lead
     /\ job'[v].step = job[v].step
  \/ /\ job[v].ph = "calling" /\ Accept(v) /\ job'[v].lead = job[v].lead
     /\ job'[v].step = job[v].step + 1

(* Reported as sent: before, or now by a sender that made every call.      *)
Reported(m) ==
  \/ msg[m] = "SENT"
  \/ \E w \in Worker : /\ job[w].ph = "calling" /\ job[w].step = Calls(w)
                       /\ m \in job[w].rows /\ UNCHANGED <<chat, seen>>

(* Idle processes, and processes whose attempt is as it was, continue.     *)
LEMMA OthersContinue ==
  ASSUME TypeOK, NEW w \in Worker,
         job' = job \/ job' = [job EXCEPT ![w] = Idle]
  PROVE  \A v \in Worker : Continues(v)
<1>1. CASE job' = job
  BY <1>1 DEF Continues
<1>2. CASE job' = [job EXCEPT ![w] = Idle]
  <2>1. job'[w] = Idle /\ \A v \in Worker \ {w} : job'[v] = job[v]
    BY <1>2 DEF TypeOK
  <2> QED BY <2>1 DEF Continues, Idle
<1> QED BY <1>1, <1>2

(* Only Delivered reports a row as sent.                                   *)
LEMMA NotDone ==
  ASSUME QueueInv, NEW w \in Worker, NEW m \in job[w].rows
  PROVE  \A o \in {Retried, GivenUp, Copied, Postponed(FileWait)} : o[m].st # "DONE"
<1>1. m \in Msg /\ row[m] \in Row /\ row[m].st = "PENDING"
  BY BusyType DEF QueueInv, TypeOK, OneSender, Pending
<1>2. \A a \in Nat : Failed(m, a).st # "DONE"
  BY <1>1 DEF Failed, Row
<1>3. Retried[m].st # "DONE" /\ GivenUp[m].st # "DONE"
  <2>1. row[m].att + 1 \in Nat /\ MaxAttempts \in Nat
    BY <1>1, OutboxAssumption DEF Row
  <2> QED BY <1>1, <1>2, <2>1 DEF Retried, GivenUp
<1>4. Copied[m].st # "DONE" /\ Postponed(FileWait)[m].st # "DONE"
  BY <1>1 DEF Copied, Postponed, Row
<1> QED BY <1>3, <1>4

LEMMA NotSent ==
  ASSUME QueueInv, NEW w \in Worker, NEW m \in Msg, msg'[m] = "SENT",
         \E o \in {Retried, GivenUp, Copied, Postponed(FileWait)} : Settle(w, o)
  PROVE  msg[m] = "SENT"
<1>1. PICK o \in {Retried, GivenUp, Copied, Postponed(FileWait)} : Settle(w, o)
  OBVIOUS
<1>2. m \in job[w].rows => o[m].st # "DONE"
  BY NotDone
<1> QED BY <1>1, <1>2 DEF Settle

(* What a step can do to the client's side.                                *)
LEMMA ChatEffect ==
  ASSUME QueueInv, [Next]_vars
  PROVE  /\ \/ UNCHANGED <<chat, seen>>
            \/ \E w \in Worker : job[w].ph = "calling" /\ Accept(w)
         /\ \A v \in Worker : Continues(v)
         /\ \A m \in Msg : msg'[m] = "SENT" => Reported(m)
<1> DEFINE Effect ==
      /\ \/ UNCHANGED <<chat, seen>>
         \/ \E w \in Worker : job[w].ph = "calling" /\ Accept(w)
      /\ \A v \in Worker : Continues(v)
      /\ \A m \in Msg : msg'[m] = "SENT" => Reported(m)
<1>0. TypeOK
  BY DEF QueueInv
<1>1. ASSUME NEW m \in Msg, Post(m) \/ Writes(m) \/ Asks(m) \/ FileSettles(m)
      PROVE  Effect
  <2>1. UNCHANGED <<chat, seen, job>>
    BY <1>0, <1>1, WritesOnly, AsksOnly DEF Post, FileSettles, telegram
  <2>2. \A x \in Msg : msg'[x] = msg[x] \/ msg'[x] = "QUEUED"
    <3>1. CASE Writes(m)
      BY <1>0, <3>1, WritesOnly
    <3>2. CASE Post(m) \/ Asks(m) \/ FileSettles(m)
      BY <1>0, <3>2, AsksOnly DEF Post, FileSettles, db, TypeOK
    <3> QED BY <1>1, <3>1, <3>2
  <2>3. \A v \in Worker : Continues(v)
    BY <2>1 DEF Continues
  <2> QED BY <2>1, <2>2, <2>3 DEF Reported
<1>2. ASSUME NEW w \in Worker, NEW m \in Msg, Claim(w, m)
      PROVE  Effect
  <2>1. UNCHANGED <<chat, seen, msg>>
    BY <1>2 DEF Claim, telegram, db
  <2>2. job'[w].step = 0 /\ \A v \in Worker \ {w} : job'[v] = job[v]
    BY <1>0, <1>2 DEF Claim, TypeOK
  <2> QED BY <2>1, <2>2 DEF Continues, Reported
<1>3. ASSUME NEW w \in Worker, StepAccepted(w)
      PROVE  Effect
  <2>1. job[w].ph = "calling" /\ Accept(w) /\ msg' = msg
    BY <1>3 DEF StepAccepted, Answering, Calling, db
  <2>2. job[w] \in Busy
    BY <1>0, <2>1, BusyType
  <2>3. /\ job'[w].lead = job[w].lead /\ job'[w].step = job[w].step + 1
        /\ \A v \in Worker \ {w} : job'[v] = job[v]
    BY <1>0, <1>3, <2>2 DEF StepAccepted, TypeOK, Busy
  <2> QED BY <2>1, <2>3 DEF Continues, Reported
<1>4. ASSUME NEW w \in Worker, StepLost(w)
      PROVE  Effect
  <2>1. job[w].ph = "calling" /\ Accept(w) /\ Settle(w, Retried)
    BY <1>4 DEF StepLost, Answering, Calling
  <2>2. \A v \in Worker : Continues(v)
    BY <1>0, <2>1, OthersContinue DEF Settle
  <2> QED BY <2>1, <2>2, NotSent DEF Reported
<1>5. ASSUME NEW w \in Worker,
             \/ StepRefused(w) \/ StepImpossible(w) \/ SessionLost(w)
             \/ FileNotReady(w) \/ SendImpossible(w) \/ ForwardImpossible(w)
      PROVE  Effect
  <2>1. UNCHANGED <<chat, seen>>
    BY <1>5 DEF StepRefused, StepImpossible, SessionLost, FileNotReady,
                SendImpossible, ForwardImpossible, telegram
  <2>2. \E o \in {Retried, GivenUp, Copied, Postponed(FileWait)} : Settle(w, o)
    BY <1>5 DEF StepRefused, StepImpossible, SessionLost, FileNotReady,
                SendImpossible, ForwardImpossible
  <2>3. \A v \in Worker : Continues(v)
    BY <1>0, <2>2, OthersContinue DEF Settle
  <2> QED BY <2>1, <2>2, <2>3, NotSent DEF Reported
<1>6. ASSUME NEW w \in Worker, SendCommit(w)
      PROVE  Effect
  <2>1. /\ UNCHANGED <<chat, seen>> /\ Settle(w, Delivered)
        /\ job[w].ph = "calling" /\ job[w].step = Calls(w)
    BY <1>6 DEF SendCommit, telegram
  <2>2. \A v \in Worker : Continues(v)
    BY <1>0, <2>1, OthersContinue DEF Settle
  <2>3. ASSUME NEW m \in Msg, msg'[m] = "SENT" PROVE Reported(m)
    <3>1. m \in job[w].rows \/ msg[m] = "SENT"
      BY <2>1, <2>3 DEF Settle
    <3> QED BY <2>1, <3>1 DEF Reported
  <2> QED BY <2>1, <2>2, <2>3
<1>7. ASSUME NEW w \in Worker, FloodAnswer(w) \/ SessionRevoked(w)
      PROVE  Effect
  <2>1. UNCHANGED <<chat, seen, msg>>
    BY <1>7 DEF FloodAnswer, SessionRevoked, db, telegram
  <2>2. job[w].ph # "idle" /\ job[w] \in Busy
    BY <1>0, <1>7, BusyType DEF FloodAnswer, SessionRevoked, Calling
  <2>3. /\ job'[w].lead = job[w].lead /\ job'[w].step = job[w].step
        /\ \A v \in Worker \ {w} : job'[v] = job[v]
    BY <1>0, <1>7, <2>2 DEF FloodAnswer, SessionRevoked, TypeOK, Busy
  <2> QED BY <2>1, <2>2, <2>3 DEF Continues, Reported
<1>8. ASSUME NEW w \in Worker,
             FloodCommit(w) \/ FloodDeadlock(w) \/ Rollback(w) \/ Crash(w)
      PROVE  Effect
  <2>1. UNCHANGED <<chat, seen, msg>> /\ job' = [job EXCEPT ![w] = Idle]
    BY <1>8 DEF FloodCommit, FloodDeadlock, Rollback, Crash, db, telegram
  <2>2. \A v \in Worker : Continues(v)
    BY <1>0, <2>1, OthersContinue
  <2> QED BY <2>1, <2>2 DEF Reported
<1>9. ASSUME UNCHANGED <<chat, seen, msg, job>> PROVE Effect
  BY <1>9 DEF Continues, Reported
<1>10. ASSUME NEW w \in Worker, StartDrain(w) \/ EndDrain(w) \/ LeaseMoves(w)
       PROVE  UNCHANGED <<chat, seen, msg, job>>
  BY <1>10 DEF StartDrain, EndDrain, LeaseMoves, db, telegram
<1>11. Reconnect \/ Tick \/ UNCHANGED vars => UNCHANGED <<chat, seen, msg, job>>
  BY DEF Reconnect, Tick, vars, db, telegram
<1> HIDE DEF Effect
<1>12. Effect
  BY <1>1, <1>2, <1>3, <1>4, <1>5, <1>6, <1>7, <1>8, <1>9, <1>10, <1>11
  DEF Next, Send, Asks, Writes
<1> QED BY <1>12 DEF Effect

LEMMA ChatStep == ASSUME QueueInv, ChatInv, [Next]_vars PROVE ChatInv'
<1>1. TypeOK /\ QueueInv'
  BY QueueStep DEF QueueInv
<1>2. /\ SeenShown' /\ Once' /\ PartsInOrder'
      /\ \A p : Shown(p) => Shown(p)'
  <2>1. CASE UNCHANGED <<chat, seen>>
    BY <2>1 DEF ChatInv, SeenShown, Once, PartsInOrder, Shown
  <2>2. CASE \E w \in Worker : job[w].ph = "calling" /\ Accept(w)
    BY <2>2, CallTaken
  <2> QED BY <2>1, <2>2, ChatEffect
<1>3. Progress'
  <2> SUFFICES ASSUME NEW v \in Worker, job'[v].ph # "idle", job'[v].lead \in Plain,
                      NEW s \in Nat, s < job'[v].step
               PROVE  \A m \in Plain : m = job'[v].lead => Shown(<<m, s>>)'
    BY DEF Progress
  <2>0. Continues(v)
    BY ChatEffect
  <2>1. CASE job'[v].step = 0
    BY <2>1
  <2>2. CASE job[v].ph # "idle" /\ job'[v].lead = job[v].lead /\ job'[v].step = job[v].step
    <3>1. \A m \in Plain : m = job[v].lead => Shown(<<m, s>>)
      BY <2>2 DEF ChatInv, Progress
    <3> QED BY <1>2, <2>2, <3>1
  <2>3. CASE /\ job[v].ph = "calling" /\ Accept(v) /\ job'[v].lead = job[v].lead
             /\ job'[v].step = job[v].step + 1
    <3>1. job[v].step \in Nat
      BY <2>3, PlainRequest
    <3>2. CASE s = job[v].step
      BY <2>3, <3>2, CallTaken
    <3>3. CASE s < job[v].step
      <4>1. \A m \in Plain : m = job[v].lead => Shown(<<m, s>>)
        BY <2>3, <3>3 DEF ChatInv, Progress
      <4> QED BY <1>2, <2>3, <4>1
    <3> QED BY <2>3, <3>1, <3>2, <3>3
  <2> QED BY <2>0, <2>1, <2>2, <2>3 DEF Continues
<1>4. SentIsShown'
  <2> SUFFICES ASSUME NEW m \in Plain, msg'[m] = "SENT",
                      NEW s \in 0..(PartsOf[m] - 1)
               PROVE  Shown(<<m, s>>)'
    BY DEF SentIsShown
  <2>1. CASE msg[m] = "SENT"
    <3>1. Shown(<<m, s>>)
      BY <2>1 DEF ChatInv, SentIsShown
    <3> QED BY <1>2, <3>1
  <2>2. ASSUME NEW w \in Worker, job[w].ph = "calling", job[w].step = Calls(w),
               m \in job[w].rows
        PROVE  Shown(<<m, s>>)'
    <3>1. m = job[w].lead
      BY <2>2 DEF QueueInv, GoesAlone
    <3>2. Calls(w) = PartsOf[m]
      BY <3>1 DEF Calls, Native, Lead, QueueInv, FwdBatch, Plain
    <3>3. s \in Nat /\ s < job[w].step
      BY <2>2, <3>2, OutboxAssumption DEF Plain
    <3>4. Shown(<<m, s>>)
      BY <2>2, <3>1, <3>3 DEF ChatInv, Progress
    <3> QED BY <1>2, <3>4
  <2>3. Reported(m)
    BY ChatEffect DEF Plain
  <2> QED BY <2>1, <2>2, <2>3 DEF Reported
<1> QED BY <1>2, <1>3, <1>4 DEF ChatInv

LEMMA ChatInit == ASSUME Init PROVE ChatInv
  BY DEF Init, Idle, ChatInv, SeenShown, Once, Progress, PartsInOrder,
         SentIsShown, Shown, Plain

LEMMA ChatCorrect == Spec => []ChatInv
<1> QED BY ChatInit, ChatStep, QueueCorrect, PTL DEF Spec

(* However often a message is attempted, and by however many processes,    *)
(* the client gets each of its parts at most once.                         *)
THEOREM NoDuplicates == Spec => []ShownOnce
<1>1. ChatInv => ShownOnce
  BY OutboxAssumption DEF ChatInv, Once, ShownOnce, Plain
<1> QED BY <1>1, ChatCorrect, PTL

(* What the manager sees as sent, the client has in full.                  *)
THEOREM NothingLost == Spec => []SentIsShown
<1>1. ChatInv => SentIsShown
  BY DEF ChatInv
<1> QED BY <1>1, ChatCorrect, PTL

(* The parts of a message arrive in the order of the send plan.            *)
THEOREM OrderOfParts == Spec => []PartsInOrder
<1>1. ChatInv => PartsInOrder
  BY DEF ChatInv
<1> QED BY <1>1, ChatCorrect, PTL

(* The mark on a message, its row in the queue and the client's screen     *)
(* agree (_process_send, _fail, retry_message), whatever is lost, repeated *)
(* or interrupted, and however many retries of a message run at once, with *)
(* one exception: a message retried twice at once may keep a clock after   *)
(* its row has failed (ClockIsQueued).                                     *)
THEOREM TrueMarks == Spec => []MarksAreTrue
<1>1. TypeOK /\ RowMatchesMessage /\ SentIsShown /\ PartsInOrder => MarksAreTrue
  BY DEF MarksAreTrue
<1> QED BY <1>1, TypeCorrect, Agreement, NothingLost, OrderOfParts, PTL

-----------------------------------------------------------------------------
(* Flood bans: the memory of a process, and the deadlines in the queue.    *)

(* Before the first upset one process drains, and it knows of every ban.   *)
PauseInv ==
  upsets = 0 =>
    /\ draining \subseteq {owner}
    /\ \A w \in Worker : job[w].ph # "idle" => w = owner
    /\ ban <= paused[owner]

LEMMA PauseStep == ASSUME TypeOK, PauseInv, [Next]_vars PROVE PauseInv'
<1> SUFFICES ASSUME upsets' = 0
             PROVE  /\ draining' \subseteq {owner'}
                    /\ \A w \in Worker : job'[w].ph # "idle" => w = owner'
                    /\ ban' <= paused'[owner']
  BY DEF PauseInv
<1> DEFINE Kept == /\ upsets = 0 /\ owner' = owner
                   /\ draining \subseteq {owner}
                   /\ \A w \in Worker : job[w].ph # "idle" => w = owner
                   /\ ban <= paused[owner]
<1>1. ASSUME NEW w \in Worker, Rollback(w) \/ Crash(w) \/ LeaseMoves(w) PROVE FALSE
  BY <1>1 DEF Rollback, Crash, LeaseMoves, Upset, TypeOK
<1>2. ASSUME UNCHANGED <<upsets, owner>> PROVE Kept
  BY <1>2 DEF PauseInv
<1>3. ASSUME UNCHANGED <<upsets, owner, draining, job, ban, paused>>
      PROVE  PauseInv'
  BY <1>3 DEF PauseInv
<1>4. ASSUME NEW m \in Msg, Post(m) \/ Asks(m) \/ Writes(m) \/ FileSettles(m)
      PROVE  PauseInv'
  BY <1>3, <1>4, AsksOnly, WritesOnly DEF Post, FileSettles, account, telegram, bounds
<1>5. Reconnect \/ Tick \/ UNCHANGED vars => PauseInv'
  BY <1>3 DEF Reconnect, Tick, vars, account, telegram, bounds
<1>6. ASSUME NEW w \in Worker, StartDrain(w) \/ EndDrain(w) PROVE PauseInv'
  BY <1>6 DEF StartDrain, EndDrain, account, telegram, bounds, PauseInv
<1>7. ASSUME NEW w \in Worker, NEW m \in Msg, Claim(w, m) PROVE PauseInv'
  BY <1>7 DEF Claim, account, telegram, bounds, PauseInv, TypeOK
<1>8. ASSUME NEW w \in Worker, NEW o, Settle(w, o),
             UNCHANGED <<upsets, owner, draining, ban, paused>>
      PROVE  PauseInv'
  BY <1>8 DEF Settle, Idle, PauseInv, TypeOK
<1>9. ASSUME NEW w \in Worker,
             \/ StepLost(w) \/ StepRefused(w) \/ StepImpossible(w) \/ SessionLost(w)
             \/ FileNotReady(w) \/ SendImpossible(w) \/ ForwardImpossible(w)
             \/ SendCommit(w)
      PROVE  PauseInv'
  <2>1. UNCHANGED <<upsets, owner, draining, ban, paused>>
    BY <1>9 DEF StepLost, StepRefused, StepImpossible, SessionLost, FileNotReady,
                SendImpossible, ForwardImpossible, SendCommit, Fault, account, telegram, bounds
  <2>2. PICK o : Settle(w, o)
    BY <1>9 DEF StepLost, StepRefused, StepImpossible, SessionLost, FileNotReady,
                SendImpossible, ForwardImpossible, SendCommit
  <2> QED BY <1>8, <2>1, <2>2
<1>10. ASSUME NEW w \in Worker, StepAccepted(w) PROVE PauseInv'
  BY <1>10 DEF StepAccepted, Answering, Calling, account, bounds, PauseInv, TypeOK
<1>11. ASSUME NEW w \in Worker, SessionRevoked(w) PROVE PauseInv'
  BY <1>11 DEF SessionRevoked, Calling, Fault, telegram, bounds, PauseInv, TypeOK
<1>12. ASSUME NEW w \in Worker, FloodAnswer(w) PROVE PauseInv'
  <2>1. At(FloodWait) \in Nat
    BY AtType, OutboxAssumption
  <2>2. UNCHANGED <<upsets, owner, draining>> /\ job[w].ph = "calling"
    BY <1>12 DEF FloodAnswer, Calling, Fault, account, bounds
  <2>3. w = owner
    BY <1>2, <2>2
  <2> QED BY <1>12, <2>1, <2>2, <2>3 DEF FloodAnswer, PauseInv, TypeOK
<1>13. ASSUME NEW w \in Worker, FloodCommit(w) \/ FloodDeadlock(w) PROVE PauseInv'
  BY <1>13 DEF FloodCommit, FloodDeadlock, Idle, account, telegram, bounds, PauseInv, TypeOK
<1>14. PauseInv'
  BY <1>1, <1>4, <1>5, <1>6, <1>7, <1>9, <1>10, <1>11, <1>12, <1>13 DEF Next, Send, Asks, Writes
<1> QED BY <1>14 DEF PauseInv

LEMMA PauseCorrect == Spec => [](TypeOK /\ PauseInv)
<1>1. Init => PauseInv
  BY DEF Init, PauseInv, Idle
<1>2. TypeOK /\ PauseInv /\ [Next]_vars => PauseInv'
  BY PauseStep
<1> QED BY <1>1, <1>2, TypeCorrect, PTL DEF Spec

(* A process that has lived, and held the account, since the ban began     *)
(* leaves the queue alone while it lasts.                                  *)
LEMMA PauseIsHeld == Spec => PauseHolds
<1>1. ASSUME TypeOK, PauseInv, [Next]_vars, NEW w \in Worker,
             upsets = 0, job[w].ph = "idle", job'[w].ph = "calling"
      PROVE  ban <= now
  <2>1. \E m \in Msg : Claim(w, m)
    <3>1. ASSUME NEW v \in Worker, \E o : Settle(v, o) PROVE FALSE
      BY <1>1, <3>1 DEF Settle, Idle, TypeOK
    <3>2. ASSUME NEW v \in Worker,
                 \/ StepLost(v) \/ StepRefused(v) \/ StepImpossible(v) \/ SessionLost(v)
                 \/ FileNotReady(v) \/ SendImpossible(v) \/ ForwardImpossible(v)
                 \/ SendCommit(v)
          PROVE  FALSE
      BY <3>1, <3>2 DEF StepLost, StepRefused, StepImpossible, SessionLost, FileNotReady,
                        SendImpossible, ForwardImpossible, SendCommit
    <3>3. ASSUME NEW v \in Worker,
                 StepAccepted(v) \/ SessionRevoked(v) \/ FloodAnswer(v)
          PROVE  FALSE
      BY <1>1, <3>3 DEF StepAccepted, SessionRevoked, FloodAnswer, Answering, Calling, TypeOK
    <3>4. ASSUME NEW v \in Worker,
                 FloodCommit(v) \/ FloodDeadlock(v) \/ Rollback(v) \/ Crash(v)
          PROVE  FALSE
      <4>1. job' = [job EXCEPT ![v] = Idle]
        BY <3>4 DEF FloodCommit, FloodDeadlock, Rollback, Crash
      <4> QED BY <1>1, <4>1 DEF Idle, TypeOK
    <3>5. ASSUME job' = job PROVE FALSE
      BY <1>1, <3>5
    <3>6. ASSUME NEW m \in Msg, Post(m) \/ Asks(m) \/ Writes(m) \/ FileSettles(m)
          PROVE  FALSE
      BY <1>1, <3>5, <3>6, AsksOnly, WritesOnly DEF Post, FileSettles
    <3>7. ASSUME NEW v \in Worker, StartDrain(v) \/ EndDrain(v) \/ LeaseMoves(v) PROVE FALSE
      BY <3>5, <3>7 DEF StartDrain, EndDrain, LeaseMoves
    <3>8. Reconnect \/ Tick \/ UNCHANGED vars => FALSE
      BY <3>5 DEF Reconnect, Tick, vars
    <3>9. ASSUME NEW v \in Worker, NEW m \in Msg, Claim(v, m) PROVE v = w
      BY <1>1, <3>9 DEF Claim, TypeOK
    <3> QED BY <1>1, <3>2, <3>3, <3>4, <3>6, <3>7, <3>8, <3>9 DEF Next, Send, Asks, Writes
  <2>2. w = owner /\ ~Paused(w)
    BY <1>1, <2>1 DEF Claim, PauseInv
  <2> QED BY <1>1, <2>2 DEF Paused, PauseInv, TypeOK
<1>2. TypeOK /\ PauseInv /\ [Next]_vars
        => [\A w \in Worker :
              upsets = 0 /\ job[w].ph = "idle" /\ job'[w].ph = "calling" => ban <= now]_vars
  BY <1>1
<1> QED BY <1>2, PauseCorrect, PTL DEF Spec, PauseHolds

(* What an attempt holds was due; a ban that is being written down ends no *)
(* later than one that begins now; and what was postponed waits, in        *)
(* nobody's hands, until the ban is over, but for what is retried twice at *)
(* once.                                                                   *)
HeldWasDue == \A w \in Worker : \A m \in job[w].rows : row[m].due <= now
FloodEnds == \A w \in Worker : job[w].ph = "flood" => job[w].until <= At(FloodWait)
QueueWaits ==
  kept.until > now =>
    \A m \in kept.rows \ doubled :
      /\ Pending(m) /\ row[m].due >= kept.until
      /\ \A w \in Worker : m \notin job[w].rows
WaitInv == HeldWasDue /\ FloodEnds /\ QueueWaits

NoForwards == \A m \in Msg : BatchOf[m] = 0

(* Nothing that is held or waits changes its deadline.                     *)
LEMMA WaitsOn ==
  ASSUME QueueInv, WaitInv, UNCHANGED <<now, row, kept>>, doubled \subseteq doubled',
         \A w \in Worker : \/ job'[w] = job[w] \/ job'[w] = Idle
                           \/ job'[w].rows = job[w].rows /\ job'[w].ph # "flood"
                           \/ job'[w].rows = job[w].rows /\ job'[w].until = At(FloodWait)
  PROVE  WaitInv'
<1>1. HeldWasDue'
  BY DEF WaitInv, HeldWasDue, Idle
<1>2. At(FloodWait)' = At(FloodWait) /\ At(FloodWait) \in Nat
  BY AtType, OutboxAssumption DEF At, QueueInv
<1>3. FloodEnds'
  BY <1>2 DEF WaitInv, FloodEnds, Idle
<1>4. QueueWaits'
  BY DEF WaitInv, QueueWaits, Pending, Idle
<1> QED BY <1>1, <1>3, <1>4 DEF WaitInv

(* The end of an attempt: its rows are not among those that wait.          *)
LEMMA SettleWaits ==
  ASSUME QueueInv, WaitInv, NEW w \in Worker, NEW o, Settle(w, o), UNCHANGED <<now, kept>>,
         doubled \subseteq doubled'
  PROVE  WaitInv'
<1> USE DEF QueueInv
<1>1. /\ job'[w] = Idle /\ \A v \in Worker \ {w} : job'[v] = job[v]
      /\ \A m \in Msg \ job[w].rows : row'[m] = row[m]
  BY DEF Settle, TypeOK
<1>2. HeldWasDue'
  <2> SUFFICES ASSUME NEW v \in Worker, NEW m \in job'[v].rows PROVE row'[m].due <= now
    BY DEF HeldWasDue
  <2>1. v # w /\ m \in job[v].rows /\ m \in Msg
    BY <1>1, BusyType DEF Idle
  <2>2. m \notin job[w].rows
    BY <2>1 DEF OneSender
  <2> QED BY <1>1, <2>1, <2>2 DEF WaitInv, HeldWasDue
<1>3. FloodEnds'
  BY <1>1 DEF WaitInv, FloodEnds, Idle, At
<1>4. QueueWaits'
  <2> SUFFICES ASSUME kept.until > now, NEW m \in kept.rows \ doubled
               PROVE  /\ row'[m].st = "PENDING" /\ row'[m].due >= kept.until
                      /\ \A v \in Worker : m \notin job'[v].rows
    BY DEF QueueWaits, Pending
  <2>1. m \in Msg
    BY DEF TypeOK
  <2>2. /\ row[m].st = "PENDING" /\ row[m].due >= kept.until
        /\ \A v \in Worker : m \notin job[v].rows
    BY DEF WaitInv, QueueWaits, Pending
  <2>3. row'[m] = row[m]
    BY <1>1, <2>1, <2>2
  <2>4. \A v \in Worker : job'[v].rows \subseteq job[v].rows
    BY <1>1 DEF Idle
  <2> QED BY <2>2, <2>3, <2>4
<1> QED BY <1>2, <1>3, <1>4 DEF WaitInv

LEMMA ClaimWaits ==
  ASSUME NoForwards, QueueInv, WaitInv, NEW w \in Worker, NEW m \in Msg, Claim(w, m)
  PROVE  WaitInv'
<1> USE DEF QueueInv
<1>1. UNCHANGED <<now, row, kept, doubled>> /\ row[m].due <= now /\ now \in Nat /\ row[m].due \in Nat
  BY DEF Claim, Due, db, telegram, TypeOK, Row
<1>2. /\ job'[w].rows = {m} /\ job'[w].ph = "calling"
      /\ \A v \in Worker \ {w} : job'[v] = job[v]
  BY DEF Claim, NoForwards, FwdBatch, TypeOK
<1>3. HeldWasDue'
  BY <1>1, <1>2 DEF WaitInv, HeldWasDue
<1>4. FloodEnds'
  BY <1>1, <1>2 DEF WaitInv, FloodEnds, At
<1>5. kept.until > now => m \notin kept.rows \ doubled
  BY <1>1 DEF WaitInv, QueueWaits, TypeOK
<1>6. QueueWaits'
  BY <1>1, <1>2, <1>5 DEF WaitInv, QueueWaits, Pending
<1> QED BY <1>3, <1>4, <1>6 DEF WaitInv

(* A ban is written down: whoever holds a row that would not wait is       *)
(* waited for, so that nobody holds anything afterwards.                   *)
LEMMA FloodWaits ==
  ASSUME NoForwards, QueueInv, WaitInv, NEW w \in Worker, FloodCommit(w)
  PROVE  WaitInv'
<1> USE DEF QueueInv
<1>1. /\ job'[w] = Idle /\ \A v \in Worker \ {w} : job'[v] = job[v]
      /\ now' = now /\ now \in Nat
      /\ kept' = [until |-> job[w].until, rows |-> {m \in Msg : Pending(m)}]
  BY DEF FloodCommit, TypeOK
<1>2. job[w].until \in Nat /\ job[w].until <= At(FloodWait) /\ At(FloodWait) \in Nat
  BY BusyType, AtType, OutboxAssumption DEF FloodCommit, WaitInv, FloodEnds
<1>3. \A m \in Msg :
        row'[m] = IF m \in job[w].rows THEN [row[m] EXCEPT !.due = At(FloodWait)]
                  ELSE IF m \in Postponable(w) THEN [row[m] EXCEPT !.due = job[w].until]
                  ELSE row[m]
  BY DEF FloodCommit
<1>4. \A m \in Msg : row[m] \in Row
  BY DEF TypeOK
<1>5. ASSUME NEW v \in Worker \ {w}, NEW m \in job[v].rows
      PROVE  m \in Msg /\ Pending(m) /\ m \notin job[w].rows /\ m \notin Postponable(w)
  BY <1>5, BusyType DEF OneSender, FloodCommit, Waits
<1>6. HeldWasDue'
  <2> SUFFICES ASSUME NEW v \in Worker, NEW m \in job'[v].rows PROVE row'[m].due <= now
    BY <1>1 DEF HeldWasDue
  <2>1. v # w /\ m \in job[v].rows
    BY <1>1 DEF Idle
  <2>2. row'[m] = row[m]
    BY <1>3, <1>5, <2>1
  <2> QED BY <2>1, <2>2 DEF WaitInv, HeldWasDue
<1>7. FloodEnds'
  BY <1>1 DEF WaitInv, FloodEnds, Idle, At
<1>8. QueueWaits'
  <2> SUFFICES ASSUME job[w].until > now, NEW m \in Msg, Pending(m)
               PROVE  /\ row'[m].st = "PENDING" /\ row'[m].due >= job[w].until
                      /\ \A v \in Worker : m \notin job'[v].rows
    BY <1>1 DEF QueueWaits, Pending
  <2>1. row'[m].st = "PENDING"
    BY <1>3, <1>4 DEF Pending, Row
  <2>2. row[m].due \in Nat /\ (m \in job[w].rows \/ m \in Postponable(w) \/ row[m].due >= job[w].until)
    BY <1>2, <1>4 DEF Postponable, Row
  <2>3. row'[m].due >= job[w].until
    <3>1. CASE m \in job[w].rows
      <4>1. row'[m] = [row[m] EXCEPT !.due = At(FloodWait)]
        BY <1>3, <3>1
      <4>2. row'[m].due = At(FloodWait)
        BY <1>4, <4>1 DEF Row
      <4> QED BY <1>2, <4>2
    <3>2. CASE m \notin job[w].rows /\ m \in Postponable(w)
      <4>1. row'[m] = [row[m] EXCEPT !.due = job[w].until]
        BY <1>3, <3>2
      <4>2. row'[m].due = job[w].until
        BY <1>4, <4>1 DEF Row
      <4> QED BY <1>2, <4>2
    <3>3. CASE m \notin job[w].rows /\ m \notin Postponable(w)
      BY <1>3, <2>2, <3>3
    <3> QED BY <3>1, <3>2, <3>3
  <2>4. ASSUME NEW v \in Worker, m \in job'[v].rows PROVE FALSE
    <3>1. v # w /\ m \in job[v].rows
      BY <1>1, <2>4 DEF Idle
    <3>2. row[m].due <= now
      BY <3>1 DEF WaitInv, HeldWasDue
    <3>3. m \notin job[w].rows /\ m \notin Postponable(w)
      BY <1>5, <3>1
    <3> QED BY <1>1, <1>2, <2>2, <3>2, <3>3
  <2> QED BY <2>1, <2>3, <2>4
<1> QED BY <1>6, <1>7, <1>8 DEF WaitInv

LEMMA WaitStep ==
  ASSUME NoForwards, QueueInv, WaitInv, [Next]_vars
  PROVE  WaitInv'
<1> USE DEF QueueInv
<1>0. doubled \subseteq doubled'
  BY DoubledGrows
<1>1. ASSUME UNCHANGED <<now, row, kept, job>> PROVE WaitInv'
  BY <1>0, <1>1, WaitsOn
<1>2. ASSUME NEW x \in Msg, Post(x) \/ Writes(x) PROVE WaitInv'
  <2>1. UNCHANGED <<now, kept, job>>
    BY <1>2, WritesOnly DEF Post, telegram
  <2>2. ASSUME NEW m \in Msg, Pending(m)
        PROVE  row'[m] = row[m] \/ (m \in doubled /\ m \notin Locked)
    <3>1. CASE Post(x)
      BY <2>2, <3>1 DEF Post, Pending, Group
    <3>2. CASE Writes(x)
      <4>1. msg[x] = "FAILED" \/ x \in doubled
        BY <3>2, WritesOnly DEF Fresh, NoRetry
      <4>2. ~Pending(x) \/ x \in doubled
        BY <4>1 DEF RowMatchesMessage, Pending
      <4>3. x \notin Locked
        BY <3>2 DEF Writes, RetryWrite
      <4> QED BY <2>2, <3>2, <4>2, <4>3, WritesOnly
    <3> QED BY <1>2, <3>1, <3>2
  <2>3. \A w \in Worker : \A m \in job[w].rows : m \in Msg /\ Pending(m)
    BY BusyType DEF OneSender
  <2>4. HeldWasDue'
    BY <2>1, <2>2, <2>3 DEF WaitInv, HeldWasDue, Locked
  <2>5. FloodEnds'
    BY <2>1 DEF WaitInv, FloodEnds, At
  <2>6. QueueWaits'
    <3>1. kept.rows \subseteq Msg
      BY DEF TypeOK
    <3> QED BY <1>0, <2>1, <2>2, <3>1 DEF WaitInv, QueueWaits, Pending
  <2> QED BY <2>4, <2>5, <2>6 DEF WaitInv
<1>3. ASSUME NEW m \in Msg, Asks(m) \/ FileSettles(m) PROVE WaitInv'
  BY <1>1, <1>3, AsksOnly DEF FileSettles, db, telegram
<1>4. ASSUME NEW w \in Worker, StartDrain(w) \/ EndDrain(w) \/ LeaseMoves(w) PROVE WaitInv'
  BY <1>1, <1>4 DEF StartDrain, EndDrain, LeaseMoves, db, telegram
<1>5. ASSUME NEW w \in Worker,
             \/ StepLost(w) \/ StepRefused(w) \/ StepImpossible(w) \/ SessionLost(w)
             \/ FileNotReady(w) \/ SendImpossible(w) \/ ForwardImpossible(w)
             \/ SendCommit(w)
      PROVE  WaitInv'
  <2>1. UNCHANGED <<now, kept>>
    BY <1>5 DEF StepLost, StepRefused, StepImpossible, SessionLost, FileNotReady,
                SendImpossible, ForwardImpossible, SendCommit, telegram
  <2>2. PICK o : Settle(w, o)
    BY <1>5 DEF StepLost, StepRefused, StepImpossible, SessionLost, FileNotReady,
                SendImpossible, ForwardImpossible, SendCommit
  <2> QED BY <1>0, <2>1, <2>2, SettleWaits
<1>6. ASSUME NEW w \in Worker, StepAccepted(w) \/ SessionRevoked(w) \/ FloodAnswer(w)
      PROVE  WaitInv'
  <2>1. UNCHANGED <<now, row, kept>> /\ job \in [Worker -> Job] /\ job[w].ph = "calling"
    BY <1>6 DEF StepAccepted, SessionRevoked, FloodAnswer, Answering, Calling, db, telegram, TypeOK
  <2>2. \A v \in Worker : \/ job'[v] = job[v]
                          \/ job'[v].rows = job[v].rows /\ job'[v].ph # "flood"
                          \/ job'[v].rows = job[v].rows /\ job'[v].until = At(FloodWait)
    BY <1>6, <2>1, BusyType DEF StepAccepted, SessionRevoked, FloodAnswer, Busy, Job, Idle
  <2> QED BY <1>0, <2>1, <2>2, WaitsOn
<1>7. ASSUME NEW w \in Worker, FloodDeadlock(w) \/ Rollback(w) \/ Crash(w) PROVE WaitInv'
  <2>1. UNCHANGED <<now, row, kept>>
    BY <1>7 DEF FloodDeadlock, Rollback, Crash, db, telegram
  <2>2. \A v \in Worker : job'[v] = job[v] \/ job'[v] = Idle
    BY <1>7 DEF FloodDeadlock, Rollback, Crash, TypeOK
  <2> QED BY <1>0, <2>1, <2>2, WaitsOn
<1>8. CASE Tick
  <2>1. UNCHANGED <<row, kept, job>> /\ now' = now + 1 /\ now < MaxTime /\ now \in Nat
    BY <1>8 DEF Tick, db, telegram, TypeOK
  <2>2. \A w \in Worker : \A m \in job[w].rows : row[m].due \in Nat
    BY BusyType DEF TypeOK, Row
  <2>3. HeldWasDue'
    BY <2>1, <2>2 DEF WaitInv, HeldWasDue
  <2>4. FloodEnds'
    <3>1. MaxTime \in Nat /\ FloodWait \in Nat
      BY OutboxAssumption
    <3>2. ASSUME NEW w \in Worker, job[w].ph = "flood" PROVE job[w].until <= At(FloodWait)'
      <4>1. job[w].until \in Nat /\ job[w].until <= At(FloodWait)
        BY <3>2, BusyType DEF WaitInv, FloodEnds
      <4> QED BY <2>1, <3>1, <4>1 DEF At
    <3> QED BY <2>1, <3>2 DEF FloodEnds
  <2>5. QueueWaits'
    BY <1>0, <2>1 DEF WaitInv, QueueWaits, Pending, TypeOK
  <2> QED BY <2>3, <2>4, <2>5 DEF WaitInv
<1>9. Reconnect \/ UNCHANGED vars => WaitInv'
  BY <1>1 DEF Reconnect, vars, db, telegram
<1> QED BY <1>2, <1>3, <1>4, <1>5, <1>6, <1>7, <1>8, <1>9, ClaimWaits, FloodWaits DEF Next, Send, Asks, Writes

(* A queue of ordinary messages waits for the end of a flood ban: in the   *)
(* database, whatever process serves it (drain_account_outbox,             *)
(* process_outbox_row), but for a message that is retried twice at once.   *)
THEOREM BanIsWaitedFor ==
  ASSUME NoForwards PROVE Spec => BanIsKept
<1>1. Init => WaitInv
  BY DEF Init, WaitInv, HeldWasDue, FloodEnds, QueueWaits, Idle
<1>2. QueueInv /\ WaitInv /\ [Next]_vars => WaitInv'
  BY WaitStep
<1>3. WaitInv => PostponedRowsWait
  BY DEF WaitInv, QueueWaits, PostponedRowsWait
<1> QED BY <1>1, <1>2, <1>3, QueueCorrect, PauseIsHeld, PTL DEF Spec, BanIsKept

-----------------------------------------------------------------------------
(* Native forwards, when nobody presses "retry" on a message of one: the   *)
(* messages of a forward to one dialog share their fate.                   *)

Mates(x, y) == BatchOf[x] = BatchOf[y] /\ ConvOf[x] = ConvOf[y]
First(x) == \A y \in Msg : Mates(x, y) => x <= y

NeverRetried == \A m \in Msg \ Plain : \A t \in Tab : retry[m][t] = NoRetry

(* As long as they are one, their rows are the same.                       *)
Together == \A x, y \in Msg : row[x].fwd /\ Mates(x, y) => row[y] = row[x]

(* An attempt at a forward holds all of it, and the first message of it    *)
(* lends its random id; every other attempt is at one message.             *)
GoesWhole ==
  \A w \in Worker : job[w].ph # "idle" =>
    /\ row[job[w].lead].fwd =>
         First(job[w].lead) /\ job[w].rows = {y \in Msg : Mates(job[w].lead, y)}
    /\ ~row[job[w].lead].fwd => job[w].rows = {job[w].lead}

(* What the client sees was posted, and the id of a forward he sees is     *)
(* known to Telegram.                                                      *)
ShownIsPosted ==
  \A m \in Msg : row[m].st = "none" => \A i \in DOMAIN chat : <<m, 0>> \notin chat[i]
ShownIsKnown ==
  \A m \in Msg : row[m].fwd =>
    \A i \in DOMAIN chat : <<m, 0>> \in chat[i] =>
      \E x \in Msg : Mates(m, x) /\ First(x) /\ <<x, 0, 0>> \in seen

WholeInv == NeverRetried /\ Together /\ GoesWhole
ForwardInv == ShownIsPosted /\ ShownIsKnown /\ ForwardShownOnce

(* What an attempt holds of a forward, it holds of all its messages.       *)
LEMMA HeldWhole ==
  ASSUME QueueInv, WholeInv, NEW w \in Worker, NEW x \in Msg, NEW y \in Msg,
         row[x].fwd, Mates(x, y)
  PROVE  x \in job[w].rows <=> y \in job[w].rows
<1>1. row[y].fwd /\ Mates(y, x)
  BY DEF WholeInv, Together, Mates
<1>2. ASSUME NEW a \in Msg, NEW b \in Msg, row[a].fwd, Mates(a, b), a \in job[w].rows
      PROVE  b \in job[w].rows
  <2>1. job[w].ph # "idle"
    <3>1. job[w] \in Busy \/ job[w] = Idle
      BY DEF QueueInv, TypeOK, Job
    <3>2. job[w] # Idle
      BY <1>2 DEF Idle
    <3> QED BY <3>1, <3>2 DEF Busy
  <2>2. row[job[w].lead].fwd
    BY <1>2, <2>1 DEF WholeInv, GoesWhole
  <2> QED BY <1>2, <2>1, <2>2 DEF WholeInv, GoesWhole, Mates
<1> QED BY <1>1, <1>2

(* A step that writes rows and ends attempts, or does neither.             *)
LEMMA StillWhole ==
  ASSUME QueueInv, WholeInv,
         NeverRetried',
         \A x, y \in Msg : row[x].fwd /\ Mates(x, y) /\ row'[x].fwd => row'[y] = row'[x],
         \A x \in Msg : row'[x].fwd => row[x].fwd,
         \A v \in Worker : job'[v].ph # "idle" =>
           /\ job[v].ph # "idle" /\ job'[v].lead = job[v].lead /\ job'[v].rows = job[v].rows
           /\ row'[job[v].lead].fwd = row[job[v].lead].fwd
  PROVE  WholeInv'
<1>1. Together'
  BY DEF Together, Mates
<1>2. GoesWhole'
  BY DEF WholeInv, GoesWhole, First, Mates
<1> QED BY <1>1, <1>2 DEF WholeInv

(* The end of an attempt treats equal rows alike.                          *)
LEMMA SettleWhole ==
  ASSUME QueueInv, WholeInv, UNCHANGED retry, NEW w \in Worker, NEW o \in [Msg -> Row],
         Settle(w, o), \A x, y \in Msg : row[x] = row[y] => o[x] = o[y],
         \A m \in job[w].rows : o[m].fwd => row[m].fwd
  PROVE  WholeInv'
<1>1. /\ job'[w] = Idle /\ \A v \in Worker \ {w} : job'[v] = job[v]
      /\ \A m \in Msg : row'[m] = IF m \in job[w].rows THEN o[m] ELSE row[m]
  BY DEF Settle, QueueInv, TypeOK
<1>2. ASSUME NEW x \in Msg, NEW y \in Msg, row[x].fwd, Mates(x, y), row'[x].fwd
      PROVE  row'[y] = row'[x]
  <2>1. x \in job[w].rows <=> y \in job[w].rows
    BY <1>2, HeldWhole
  <2>2. row[y] = row[x]
    BY <1>2 DEF WholeInv, Together
  <2> QED BY <1>1, <2>1, <2>2
<1>3. \A x \in Msg : row'[x].fwd => row[x].fwd
  BY <1>1
<1>4. ASSUME NEW v \in Worker, job'[v].ph # "idle"
      PROVE  /\ job[v].ph # "idle" /\ job'[v].lead = job[v].lead /\ job'[v].rows = job[v].rows
             /\ row'[job[v].lead].fwd = row[job[v].lead].fwd
  <2>1. v # w /\ job'[v] = job[v]
    BY <1>1, <1>4 DEF Idle
  <2>2. job[v].lead \in job[v].rows /\ job[v].lead \in Msg
    BY <1>4, <2>1, BusyType DEF QueueInv, GoesAlone
  <2>3. job[v].lead \notin job[w].rows
    BY <2>1, <2>2 DEF QueueInv, OneSender
  <2> QED BY <1>1, <1>4, <2>1, <2>2, <2>3
<1>5. NeverRetried'
  BY DEF WholeInv, NeverRetried
<1> QED BY <1>2, <1>3, <1>4, <1>5, StillWhole

LEMMA Alike ==
  \A x, y \in Msg : row[x] = row[y] =>
    /\ Retried[x] = Retried[y] /\ GivenUp[x] = GivenUp[y] /\ Delivered[x] = Delivered[y]
    /\ Copied[x] = Copied[y] /\ Postponed(FileWait)[x] = Postponed(FileWait)[y]
BY DEF Retried, GivenUp, Delivered, Copied, Postponed, Failed

LEMMA EndWhole ==
  ASSUME QueueInv, WholeInv, UNCHANGED retry, NEW w \in Worker,
         \/ Settle(w, Retried) \/ Settle(w, GivenUp) \/ Settle(w, Delivered)
         \/ Settle(w, Copied) \/ Settle(w, Postponed(FileWait))
  PROVE  WholeInv'
<1>1. TypeOK /\ FileWait \in Nat
  BY OutboxAssumption DEF QueueInv
<1>2. CASE Settle(w, Retried)
  BY <1>1, <1>2, RetriedType, Outcomes, Alike, SettleWhole
<1>3. CASE Settle(w, GivenUp)
  BY <1>1, <1>3, RetriedType, Outcomes, Alike, SettleWhole
<1>4. CASE Settle(w, Delivered)
  BY <1>1, <1>4, OutcomeType, Outcomes, Alike, SettleWhole
<1>5. CASE Settle(w, Copied)
  BY <1>1, <1>5, OutcomeType, Outcomes, Alike, SettleWhole
<1>6. CASE Settle(w, Postponed(FileWait))
  BY <1>1, <1>6, PostponedType, Outcomes, Alike, SettleWhole
<1> QED BY <1>2, <1>3, <1>4, <1>5, <1>6

(* Rows stay, attempts go on or are given up.                              *)
LEMMA NothingWritten ==
  ASSUME QueueInv, WholeInv, UNCHANGED row, NeverRetried',
         \A v \in Worker : job'[v].ph # "idle" =>
           job[v].ph # "idle" /\ job'[v].lead = job[v].lead /\ job'[v].rows = job[v].rows
  PROVE  WholeInv'
<1>1. \A x, y \in Msg : row[x].fwd /\ Mates(x, y) => row[y] = row[x]
  BY DEF WholeInv, Together
<1> QED BY <1>1, StillWhole

LEMMA PostWhole == ASSUME QueueInv, WholeInv, NEW m \in Msg, Post(m) PROVE WholeInv'
<1>1. /\ \A x \in Msg : row'[x] = IF x \in Group(m) THEN NewRow(x) ELSE row[x]
      /\ \A x \in Group(m) : row[x].st = "none"
      /\ UNCHANGED <<retry, job>>
  BY DEF Post
<1>2. Together'
  <2> SUFFICES ASSUME NEW x \in Msg, NEW y \in Msg, row'[x].fwd, Mates(x, y)
               PROVE  row'[y] = row'[x]
    BY DEF Together, Mates
  <2>1. BatchOf[x] # 0 /\ BatchOf[y] = BatchOf[x]
    <3>1. NewRow(x).fwd => BatchOf[x] # 0
      BY DEF NewRow
    <3>2. row[x].fwd => BatchOf[x] # 0
      BY DEF QueueInv, FwdBatch
    <3> QED BY <1>1, <3>1, <3>2 DEF Mates
  <2>2. x \in Group(m) <=> y \in Group(m)
    BY <2>1 DEF Group
  <2>3. CASE x \in Group(m)
    BY <1>1, <2>1, <2>2, <2>3 DEF NewRow
  <2>4. CASE x \notin Group(m)
    BY <1>1, <2>2, <2>4 DEF WholeInv, Together
  <2> QED BY <2>3, <2>4
<1>3. GoesWhole'
  <2> SUFFICES ASSUME NEW v \in Worker, job[v].ph # "idle"
               PROVE  row'[job[v].lead] = row[job[v].lead]
    BY <1>1 DEF WholeInv, GoesWhole, First, Mates
  <2>1. job[v].lead \in Msg /\ row[job[v].lead].st = "PENDING"
    BY BusyType DEF QueueInv, GoesAlone, OneSender, Pending
  <2> QED BY <1>1, <2>1
<1>4. NeverRetried'
  BY <1>1 DEF WholeInv, NeverRetried
<1> QED BY <1>2, <1>3, <1>4 DEF WholeInv

LEMMA ClaimWhole ==
  ASSUME QueueInv, WholeInv, NEW w \in Worker, NEW m \in Msg, Claim(w, m) PROVE WholeInv'
<1> DEFINE taken == {m} \cup (IF row[m].fwd THEN Siblings(m) ELSE {})
<1>1. /\ job'[w].rows = taken /\ job'[w].lead = m
      /\ \A v \in Worker \ {w} : job'[v] = job[v]
      /\ UNCHANGED <<row, retry>>
  BY DEF Claim, db, QueueInv, TypeOK
<1>2. row[m].fwd => First(m) /\ taken = {y \in Msg : Mates(m, y)}
  <2> SUFFICES ASSUME row[m].fwd PROVE First(m) /\ taken = {y \in Msg : Mates(m, y)}
    OBVIOUS
  <2>1. ASSUME NEW y \in Msg, Mates(m, y) PROVE y \in Due /\ row[y].fwd
    <3>1. row[y] = row[m]
      BY <2>1 DEF WholeInv, Together
    <3>2. y \notin Locked
      <4>1. \A v \in Worker : m \notin job[v].rows
        BY DEF Claim, Due, Locked
      <4>2. \A v \in Worker : y \notin job[v].rows
        BY <2>1, <4>1, HeldWhole
      <4> QED BY <4>2 DEF Locked
    <3> QED BY <3>1, <3>2 DEF Claim, Due, Pending
  <2>2. First(m)
    <3> SUFFICES ASSUME NEW y \in Msg, Mates(m, y) PROVE m <= y
      BY DEF First
    <3>1. y = m \/ Before(m, y)
      BY <2>1 DEF Claim
    <3>2. ConvOf[m] \in Nat /\ ConvOf[y] = ConvOf[m] /\ m \in Nat /\ y \in Nat
      BY OutboxAssumption DEF Mates, Msg
    <3> QED BY <3>1, <3>2 DEF Before
  <2>3. taken = {y \in Msg : Mates(m, y)}
    <3>1. \A y \in Msg : Mates(m, y) => y \in taken
      BY <2>1 DEF Siblings, Due, Mates
    <3>2. \A y \in taken : y \in Msg /\ Mates(m, y)
      BY DEF Siblings, Mates
    <3> QED BY <3>1, <3>2
  <2> QED BY <2>2, <2>3
<1>3. ~row[m].fwd => taken = {m}
  OBVIOUS
<1> HIDE DEF taken
<1>4. GoesWhole'
  BY <1>1, <1>2, <1>3 DEF WholeInv, GoesWhole, First, Mates
<1> QED BY <1>1, <1>4 DEF WholeInv, NeverRetried, Together, Mates

LEMMA FloodWhole ==
  ASSUME QueueInv, WholeInv, NEW w \in Worker, FloodCommit(w) PROVE WholeInv'
<1> DEFINE mine == At(FloodWait)
<1>1. /\ \A m \in Msg : row'[m] = IF m \in job[w].rows THEN [row[m] EXCEPT !.due = mine]
                                 ELSE IF m \in Postponable(w)
                                 THEN [row[m] EXCEPT !.due = job[w].until]
                                 ELSE row[m]
      /\ job'[w] = Idle /\ \A v \in Worker \ {w} : job'[v] = job[v]
      /\ UNCHANGED retry /\ row \in [Msg -> Row]
  BY DEF FloodCommit, QueueInv, TypeOK
<1> HIDE DEF mine
<1>2. \A m \in Msg : row'[m].fwd = row[m].fwd
  BY <1>1 DEF Row
<1>3. ASSUME NEW x \in Msg, NEW y \in Msg, row[x].fwd, Mates(x, y)
      PROVE  row'[y] = row'[x]
  <2>1. x \in job[w].rows <=> y \in job[w].rows
    BY <1>3, HeldWhole
  <2>2. row[y] = row[x]
    BY <1>3 DEF WholeInv, Together
  <2>3. x \in Postponable(w) <=> y \in Postponable(w)
    BY <2>1, <2>2 DEF Postponable, Pending
  <2>4. CASE x \in job[w].rows
    <3>1. row'[x] = [row[x] EXCEPT !.due = mine]
      BY <1>1, <2>4
    <3>2. row'[y] = [row[y] EXCEPT !.due = mine]
      BY <1>1, <2>1, <2>4
    <3> QED BY <2>2, <3>1, <3>2
  <2>5. CASE x \notin job[w].rows /\ x \in Postponable(w)
    BY <1>1, <2>1, <2>2, <2>3, <2>5
  <2>6. CASE x \notin job[w].rows /\ x \notin Postponable(w)
    BY <1>1, <2>1, <2>2, <2>3, <2>6
  <2> QED BY <2>4, <2>5, <2>6
<1>4. ASSUME NEW v \in Worker, job'[v].ph # "idle"
      PROVE  /\ job[v].ph # "idle" /\ job'[v].lead = job[v].lead /\ job'[v].rows = job[v].rows
             /\ row'[job[v].lead].fwd = row[job[v].lead].fwd
  <2>1. job'[v] = job[v]
    BY <1>1, <1>4 DEF Idle
  <2>2. job[v].lead \in Msg
    BY <1>4, <2>1, BusyType DEF QueueInv, GoesAlone
  <2> QED BY <1>2, <1>4, <2>1, <2>2
<1>5. NeverRetried'
  BY <1>1 DEF WholeInv, NeverRetried
<1> QED BY <1>2, <1>3, <1>4, <1>5, StillWhole

LEMMA WholeStep ==
  ASSUME QueueInv, WholeInv, NeverRetried', [Next]_vars PROVE WholeInv'
<1>0. TypeOK
  BY DEF QueueInv
<1>1. ASSUME NEW m \in Msg, Asks(m) PROVE UNCHANGED <<row, job>>
  BY <1>1, AsksOnly
<1>2. ASSUME NEW w \in Worker,
             \/ StepLost(w) \/ StepRefused(w) \/ StepImpossible(w) \/ SessionLost(w)
             \/ FileNotReady(w) \/ SendImpossible(w) \/ ForwardImpossible(w)
             \/ SendCommit(w)
      PROVE  WholeInv'
  <2>1. /\ \/ Settle(w, Retried) \/ Settle(w, GivenUp) \/ Settle(w, Delivered)
           \/ Settle(w, Copied) \/ Settle(w, Postponed(FileWait))
        /\ UNCHANGED retry
    BY <1>2 DEF StepLost, StepRefused, StepImpossible, SessionLost, FileNotReady,
                SendImpossible, ForwardImpossible, SendCommit
  <2> QED BY <2>1, EndWhole
<1>3. ASSUME NEW w \in Worker, StepAccepted(w) \/ FloodAnswer(w) \/ SessionRevoked(w)
      PROVE  WholeInv'
  <2>1. job[w] \in Busy
    BY <1>0, <1>3, BusyType DEF StepAccepted, Answering, FloodAnswer, SessionRevoked, Calling
  <2>2. \A v \in Worker : /\ job'[v].rows = job[v].rows
                          /\ job'[v].lead = job[v].lead
                          /\ job'[v].ph # "idle" => job[v].ph # "idle"
    <3>1. job[w].ph # "idle" /\ \A v \in Worker \ {w} : job'[v] = job[v]
      BY <1>0, <1>3, <2>1 DEF StepAccepted, Answering, FloodAnswer, SessionRevoked, Calling,
                              TypeOK
    <3>2. job'[w].rows = job[w].rows /\ job'[w].lead = job[w].lead
      <4>1. CASE StepAccepted(w)
        BY <1>0, <2>1, <4>1 DEF StepAccepted, TypeOK, Busy
      <4>2. CASE FloodAnswer(w)
        BY <1>0, <2>1, <4>2 DEF FloodAnswer, TypeOK, Busy
      <4>3. CASE SessionRevoked(w)
        BY <1>0, <2>1, <4>3 DEF SessionRevoked, TypeOK, Busy
      <4> QED BY <1>3, <4>1, <4>2, <4>3
    <3> QED BY <3>1, <3>2
  <2>3. UNCHANGED row
    BY <1>3 DEF StepAccepted, FloodAnswer, SessionRevoked, db
  <2> QED BY <2>2, <2>3, NothingWritten
<1>4. ASSUME NEW w \in Worker, Rollback(w) \/ Crash(w) \/ FloodDeadlock(w) PROVE WholeInv'
  <2>1. UNCHANGED row /\ job' = [job EXCEPT ![w] = Idle]
    BY <1>4 DEF Rollback, Crash, FloodDeadlock, db
  <2>2. job'[w] = Idle /\ \A v \in Worker \ {w} : job'[v] = job[v]
    BY <1>0, <2>1 DEF TypeOK
  <2> QED BY <2>1, <2>2, NothingWritten DEF Idle
<1>5. ASSUME UNCHANGED <<row, job>> PROVE WholeInv'
  BY <1>5, NothingWritten
<1>6. ASSUME NEW m \in Msg, FileSettles(m) PROVE UNCHANGED <<row, job>>
  BY <1>6 DEF FileSettles, db
<1>7. ASSUME NEW w \in Worker, StartDrain(w) \/ EndDrain(w) \/ LeaseMoves(w)
      PROVE  UNCHANGED <<row, job>>
  BY <1>7 DEF StartDrain, EndDrain, LeaseMoves, db
<1>8. Reconnect \/ Tick \/ UNCHANGED vars => UNCHANGED <<row, job>>
  BY DEF Reconnect, Tick, vars, db
<1>9. ASSUME NEW m \in Msg, Writes(m) PROVE WholeInv'
  <2>1. m \in Plain
    BY <1>0, <1>9, WritesOnly DEF WholeInv, NeverRetried, NoRetry
  <2>2. /\ UNCHANGED job /\ row'[m].fwd = row[m].fwd
        /\ \A x \in Msg \ {m} : row'[x] = row[x]
    BY <1>0, <1>9, WritesOnly
  <2>3. \A x \in Msg : row[x].fwd => x \notin Plain
    BY DEF QueueInv, FwdBatch, Plain
  <2>4. ASSUME NEW x \in Msg, NEW y \in Msg, row[x].fwd, Mates(x, y)
        PROVE  row'[y] = row'[x]
    <3>1. x # m /\ y # m
      BY <2>1, <2>3, <2>4 DEF Plain, Mates
    <3> QED BY <2>2, <2>4, <3>1 DEF WholeInv, Together
  <2>5. \A v \in Worker : job[v].ph # "idle" => job[v].lead \in Msg
    BY BusyType DEF QueueInv, GoesAlone
  <2> QED BY <2>2, <2>4, <2>5, StillWhole
<1> QED BY <1>1, <1>2, <1>3, <1>4, <1>5, <1>6, <1>7, <1>8, <1>9, PostWhole, ClaimWhole, FloodWhole
        DEF Next, Send, Asks, Writes

(* Calls that Telegram takes are made by attempts that have one to make.   *)
LEMMA CallIsMade ==
  ASSUME [Next]_vars
  PROVE  \/ UNCHANGED <<chat, seen>>
         \/ \E w \in Worker : Calling(w) /\ Accept(w)
<1>1. ASSUME NEW m \in Msg, Asks(m) PROVE UNCHANGED <<chat, seen>>
  BY <1>1, AsksOnly
<1>2. ASSUME NEW m \in Msg, Writes(m) PROVE UNCHANGED <<chat, seen>>
  BY <1>2 DEF Writes, RetryWrite, telegram
<1> QED
  BY <1>1, <1>2
  DEF Next, Send, Asks, Writes, vars, telegram, Post, FileSettles, StartDrain, EndDrain,
      Claim, StepAccepted, StepLost, Answering, StepRefused, StepImpossible,
      SessionRevoked, SessionLost, FileNotReady, SendImpossible, ForwardImpossible,
      FloodAnswer, FloodCommit, FloodDeadlock, SendCommit, Rollback, Crash, LeaseMoves,
      Reconnect, Tick

(* The history grows by what an attempt holds; a forward is not shown yet. *)
LEMMA ForwardTaken ==
  ASSUME QueueInv, WholeInv, ForwardInv, NEW w \in Worker, Calling(w), Accept(w),
         ~UNCHANGED <<chat, seen>>, NEW m \in Msg, row[m].fwd,
         <<m, 0>> \in RequestParts(w)
  PROVE  /\ \A i \in DOMAIN chat : <<m, 0>> \notin chat[i]
         /\ \E x \in Msg : Mates(m, x) /\ First(x) /\ <<x, 0, 0>> \in RequestIds(w)
<1>1. /\ job[w].ph = "calling" /\ job[w].lead \in job[w].rows /\ job[w].lead \in Msg
      /\ m \in job[w].rows /\ job[w].step = 0
  BY BusyType DEF Calling, QueueInv, GoesAlone, RequestParts
<1>2. First(job[w].lead) /\ Mates(job[w].lead, m)
  BY <1>1 DEF WholeInv, GoesWhole
<1>3. <<job[w].lead, 0, 0>> \in RequestIds(w)
  BY <1>1 DEF RequestIds, StepRandomId, Item, Lead
<1>4. <<job[w].lead, 0, 0>> \notin seen
  BY <1>3 DEF Accept
<1>5. ASSUME NEW x \in Msg, Mates(m, x), First(x) PROVE x = job[w].lead
  <2>1. x \in Nat /\ job[w].lead \in Nat
    <3>1. \A y \in Msg : y \in Nat
      BY OutboxAssumption DEF Msg
    <3> QED BY <1>1, <3>1
  <2>2. x <= job[w].lead /\ job[w].lead <= x
    BY <1>1, <1>2, <1>5 DEF First, Mates
  <2> QED BY <2>1, <2>2
<1>6. \A i \in DOMAIN chat : <<m, 0>> \notin chat[i]
  BY <1>4, <1>5 DEF ForwardInv, ShownIsKnown
<1> QED BY <1>1, <1>2, <1>3, <1>6 DEF Mates

LEMMA ForwardStep ==
  ASSUME QueueInv, WholeInv, ForwardInv, [Next]_vars PROVE ForwardInv'
<1>1. CASE UNCHANGED <<chat, seen>>
  <2>1. ASSUME NEW m \in Msg, row'[m].fwd, NEW i \in DOMAIN chat, <<m, 0>> \in chat[i]
        PROVE  row[m].fwd
    BY <2>1, RowMoves DEF ForwardInv, ShownIsPosted
  <2>2. ShownIsPosted'
    BY <1>1, RowMoves DEF ForwardInv, ShownIsPosted
  <2>3. ShownIsKnown'
    BY <1>1, <2>1 DEF ForwardInv, ShownIsKnown, Mates, First
  <2>4. ForwardShownOnce'
    BY <1>1, <2>1 DEF ForwardInv, ForwardShownOnce, Plain
  <2> QED BY <2>2, <2>3, <2>4 DEF ForwardInv
<1>2. CASE ~UNCHANGED <<chat, seen>>
  <2>1. PICK w \in Worker : Calling(w) /\ Accept(w)
    BY <1>2, CallIsMade
  <2> DEFINE n == Len(chat) + 1
             parts == RequestParts(w)
  <2>2. /\ chat' = Append(chat, parts) /\ seen' = seen \cup RequestIds(w)
        /\ parts \in SUBSET Part /\ TypeOK
    <3>1. job[w].rows \subseteq Msg /\ job[w].step \in Nat
      BY <2>1, BusyType DEF Calling, QueueInv, Busy
    <3> QED BY <1>2, <2>1, <3>1 DEF Accept, RequestParts, Part, QueueInv
  <2>3. /\ DOMAIN chat = 1..Len(chat) /\ DOMAIN chat' = 1..n /\ Len(chat) \in Nat
        /\ \A i \in DOMAIN chat : chat'[i] = chat[i]
        /\ chat'[n] = parts
        /\ \A i \in DOMAIN chat' : i \in DOMAIN chat \/ i = n
    BY <2>2, Grown
  <2>4. \A m \in Msg : <<m, 0>> \in parts => m \in job[w].rows /\ row[m].st = "PENDING"
    BY <2>1 DEF RequestParts, QueueInv, OneSender, Pending
  <2>5. ASSUME NEW m \in Msg, row'[m].fwd, NEW i \in DOMAIN chat', <<m, 0>> \in chat'[i]
        PROVE  row[m].fwd
    <3>1. CASE i \in DOMAIN chat
      BY <2>3, <2>5, <3>1, RowMoves DEF ForwardInv, ShownIsPosted
    <3>2. CASE i = n
      BY <2>3, <2>4, <2>5, <3>2, RowMoves
    <3> QED BY <2>3, <3>1, <3>2
  <2>6. ASSUME NEW m \in Msg, row[m].fwd, <<m, 0>> \in parts
        PROVE  /\ \A i \in DOMAIN chat : <<m, 0>> \notin chat[i]
               /\ \E x \in Msg : Mates(m, x) /\ First(x) /\ <<x, 0, 0>> \in seen'
    <3>1. /\ \A i \in DOMAIN chat : <<m, 0>> \notin chat[i]
          /\ \E x \in Msg : Mates(m, x) /\ First(x) /\ <<x, 0, 0>> \in RequestIds(w)
      BY <1>2, <2>1, <2>6, ForwardTaken
    <3> QED BY <2>2, <3>1
  <2> HIDE DEF n, parts
  <2>7. ShownIsPosted'
    <3> SUFFICES ASSUME NEW m \in Msg, row'[m].st = "none", NEW i \in DOMAIN chat',
                        <<m, 0>> \in chat'[i]
                 PROVE  FALSE
      BY DEF ShownIsPosted
    <3>1. row[m].st = "none"
      BY RowMoves
    <3> QED BY <2>3, <2>4, <3>1 DEF ForwardInv, ShownIsPosted
  <2>8. ShownIsKnown'
    <3> SUFFICES ASSUME NEW m \in Msg, row'[m].fwd, NEW i \in DOMAIN chat',
                        <<m, 0>> \in chat'[i]
                 PROVE  \E x \in Msg : Mates(m, x) /\ First(x) /\ <<x, 0, 0>> \in seen'
      BY DEF ShownIsKnown, Mates, First
    <3>1. row[m].fwd
      BY <2>5
    <3>2. CASE i \in DOMAIN chat
      BY <2>2, <2>3, <3>1, <3>2 DEF ForwardInv, ShownIsKnown
    <3>3. CASE i = n
      BY <2>3, <2>6, <3>1, <3>3
    <3> QED BY <2>3, <3>2, <3>3
  <2>9. ForwardShownOnce'
    <3> SUFFICES ASSUME NEW m \in Msg \ Plain, row'[m].fwd,
                        NEW i \in DOMAIN chat', NEW j \in DOMAIN chat',
                        <<m, 0>> \in chat'[i], <<m, 0>> \in chat'[j]
                 PROVE  i = j
      BY DEF ForwardShownOnce, Plain
    <3>1. row[m].fwd
      BY <2>5
    <3>2. CASE i \in DOMAIN chat /\ j \in DOMAIN chat
      BY <2>3, <3>1, <3>2 DEF ForwardInv, ForwardShownOnce
    <3>3. CASE i = n \/ j = n
      BY <2>3, <2>6, <3>1, <3>3
    <3> QED BY <2>3, <3>2, <3>3
  <2> QED BY <2>7, <2>8, <2>9 DEF ForwardInv
<1> QED BY <1>1, <1>2

(* A native forward reaches its dialog at most once, as long as nobody     *)
(* retries single messages of it: after lost answers, crashes, bans and    *)
(* moves of the lease its first message claims it again, as a whole and    *)
(* under the same random ids (_claim_one_outbox, _process_forward).        *)
THEOREM ForwardsOnce == Spec /\ []NeverRetried => []ForwardShownOnce
<1>1. Init => WholeInv /\ ForwardInv
  BY DEF Init, NoRow, Idle, WholeInv, NeverRetried, Together, GoesWhole, ForwardInv,
         ShownIsPosted, ShownIsKnown, ForwardShownOnce, Plain
<1>2. QueueInv /\ WholeInv /\ ForwardInv /\ NeverRetried' /\ [Next]_vars
      => WholeInv' /\ ForwardInv'
  BY WholeStep, ForwardStep
<1>3. ForwardInv => ForwardShownOnce
  BY DEF ForwardInv
<1> QED BY <1>1, <1>2, <1>3, QueueCorrect, PTL DEF Spec

-----------------------------------------------------------------------------
(* The queue implements the contract.                                      *)

DeliveryNext == [Contract!Next]_<<Status, ShownParts, Raced>>

(* A plain message that an attempt holds is its only message.              *)
LEMMA HeldPlain ==
  ASSUME QueueInv, NEW w \in Worker, NEW m \in job[w].rows \cap Plain
  PROVE  /\ job[w].rows = {m} /\ job[w].lead = m
         /\ msg[m] = "QUEUED"
<1>1. job[w].ph # "idle"
  <2>1. job[w] \in Job /\ job[w] # Idle
    BY DEF QueueInv, TypeOK, Idle
  <2> QED BY <2>1 DEF Job, Busy
<1>2. job[w].rows = {m} /\ job[w].lead = m
  BY <1>1 DEF QueueInv, GoesAlone
<1>3. row[m].st = "PENDING" /\ msg[m] \in {"none", "QUEUED", "SENT", "FAILED"}
  BY DEF QueueInv, TypeOK, OneSender, Pending, Plain
<1>4. msg[m] = "QUEUED"
  BY <1>3 DEF QueueInv, RowMatchesMessage, Plain
<1> QED BY <1>2, <1>4

(* What Settle does to the statuses of the contract.                       *)
LEMMA SettleStatus ==
  ASSUME QueueInv, NEW w \in Worker, NEW o, Settle(w, o)
  PROVE  \/ Status' = Status
         \/ \E m \in job[w].rows \cap Plain :
              \/ Status' = [Status EXCEPT ![m] = "FAILED"]
              \/ Status' = [Status EXCEPT ![m] = "SENT"] /\ o[m].st = "DONE"
<1>1. CASE job[w].rows \cap Plain = {}
  BY <1>1 DEF Settle, Status, Plain
<1>2. ASSUME NEW m \in job[w].rows \cap Plain
      PROVE  \/ Status' = Status
             \/ Status' = [Status EXCEPT ![m] = "FAILED"]
             \/ Status' = [Status EXCEPT ![m] = "SENT"] /\ o[m].st = "DONE"
  <2>1. job[w].rows = {m}
    BY HeldPlain
  <2>2. msg' = [x \in Msg |-> IF x = m /\ o[m].st = "FAILED" THEN "FAILED"
                              ELSE IF x = m /\ o[m].st = "DONE" THEN "SENT"
                              ELSE msg[x]]
    BY <2>1 DEF Settle
  <2>3. CASE o[m].st = "FAILED"
    BY <2>2, <2>3 DEF Status, Plain
  <2>4. CASE o[m].st = "DONE"
    BY <2>2, <2>4 DEF Status, Plain
  <2>5. CASE o[m].st # "FAILED" /\ o[m].st # "DONE"
    BY <2>2, <2>5 DEF Status, Plain
  <2> QED BY <2>3, <2>4, <2>5
<1> QED BY <1>1, <1>2

LEMMA ShownPartsMember ==
  /\ \A p : p \in ShownParts <=> Shown(p) /\ p[1] \in Plain
  /\ \A p : p \in ShownParts' <=> Shown(p)' /\ p[1] \in Plain
  BY DEF ShownParts, Shown, Plain

(* A call that Telegram takes is the next part, or nothing new.            *)
LEMMA AcceptShown ==
  ASSUME QueueInv, ChatInv, NEW w \in Worker, Calling(w), Accept(w)
  PROVE  \/ ShownParts' = ShownParts
         \/ \E m \in job[w].rows \cap Plain : \E s \in 0..(PartsOf[m] - 1) :
              /\ Contract!NextPart(m, s)
              /\ ShownParts' = ShownParts \cup {<<m, s>>}
<1> DEFINE lead == job[w].lead
           step == job[w].step
           parts == RequestParts(w)
<1>0. TypeOK /\ lead \in Msg /\ step \in Nat /\ lead \in job[w].rows
  BY PlainRequest DEF QueueInv, GoesAlone, Calling
<1>1. CASE UNCHANGED chat
  BY <1>1 DEF ShownParts
<1>2. CASE chat' = Append(chat, parts) /\ RequestIds(w) \cap seen = {}
  <2>1. parts \in SUBSET Part
    BY <1>0, BusyType DEF RequestParts, Part
  <2>2. \A p : Shown(p)' <=> Shown(p) \/ p \in parts
    BY <1>0, <1>2, <2>1, Grown DEF Shown
  <2>3. \A p \in parts : p = <<p[1], step>> /\ p[1] \in job[w].rows
    BY DEF RequestParts
  <2>4. CASE lead \notin Plain
    <3>1. \A p \in parts : p[1] \notin Plain
      BY <1>0, <2>3, <2>4, HeldPlain
    <3> QED BY <2>2, <3>1, ShownPartsMember
  <2>5. CASE lead \in Plain
    <3>1. job[w].rows = {lead}
      BY <1>0, <2>5, HeldPlain
    <3>2. parts = {<<lead, step>>}
      BY <3>1 DEF RequestParts
    <3>3. ShownParts' = ShownParts \cup {<<lead, step>>}
      BY <2>2, <2>5, <3>2, ShownPartsMember
    <3>4. step \in 0..(PartsOf[lead] - 1)
      <4>1. Calls(w) = PartsOf[lead]
        BY <1>0, <2>5 DEF Calls, Native, Lead, QueueInv, FwdBatch, Plain
      <4>2. PartsOf[lead] \in Nat
        BY <1>0, OutboxAssumption
      <4> QED BY <1>0, <4>1, <4>2 DEF Calling
    <3>5. <<lead, step>> \notin ShownParts
      <4>1. <<lead, step, 0>> \in RequestIds(w)
        BY <1>0, <2>5, PlainRequest DEF Calling
      <4>2. ~Shown(<<lead, step>>)
        BY <1>0, <1>2, <2>5, <4>1 DEF ChatInv, SeenShown
      <4> QED BY <4>2, ShownPartsMember
    <3>6. \A t \in Nat : t < step => <<lead, t>> \in ShownParts
      <4>1. \A t \in Nat : t < step => Shown(<<lead, t>>)
        BY <2>5 DEF ChatInv, Progress, Calling
      <4> QED BY <2>5, <4>1, ShownPartsMember
    <3>7. Contract!NextPart(lead, step)
      BY <3>5, <3>6 DEF Contract!NextPart
    <3> QED BY <1>0, <2>5, <3>3, <3>4, <3>7
  <2> QED BY <2>4, <2>5
<1> QED BY <1>1, <1>2 DEF Accept

LEMMA DeliveryStep ==
  ASSUME QueueInv, ChatInv, [Next]_vars PROVE DeliveryNext
<1> USE DEF DeliveryNext, Contract!Next
<1>0. TypeOK
  BY DEF QueueInv
<1>1. ASSUME NEW m \in Msg, Post(m) PROVE DeliveryNext
  <2>1. ShownParts' = ShownParts /\ Raced' = Raced
    BY <1>1 DEF Post, telegram, ShownParts, Raced, Plain
  <2>2. CASE m \in Plain
    <3>1. msg[m] = "none" /\ Group(m) = {m}
      BY <1>1, <2>2 DEF Post, Group, Plain, QueueInv, RowMatchesMessage
    <3>2. Status[m] = "none" /\ Status' = [Status EXCEPT ![m] = "QUEUED"]
      BY <1>1, <2>2, <3>1 DEF Post, Status, Plain
    <3> QED BY <2>1, <2>2, <3>2 DEF Contract!Enqueue
  <2>3. CASE m \notin Plain
    <3>1. Group(m) \cap Plain = {}
      BY <2>3 DEF Group, Plain
    <3>2. Status' = Status
      BY <1>1, <3>1 DEF Post, Status, Plain
    <3> QED BY <2>1, <3>2
  <2> QED BY <2>2, <2>3
<1>2. ASSUME NEW m \in Msg, Writes(m) PROVE DeliveryNext
  <2>1. ShownParts' = ShownParts /\ Raced' = Raced
    BY <1>0, <1>2, WritesOnly DEF ShownParts, Raced, Plain
  <2>2. msg[m] = "FAILED" \/ m \in doubled
    BY <1>0, <1>2, WritesOnly DEF QueueInv, Fresh, NoRetry
  <2>5. msg' = [msg EXCEPT ![m] = "QUEUED"]
    BY <1>0, <1>2, WritesOnly
  <2>3. CASE m \in Plain
    <3>1. Status[m] = "FAILED" \/ m \in Raced
      BY <2>2, <2>3 DEF Status, Raced
    <3>2. Status' = [Status EXCEPT ![m] = "QUEUED"]
      BY <1>0, <2>5, <2>3 DEF TypeOK, Status, Plain
    <3> QED BY <2>1, <2>3, <3>1, <3>2 DEF Contract!Retry
  <2>4. CASE m \notin Plain
    <3>1. Status' = Status
      BY <1>0, <2>5, <2>4 DEF TypeOK, Status, Plain
    <3> QED BY <2>1, <3>1
  <2> QED BY <2>3, <2>4
<1>3. ASSUME NEW w \in Worker, StepAccepted(w) PROVE DeliveryNext
  <2>1. Status' = Status /\ Raced' = Raced /\ Calling(w) /\ Accept(w)
    BY <1>3 DEF StepAccepted, Answering, db, Status, Raced, Plain
  <2>2. CASE ShownParts' = ShownParts
    BY <2>1, <2>2
  <2>3. ASSUME NEW m \in job[w].rows \cap Plain, NEW s \in 0..(PartsOf[m] - 1),
               Contract!NextPart(m, s), ShownParts' = ShownParts \cup {<<m, s>>}
        PROVE  DeliveryNext
    <3>1. m \in Plain /\ Status[m] = "QUEUED"
      BY HeldPlain DEF Status
    <3> QED BY <2>1, <2>3, <3>1 DEF Contract!Try
  <2> QED BY <2>1, <2>2, <2>3, AcceptShown
<1>4. ASSUME NEW w \in Worker, StepLost(w) PROVE DeliveryNext
  <2>1. Settle(w, Retried) /\ Calling(w) /\ Accept(w) /\ Raced' = Raced
    BY <1>4 DEF StepLost, Answering, Raced, Plain
  <2>2. \A m \in job[w].rows \cap Plain :
          m \in Plain /\ Status[m] = "QUEUED" /\ job[w].rows = {m}
    BY HeldPlain DEF Status
  <2>3. \A m \in job[w].rows \cap Plain : Retried[m].st # "DONE"
    BY Outcomes, NotDone
  <2>4. \/ Status' = Status
        \/ \E m \in job[w].rows \cap Plain : Status' = [Status EXCEPT ![m] = "FAILED"]
    BY <2>1, <2>3, SettleStatus
  <2>5. CASE ShownParts' = ShownParts
    BY <2>1, <2>2, <2>4, <2>5 DEF Contract!Try
  <2>6. ASSUME NEW m \in job[w].rows \cap Plain, NEW s \in 0..(PartsOf[m] - 1),
               Contract!NextPart(m, s), ShownParts' = ShownParts \cup {<<m, s>>}
        PROVE  DeliveryNext
    <3>1. m \in Plain /\ Status[m] = "QUEUED"
      BY <2>2
    <3>2. Status' = Status \/ Status' = [Status EXCEPT ![m] = "FAILED"]
      BY <2>2, <2>4
    <3> QED BY <2>1, <2>6, <3>1, <3>2 DEF Contract!Try
  <2> QED BY <2>1, <2>5, <2>6, AcceptShown
<1>5. ASSUME NEW w \in Worker,
             \/ StepRefused(w) \/ StepImpossible(w) \/ SessionLost(w)
             \/ FileNotReady(w) \/ SendImpossible(w) \/ ForwardImpossible(w)
      PROVE  DeliveryNext
  <2>1. ShownParts' = ShownParts /\ Raced' = Raced
    BY <1>5 DEF StepRefused, StepImpossible, SessionLost, FileNotReady,
                SendImpossible, ForwardImpossible, telegram, ShownParts, Raced, Plain
  <2>2. \E o \in {Retried, GivenUp, Copied, Postponed(FileWait)} : Settle(w, o)
    BY <1>5 DEF StepRefused, StepImpossible, SessionLost, FileNotReady,
                SendImpossible, ForwardImpossible
  <2>3. \/ Status' = Status
        \/ \E m \in job[w].rows \cap Plain : Status' = [Status EXCEPT ![m] = "FAILED"]
    BY <2>2, SettleStatus, NotDone
  <2>4. \A m \in job[w].rows \cap Plain : m \in Plain /\ Status[m] = "QUEUED"
    BY HeldPlain DEF Status
  <2> QED BY <2>1, <2>3, <2>4 DEF Contract!Try
<1>6. ASSUME NEW w \in Worker, SendCommit(w) PROVE DeliveryNext
  <2>1. /\ ShownParts' = ShownParts /\ Raced' = Raced /\ Settle(w, Delivered)
        /\ job[w].ph = "calling" /\ job[w].step = Calls(w)
    BY <1>6 DEF SendCommit, telegram, ShownParts, Raced, Plain
  <2>2. \/ Status' = Status
        \/ \E m \in job[w].rows \cap Plain : \/ Status' = [Status EXCEPT ![m] = "FAILED"]
                                             \/ Status' = [Status EXCEPT ![m] = "SENT"]
    BY <2>1, SettleStatus
  <2>3. ASSUME NEW m \in job[w].rows \cap Plain
        PROVE  m \in Plain /\ Status[m] = "QUEUED" /\ Contract!AllParts(m) \subseteq ShownParts
    <3>1. m \in Plain /\ Status[m] = "QUEUED" /\ job[w].lead = m
      BY HeldPlain DEF Status
    <3>2. job[w].step = PartsOf[m] /\ PartsOf[m] \in Nat
      BY <2>1, <3>1, OutboxAssumption DEF Calls, Native, Lead, QueueInv, FwdBatch, Plain
    <3>3. \A s \in 0..(PartsOf[m] - 1) : <<m, s>> \in ShownParts
      BY <2>1, <3>1, <3>2, ShownPartsMember DEF ChatInv, Progress
    <3> QED BY <3>1, <3>3 DEF Contract!AllParts
  <2> QED BY <2>1, <2>2, <2>3 DEF Contract!Try, Contract!Finish
<1>7. ASSUME UNCHANGED <<msg, chat, doubled>> PROVE DeliveryNext
  BY <1>7 DEF Status, ShownParts, Raced, Plain
<1>8. ASSUME NEW m \in Msg, Asks(m) PROVE DeliveryNext
  <2>1. Status' = Status /\ ShownParts' = ShownParts
    BY <1>8, AsksOnly DEF Status, ShownParts, Plain
  <2>2. CASE doubled' = doubled
    BY <2>1, <2>2 DEF Raced, Plain
  <2>3. CASE doubled' = doubled \cup {m} /\ msg[m] = "FAILED"
    <3>1. CASE m \in Plain
      BY <2>1, <2>3, <3>1 DEF Raced, Plain, Status, Contract!Race
    <3>2. CASE m \notin Plain
      BY <2>1, <2>3, <3>2 DEF Raced, Plain
    <3> QED BY <3>1, <3>2
  <2>4. doubled' = doubled \/ (doubled' = doubled \cup {m} /\ msg[m] = "FAILED")
    BY <1>8 DEF Asks, RetryRead, RetryReadRow, RetryAborted
  <2> QED BY <2>2, <2>3, <2>4
<1>9. ASSUME NEW w \in Worker,
             \/ StartDrain(w) \/ EndDrain(w) \/ (\E m \in Msg : Claim(w, m))
             \/ SessionRevoked(w) \/ FloodAnswer(w) \/ FloodCommit(w)
             \/ FloodDeadlock(w) \/ Rollback(w) \/ Crash(w) \/ LeaseMoves(w)
      PROVE  UNCHANGED <<msg, chat, doubled>>
  BY <1>9 DEF StartDrain, EndDrain, Claim, SessionRevoked, FloodAnswer,
              FloodCommit, FloodDeadlock, Rollback, Crash, LeaseMoves, db, telegram
<1>10. ASSUME (\E m \in Msg : FileSettles(m)) \/ Reconnect \/ Tick \/ UNCHANGED vars
       PROVE  UNCHANGED <<msg, chat, doubled>>
  BY <1>10 DEF FileSettles, Reconnect, Tick, vars, db, telegram
<1> QED
  BY <1>1, <1>2, <1>3, <1>4, <1>5, <1>6, <1>7, <1>8, <1>9, <1>10 DEF Next, Send, Asks, Writes

(* The queue keeps the contract of module Delivery: a part reaches the     *)
(* client once and in its place, SENT means all of them, and only an error *)
(* is queued again, or a message that was retried twice at once.           *)
THEOREM Refinement == Spec => ImplementsDelivery
<1>1. Init => Contract!Init
  BY DEF Init, Contract!Init, Status, ShownParts, Raced, Plain
<1>2. QueueInv /\ ChatInv /\ [Next]_vars
        => [Contract!Next]_<<Status, ShownParts, Raced>>
  BY DeliveryStep DEF DeliveryNext
<1> QED BY <1>1, <1>2, QueueCorrect, ChatCorrect, PTL
        DEF Spec, ImplementsDelivery, Contract!Spec, Contract!vars

=============================================================================

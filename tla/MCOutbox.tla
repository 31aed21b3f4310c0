------------------------------ MODULE MCOutbox ------------------------------
(***************************************************************************)
(* Instances of the outgoing queue for TLC.                                *)
(***************************************************************************)
EXTENDS Outbox, TLC

\* Two messages of one dialog; the first is sent in two calls.
OneDialog == [m \in Msg |-> 1]
TwoPartsThenOne == [m \in Msg |-> IF m = 1 THEN 2 ELSE 1]
OnePart == [m \in Msg |-> 1]
AllPlain == [m \in Msg |-> 0]
NoFiles == [m \in Msg |-> "none"]
FirstFilePending == [m \in Msg |-> IF m = 1 THEN "pending" ELSE "none"]

\* The last two messages are one native forward.
ForwardAtEnd == [m \in Msg |-> IF m >= NMsg - 1 THEN 1 ELSE 0]

BackoffTicks == [a \in 1..MaxAttempts |-> a]

\* Retried in two tabs at once the first message is alone; a third fault is
\* for it only.
RetriedTwiceAlone ==
  IF doubled = {} THEN faults < MaxFaults
  ELSE \A m \in Msg \ {1} : row[m].st = "none"

Symmetry == Permutations(Worker) \cup Permutations(Tab)
=============================================================================

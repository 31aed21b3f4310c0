------------------------------ MODULE Delivery ------------------------------
(***************************************************************************)
(* What the outgoing queue promises to the manager and to the client, for  *)
(* ordinary messages, whatever happens to the gateway processes:           *)
(*   - a message in the queue ends as SENT or FAILED; FAILED can be        *)
(*     retried, SENT is final, unless two requests to retry the message    *)
(*     were under way at once: the later one may queue it again;           *)
(*   - SENT is reported only when the client has every part;               *)
(*   - the client gets the parts in their order, each of them once.        *)
(* `shown` only grows by the next part of a queued message: a repeated     *)
(* request is a stuttering step here.                                      *)
(***************************************************************************)
EXTENDS Naturals

CONSTANTS Message, Parts      \* Parts[m] is how many parts message m has

VARIABLES status, shown, raced   \* raced: messages that were retried twice at once

vars == <<status, shown, raced>>

AllParts(m) == {<<m, s>> : s \in 0..(Parts[m] - 1)}

Init ==
  /\ status = [m \in Message |-> "none"]
  /\ shown = {}
  /\ raced = {}

Enqueue(m) ==
  /\ status[m] = "none"
  /\ status' = [status EXCEPT ![m] = "QUEUED"]
  /\ UNCHANGED <<shown, raced>>

(* Part s follows parts already shown.                                     *)
NextPart(m, s) ==
  /\ <<m, s>> \notin shown
  /\ \A t \in 0..s : t < s => <<m, t>> \in shown

(* One try: the next part reaches the client or it does not; the sender    *)
(* keeps the message or gives it up.                                       *)
Try(m) ==
  /\ status[m] = "QUEUED"
  /\ \/ UNCHANGED shown
     \/ \E s \in 0..(Parts[m] - 1) : NextPart(m, s) /\ shown' = shown \cup {<<m, s>>}
  /\ \/ UNCHANGED status
     \/ status' = [status EXCEPT ![m] = "FAILED"]
  /\ UNCHANGED raced

Finish(m) ==
  /\ status[m] = "QUEUED"
  /\ AllParts(m) \subseteq shown
  /\ status' = [status EXCEPT ![m] = "SENT"]
  /\ UNCHANGED <<shown, raced>>

(* A second request begins before the first has written.                   *)
Race(m) ==
  /\ status[m] = "FAILED"
  /\ raced' = raced \cup {m}
  /\ UNCHANGED <<status, shown>>

Retry(m) ==
  /\ status[m] = "FAILED" \/ m \in raced
  /\ status' = [status EXCEPT ![m] = "QUEUED"]
  /\ UNCHANGED <<shown, raced>>

Next == \E m \in Message : Enqueue(m) \/ Try(m) \/ Finish(m) \/ Race(m) \/ Retry(m)

Spec == Init /\ [][Next]_vars
=============================================================================

------------------------------- MODULE Queue -------------------------------
(***************************************************************************)
(* The reply queue.  Clients write and wait; an employee presses "take the *)
(* first in the queue" and is led to one chat after the other.  The        *)
(* browser remembers the chats it was led to and has the server skip them; *)
(* a chat that waits anew is taken off that list.  Opening a chat by a     *)
(* manager, not by an administrator, marks the waiting as seen, and seen   *)
(* chats come after unseen ones.                                           *)
(*                                                                         *)
(* Chats are their ids, times are the numbers of the messages of clients.  *)
(***************************************************************************)
EXTENDS Integers, Sequences, FiniteSets

CONSTANTS Chat, NoChat,
          IsManager,    \* who presses the button: a manager or an administrator
          MAX_TAKEN,    \* chats the browser remembers, MAX_SKIP of the server
          MaxMessages   \* bound

ASSUME QueueAssumption ==
    /\ Chat \subseteq Nat
    /\ NoChat \notin Chat
    /\ IsManager \in BOOLEAN
    /\ MAX_TAKEN \in Nat \ {0}
    /\ MaxMessages \in Nat

VARIABLES since,     \* awaiting_reply_since of each chat
          seen,      \* there is one and awaiting_seen_at is not before it
          hour,      \* the number of messages so far
          taken,     \* what the browser remembers: chats and what they waited since
          marks,     \* requests to mark a chat read, on their way
          circle     \* history: the waits offered since the circle began, kept
                     \* while the browser's list holds all of them

queueVars == <<since, seen, hour, taken, marks, circle>>

-----------------------------------------------------------------------------
Never == 0

Entry == [id: Chat, since: Never..MaxMessages]

QueueTypeOK ==
    /\ since \in [Chat -> Never..MaxMessages]
    /\ seen \in [Chat -> BOOLEAN]
    /\ hour \in Never..MaxMessages
    /\ taken \in Seq(Entry) /\ Len(taken) <= MAX_TAKEN
    /\ marks \subseteq Chat
    /\ circle \subseteq Entry

QueueInit ==
    /\ since = [c \in Chat |-> Never]
    /\ seen = [c \in Chat |-> FALSE]
    /\ hour = Never
    /\ taken = <<>>
    /\ marks = {}
    /\ circle = {}

-----------------------------------------------------------------------------
\* A client writes: the wait begins with the first message without an
\* answer, and a new wait is unseen.
ClientWrites(c) ==
    /\ hour < MaxMessages
    /\ hour' = hour + 1
    /\ IF since[c] = Never
       THEN since' = [since EXCEPT ![c] = hour'] /\ seen' = [seen EXCEPT ![c] = FALSE]
       ELSE UNCHANGED <<since, seen>>
    /\ UNCHANGED <<taken, marks, circle>>

\* Somebody answers, from the product or from a phone.
ClientAnswered(c) ==
    /\ since[c] # Never
    /\ since' = [since EXCEPT ![c] = Never]
    /\ seen' = [seen EXCEPT ![c] = FALSE]
    /\ UNCHANGED <<hour, taken, marks, circle>>

\* mark_read
SeenOnOpen(c) == seen[c] \/ (since[c] # Never /\ IsManager)

\* A chat opened from the list, by the same employee.
OpenFromList(c) ==
    /\ since[c] # Never /\ ~seen[c]
    /\ c \notin marks
    /\ marks' = marks \cup {c}
    /\ UNCHANGED <<since, seen, hour, taken, circle>>

MarkRead(c) ==
    /\ c \in marks
    /\ marks' = marks \ {c}
    /\ seen' = [seen EXCEPT ![c] = SeenOnOpen(c)]
    /\ UNCHANGED <<since, hour, taken, circle>>

-----------------------------------------------------------------------------
(* "Take the first in the queue". *)

\* Waits again: longer than what the browser remembers of it.
WaitsAnew(e) == since[e.id] # Never /\ since[e.id] > e.since

\* A list without the entries in `gone`, the others in their order.
Without(t, gone) ==
    LET stay == {i \in DOMAIN t : t[i] \notin gone}
        from == CHOOSE f \in [1..Cardinality(stay) -> stay] :
                    \A m, n \in DOMAIN f : m < n => f[m] < f[n]
    IN [n \in DOMAIN from |-> t[from[n]]]

\* pruneTaken
Pruned == Without(taken, {e \in Entry : WaitsAnew(e)})

Ids(t) == {t[i].id : i \in DOMAIN t}

\* pushTaken: at the end, once, and the oldest beyond the limit is dropped.
Pushed(t, e) ==
    LET all == Append(Without(t, {x \in Entry : x.id = e.id}), e)
    IN SubSeq(all, IF Len(all) > MAX_TAKEN THEN Len(all) - MAX_TAKEN + 1 ELSE 1, Len(all))

Waiting == {c \in Chat : since[c] # Never}

\* Mutant: the longest waiting first, opened or not.
Longest(c, d) == since[c] < since[d]
\* next_order among the waiting: unseen first, then by the time of waiting.
Sooner(c, d) == \/ ~seen[c] /\ seen[d]
                \/ seen[c] = seen[d] /\ since[c] < since[d]

\* The waiting chats that are not skipped.
Offered(skip) == Waiting \ skip

\* next_in_queue: the first that waits; when nobody waits the most recent
\* chat, here any; NoChat when all were taken already.
NextInQueue(skip) ==
    CASE Offered(skip) # {} ->
           {c \in Offered(skip) : \A d \in Offered(skip) \ {c} : Sooner(c, d)}
      [] Offered(skip) = {} /\ Waiting = {} /\ Chat \ skip # {} -> Chat \ skip
      [] OTHER -> {NoChat}

\* The list has dropped nothing of the circle yet.
Lost == {[id |-> c, since |-> Never] : c \in Chat}
Holds(led, t) == led # Lost /\ Len(t) < MAX_TAKEN

\* The button, pressed by an employee whom the counters tell that somebody
\* waits (they may be a minute old) or not.
TakeFirst ==
    /\ UNCHANGED <<since, seen, hour>>
    /\ \E remembered \in {taken, Pruned} : \E c \in NextInQueue(Ids(remembered)) :
         \/ /\ c = NoChat            \* queue_done: the circle starts anew
            /\ taken' = <<>> /\ circle' = {}
            /\ UNCHANGED marks
         \/ /\ c # NoChat
            /\ LET e == [id |-> c, since |-> since[c]] IN
                 /\ taken' = Pushed(remembered, e)
                 /\ circle' = IF Holds(circle, remembered) THEN circle \cup {e} ELSE Lost
            /\ marks' = marks \cup {c}

QueueNext ==
    \/ \E c \in Chat : \/ ClientWrites(c) \/ ClientAnswered(c)
                       \/ OpenFromList(c) \/ MarkRead(c)
    \/ TakeFirst

QueueSpec == QueueInit /\ [][QueueNext]_queueVars

-----------------------------------------------------------------------------
(* Properties. *)

\* The employee is not led to the same wait twice while there is one in the
\* queue the button never led to (conversation_service.py: "they are not
\* repeated while the queue has others"), as long as the browser's list holds
\* all the employee was led to.
NoRepeatWhileOthers ==
    [][TakeFirst /\ taken' # <<>> /\ circle # Lost =>
         \/ taken'[Len(taken')] \notin circle
         \/ \A c \in Waiting : [id |-> c, since |-> since[c]] \in circle]_queueVars

\* A client who waits is reached: an employee who keeps pressing is led to
\* the chat, or it is answered, or seen, before.
EachIsOffered ==
    \A c \in Chat : (since[c] # Never /\ ~seen[c]) ~>
                        (c \in Ids(taken) \/ since[c] = Never \/ seen[c])

\* Only opening the chat, and by a manager, makes a wait seen.
SeenIsSeen ==
    [][\A c \in Chat : seen'[c] /\ ~seen[c] => c \in marks /\ IsManager /\ since[c] # Never]_queueVars

\* The button leads an employee to every client who waits, to no one twice
\* in a round, and only the opening of a chat takes it out of the rounds
\* (next_in_queue, mark_read, takeNext).
OfferedInTurn == []QueueTypeOK /\ NoRepeatWhileOthers /\ EachIsOffered /\ SeenIsSeen

=============================================================================

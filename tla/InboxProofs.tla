----------------------------- MODULE InboxProofs -----------------------------
(***************************************************************************)
(* The counters of the chats, for any number of chats, messages, crashes   *)
(* and walks, any size of a batch and of a page, and wherever the week is. *)
(*                                                                         *)
(* The waiting and the number of unread of a chat are two columns of one   *)
(* row; each is kept by itself (Waiting, Unread), until it is written from *)
(* an old reading of it or a message is applied after a newer one.         *)
(***************************************************************************)
EXTENDS Inbox, FiniteSetTheorems, NaturalsInduction, WellFoundedInduction, TLAPS

SyncRow ==
  [at : {"off", "next", "list", "walk", "insert"}, since : Nat, left : SUBSET Chat,
   chat : Chat \cup {NoSync.chat}, known : SUBSET Nat, todo : SUBSET Nat, cur : Nat,
   met : BOOLEAN, batch : SUBSET Nat, locked : BOOLEAN]

\* What the walk has in hand are messages of Telegram.
WalkIsReal ==
  /\ sync \in SyncRow /\ sync.todo \subseteq 1..Len(tg)
  /\ sync.at = "insert" => sync.cur \in 1..Len(tg)

\* What a task has inserted is new, to the CRM and to the walk.
InsertedIsNew ==
  \A i \in Id : task[i].at = "inserted" => i \notin rows /\ i \notin sync.batch

\* What rings comes from the clients.
RangIn == \A i \in story.rang : ~tg[i].out
Waiting == \A c \in Chat \ story.misdated : WaitsFromTheFirst(c)
Unread == \A c \in Chat \ story.miscounted : UnreadIsRight(c)
Honest == RangIn /\ Waiting /\ Unread

StoryRow(R, n) == [rang : SUBSET R, read : [Chat -> Nat], cut : SUBSET (1..n),
                   miscounted : SUBSET Chat, misdated : SUBSET Chat]

InboxInv == TypeOK /\ WalkIsReal /\ InsertedIsNew /\ Honest

-----------------------------------------------------------------------------
(* Numbers and sets of messages.                                           *)

LEMMA Bounds == Batch \in Nat /\ Batch # 0 /\ Limit \in Nat /\ MaxMsg \in Nat /\ MaxTroubles \in Nat
BY InboxAssumption

LEMMA Least ==
  ASSUME NEW S \in SUBSET Nat, S # {}
  PROVE  Min(S) \in S /\ \A y \in S : Min(S) <= y
<1>1. \E x \in S : \A y \in S : ~ (<<y, x>> \in OpToRel(<, Nat))
  BY NatLessThanWellFounded, WFMin
<1>2. \A x, y \in Nat : <<y, x>> \in OpToRel(<, Nat) <=> y < x
  BY DEF OpToRel
<1>3. PICK x \in S : \A y \in S : ~ (<<y, x>> \in OpToRel(<, Nat))
  BY <1>1
<1>4. \A y \in S : ~ (y < x)
  BY <1>2, <1>3
<1>5. \A y \in S : x <= y
  BY <1>4
<1> QED BY <1>5 DEF Min

LEMMA Greatest ==
  ASSUME NEW n \in Nat, NEW S \in SUBSET (0..n), S # {}
  PROVE  Max(S) \in S /\ \A y \in S : Max(S) >= y
<1> DEFINE D == {n - x : x \in S}
<1>1. D \in SUBSET Nat /\ D # {}
  <2>1. \A x \in S : n - x \in Nat
    OBVIOUS
  <2>2. \A d \in D : d \in Nat
    BY <2>1
  <2> QED BY <2>2
<1>2. Min(D) \in D /\ \A y \in D : Min(D) <= y
  BY <1>1, Least
<1>3. PICK x \in S : n - x = Min(D)
  BY <1>2
<1>4. \A y \in S : x >= y
  <2> SUFFICES ASSUME NEW y \in S PROVE x >= y
    OBVIOUS
  <2>1. n - y \in D
    OBVIOUS
  <2>2. n - x <= n - y
    BY <1>2, <1>3, <2>1
  <2> HIDE DEF D
  <2> QED BY <2>2
<1> QED BY <1>4 DEF Max

\* Sets of messages are finite.
LEMMA Small ==
  ASSUME NEW n \in Nat, NEW S \in SUBSET (1..n)
  PROVE  IsFiniteSet(S) /\ Cardinality(S) \in Nat
<1>1. IsFiniteSet(1..n)
  BY FS_Interval
<1> QED BY <1>1, FS_Subset, FS_CardinalityType

LEMMA LatestOf ==
  ASSUME NEW n \in Nat, NEW S \in SUBSET (1..n)
  PROVE  /\ Latest(S) \in 0..n /\ \A i \in S : i <= Latest(S)
         /\ S = {} => Latest(S) = 0
         /\ S # {} => Latest(S) \in S
<1>1. CASE S = {}
  BY <1>1 DEF Latest
<1>2. CASE S # {}
  <2>1. S \in SUBSET (0..n)
    OBVIOUS
  <2>2. Max(S) \in S /\ \A y \in S : Max(S) >= y
    BY <1>2, <2>1, Greatest
  <2>3. Latest(S) = Max(S)
    BY <1>2 DEF Latest
  <2> QED BY <1>2, <2>1, <2>2, <2>3
<1> QED BY <1>1, <1>2

LEMMA LaterOf ==
  /\ \A a, b \in Nat : Later(a, b) \in Nat /\ Later(a, b) >= a /\ Later(a, b) >= b
  /\ \A a, b \in Nat : a <= b => Later(a, b) = b
  /\ \A a \in Nat : Later(a, 0) = a
BY DEF Later

LEMMA One ==
  ASSUME NEW i \in Nat
  PROVE  Max({i}) = i /\ Min({i}) = i /\ IsFiniteSet({i}) /\ Cardinality({i}) = 1
<1>1. Min({i}) \in {i}
  BY Least
<1>2. Max({i}) \in {i}
  BY Greatest
<1> QED BY <1>1, <1>2, FS_Singleton

LEMMA MessagesHold ==
  ASSUME TypeOK
  PROVE  /\ Len(tg) \in Nat /\ Len(tg) <= MaxMsg /\ 1..Len(tg) \subseteq Id
         /\ \A i \in 1..Len(tg) : tg[i].chat \in Chat /\ tg[i].out \in BOOLEAN
         /\ \A c : Of(c) \subseteq 1..Len(tg) /\ Incoming(c) \subseteq Of(c)
         /\ \A c : Latest(Incoming(c) \cap rows) \in Nat
<1>1. Len(tg) \in Nat /\ Len(tg) <= MaxMsg /\ 1..Len(tg) \subseteq Id
  BY Bounds DEF TypeOK, Id
<1>2. \A i \in 1..Len(tg) : tg[i].chat \in Chat /\ tg[i].out \in BOOLEAN
  <2> DEFINE M == [chat : Chat, out : BOOLEAN, missed : BOOLEAN]
  <2>1. tg \in Seq(M)
    BY DEF TypeOK
  <2> HIDE DEF M
  <2>2. \A i \in 1..Len(tg) : tg[i] \in M
    BY <2>1
  <2> QED BY <2>2 DEF M
<1>3. \A c : Of(c) \subseteq 1..Len(tg) /\ Incoming(c) \subseteq Of(c)
  BY DEF Of, Incoming
<1>4. \A c : Latest(Incoming(c) \cap rows) \in Nat
  BY <1>1, <1>3, LatestOf
<1> QED BY <1>1, <1>2, <1>3, <1>4

LEMMA Rows ==
  /\ NoRow \in Row
  /\ \A r \in Row : /\ r.exists \in BOOLEAN /\ r.unread \in Nat /\ r.awaiting \in Nat
                    /\ r.manager \in Nat
BY DEF Row, NoRow

LEMMA AppliedIsRow ==
  ASSUME TypeOK, NEW r \in Row, NEW S \in SUBSET (1..Len(tg)), NEW live \in BOOLEAN
  PROVE  Applied(r, S, live) \in Row
<1> DEFINE outs == {i \in S : tg[i].out}
           ringing == {i \in S \ outs : Counted(i, live)}
<1>1. /\ outs \in SUBSET (1..Len(tg)) /\ S \ outs \in SUBSET (1..Len(tg))
      /\ ringing \in SUBSET (1..Len(tg)) /\ Len(tg) \in Nat
  BY MessagesHold
<1>2. Latest(outs) \in Nat
  BY <1>1, LatestOf
<1>3. Cardinality(ringing) \in Nat
  BY <1>1, Small
<1>4. ringing # {} => Min(ringing) \in Nat
  <2>1. ringing \in SUBSET Nat
    BY <1>1
  <2> HIDE DEF ringing
  <2> QED BY <2>1, Least
<1> DEFINE ma == Later(r.manager, Latest(outs))
           un == r.unread + Cardinality(ringing)
           aw == IF \E i \in S : Clears(i) THEN 0
                 ELSE IF r.awaiting = 0 /\ ringing # {} THEN Min(ringing) ELSE r.awaiting
<1>5. ma \in Nat
  BY <1>2, Rows DEF Later
<1>6. un \in Nat
  BY <1>3, Rows
<1>7. aw \in Nat
  BY <1>4, Rows
<1>8. Applied(r, S, live) = [exists |-> TRUE, manager |-> ma, unread |-> un, awaiting |-> aw]
  BY DEF Applied
<1> HIDE DEF ma, un, aw
<1> QED BY <1>5, <1>6, <1>7, <1>8 DEF Row

\* The columns that were not changed meanwhile get their new values.
LEMMA NothingMeanwhile ==
  ASSUME NEW r \in Row, NEW seen \in Row, NEW new \in Row
  PROVE  /\ r.unread = seen.unread \/ new.unread = r.unread
              => Merge(r, seen, new).unread = new.unread
         /\ new.unread = seen.unread => Merge(r, seen, new).unread = r.unread
         /\ r.awaiting = seen.awaiting => Merge(r, seen, new).awaiting = new.awaiting
         /\ r.manager = seen.manager => Merge(r, seen, new).manager = new.manager
BY DEF Merge, Column, Row

LEMMA MergeIsRow ==
  ASSUME NEW r \in Row, NEW seen \in Row, NEW new \in Row
  PROVE  Merge(r, seen, new) \in Row
BY DEF Merge, Column, Row

-----------------------------------------------------------------------------
(* What becomes of the counters of one chat.                               *)

LEMMA StoryHolds ==
  ASSUME TypeOK
  PROVE  /\ story.rang \subseteq rows /\ rows \subseteq 1..Len(tg) /\ Len(tg) \in Nat
         /\ story \in StoryRow(rows, Len(tg)) /\ story.read \in [Chat -> Nat]
         /\ story.miscounted \subseteq Chat /\ story.misdated \subseteq Chat
         /\ \A c \in Chat : /\ conv[c] \in Row /\ story.read[c] \in Nat
                            /\ conv[c].unread \in Nat /\ conv[c].awaiting \in Nat
                            /\ conv[c].manager \in Nat
         /\ \A c : Open(c) \in SUBSET (1..Len(tg))
         /\ \A c : Fresh(c, rows) \in SUBSET (1..Len(tg))
         /\ \A c : Fresh(c, story.rang) \in SUBSET Fresh(c, rows)
<1>1. /\ story.rang \subseteq rows /\ rows \subseteq 1..Len(tg) /\ Len(tg) \in Nat
      /\ story \in StoryRow(rows, Len(tg)) /\ story.read \in [Chat -> Nat]
      /\ story.miscounted \subseteq Chat /\ story.misdated \subseteq Chat
      /\ conv \in [Chat -> Row]
  BY MessagesHold DEF TypeOK, StoryRow
<1>2. \A c \in Chat : /\ conv[c] \in Row /\ story.read[c] \in Nat
                      /\ conv[c].unread \in Nat /\ conv[c].awaiting \in Nat
                      /\ conv[c].manager \in Nat
  BY <1>1, Rows
<1>3. \A c : Open(c) \in SUBSET (1..Len(tg))
  BY <1>1 DEF Open
<1>4. /\ \A c : Fresh(c, rows) \in SUBSET (1..Len(tg))
      /\ \A c : Fresh(c, story.rang) \in SUBSET Fresh(c, rows)
  BY <1>1 DEF Fresh
<1> QED BY <1>1, <1>2, <1>3, <1>4

LEMMA FreshIsFinite ==
  ASSUME TypeOK, NEW c
  PROVE  /\ IsFiniteSet(Fresh(c, story.rang)) /\ Cardinality(Fresh(c, story.rang)) \in Nat
         /\ IsFiniteSet(Fresh(c, rows)) /\ Cardinality(Fresh(c, rows)) \in Nat
<1>1. /\ Fresh(c, story.rang) \in SUBSET (1..Len(tg)) /\ Fresh(c, rows) \in SUBSET (1..Len(tg))
      /\ Len(tg) \in Nat
  BY StoryHolds
<1> QED BY <1>1, Small

\* The waiting of the chat, and its number, when nothing of theirs has changed.
LEMMA WaitingStays ==
  ASSUME NEW c \in Chat, WaitsFromTheFirst(c),
         story'.rang \cap Of(c)' = story.rang \cap Of(c),
         conv'[c].awaiting = conv[c].awaiting, conv'[c].manager = conv[c].manager
  PROVE  WaitsFromTheFirst(c)'
<1>1. Open(c)' = Open(c)
  BY DEF Open
<1> QED BY <1>1 DEF WaitsFromTheFirst

LEMMA UnreadStays ==
  ASSUME NEW c \in Chat, UnreadIsRight(c),
         story'.rang \cap Incoming(c)' = story.rang \cap Incoming(c),
         rows' \cap Incoming(c)' = rows \cap Incoming(c),
         conv'[c].unread = conv[c].unread, story'.read[c] = story.read[c]
  PROVE  UnreadIsRight(c)'
<1>1. Fresh(c, rows)' = Fresh(c, rows) /\ Fresh(c, story.rang)' = Fresh(c, story.rang)
  BY DEF Fresh
<1> QED BY <1>1 DEF UnreadIsRight

\* What one live message makes of a row.
LEMMA LiveApplied ==
  ASSUME NEW i \in Nat, NEW r \in Row
  PROVE  LET a == Applied(r, {i}, TRUE) IN
         /\ a.manager = IF tg[i].out THEN Later(r.manager, i) ELSE r.manager
         /\ a.unread = IF tg[i].out THEN r.unread ELSE r.unread + 1
         /\ a.awaiting = IF tg[i].out THEN 0 ELSE IF r.awaiting = 0 THEN i ELSE r.awaiting
<1> DEFINE a == Applied(r, {i}, TRUE)
<1>1. r.unread \in Nat /\ r.awaiting \in Nat /\ r.manager \in Nat
  BY Rows
<1>2. Max({i}) = i /\ Min({i}) = i /\ Cardinality({i}) = 1
  BY One
<1>3. Latest({i}) = i /\ Latest({}) = 0
  BY <1>2 DEF Latest
<1>4. CASE tg[i].out
  <2>1. /\ {j \in {i} : tg[j].out} = {i} /\ {i} \ {i} = {}
        /\ {j \in {} : Counted(j, TRUE)} = {}
    BY <1>4
  <2>2. Applied(r, {i}, TRUE)
          = [exists |-> TRUE, manager |-> Later(r.manager, i),
             unread |-> r.unread + 0, awaiting |-> 0]
    BY <1>3, <1>4, <2>1, FS_EmptySet DEF Applied, Clears
  <2>3. r.unread + 0 = r.unread
    BY <1>1
  <2>4. a = [exists |-> TRUE, manager |-> Later(r.manager, i),
             unread |-> r.unread, awaiting |-> 0]
    BY <2>2, <2>3
  <2> HIDE DEF a
  <2>5. a.manager = Later(r.manager, i) /\ a.unread = r.unread /\ a.awaiting = 0
    BY <2>4
  <2> QED BY <1>4, <2>5 DEF a
<1>5. CASE ~tg[i].out
  <2>1. /\ {j \in {i} : tg[j].out} = {} /\ {i} \ {} = {i}
        /\ {j \in {i} : Counted(j, TRUE)} = {i}
    BY <1>5 DEF Counted
  <2>2. Applied(r, {i}, TRUE)
          = [exists |-> TRUE, manager |-> Later(r.manager, 0), unread |-> r.unread + 1,
             awaiting |-> IF r.awaiting = 0 THEN i ELSE r.awaiting]
    BY <1>2, <1>3, <1>5, <2>1 DEF Applied, Clears
  <2>3. Later(r.manager, 0) = r.manager
    BY <1>1, LaterOf
  <2>4. a = [exists |-> TRUE, manager |-> r.manager, unread |-> r.unread + 1,
             awaiting |-> IF r.awaiting = 0 THEN i ELSE r.awaiting]
    BY <2>2, <2>3
  <2> HIDE DEF a
  <2>5. /\ a.manager = r.manager /\ a.unread = r.unread + 1
        /\ a.awaiting = IF r.awaiting = 0 THEN i ELSE r.awaiting
    BY <2>4
  <2> QED BY <1>5, <2>5 DEF a
<1> QED BY <1>4, <1>5

\* A live message that overtakes nothing, and the waiting.
LEMMA LiveWaits ==
  ASSUME TypeOK, NEW i \in 1..Len(tg), NEW c \in Chat, c = tg[i].chat, WaitsFromTheFirst(c),
         ~Overtaken(c, i), tg' = tg,
         conv'[c].manager = IF tg[i].out THEN Later(conv[c].manager, i) ELSE conv[c].manager,
         conv'[c].awaiting = IF tg[i].out THEN 0
                             ELSE IF conv[c].awaiting = 0 THEN i ELSE conv[c].awaiting,
         story'.rang = IF tg[i].out THEN story.rang ELSE story.rang \cup {i}
  PROVE  WaitsFromTheFirst(c)'
<1>1. /\ i \in Of(c) /\ Of(c)' = Of(c) /\ i \in Nat /\ i # 0
      /\ conv[c].awaiting \in Nat /\ conv[c].manager \in Nat
      /\ Open(c) \in SUBSET Nat /\ 0 \notin Open(c)
      /\ \A j \in story.rang : j \in Nat
  BY StoryHolds DEF Of
<1>2. \A j \in Open(c) : j <= i
  BY <1>1 DEF Overtaken
<1>3. CASE tg[i].out
  <2>1. conv'[c].manager \in Nat /\ conv'[c].manager >= conv[c].manager /\ conv'[c].manager >= i
    <3>1. conv'[c].manager = Later(conv[c].manager, i)
      BY <1>3
    <3>2. conv[c].manager \in Nat /\ i \in Nat
      BY <1>1
    <3>3. /\ Later(conv[c].manager, i) \in Nat /\ Later(conv[c].manager, i) >= conv[c].manager
          /\ Later(conv[c].manager, i) >= i
      BY <3>2, LaterOf
    <3> QED BY <3>1, <3>3
  <2>2. Open(c)' = {j \in story.rang \cap Of(c) : j > conv'[c].manager}
    BY <1>1, <1>3 DEF Open
  <2>3. \A j \in story.rang \cap Of(c) : j > conv'[c].manager => j \in Open(c) /\ j > i
    BY <1>1, <2>1 DEF Open
  <2>4. \A j \in story.rang \cap Of(c) : ~(j > conv'[c].manager)
    BY <1>1, <1>2, <2>3
  <2>5. Open(c)' = {}
    BY <2>2, <2>4
  <2> QED BY <1>3, <2>5 DEF WaitsFromTheFirst
<1>4. CASE ~tg[i].out
  <2>1. i > conv[c].manager
    BY <1>1, <1>4 DEF Overtaken
  <2>2. Open(c)' = {j \in (story.rang \cup {i}) \cap Of(c) : j > conv[c].manager}
    BY <1>1, <1>4 DEF Open
  <2>3. Open(c)' = Open(c) \cup {i}
    BY <1>1, <2>1, <2>2 DEF Open
  <2>4. conv'[c].awaiting = Min(Open(c)')
    <3>1. CASE Open(c) = {}
      <4>1. Min({i}) = i
        BY <1>1, One
      <4> QED BY <1>4, <2>3, <3>1, <4>1 DEF WaitsFromTheFirst
    <3>2. CASE Open(c) # {}
      <4>1. Min(Open(c)) \in Open(c) /\ \A j \in Open(c) : Min(Open(c)) <= j
        BY <1>1, <3>2, Least
      <4>2. conv[c].awaiting = Min(Open(c)) /\ Min(Open(c)) # 0
        BY <1>1, <3>2, <4>1 DEF WaitsFromTheFirst
      <4>3. Min(Open(c)') = Min(Open(c))
        <5>1. Open(c)' \in SUBSET Nat /\ Open(c)' # {}
          BY <1>1, <2>3
        <5>2. Min(Open(c)') \in Open(c)' /\ \A j \in Open(c)' : Min(Open(c)') <= j
          BY <5>1, Least
        <5>3. Min(Open(c)) \in Nat /\ Min(Open(c)') \in Nat
          BY <1>1, <4>1, <5>1, <5>2
        <5>4. Min(Open(c)) <= Min(Open(c)')
          BY <1>2, <2>3, <4>1, <5>2, <5>3
        <5>5. Min(Open(c)') <= Min(Open(c))
          BY <2>3, <4>1, <5>2
        <5> QED BY <5>3, <5>4, <5>5
      <4> QED BY <1>4, <4>2, <4>3
    <3> QED BY <3>1, <3>2
  <2> QED BY <2>3, <2>4 DEF WaitsFromTheFirst
<1> QED BY <1>3, <1>4

\* A live message that was not read before it came, and the number of unread.
LEMMA LiveCounts ==
  ASSUME TypeOK, NEW i \in 1..Len(tg), NEW c \in Chat, c = tg[i].chat, UnreadIsRight(c),
         i \notin rows, ~tg[i].out => story.read[c] < i,
         tg' = tg, rows' = rows \cup {i},
         conv'[c].unread = IF tg[i].out THEN conv[c].unread ELSE conv[c].unread + 1,
         story'.rang = IF tg[i].out THEN story.rang ELSE story.rang \cup {i},
         story'.read[c] = story.read[c]
  PROVE  UnreadIsRight(c)'
<1>1. /\ i \in Of(c) /\ (i \in Incoming(c) <=> ~tg[i].out)
      /\ story.rang \subseteq rows /\ conv[c].unread \in Nat
      /\ Of(c)' = Of(c) /\ Incoming(c)' = Incoming(c)
  BY StoryHolds DEF Of, Incoming
<1>2. /\ Cardinality(Fresh(c, story.rang)) <= conv[c].unread
      /\ conv[c].unread <= Cardinality(Fresh(c, rows))
  BY DEF UnreadIsRight
<1>3. CASE tg[i].out
  <2>1. Fresh(c, story.rang)' = Fresh(c, story.rang) /\ Fresh(c, rows)' = Fresh(c, rows)
    BY <1>1, <1>3 DEF Fresh
  <2> QED BY <1>2, <1>3, <2>1 DEF UnreadIsRight
<1>4. CASE ~tg[i].out
  <2>1. i > story.read[c]
    BY <1>4, StoryHolds
  <2>2. /\ Fresh(c, story.rang)' = Fresh(c, story.rang) \cup {i}
        /\ Fresh(c, rows)' = Fresh(c, rows) \cup {i}
        /\ i \notin Fresh(c, story.rang) /\ i \notin Fresh(c, rows)
    BY <1>1, <1>4, <2>1 DEF Fresh
  <2>3. /\ Cardinality(Fresh(c, story.rang)') = Cardinality(Fresh(c, story.rang)) + 1
        /\ Cardinality(Fresh(c, rows)') = Cardinality(Fresh(c, rows)) + 1
    <3>1. /\ Cardinality(Fresh(c, story.rang) \cup {i}) = Cardinality(Fresh(c, story.rang)) + 1
          /\ Cardinality(Fresh(c, rows) \cup {i}) = Cardinality(Fresh(c, rows)) + 1
      BY <2>2, FreshIsFinite, FS_AddElement
    <3> QED BY <2>2, <3>1
  <2>4. /\ Cardinality(Fresh(c, story.rang)') <= conv'[c].unread
        /\ conv'[c].unread <= Cardinality(Fresh(c, rows)')
    BY <1>1, <1>2, <1>4, <2>3, FreshIsFinite
  <2> QED BY <2>4 DEF UnreadIsRight
<1> QED BY <1>3, <1>4

\* What messages of the past make of a row: they do not ring.
LEMMA PastApplied ==
  ASSUME TypeOK, NEW S \in SUBSET (1..Len(tg)), NEW r \in Row
  PROVE  LET a == Applied(r, S, FALSE)
             outs == {i \in S : tg[i].out} IN
         /\ a.manager = Later(r.manager, Latest(outs))
         /\ a.unread = r.unread
         /\ a.awaiting = IF outs # {} THEN 0 ELSE r.awaiting
<1> DEFINE a == Applied(r, S, FALSE)
           outs == {i \in S : tg[i].out}
           aw == IF outs # {} THEN 0 ELSE r.awaiting
<1>1. r.unread \in Nat /\ r.unread + 0 = r.unread
  BY Rows
<1>2. {i \in S \ outs : Counted(i, FALSE)} = {} /\ Cardinality({}) = 0
  BY FS_EmptySet DEF Counted
<1>3. (\E i \in S : Clears(i)) <=> outs # {}
  BY DEF Clears
<1>4. a = [exists |-> TRUE, manager |-> Later(r.manager, Latest(outs)), unread |-> r.unread,
           awaiting |-> aw]
  BY <1>1, <1>2, <1>3 DEF Applied
<1> HIDE DEF a, outs, aw
<1>5. /\ a.manager = Later(r.manager, Latest(outs))
      /\ a.unread = r.unread /\ a.awaiting = aw
  BY <1>4
<1> QED BY <1>5 DEF a, outs, aw

\* Messages of the past, none of which is an answer to something older than what is open.
LEMMA PastWaits ==
  ASSUME TypeOK, NEW c \in Chat, WaitsFromTheFirst(c), NEW outs \in SUBSET (1..Len(tg)),
         \A i \in outs : ~Overtaken(c, i),
         tg' = tg, story'.rang = story.rang,
         conv'[c].manager = Later(conv[c].manager, Latest(outs)),
         conv'[c].awaiting = IF outs # {} THEN 0 ELSE conv[c].awaiting
  PROVE  WaitsFromTheFirst(c)'
<1>1. /\ Of(c)' = Of(c) /\ conv[c].manager \in Nat /\ Len(tg) \in Nat
      /\ \A j \in story.rang : j \in Nat
  BY StoryHolds DEF Of
<1>2. /\ Latest(outs) \in Nat
      /\ outs # {} => Latest(outs) \in outs
      /\ outs = {} => Latest(outs) = 0
  <2> DEFINE n == Len(tg)
  <2>1. n \in Nat /\ outs \in SUBSET (1..n)
    BY <1>1
  <2> HIDE DEF n
  <2>2. Latest(outs) \in 0..n
    BY <2>1, LatestOf
  <2>3. /\ outs = {} => Latest(outs) = 0
        /\ outs # {} => Latest(outs) \in outs
    BY <2>1, LatestOf
  <2> QED BY <2>1, <2>2, <2>3
<1>3. CASE outs = {}
  <2>1. conv'[c].manager = conv[c].manager
    BY <1>1, <1>2, <1>3, LaterOf
  <2> QED BY <1>1, <1>3, <2>1, WaitingStays
<1>4. CASE outs # {}
  <2>1. \A j \in Open(c) : ~(j > Latest(outs))
    BY <1>2, <1>4 DEF Overtaken
  <2>2. /\ conv'[c].manager \in Nat /\ conv'[c].manager >= conv[c].manager
        /\ conv'[c].manager >= Latest(outs)
    <3> DEFINE a == conv[c].manager
               b == Latest(outs)
    <3>1. a \in Nat /\ b \in Nat /\ conv'[c].manager = Later(a, b)
      BY <1>1, <1>2
    <3> HIDE DEF a, b
    <3>2. Later(a, b) \in Nat /\ Later(a, b) >= a /\ Later(a, b) >= b
      BY <3>1, LaterOf
    <3>3. conv'[c].manager \in Nat /\ conv'[c].manager >= a /\ conv'[c].manager >= b
      BY <3>1, <3>2
    <3> QED BY <3>3 DEF a, b
  <2>3. Open(c)' = {j \in story.rang \cap Of(c) : j > conv'[c].manager}
    BY <1>1 DEF Open
  <2>4. \A j \in story.rang \cap Of(c) :
          j > conv'[c].manager => j \in Open(c) /\ j > Latest(outs)
    BY <1>1, <1>2, <2>2 DEF Open
  <2>5. \A j \in story.rang \cap Of(c) : ~(j > conv'[c].manager)
    BY <2>1, <2>4
  <2>6. Open(c)' = {}
    BY <2>3, <2>5
  <2> QED BY <1>4, <2>6 DEF WaitsFromTheFirst
<1> QED BY <1>3, <1>4

\* More messages, none of which rings.
LEMMA PastCounts ==
  ASSUME TypeOK, NEW c \in Chat, UnreadIsRight(c), tg' = tg,
         rows \subseteq rows', rows' \subseteq 1..Len(tg),
         story'.rang = story.rang, story'.read[c] = story.read[c],
         conv'[c].unread = conv[c].unread
  PROVE  UnreadIsRight(c)'
<1>1. /\ Of(c)' = Of(c) /\ Incoming(c)' = Incoming(c) /\ Len(tg) \in Nat
      /\ conv[c].unread \in Nat
  BY StoryHolds DEF Of, Incoming
<1>2. Fresh(c, story.rang)' = Fresh(c, story.rang)
  BY <1>1 DEF Fresh
<1>3. Fresh(c, rows) \subseteq Fresh(c, rows)' /\ Fresh(c, rows)' \in SUBSET (1..Len(tg))
  BY <1>1 DEF Fresh
<1>4. /\ Cardinality(Fresh(c, rows)) <= Cardinality(Fresh(c, rows)')
      /\ Cardinality(Fresh(c, rows)') \in Nat
  BY <1>1, <1>3, Small, FS_Subset
<1>5. /\ Cardinality(Fresh(c, story.rang)) <= conv[c].unread
      /\ conv[c].unread <= Cardinality(Fresh(c, rows))
  BY DEF UnreadIsRight
<1> QED BY <1>1, <1>2, <1>4, <1>5, FreshIsFinite DEF UnreadIsRight

\* Somebody reads the chat: up to the message or the date upTo.
LEMMA ReadCounts ==
  ASSUME TypeOK, NEW c \in Chat, UnreadIsRight(c), NEW upTo \in Nat, story.read[c] <= upTo,
         UNCHANGED <<tg, rows>>, story'.rang = story.rang, story'.read[c] = upTo,
         NEW n, n = Cardinality({i \in Incoming(c) \cap rows : i > upTo}),
         conv'[c].unread = IF n < conv[c].unread THEN n ELSE conv[c].unread
  PROVE  UnreadIsRight(c)'
<1>1. /\ story.rang \subseteq rows /\ rows \subseteq 1..Len(tg) /\ Len(tg) \in Nat
      /\ Of(c)' = Of(c) /\ Incoming(c)' = Incoming(c)
      /\ story.read[c] \in Nat /\ conv[c].unread \in Nat
  BY StoryHolds DEF Of, Incoming
<1>2. Fresh(c, rows)' = {i \in Incoming(c) \cap rows : i > upTo}
  BY <1>1 DEF Fresh
<1>3. /\ Fresh(c, story.rang)' \subseteq Fresh(c, rows)'
      /\ Fresh(c, story.rang)' \subseteq Fresh(c, story.rang)
      /\ Fresh(c, rows)' \in SUBSET (1..Len(tg))
      /\ Fresh(c, story.rang) \in SUBSET (1..Len(tg))
  <2>1. \A i \in 1..Len(tg) : i > upTo => i > story.read[c]
    BY <1>1
  <2> QED BY <1>1, <2>1 DEF Fresh
<1>4. /\ Cardinality(Fresh(c, story.rang)') <= Cardinality(Fresh(c, rows)')
      /\ Cardinality(Fresh(c, story.rang)') <= Cardinality(Fresh(c, story.rang))
  BY <1>1, <1>3, Small, FS_Subset
<1>5. /\ Cardinality(Fresh(c, story.rang)) \in Nat /\ Cardinality(Fresh(c, rows)') \in Nat
      /\ Cardinality(Fresh(c, story.rang)') \in Nat
  BY <1>1, <1>3, Small
<1>6. n = Cardinality(Fresh(c, rows)')
  BY <1>2
<1>7. Cardinality(Fresh(c, story.rang)) <= conv[c].unread
  BY DEF UnreadIsRight
<1>8. /\ Cardinality(Fresh(c, story.rang)') <= conv'[c].unread
      /\ conv'[c].unread <= Cardinality(Fresh(c, rows)')
  BY <1>1, <1>4, <1>5, <1>6, <1>7
<1> QED BY <1>8 DEF UnreadIsRight

\* A manager answers: that is newer than everything.
LEMMA AnswerWaits ==
  ASSUME TypeOK, NEW c \in Chat, tg' = tg, story'.rang = story.rang,
         conv'[c].manager = Now, conv'[c].awaiting = 0
  PROVE  WaitsFromTheFirst(c)'
<1>1. story.rang \subseteq 1..Len(tg) /\ Len(tg) \in Nat
  BY StoryHolds
<1>2. Open(c)' = {i \in story.rang \cap Of(c) : i > Len(tg)}
  BY DEF Open, Now, Of
<1>3. \A i \in 1..Len(tg) : ~(i > Len(tg))
  BY <1>1
<1>4. Open(c)' = {}
  BY <1>1, <1>2, <1>3
<1> QED BY <1>4 DEF WaitsFromTheFirst

-----------------------------------------------------------------------------
(* The steps that leave messages and counters alone.                       *)

TaskRow == [at : {"none", "came", "read", "inserted"}, seen : Row]

\* What the counters rest on is told as before; more may be told to be left out.
SameStory ==
  /\ story' \in StoryRow(rows, Len(tg)) /\ story'.rang = story.rang /\ story'.read = story.read
  /\ story'.miscounted = story.miscounted /\ story'.misdated = story.misdated

LEMMA StoryStays == ASSUME InboxInv, UNCHANGED story PROVE SameStory
BY StoryHolds DEF InboxInv, SameStory

LEMMA CountersStay ==
  ASSUME TypeOK, Honest, UNCHANGED <<tg, rows, conv>>, SameStory
  PROVE  Honest'
<1>1. /\ story'.rang = story.rang /\ story'.read = story.read
      /\ story'.miscounted = story.miscounted /\ story'.misdated = story.misdated
  BY DEF SameStory
<1>2. \A c \in Chat : Of(c)' = Of(c) /\ Incoming(c)' = Incoming(c)
  BY DEF Of, Incoming
<1>3. RangIn'
  BY <1>1 DEF Honest, RangIn
<1>4. Waiting'
  <2> SUFFICES ASSUME NEW c \in Chat \ story.misdated PROVE WaitsFromTheFirst(c)'
    BY <1>1 DEF Waiting
  <2>1. WaitsFromTheFirst(c)
    BY DEF Honest, Waiting
  <2> QED BY <1>1, <1>2, <2>1, WaitingStays
<1>5. Unread'
  <2> SUFFICES ASSUME NEW c \in Chat \ story.miscounted PROVE UnreadIsRight(c)'
    BY <1>1 DEF Unread
  <2>1. UnreadIsRight(c)
    BY DEF Honest, Unread
  <2> QED BY <1>1, <1>2, <2>1, UnreadStays
<1> QED BY <1>3, <1>4, <1>5 DEF Honest

\* What a task, and the walk, may become when nothing is written.
LEMMA NothingIsWritten ==
  ASSUME InboxInv, UNCHANGED <<clock, tg, rows, conv, activity>>, SameStory,
         up' \in BOOLEAN, due' \in BOOLEAN, left' \in 0..MaxTroubles,
         reply' \in [Chat -> [open : BOOLEAN, seen : Row]],
         task' \in [Id -> TaskRow],
         \A i \in Id : task'[i].at # "none" => up' /\ i <= Len(tg),
         sync' \in SyncRow, sync'.todo \subseteq 1..Len(tg),
         sync'.at = "insert" => sync'.cur \in 1..Len(tg),
         sync'.batch \subseteq 1..Len(tg), sync'.batch \cap rows = {},
         Cardinality(sync'.batch) < Batch,
         \A i \in Id : task'[i].at = "inserted" => i \notin rows /\ i \notin sync'.batch
  PROVE  InboxInv'
<1>1. TypeOK'
  <2>1. sync'.at \in {"off", "next", "list", "walk", "insert"}
    BY DEF SyncRow
  <2>2. story' \in StoryRow(rows', Len(tg'))
    BY DEF SameStory
  <2> QED BY <2>1, <2>2 DEF InboxInv, TypeOK, TaskRow, StoryRow, clock
<1>2. WalkIsReal' /\ InsertedIsNew'
  BY DEF WalkIsReal, InsertedIsNew
<1>3. Honest'
  BY CountersStay DEF InboxInv
<1> QED BY <1>1, <1>2, <1>3 DEF InboxInv

\* The walk goes on, or ends: its batch stays or is lost.
LEMMA WalkGoesOn ==
  ASSUME InboxInv, UNCHANGED <<clock, tg, rows, conv, activity, up, task, reply>>, SameStory,
         due' \in BOOLEAN, left' \in 0..MaxTroubles,
         sync' \in SyncRow, sync'.todo \subseteq 1..Len(tg),
         sync'.at = "insert" => sync'.cur \in 1..Len(tg),
         sync'.batch = {} \/ sync'.batch = sync.batch
  PROVE  InboxInv'
<1>1. Cardinality({}) < Batch
  <2>1. Cardinality({}) = 0
    BY FS_EmptySet
  <2>2. 0 < Batch
    BY Bounds
  <2> QED BY <2>1, <2>2
<1>2. /\ sync'.batch \subseteq 1..Len(tg) /\ sync'.batch \cap rows = {}
      /\ Cardinality(sync'.batch) < Batch
  <2>1. CASE sync'.batch = {}
    BY <1>1, <2>1
  <2>2. CASE sync'.batch = sync.batch
    BY <2>2 DEF InboxInv, TypeOK
  <2> QED BY <2>1, <2>2
<1>3. \A i \in Id : task'[i].at = "inserted" => i \notin rows /\ i \notin sync'.batch
  BY DEF InboxInv, InsertedIsNew
<1> QED BY <1>2, <1>3, NothingIsWritten DEF InboxInv, TypeOK, TaskRow

\* The task of i goes on.
LEMMA TaskGoesOn ==
  ASSUME InboxInv, UNCHANGED <<clock, tg, rows, conv, activity, up, due, sync, reply, left, story>>,
         NEW i \in Id, NEW x \in TaskRow, task' = [task EXCEPT ![i] = x],
         x.at # "none" => up /\ i <= Len(tg),
         x.at = "inserted" => i \notin rows /\ i \notin sync.batch
  PROVE  InboxInv'
<1>1. /\ task \in [Id -> TaskRow] /\ sync \in SyncRow /\ sync.todo \subseteq 1..Len(tg)
      /\ sync.at = "insert" => sync.cur \in 1..Len(tg)
      /\ sync.batch \subseteq 1..Len(tg) /\ sync.batch \cap rows = {}
      /\ Cardinality(sync.batch) < Batch
  BY DEF InboxInv, TypeOK, TaskRow, WalkIsReal
<1>2. task' \in [Id -> TaskRow] /\ \A j \in Id : task'[j] = IF j = i THEN x ELSE task[j]
  BY <1>1
<1>3. /\ \A j \in Id : task'[j].at # "none" => up' /\ j <= Len(tg)
      /\ \A j \in Id : task'[j].at = "inserted" => j \notin rows /\ j \notin sync'.batch
  BY <1>2 DEF InboxInv, TypeOK, InsertedIsNew
<1> QED BY <1>1, <1>2, <1>3, StoryStays, NothingIsWritten DEF InboxInv, TypeOK

-----------------------------------------------------------------------------
(* The steps that write nothing.                                           *)

LEMMA TasksHold ==
  ASSUME InboxInv
  PROVE  /\ task \in [Id -> TaskRow] /\ sync \in SyncRow /\ conv \in [Chat -> Row]
         /\ up \in BOOLEAN /\ due \in BOOLEAN /\ left \in 0..MaxTroubles
         /\ reply \in [Chat -> [open : BOOLEAN, seen : Row]]
         /\ sync.todo \subseteq 1..Len(tg)
         /\ sync.at = "insert" => sync.cur \in 1..Len(tg)
         /\ NoTask \in TaskRow
         /\ \A i \in Id : task[i].at # "none" => up /\ i \in 1..Len(tg)
         /\ \A i \in 1..Len(tg) : i \in Id /\ i \in Nat /\ tg[i].chat \in Chat
<1>1. /\ task \in [Id -> TaskRow] /\ sync \in SyncRow /\ conv \in [Chat -> Row]
      /\ up \in BOOLEAN /\ due \in BOOLEAN /\ left \in 0..MaxTroubles
      /\ reply \in [Chat -> [open : BOOLEAN, seen : Row]]
      /\ sync.todo \subseteq 1..Len(tg)
      /\ sync.at = "insert" => sync.cur \in 1..Len(tg)
      /\ \A i \in Id : task[i].at # "none" => up /\ i <= Len(tg)
  BY DEF InboxInv, TypeOK, TaskRow, WalkIsReal
<1>2. NoTask \in TaskRow
  BY Rows DEF NoTask, TaskRow
<1>3. /\ Len(tg) \in Nat /\ \A i \in Id : i \in Nat /\ i >= 1
      /\ \A i \in 1..Len(tg) : i \in Id /\ i \in Nat /\ tg[i].chat \in Chat
  BY MessagesHold, Bounds DEF InboxInv, Id
<1>4. \A i \in Id : task[i].at # "none" => up /\ i \in 1..Len(tg)
  BY <1>1, <1>3
<1> QED BY <1>1, <1>2, <1>3, <1>4

LEMMA LiveReadKeeps == ASSUME InboxInv, NEW i \in Id, LiveRead(i) PROVE InboxInv'
<1>1. /\ NoTask \in TaskRow /\ conv[tg[i].chat] \in Row /\ up /\ i <= Len(tg)
      /\ task[i].at = "came"
  BY TasksHold DEF LiveRead
<1> DEFINE x == IF i \in rows THEN NoTask ELSE [at |-> "read", seen |-> conv[tg[i].chat]]
<1>2. x \in TaskRow /\ x.at # "inserted"
  BY <1>1 DEF TaskRow, NoTask
<1>3. /\ UNCHANGED <<clock, tg, rows, conv, activity, up, due, sync, reply, left, story>>
      /\ task' = [task EXCEPT ![i] = x]
  BY DEF LiveRead
<1> HIDE DEF x
<1> QED BY <1>1, <1>2, <1>3, TaskGoesOn

LEMMA LiveInsertKeeps == ASSUME InboxInv, NEW i \in Id, LiveInsert(i) PROVE InboxInv'
<1>1. /\ NoTask \in TaskRow /\ task[i] \in TaskRow /\ up /\ i <= Len(tg)
      /\ task \in [Id -> TaskRow] /\ i \notin sync.batch
  BY TasksHold DEF LiveInsert
<1> DEFINE gone == i \in rows \/ (~task[i].seen.exists /\ conv[tg[i].chat].exists)
           x == IF gone THEN NoTask ELSE [task[i] EXCEPT !.at = "inserted"]
<1>2. x \in TaskRow /\ (x.at = "inserted" => i \notin rows)
  BY <1>1 DEF TaskRow, NoTask
<1>3. /\ UNCHANGED <<clock, tg, rows, conv, activity, up, due, sync, reply, left, story>>
      /\ task' = [task EXCEPT ![i] = x]
  BY <1>1 DEF LiveInsert
<1> HIDE DEF x
<1> QED BY <1>1, <1>2, <1>3, TaskGoesOn

\* More is left out by the walk.
LEMMA MoreIsCut ==
  ASSUME InboxInv, NEW S \in SUBSET (1..Len(tg)), story' = [story EXCEPT !.cut = @ \cup S]
  PROVE  SameStory
<1>1. story \in StoryRow(rows, Len(tg))
  BY StoryHolds DEF InboxInv
<1> QED BY <1>1 DEF StoryRow, SameStory

LEMMA CatchUpKeeps == ASSUME InboxInv, CatchUp PROVE InboxInv'
<1>1. /\ activity \in Nat /\ old \in Nat /\ old <= Len(tg) /\ Len(tg) \in Nat
  BY MessagesHold DEF InboxInv, TypeOK
<1>2. sync' \in SyncRow /\ sync'.todo = {} /\ sync'.at = "next" /\ sync'.batch = {}
  <2>1. Later(activity, old) \in Nat
    BY <1>1, LaterOf
  <2> QED BY <2>1 DEF CatchUp, Walk, Since, NoSync, SyncRow
<1>3. SameStory
  <2> DEFINE S == {i \in 1..old : i > activity /\ i \notin rows}
  <2>1. 1..old \subseteq 1..Len(tg)
    BY <1>1
  <2>2. S \in SUBSET (1..Len(tg))
    BY <2>1
  <2>3. story' = [story EXCEPT !.cut = @ \cup S]
    BY DEF CatchUp
  <2> HIDE DEF S
  <2> QED BY <2>2, <2>3, MoreIsCut
<1> QED BY <1>2, <1>3, TasksHold, WalkGoesOn DEF CatchUp

LEMMA ResyncKeeps == ASSUME InboxInv, Resync PROVE InboxInv'
<1>1. sync' \in SyncRow /\ sync'.todo = {} /\ sync'.at = "next" /\ sync'.batch = {}
  BY DEF Resync, Walk, NoSync, SyncRow
<1>2. left' \in 0..MaxTroubles
  BY TasksHold, Bounds DEF Resync
<1> QED BY <1>1, <1>2, StoryStays, TasksHold, WalkGoesOn DEF Resync

LEMMA DialogKeeps == ASSUME InboxInv, NEW c \in Chat, Dialog(c) PROVE InboxInv'
<1>1. rows \cap Of(c) \in SUBSET Nat
  BY MessagesHold DEF InboxInv
<1>2. /\ sync' \in SyncRow /\ sync'.todo = sync.todo /\ sync'.at = "list"
      /\ sync'.batch = sync.batch
  BY <1>1, TasksHold DEF Dialog, SyncRow
<1> QED BY <1>2, StoryStays, TasksHold, WalkGoesOn DEF Dialog

LEMMA ListKeeps == ASSUME InboxInv, List PROVE InboxInv'
<1> DEFINE wanted == {i \in Of(sync.chat) : i > sync.since} \ sync.known
           todo == wanted \cap Page(sync.chat)
<1>1. /\ todo \subseteq 1..Len(tg) /\ todo \in SUBSET Nat
      /\ wanted \ todo \in SUBSET (1..Len(tg))
  BY MessagesHold DEF InboxInv
<1>2. /\ sync' = [sync EXCEPT !.at = Onward(todo), !.todo = todo, !.known = {}]
      /\ story' = [story EXCEPT !.cut = @ \cup (wanted \ todo)]
  BY DEF List
<1> HIDE DEF todo, wanted
<1>3. /\ sync' \in SyncRow /\ sync'.todo = todo /\ sync'.at # "insert"
      /\ sync'.batch = sync.batch
  BY <1>1, <1>2, TasksHold DEF SyncRow, Onward
<1>4. SameStory
  BY <1>1, <1>2, MoreIsCut
<1> QED BY <1>1, <1>3, <1>4, TasksHold, WalkGoesOn DEF List

LEMMA LookKeeps == ASSUME InboxInv, Look PROVE InboxInv'
<1> DEFINE i == Max(sync.todo)
           at == IF i \in rows THEN Onward(sync.todo \ {i}) ELSE "insert"
           met == conv[tg[i].chat].exists \/ SyncCreates(tg[i].chat)
<1>1. i \in 1..Len(tg) /\ sync.todo \subseteq 1..Len(tg)
  <2>1. sync.todo \in SUBSET (0..Len(tg)) /\ sync.todo # {} /\ Len(tg) \in Nat
    BY TasksHold, MessagesHold DEF InboxInv, Look
  <2>2. Max(sync.todo) \in sync.todo
    BY <2>1, Greatest
  <2> QED BY <2>2, TasksHold
<1>2. at \in {"next", "walk", "insert"} /\ met \in BOOLEAN
  <2>1. conv[tg[i].chat].exists \in BOOLEAN
    BY <1>1, TasksHold, Rows
  <2> QED BY <2>1 DEF Onward, SyncCreates
<1>3. sync' = [sync EXCEPT !.at = at, !.todo = @ \ {i}, !.cur = i, !.locked = sync.batch # {},
                          !.met = met]
  BY DEF Look
<1> HIDE DEF i, at, met
<1>4. /\ sync' \in SyncRow /\ sync'.todo = sync.todo \ {i} /\ sync'.cur = i
      /\ sync'.batch = sync.batch
  BY <1>1, <1>2, <1>3, TasksHold, MessagesHold DEF InboxInv, SyncRow
<1> QED BY <1>1, <1>4, StoryStays, TasksHold, WalkGoesOn DEF Look

LEMMA NoWalk ==
  NoSync \in SyncRow /\ NoSync.todo = {} /\ NoSync.at = "off" /\ NoSync.batch = {}
BY DEF NoSync, SyncRow

LEMMA ConflictKeeps == ASSUME InboxInv, Conflict PROVE InboxInv'
BY NoWalk, StoryStays, TasksHold, WalkGoesOn DEF Conflict

LEMMA FloodKeeps == ASSUME InboxInv, Flood PROVE InboxInv'
<1>1. /\ sync' \in SyncRow /\ sync'.todo = {} /\ sync'.at = "next"
      /\ sync'.batch = sync.batch
  BY TasksHold DEF Flood, SyncRow
<1> QED BY <1>1, StoryStays, TasksHold, WalkGoesOn DEF Flood

LEMMA DeadlockKeeps == ASSUME InboxInv, NEW i \in Id, Deadlock(i) PROVE InboxInv'
<1>1. CASE task' = [task EXCEPT ![i] = NoTask] /\ UNCHANGED sync
  <2>1. NoTask \in TaskRow /\ NoTask.at = "none"
    BY TasksHold DEF NoTask
  <2> QED BY <1>1, <2>1, TaskGoesOn DEF Deadlock
<1>2. CASE sync' = NoSync /\ UNCHANGED task
  BY <1>2, NoWalk, StoryStays, TasksHold, WalkGoesOn DEF Deadlock
<1> QED BY <1>1, <1>2 DEF Deadlock

LEMMA CrashKeeps == ASSUME InboxInv, Crash PROVE InboxInv'
<1>1. /\ task' \in [Id -> TaskRow] /\ \A i \in Id : task'[i].at = "none"
      /\ left' \in 0..MaxTroubles
  BY TasksHold, Bounds DEF Crash, NoTask
<1>2. Cardinality({}) < Batch
  <2>1. Cardinality({}) = 0
    BY FS_EmptySet
  <2> QED BY <2>1, Bounds
<1> QED BY <1>1, <1>2, NoWalk, StoryStays, TasksHold, NothingIsWritten DEF Crash

LEMMA ConnectKeeps == ASSUME InboxInv, Connect PROVE InboxInv'
BY StoryStays, TasksHold, NothingIsWritten DEF Connect, InboxInv, TypeOK, InsertedIsNew

LEMMA ReplyReadKeeps == ASSUME InboxInv, NEW c \in Chat, ReplyRead(c) PROVE InboxInv'
<1>1. reply' \in [Chat -> [open : BOOLEAN, seen : Row]]
  BY TasksHold DEF ReplyRead
<1> QED BY <1>1, StoryStays, TasksHold, NothingIsWritten DEF ReplyRead, gateway, InboxInv, TypeOK, InsertedIsNew

LEMMA WeekPassesKeeps == ASSUME InboxInv, WeekPasses PROVE InboxInv'
<1>1. UNCHANGED <<calm, tg, rows, conv, activity, up, due, task, sync, reply, left, story>>
  BY DEF WeekPasses, gateway
<1>2. old' \in 0..Len(tg)
  BY MessagesHold DEF InboxInv, WeekPasses, Now
<1>3. Honest'
  BY <1>1, StoryStays, CountersStay DEF InboxInv
<1> QED BY <1>1, <1>2, <1>3 DEF InboxInv, TypeOK, WalkIsReal, InsertedIsNew

-----------------------------------------------------------------------------
(* The steps that write: what has to be shown of each.                     *)

LEMMA WrittenWell ==
  ASSUME InboxInv, UNCHANGED <<clock, tg, up, due, left>>,
         rows' \subseteq 1..Len(tg), conv' \in [Chat -> Row], activity' \in 0..Len(tg),
         reply' \in [Chat -> [open : BOOLEAN, seen : Row]],
         task' \in [Id -> TaskRow], \A i \in Id : task'[i].at # "none" => task[i].at # "none",
         sync' \in SyncRow, sync'.todo \subseteq 1..Len(tg),
         sync'.at = "insert" => sync'.cur \in 1..Len(tg),
         sync'.batch \subseteq 1..Len(tg), sync'.batch \cap rows' = {},
         Cardinality(sync'.batch) < Batch,
         \A i \in Id : task'[i].at = "inserted" => i \notin rows' /\ i \notin sync'.batch,
         story' \in StoryRow(rows', Len(tg)),
         Honest'
  PROVE  InboxInv'
<1>1. TypeOK'
  <2>1. sync'.at \in {"off", "next", "list", "walk", "insert"}
    BY DEF SyncRow
  <2> QED BY <2>1 DEF InboxInv, TypeOK, TaskRow, StoryRow, clock
<1>2. WalkIsReal' /\ InsertedIsNew'
  BY DEF WalkIsReal, InsertedIsNew
<1> QED BY <1>1, <1>2 DEF InboxInv

\* Only counters are written.
LEMMA CountersWritten ==
  ASSUME InboxInv, UNCHANGED <<clock, tg, rows, activity, up, due, task, sync, left>>,
         conv' \in [Chat -> Row], reply' \in [Chat -> [open : BOOLEAN, seen : Row]],
         story' \in StoryRow(rows', Len(tg)),
         Honest'
  PROVE  InboxInv'
<1>1. /\ rows \subseteq 1..Len(tg) /\ activity \in 0..Len(tg)
      /\ sync.batch \subseteq 1..Len(tg) /\ sync.batch \cap rows = {}
      /\ Cardinality(sync.batch) < Batch
      /\ \A i \in Id : task[i].at = "inserted" => i \notin rows /\ i \notin sync.batch
  BY DEF InboxInv, TypeOK, InsertedIsNew
<1> QED BY <1>1, TasksHold, WrittenWell

\* A step that writes what is told, what is shown of each chat.
LEMMA HonestStays ==
  ASSUME InboxInv, RangIn',
         story'.misdated \subseteq Chat, story'.miscounted \subseteq Chat,
         story.misdated \subseteq story'.misdated, story.miscounted \subseteq story'.miscounted,
         \A c \in Chat : c \notin story'.misdated /\ WaitsFromTheFirst(c) => WaitsFromTheFirst(c)',
         \A c \in Chat : c \notin story'.miscounted /\ UnreadIsRight(c) => UnreadIsRight(c)'
  PROVE  Honest'
<1>1. Waiting'
  <2> SUFFICES ASSUME NEW c \in Chat, c \notin story'.misdated PROVE WaitsFromTheFirst(c)'
    BY DEF Waiting
  <2>1. WaitsFromTheFirst(c)
    BY DEF InboxInv, Honest, Waiting
  <2> QED BY <2>1
<1>2. Unread'
  <2> SUFFICES ASSUME NEW c \in Chat, c \notin story'.miscounted PROVE UnreadIsRight(c)'
    BY DEF Unread
  <2>1. UnreadIsRight(c)
    BY DEF InboxInv, Honest, Unread
  <2> QED BY <2>1
<1> QED BY <1>1, <1>2 DEF Honest

\* The other chats.
LEMMA OthersStay ==
  ASSUME InboxInv, UNCHANGED tg, NEW d \in Chat,
         conv'[d] = conv[d], story'.read[d] = story.read[d],
         story'.rang \cap Of(d) = story.rang \cap Of(d), rows' \cap Of(d) = rows \cap Of(d)
  PROVE  /\ WaitsFromTheFirst(d) => WaitsFromTheFirst(d)'
         /\ UnreadIsRight(d) => UnreadIsRight(d)'
<1>1. Of(d)' = Of(d) /\ Incoming(d)' = Incoming(d) /\ Incoming(d) \subseteq Of(d)
  BY DEF Of, Incoming
<1> QED BY <1>1, WaitingStays, UnreadStays

LEMMA WriteKeeps == ASSUME InboxInv, NEW c \in Chat, Write(c) PROVE InboxInv'
<1> DEFINE n == Len(tg)
           M == [chat : Chat, out : BOOLEAN, missed : BOOLEAN]
<1>1. PICK out \in BOOLEAN : tg' = Append(tg, [chat |-> c, out |-> out, missed |-> ~up])
  BY DEF Write
<1> DEFINE m == [chat |-> c, out |-> out, missed |-> ~up]
<1>2. m \in M /\ tg \in Seq(M)
  BY TasksHold DEF InboxInv, TypeOK
<1> HIDE DEF M, m
<1>3. /\ tg' \in Seq(M) /\ Len(tg') = n + 1 /\ n \in Nat
      /\ \A i \in 1..n : tg'[i] = tg[i]
  BY <1>1, <1>2 DEF m
<1>4. n < MaxMsg /\ n + 1 \in Id /\ n + 1 <= MaxMsg
  <2>1. n < MaxMsg
    BY DEF Write
  <2> QED BY <1>3, <2>1, Bounds DEF Id
<1> HIDE DEF n
<1>5. /\ task' \in [Id -> TaskRow]
      /\ \A i \in Id : task'[i].at # "none" => up /\ i <= n + 1
      /\ \A i \in Id : task'[i].at = "inserted" => task[i].at = "inserted"
  <2>1. Arrival \in TaskRow /\ Arrival.at = "came"
    BY Rows DEF Arrival, NoTask, TaskRow
  <2>2. task' = IF up THEN [task EXCEPT ![n + 1] = Arrival] ELSE task
    BY DEF Write, n
  <2>3. \A i \in Id : task[i].at # "none" => up /\ i \in 1..n
    BY TasksHold DEF n
  <2>4. \A i \in Id : task'[i] = IF up /\ i = n + 1 THEN Arrival ELSE task[i]
    BY <2>2, TasksHold
  <2>5. \A i \in Id : i \in 1..n => i <= n + 1
    BY <1>3
  <2> QED BY <1>3, <1>4, <2>1, <2>2, <2>3, <2>4, <2>5, TasksHold
<1>6. UNCHANGED <<calm, old, rows, conv, activity, up, due, sync, reply, left, story>>
  BY DEF Write, clock
<1>7. 1..n \subseteq 1..Len(tg') /\ 0..n \subseteq 0..Len(tg')
  BY <1>3
<1>8. TypeOK'
  <2>1. tg' \in Seq(M) /\ Len(tg') <= MaxMsg
    BY <1>3, <1>4
  <2>2. \A i \in Id : task'[i].at # "none" => up' /\ i <= Len(tg')
    BY <1>3, <1>5, <1>6
  <2>3. /\ rows' \subseteq 1..Len(tg') /\ activity' \in 0..Len(tg') /\ old' \in 0..Len(tg')
        /\ sync'.batch \subseteq 1..Len(tg')
    BY <1>6, <1>7 DEF InboxInv, TypeOK, n
  <2>4. story' \in StoryRow(rows', Len(tg'))
    BY <1>6, <1>7, StoryHolds DEF InboxInv, StoryRow, n
  <2> QED BY <1>5, <1>6, <2>1, <2>2, <2>3, <2>4 DEF InboxInv, TypeOK, TaskRow, M, StoryRow
<1>9. WalkIsReal' /\ InsertedIsNew'
  BY <1>5, <1>6, <1>7 DEF InboxInv, WalkIsReal, InsertedIsNew, n
<1>10. Honest'
  <2>1. story.rang \subseteq 1..n /\ rows \subseteq 1..n
    BY StoryHolds DEF InboxInv, n
  <2>2. RangIn'
    BY <1>3, <1>6, <2>1 DEF InboxInv, Honest, RangIn
  <2>3. \A d : /\ \A i \in 1..n : i \in Of(d)' <=> i \in Of(d)
               /\ \A i \in 1..n : i \in Incoming(d)' <=> i \in Incoming(d)
    BY <1>3, <1>7 DEF Of, Incoming, n
  <2>4. \A d \in Chat : /\ WaitsFromTheFirst(d) => WaitsFromTheFirst(d)'
                        /\ UnreadIsRight(d) => UnreadIsRight(d)'
    <3> SUFFICES ASSUME NEW d \in Chat
                 PROVE  /\ WaitsFromTheFirst(d) => WaitsFromTheFirst(d)'
                        /\ UnreadIsRight(d) => UnreadIsRight(d)'
      OBVIOUS
    <3>1. /\ story'.rang \cap Of(d)' = story.rang \cap Of(d)
          /\ story'.rang \cap Incoming(d)' = story.rang \cap Incoming(d)
          /\ rows' \cap Incoming(d)' = rows \cap Incoming(d)
      BY <1>6, <2>1, <2>3
    <3> QED BY <1>6, <3>1, WaitingStays, UnreadStays
  <2>5. story.misdated \subseteq Chat /\ story.miscounted \subseteq Chat
    BY StoryHolds DEF InboxInv
  <2> QED BY <1>6, <2>2, <2>4, <2>5, HonestStays
<1> QED BY <1>8, <1>9, <1>10 DEF InboxInv

\* Somebody reads c up to upTo.
LEMMA ChatIsRead ==
  ASSUME InboxInv, NEW c \in Chat, NEW upTo \in Nat, story.read[c] <= upTo,
         NEW n \in Nat, n = Cardinality({i \in Incoming(c) \cap rows : i > upTo}),
         NEW unread, unread = IF n < conv[c].unread THEN n ELSE conv[c].unread,
         conv' = [conv EXCEPT ![c].unread = unread],
         story' = [story EXCEPT !.read[c] = upTo],
         UNCHANGED <<clock, tg, rows, activity, gateway, reply, left>>
  PROVE  InboxInv'
<1>1. /\ conv[c] \in Row /\ conv[c].unread \in Nat /\ story.read \in [Chat -> Nat]
      /\ story \in StoryRow(rows, Len(tg))
      /\ story.misdated \subseteq Chat /\ story.miscounted \subseteq Chat
  BY StoryHolds DEF InboxInv
<1>2. unread \in Nat
  BY <1>1
<1>3. /\ conv' \in [Chat -> Row] /\ \A d \in Chat : d # c => conv'[d] = conv[d]
      /\ conv'[c] = [conv[c] EXCEPT !.unread = unread]
  <2>1. [conv[c] EXCEPT !.unread = unread] \in Row
    BY <1>1, <1>2 DEF Row
  <2> QED BY <2>1, TasksHold
<1>4. /\ conv'[c].manager = conv[c].manager /\ conv'[c].awaiting = conv[c].awaiting
      /\ conv'[c].unread = unread
  BY <1>1, <1>3 DEF Row
<1>5. /\ story' \in StoryRow(rows', Len(tg)) /\ story'.rang = story.rang
      /\ story'.misdated = story.misdated /\ story'.miscounted = story.miscounted
      /\ story'.read[c] = upTo /\ \A d \in Chat : d # c => story'.read[d] = story.read[d]
  BY <1>1 DEF StoryRow
<1>6. \A d \in Chat : /\ WaitsFromTheFirst(d) => WaitsFromTheFirst(d)'
                      /\ UnreadIsRight(d) => UnreadIsRight(d)'
  <2> SUFFICES ASSUME NEW d \in Chat
               PROVE  /\ WaitsFromTheFirst(d) => WaitsFromTheFirst(d)'
                      /\ UnreadIsRight(d) => UnreadIsRight(d)'
    OBVIOUS
  <2>1. CASE d # c
    BY <1>3, <1>5, <2>1, OthersStay
  <2>2. CASE d = c
    <3>1. Of(c)' = Of(c)
      BY DEF Of
    <3>2. WaitsFromTheFirst(c) => WaitsFromTheFirst(c)'
      BY <1>4, <1>5, <3>1, WaitingStays
    <3>3. UnreadIsRight(c) => UnreadIsRight(c)'
      BY <1>4, <1>5, ReadCounts DEF InboxInv
    <3> QED BY <2>2, <3>2, <3>3
  <2> QED BY <2>1, <2>2
<1>7. RangIn'
  BY <1>5 DEF InboxInv, Honest, RangIn
<1>8. Honest'
  BY <1>1, <1>5, <1>6, <1>7, HonestStays
<1> QED BY <1>3, <1>5, <1>8, TasksHold, CountersWritten DEF gateway

LEMMA PhoneReadKeeps ==
  ASSUME InboxInv, NEW c \in Chat, NEW k \in Id, PhoneRead(c, k) PROVE InboxInv'
<1> DEFINE n == Cardinality({i \in Incoming(c) \cap rows : i > k})
           unread == IF n < conv[c].unread THEN n ELSE conv[c].unread
<1>1. /\ conv' = [conv EXCEPT ![c].unread = unread]
      /\ story' = [story EXCEPT !.read[c] = k] /\ k > story.read[c]
      /\ UNCHANGED <<clock, tg, rows, activity, gateway, reply, left>>
  BY TasksHold DEF PhoneRead
<1>2. n \in Nat /\ k \in Nat /\ story.read[c] \in Nat
  <2>1. {i \in Incoming(c) \cap rows : i > k} \in SUBSET (1..Len(tg))
    BY MessagesHold DEF InboxInv
  <2>2. Len(tg) \in Nat /\ k \in Nat /\ story.read[c] \in Nat
    BY StoryHolds DEF Id, InboxInv
  <2>3. n \in Nat
    BY <2>1, <2>2, Small
  <2> QED BY <2>2, <2>3
<1>3. unread = IF n < conv[c].unread THEN n ELSE conv[c].unread
  OBVIOUS
<1>4. n = Cardinality({i \in Incoming(c) \cap rows : i > k})
  OBVIOUS
<1> HIDE DEF n, unread
<1>5. story.read[c] <= k
  BY <1>1, <1>2
<1> QED BY <1>1, <1>2, <1>3, <1>4, <1>5, ChatIsRead

LEMMA MarkReadKeeps == ASSUME InboxInv, NEW c \in Chat, MarkRead(c) PROVE InboxInv'
<1> DEFINE upTo == Later(story.read[c], Latest(Incoming(c) \cap rows))
           n == Cardinality({i \in Incoming(c) \cap rows : i > upTo})
<1>1. /\ conv' = [conv EXCEPT ![c].unread = 0] /\ conv[c].unread > 0
      /\ story' = [story EXCEPT !.read[c] = upTo]
      /\ UNCHANGED <<clock, tg, rows, activity, gateway, reply, left>>
  BY DEF MarkRead, InboxInv, TypeOK
<1>2. conv[c].unread \in Nat /\ story.read[c] \in Nat
  BY StoryHolds DEF InboxInv
<1>3. /\ upTo \in Nat /\ upTo >= story.read[c] /\ upTo >= Latest(Incoming(c) \cap rows)
  BY <1>2, LaterOf, MessagesHold DEF InboxInv
<1>4. n = 0
  <2>1. Incoming(c) \cap rows \in SUBSET (1..Len(tg)) /\ Len(tg) \in Nat
    BY MessagesHold DEF InboxInv
  <2>2. \A i \in Incoming(c) \cap rows : i <= Latest(Incoming(c) \cap rows)
    BY <2>1, LatestOf
  <2>3. Latest(Incoming(c) \cap rows) \in Nat
    BY MessagesHold DEF InboxInv
  <2> HIDE DEF upTo
  <2>4. \A i \in Incoming(c) \cap rows : ~(i > upTo)
    <3>1. \A i \in Incoming(c) \cap rows : i \in Nat
      BY <2>1
    <3> QED BY <1>3, <2>2, <2>3, <3>1
  <2>5. {i \in Incoming(c) \cap rows : i > upTo} = {}
    BY <2>4
  <2> QED BY <2>5, FS_EmptySet
<1>5. n = Cardinality({i \in Incoming(c) \cap rows : i > upTo})
  OBVIOUS
<1> HIDE DEF upTo, n
<1>6. /\ n \in Nat /\ n = IF n < conv[c].unread THEN n ELSE conv[c].unread
      /\ conv' = [conv EXCEPT ![c].unread = n]
  BY <1>1, <1>2, <1>4
<1>7. story.read[c] <= upTo
  BY <1>2, <1>3
<1> QED BY <1>1, <1>3, <1>5, <1>6, <1>7, ChatIsRead

LEMMA ReplyKeeps == ASSUME InboxInv, NEW c \in Chat, Reply(c) PROVE InboxInv'
<1> DEFINE seen == reply[c].seen
           new == [seen EXCEPT !.manager = Now, !.awaiting = 0]
           misdated == IF Outdated(c, seen) THEN story.misdated \cup {c} ELSE story.misdated
<1>1. /\ conv' = [conv EXCEPT ![c] = Merge(conv[c], seen, new)]
      /\ story' = [story EXCEPT !.misdated = misdated]
      /\ reply' = [reply EXCEPT ![c] = NoReply]
      /\ UNCHANGED <<clock, tg, rows, activity, gateway, left>>
  BY TasksHold DEF Reply
<1>2. /\ conv[c] \in Row /\ seen \in Row /\ new \in Row
      /\ new.unread = seen.unread /\ new.manager = Now /\ new.awaiting = 0
  <2>1. Now \in Nat
    BY MessagesHold DEF Now, InboxInv
  <2> QED BY <2>1, TasksHold DEF Row
<1>3. c \notin misdated => seen.awaiting = conv[c].awaiting /\ seen.manager = conv[c].manager
  BY DEF Outdated
<1>4. story.misdated \subseteq misdated /\ misdated \subseteq story.misdated \cup {c}
  OBVIOUS
<1> HIDE DEF seen, new, misdated
<1>5. /\ conv' \in [Chat -> Row] /\ \A d \in Chat : d # c => conv'[d] = conv[d]
      /\ conv'[c] = Merge(conv[c], seen, new)
  BY <1>1, <1>2, MergeIsRow, TasksHold
<1>6. reply' \in [Chat -> [open : BOOLEAN, seen : Row]]
  <2>1. NoReply \in [open : BOOLEAN, seen : Row]
    BY Rows DEF NoReply
  <2> QED BY <1>1, <2>1, TasksHold
<1>7. /\ story \in StoryRow(rows, Len(tg))
      /\ story.misdated \subseteq Chat /\ story.miscounted \subseteq Chat
  BY StoryHolds DEF InboxInv
<1>8. /\ story' \in StoryRow(rows', Len(tg)) /\ story'.misdated = misdated
      /\ story'.rang = story.rang /\ story'.read = story.read
      /\ story'.miscounted = story.miscounted
  BY <1>1, <1>4, <1>7 DEF StoryRow
<1>9. conv'[c].unread = conv[c].unread
  BY <1>2, <1>5, NothingMeanwhile
<1>10. Of(c)' = Of(c) /\ Incoming(c)' = Incoming(c)
  BY <1>1 DEF Of, Incoming
<1>11. UnreadIsRight(c) => UnreadIsRight(c)'
  BY <1>1, <1>8, <1>9, <1>10, UnreadStays
<1>12. ASSUME c \notin misdated PROVE WaitsFromTheFirst(c)'
  <2>1. conv'[c].manager = Now /\ conv'[c].awaiting = 0
    BY <1>2, <1>3, <1>5, <1>12, NothingMeanwhile
  <2> QED BY <1>1, <1>8, <2>1, AnswerWaits DEF InboxInv
<1>13. \A d \in Chat : d # c => /\ WaitsFromTheFirst(d) => WaitsFromTheFirst(d)'
                                /\ UnreadIsRight(d) => UnreadIsRight(d)'
  BY <1>1, <1>5, <1>8, OthersStay
<1>14. Honest'
  <2>1. RangIn'
    BY <1>1, <1>8 DEF InboxInv, Honest, RangIn
  <2>2. \A d \in Chat : d \notin story'.misdated /\ WaitsFromTheFirst(d) => WaitsFromTheFirst(d)'
    BY <1>8, <1>12, <1>13
  <2>3. \A d \in Chat : UnreadIsRight(d) => UnreadIsRight(d)'
    BY <1>11, <1>13
  <2>4. story'.misdated \subseteq Chat
    BY <1>4, <1>7, <1>8
  <2> QED BY <1>4, <1>7, <1>8, <2>1, <2>2, <2>3, <2>4, HonestStays
<1> QED BY <1>1, <1>5, <1>6, <1>8, <1>14, CountersWritten DEF gateway

LEMMA LiveCommitKeeps == ASSUME InboxInv, NEW i \in Id, LiveCommit(i) PROVE InboxInv'
<1> DEFINE c == tg[i].chat
           seen == task[i].seen
           new == Applied(seen, {i}, TRUE)
           rang == IF tg[i].out THEN story.rang ELSE story.rang \cup {i}
           lost == ~tg[i].out /\ (seen.unread # conv[c].unread \/ i <= story.read[c])
           late == Outdated(c, seen) \/ Overtaken(c, i)
           miscounted == IF lost THEN story.miscounted \cup {c} ELSE story.miscounted
           misdated == IF late THEN story.misdated \cup {c} ELSE story.misdated
<1>1. /\ conv' = [conv EXCEPT ![c] = Merge(conv[c], seen, new)]
      /\ rows' = rows \cup {i} /\ activity' = Now
      /\ task' = [task EXCEPT ![i] = NoTask]
      /\ task[i].at = "inserted"
      /\ UNCHANGED <<clock, tg, up, due, sync, reply, left>>
  BY TasksHold DEF LiveCommit
<1>2. story' = [story EXCEPT !.rang = rang, !.miscounted = miscounted, !.misdated = misdated]
  BY DEF LiveCommit
<1>3. /\ i \in 1..Len(tg) /\ i \in Nat /\ c \in Chat /\ conv[c] \in Row /\ seen \in Row
      /\ i \notin rows /\ i \notin sync.batch /\ tg[i].chat = c
  BY <1>1, TasksHold DEF InboxInv, InsertedIsNew, TaskRow
<1>4. new \in Row
  <2>1. {i} \in SUBSET (1..Len(tg))
    BY <1>3
  <2> QED BY <1>3, <2>1, AppliedIsRow DEF InboxInv
<1>5. /\ new.manager = IF tg[i].out THEN Later(seen.manager, i) ELSE seen.manager
      /\ new.unread = IF tg[i].out THEN seen.unread ELSE seen.unread + 1
      /\ new.awaiting = IF tg[i].out THEN 0
                         ELSE IF seen.awaiting = 0 THEN i ELSE seen.awaiting
  BY <1>3, LiveApplied
<1>6. rang = IF tg[i].out THEN story.rang ELSE story.rang \cup {i}
  OBVIOUS
<1>7. c \notin misdated => /\ seen.awaiting = conv[c].awaiting /\ seen.manager = conv[c].manager
                           /\ ~Overtaken(c, i)
  BY DEF Outdated
<1>8. c \notin miscounted /\ ~tg[i].out => seen.unread = conv[c].unread /\ ~(i <= story.read[c])
  OBVIOUS
<1>9. /\ story.misdated \subseteq misdated /\ misdated \subseteq story.misdated \cup {c}
      /\ story.miscounted \subseteq miscounted /\ miscounted \subseteq story.miscounted \cup {c}
  OBVIOUS
<1> HIDE DEF c, seen, new, rang, lost, late, miscounted, misdated
<1>10. /\ conv' \in [Chat -> Row] /\ \A d \in Chat : d # c => conv'[d] = conv[d]
       /\ conv'[c] = Merge(conv[c], seen, new)
  BY <1>1, <1>3, <1>4, MergeIsRow, TasksHold
<1>11. /\ task' \in [Id -> TaskRow]
       /\ \A j \in Id : task'[j].at # "none" => task'[j] = task[j] /\ j # i
  BY <1>1, TasksHold DEF NoTask
<1>12. /\ rows' \subseteq 1..Len(tg) /\ activity' \in 0..Len(tg)
       /\ sync.batch \subseteq 1..Len(tg) /\ sync.batch \cap rows' = {}
       /\ Cardinality(sync.batch) < Batch
       /\ \A j \in Id : task'[j].at = "inserted" => j \notin rows' /\ j \notin sync.batch
  <2>1. Now \in 0..Len(tg)
    BY MessagesHold DEF Now, InboxInv
  <2> QED BY <1>1, <1>3, <1>11, <2>1 DEF InboxInv, TypeOK, InsertedIsNew
<1>13. /\ story \in StoryRow(rows, Len(tg))
       /\ story.misdated \subseteq Chat /\ story.miscounted \subseteq Chat
       /\ \A d \in Chat : story.read[d] \in Nat
       /\ \A j \in story.rang : ~tg[j].out
  BY StoryHolds DEF InboxInv, Honest, RangIn
<1>14. /\ rang \in SUBSET rows' /\ misdated \subseteq Chat /\ miscounted \subseteq Chat
       /\ \A j \in rang : ~tg[j].out
  BY <1>1, <1>3, <1>6, <1>9, <1>13 DEF StoryRow
<1>15. /\ story' \in StoryRow(rows', Len(tg))
       /\ story'.rang = rang /\ story'.read = story.read
       /\ story'.misdated = misdated /\ story'.miscounted = miscounted
  BY <1>2, <1>13, <1>14 DEF StoryRow
<1>16. ASSUME NEW d \in Chat, d = c, d \notin misdated, WaitsFromTheFirst(d)
       PROVE  WaitsFromTheFirst(d)'
  <2>1. seen.awaiting = conv[d].awaiting /\ seen.manager = conv[d].manager /\ ~Overtaken(d, i)
    BY <1>7, <1>16
  <2>2. conv'[d].awaiting = new.awaiting /\ conv'[d].manager = new.manager
    BY <1>3, <1>4, <1>10, <1>16, <2>1, NothingMeanwhile
  <2>3. /\ conv'[d].manager = IF tg[i].out THEN Later(conv[d].manager, i) ELSE conv[d].manager
        /\ conv'[d].awaiting = IF tg[i].out THEN 0
                               ELSE IF conv[d].awaiting = 0 THEN i ELSE conv[d].awaiting
    BY <1>5, <2>1, <2>2
  <2>4. story'.rang = IF tg[i].out THEN story.rang ELSE story.rang \cup {i}
    BY <1>6, <1>15
  <2>5. TypeOK /\ tg' = tg /\ i \in 1..Len(tg) /\ d = tg[i].chat
    BY <1>1, <1>3, <1>16 DEF InboxInv
  <2> QED BY <1>16, <2>1, <2>3, <2>4, <2>5, LiveWaits
<1>17. ASSUME NEW d \in Chat, d = c, d \notin miscounted, UnreadIsRight(d)
       PROVE  UnreadIsRight(d)'
  <2>1. ~tg[i].out => seen.unread = conv[d].unread /\ story.read[d] < i
    BY <1>3, <1>8, <1>13, <1>17
  <2>2. conv'[d].unread = IF tg[i].out THEN conv[d].unread ELSE conv[d].unread + 1
    <3>1. CASE tg[i].out
      BY <1>3, <1>4, <1>5, <1>10, <1>17, <3>1, NothingMeanwhile
    <3>2. CASE ~tg[i].out
      BY <1>3, <1>4, <1>5, <1>10, <1>17, <2>1, <3>2, NothingMeanwhile
    <3> QED BY <3>1, <3>2
  <2>3. /\ story'.rang = IF tg[i].out THEN story.rang ELSE story.rang \cup {i}
        /\ story'.read[d] = story.read[d]
    BY <1>6, <1>15
  <2>4. /\ TypeOK /\ tg' = tg /\ i \in 1..Len(tg) /\ d = tg[i].chat
        /\ i \notin rows /\ rows' = rows \cup {i}
    BY <1>1, <1>3, <1>17 DEF InboxInv
  <2>5. ~tg[i].out => story.read[d] < i
    BY <2>1
  <2> QED BY <1>17, <2>2, <2>3, <2>4, <2>5, LiveCounts
<1>18. \A d \in Chat : d # c => /\ WaitsFromTheFirst(d) => WaitsFromTheFirst(d)'
                                /\ UnreadIsRight(d) => UnreadIsRight(d)'
  <2> SUFFICES ASSUME NEW d \in Chat, d # c
               PROVE  /\ WaitsFromTheFirst(d) => WaitsFromTheFirst(d)'
                      /\ UnreadIsRight(d) => UnreadIsRight(d)'
    OBVIOUS
  <2>1. i \notin Of(d)
    BY <1>3 DEF Of
  <2> QED BY <1>1, <1>6, <1>10, <1>15, <2>1, OthersStay
<1>19. Honest'
  <2>1. RangIn'
    BY <1>1, <1>14, <1>15 DEF RangIn
  <2>2. ASSUME NEW d \in Chat, d \notin story'.misdated, WaitsFromTheFirst(d)
        PROVE  WaitsFromTheFirst(d)'
    <3>1. CASE d = c
      BY <1>15, <1>16, <2>2, <3>1
    <3>2. CASE d # c
      BY <1>18, <2>2, <3>2
    <3> QED BY <3>1, <3>2
  <2>3. ASSUME NEW d \in Chat, d \notin story'.miscounted, UnreadIsRight(d)
        PROVE  UnreadIsRight(d)'
    <3>1. CASE d = c
      BY <1>15, <1>17, <2>3, <3>1
    <3>2. CASE d # c
      BY <1>18, <2>3, <3>2
    <3> QED BY <3>1, <3>2
  <2> QED BY <1>9, <1>14, <1>15, <2>1, <2>2, <2>3, HonestStays
<1> QED BY <1>1, <1>10, <1>11, <1>12, <1>15, <1>19, TasksHold, WrittenWell

\* The transaction of the walk is committed, and with it its batch is empty.
LEMMA CommittedKeeps ==
  ASSUME InboxInv, NEW S \in SUBSET (1..Len(tg)), Committed(S),
         UNCHANGED <<clock, tg, up, due, task, reply, left>>,
         sync' \in SyncRow, sync'.todo \subseteq 1..Len(tg), sync'.at # "insert",
         sync'.batch = {}, \A i \in Id : task[i].at = "inserted" => i \notin S
  PROVE  InboxInv'
<1> DEFINE Outs(c) == {i \in S \cap Of(c) : tg[i].out}
           Past(c) == Applied(conv[c], S \cap Of(c), FALSE)
           misdated == story.misdated \cup
                         {c \in Chat : \E i \in S \cap Of(c) : tg[i].out /\ Overtaken(c, i)}
<1>1. /\ rows' = rows \cup S
      /\ conv' = [c \in Chat |-> IF S \cap Of(c) = {} THEN conv[c] ELSE Past(c)]
      /\ activity' = IF S = {} THEN activity ELSE Now
      /\ story' = [story EXCEPT !.misdated = misdated]
  BY DEF Committed
<1>2. \A c \in Chat : /\ conv[c] \in Row /\ Past(c) \in Row
                      /\ Past(c).manager = Later(conv[c].manager, Latest(Outs(c)))
                      /\ Past(c).unread = conv[c].unread
                      /\ Past(c).awaiting = IF Outs(c) # {} THEN 0 ELSE conv[c].awaiting
  <2> SUFFICES ASSUME NEW c \in Chat
               PROVE  /\ conv[c] \in Row /\ Past(c) \in Row
                      /\ Past(c).manager = Later(conv[c].manager, Latest(Outs(c)))
                      /\ Past(c).unread = conv[c].unread
                      /\ Past(c).awaiting = IF Outs(c) # {} THEN 0 ELSE conv[c].awaiting
    OBVIOUS
  <2>1. TypeOK /\ conv[c] \in Row /\ S \cap Of(c) \in SUBSET (1..Len(tg))
    BY TasksHold DEF InboxInv
  <2> QED BY <2>1, AppliedIsRow, PastApplied
<1>3. /\ \A c \in Chat : c \notin misdated => \A i \in Outs(c) : ~Overtaken(c, i)
      /\ \A c \in Chat : Outs(c) \in SUBSET (1..Len(tg))
      /\ story.misdated \subseteq misdated
      /\ story.misdated \subseteq Chat => misdated \subseteq Chat
  OBVIOUS
<1> HIDE DEF Past, Outs, misdated
<1>4. /\ conv' \in [Chat -> Row]
      /\ \A c \in Chat : conv'[c] = IF S \cap Of(c) = {} THEN conv[c] ELSE Past(c)
  BY <1>1, <1>2
<1>5. /\ rows' \subseteq 1..Len(tg) /\ activity' \in 0..Len(tg) /\ Cardinality({}) < Batch
      /\ \A i \in Id : task[i].at = "inserted" => i \notin rows'
  <2>1. Now \in 0..Len(tg)
    BY MessagesHold DEF Now, InboxInv
  <2>2. Cardinality({}) < Batch
    BY FS_EmptySet, Bounds
  <2> QED BY <1>1, <2>1, <2>2 DEF InboxInv, TypeOK, InsertedIsNew
<1>6. /\ story \in StoryRow(rows, Len(tg))
      /\ story.misdated \subseteq Chat /\ story.miscounted \subseteq Chat
  BY StoryHolds DEF InboxInv
<1>7. /\ story' \in StoryRow(rows', Len(tg)) /\ story'.misdated = misdated
      /\ story'.rang = story.rang /\ story'.read = story.read
      /\ story'.miscounted = story.miscounted
  BY <1>1, <1>3, <1>6 DEF StoryRow
<1>8. \A c \in Chat : /\ c \notin misdated /\ WaitsFromTheFirst(c) => WaitsFromTheFirst(c)'
                      /\ UnreadIsRight(c) => UnreadIsRight(c)'
  <2> SUFFICES ASSUME NEW c \in Chat
               PROVE  /\ c \notin misdated /\ WaitsFromTheFirst(c) => WaitsFromTheFirst(c)'
                      /\ UnreadIsRight(c) => UnreadIsRight(c)'
    OBVIOUS
  <2>1. CASE S \cap Of(c) = {}
    BY <1>1, <1>4, <1>7, <2>1, OthersStay
  <2>2. CASE S \cap Of(c) # {}
    <3>1. /\ conv'[c].manager = Later(conv[c].manager, Latest(Outs(c)))
          /\ conv'[c].unread = conv[c].unread
          /\ conv'[c].awaiting = IF Outs(c) # {} THEN 0 ELSE conv[c].awaiting
      BY <1>2, <1>4, <2>2
    <3>2. c \notin misdated /\ WaitsFromTheFirst(c) => WaitsFromTheFirst(c)'
      BY <1>3, <1>7, <3>1, PastWaits DEF InboxInv
    <3>3. UnreadIsRight(c) => UnreadIsRight(c)'
      <4>1. rows \subseteq rows'
        BY <1>1
      <4> QED BY <1>5, <1>7, <3>1, <4>1, PastCounts DEF InboxInv
    <3> QED BY <3>2, <3>3
  <2> QED BY <2>1, <2>2
<1>9. Honest'
  <2>1. RangIn'
    BY <1>7 DEF InboxInv, Honest, RangIn
  <2> QED BY <1>3, <1>6, <1>7, <1>8, <2>1, HonestStays
<1> QED BY <1>4, <1>5, <1>7, <1>9, TasksHold, WrittenWell

LEMMA FinishKeeps == ASSUME InboxInv, Finish PROVE InboxInv'
<1>1. /\ sync.batch \in SUBSET (1..Len(tg))
      /\ \A i \in Id : task[i].at = "inserted" => i \notin sync.batch
  BY DEF InboxInv, TypeOK, InsertedIsNew
<1> QED BY <1>1, NoWalk, CommittedKeeps DEF Finish

LEMMA InsertKeeps == ASSUME InboxInv, Insert PROVE InboxInv'
<1> DEFINE i == sync.cur
           batch == sync.batch \cup {i}
<1>1. /\ sync.at = "insert" /\ i \notin rows /\ task[i].at # "inserted"
      /\ UNCHANGED <<clock, tg, up, due, task, reply, left>>
      /\ IF Full(batch)
         THEN /\ Committed(batch)
              /\ sync' = [sync EXCEPT !.at = Onward(sync.todo), !.batch = {}, !.locked = FALSE]
         ELSE /\ sync' = [sync EXCEPT !.at = Onward(sync.todo), !.batch = batch]
              /\ UNCHANGED <<rows, conv, activity, story>>
  BY DEF Insert
<1>2. /\ i \in 1..Len(tg) /\ batch \in SUBSET (1..Len(tg)) /\ batch \cap rows = {}
      /\ \A j \in Id : task[j].at = "inserted" => j \notin rows /\ j \notin batch
      /\ Onward(sync.todo) \in {"next", "walk"} /\ sync \in SyncRow
  BY <1>1, TasksHold DEF InboxInv, TypeOK, InsertedIsNew, Onward
<1>3. CASE Full(batch)
  <2> HIDE DEF batch
  <2>1. /\ sync' \in SyncRow /\ sync'.todo = sync.todo /\ sync'.at # "insert"
        /\ sync'.batch = {}
    <3> DEFINE at == Onward(sync.todo)
    <3>1. sync' = [sync EXCEPT !.at = at, !.batch = {}, !.locked = FALSE]
      BY <1>1, <1>3
    <3>2. at \in {"next", "walk"} /\ sync \in SyncRow
      BY <1>2
    <3> HIDE DEF at
    <3> QED BY <3>1, <3>2 DEF SyncRow
  <2> QED BY <1>1, <1>2, <1>3, <2>1, TasksHold, CommittedKeeps
<1>4. CASE ~Full(batch)
  <2>1. Cardinality(batch) < Batch
    <3>1. sync.batch \in SUBSET (1..Len(tg)) /\ Len(tg) \in Nat /\ Cardinality(sync.batch) < Batch
      BY MessagesHold DEF InboxInv, TypeOK
    <3>2. IsFiniteSet(sync.batch) /\ Cardinality(sync.batch) \in Nat
      BY <3>1, Small
    <3>3. Cardinality(batch) <= Cardinality(sync.batch) + 1 /\ Cardinality(batch) \in Nat
      <4>1. Cardinality(batch) \in {Cardinality(sync.batch), Cardinality(sync.batch) + 1}
        BY <3>2, FS_AddElement
      <4> QED BY <3>2, <4>1
    <3>4. Cardinality(batch) # Batch
      BY <1>4 DEF Full
    <3> HIDE DEF batch
    <3> QED BY <3>1, <3>2, <3>3, <3>4, Bounds
  <2> HIDE DEF batch
  <2>2. /\ sync' \in SyncRow /\ sync'.todo = sync.todo /\ sync'.at # "insert"
        /\ sync'.batch = batch
    <3>1. batch \in SUBSET Nat
      BY <1>2
    <3> QED BY <1>1, <1>2, <1>4, <3>1 DEF SyncRow
  <2> QED BY <1>1, <1>2, <1>4, <2>1, <2>2, StoryStays, TasksHold, NothingIsWritten
<1> QED BY <1>3, <1>4

-----------------------------------------------------------------------------
(* Every step keeps the invariant, and what follows from it.               *)

LEMMA InboxStart == ASSUME Init PROVE InboxInv
<1>1. Len(tg) = 0 /\ 0 \in Nat /\ Cardinality({}) = 0
  BY FS_EmptySet DEF Init
<1>2. /\ conv \in [Chat -> Row] /\ \A c \in Chat : conv[c] = NoRow
      /\ task \in [Id -> TaskRow] /\ \A i \in Id : task[i].at = "none"
      /\ reply \in [Chat -> [open : BOOLEAN, seen : Row]]
  BY Rows DEF Init, NoTask, NoReply, TaskRow
<1>3. TypeOK
  <2>1. tg \in Seq([chat : Chat, out : BOOLEAN, missed : BOOLEAN]) /\ Len(tg) <= MaxMsg
    BY <1>1, Bounds DEF Init
  <2>2. /\ sync.at = "off" /\ sync.batch = {} /\ Cardinality(sync.batch) < Batch
    BY <1>1, NoWalk, Bounds DEF Init
  <2>3. story \in StoryRow(rows, Len(tg))
    BY DEF Init, StoryRow
  <2>4. activity \in 0..Len(tg) /\ left \in 0..MaxTroubles /\ rows \subseteq 1..Len(tg) /\ old \in 0..Len(tg)
    BY <1>1, Bounds DEF Init
  <2> QED BY <1>2, <2>1, <2>2, <2>3, <2>4 DEF TypeOK, Init, TaskRow, StoryRow
<1>4. WalkIsReal /\ InsertedIsNew
  BY <1>2, NoWalk DEF WalkIsReal, InsertedIsNew, Init
<1>5. Honest
  <2>1. \A c \in Chat : Open(c) = {} /\ Fresh(c, rows) = {} /\ Fresh(c, story.rang) = {}
    BY DEF Open, Fresh, Init
  <2>2. /\ \A c \in Chat : conv[c].awaiting = 0 /\ conv[c].unread = 0
        /\ story.rang = {}
    BY <1>2 DEF Init, NoRow
  <2>3. \A c \in Chat : WaitsFromTheFirst(c)
    BY <2>1, <2>2 DEF WaitsFromTheFirst
  <2>4. ASSUME NEW c \in Chat PROVE UnreadIsRight(c)
    <3>1. /\ Cardinality(Fresh(c, story.rang)) = 0 /\ Cardinality(Fresh(c, rows)) = 0
          /\ conv[c].unread = 0
      BY <1>1, <2>1, <2>2
    <3> QED BY <3>1 DEF UnreadIsRight
  <2> QED BY <2>2, <2>3, <2>4 DEF Honest, RangIn, Waiting, Unread
<1> QED BY <1>3, <1>4, <1>5 DEF InboxInv

LEMMA StutterKeeps == ASSUME InboxInv, UNCHANGED vars PROVE InboxInv'
BY StoryStays, TasksHold, NothingIsWritten DEF vars, gateway, InboxInv, TypeOK, InsertedIsNew

\* The invariant is kept by every handler, task and step of the walk
\* (services/inbound_service.py, gateway/handlers.py, mtproto_provider.py).
THEOREM InboxStep == InboxInv /\ [Next]_vars => InboxInv'
<1> SUFFICES ASSUME InboxInv, [Next]_vars PROVE InboxInv'
  OBVIOUS
<1>1. ASSUME NEW c \in Chat, Write(c) PROVE InboxInv'
  BY <1>1, WriteKeeps
<1>2. ASSUME NEW c \in Chat, NEW k \in Id, PhoneRead(c, k) PROVE InboxInv'
  BY <1>2, PhoneReadKeeps
<1>3. ASSUME NEW c \in Chat, MarkRead(c) \/ ReplyRead(c) \/ Reply(c) PROVE InboxInv'
  BY <1>3, MarkReadKeeps, ReplyReadKeeps, ReplyKeeps
<1>4. ASSUME NEW i \in Id, Handle(i) PROVE InboxInv'
  BY <1>4, LiveReadKeeps, LiveInsertKeeps, LiveCommitKeeps DEF Handle
<1>5. ASSUME NEW i \in Id, Deadlock(i) PROVE InboxInv'
  BY <1>5, DeadlockKeeps
<1>6. ASSUME WeekPasses \/ Crash \/ Connect \/ Resync \/ Flood PROVE InboxInv'
  BY <1>6, WeekPassesKeeps, CrashKeeps, ConnectKeeps, ResyncKeeps, FloodKeeps
<1>7. ASSUME Step PROVE InboxInv'
  BY <1>7, CatchUpKeeps, DialogKeeps, ListKeeps, LookKeeps, InsertKeeps, ConflictKeeps,
     FinishKeeps DEF Step
<1>8. CASE UNCHANGED vars
  BY <1>8, StutterKeeps
<1> QED BY <1>1, <1>2, <1>3, <1>4, <1>5, <1>6, <1>7, <1>8 DEF Next

\* Whatever live events, the walk through the history, the managers and the owner's
\* phone do, whenever the gateway dies and whatever gets too old: a chat waits for an
\* answer since exactly the first message that rang after the last answer, as long as
\* nobody has written its waiting from an old reading and no message of it was applied
\* after a newer one; and its number of unread messages lies between those that rang
\* and those that there are, as long as nobody has added to it from an old reading and
\* no message came after it was read on the phone (_apply_counters, mark_read,
\* mark_incoming_read of services/inbound_service.py). A counter that went wrong never
\* makes another one wrong.
THEOREM CountersStayHonest == Spec => []CountersAreHonestInTurn
<1>1. InboxInv => CountersAreHonestInTurn
  BY DEF InboxInv, Honest, Waiting, Unread, CountersAreHonestInTurn
<1> QED BY <1>1, InboxStart, InboxStep, PTL DEF Spec

=============================================================================

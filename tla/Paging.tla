------------------------------- MODULE Paging -------------------------------
(***************************************************************************)
(* Lists read page by page.  The page carries a cursor to the next one;    *)
(* between two pages rows move, appear and go.  One reader opens one of    *)
(* the lists of the product and pages through it to the end.               *)
(*                                                                         *)
(* Rows are their ids.  The stamp of a row is what its list is ordered by: *)
(* a time or a sum, and it may be missing; equal stamps do happen.         *)
(* Filters and the visibility of rows only decide who is in the list.      *)
(***************************************************************************)
EXTENDS Integers, FiniteSets

CONSTANTS Row, NoRowId, List,     \* List: the lists that are read
          Limit,               \* rows on a page
          MaxStamp, MaxTouches \* bounds

ASSUME PagingAssumption ==
    /\ Row \subseteq Nat
    /\ IsFiniteSet(Row)
    /\ NoRowId \notin Row
    /\ List \subseteq {"recent", "waiting", "clients", "by_id", "deals"}
    /\ Limit \in Nat \ {0}
    /\ MaxStamp \in Nat /\ MaxTouches \in Nat

VARIABLES list,      \* the list that is read
          stamp,     \* what each row is ordered by
          listed,    \* the rows in the list now
          cursor,    \* the cursor of the last page
          given,     \* how often each row was on a page
          settled,   \* the rows in the list all along, and not moved
          touches    \* the bound used up

pageVars == <<list, stamp, listed, cursor, given, settled, touches>>

-----------------------------------------------------------------------------
Missing == 0     \* NULL

FromStart == [id |-> NoRowId, stamp |-> Missing]
TheEnd == [id |-> NoRowId, stamp |-> 1]

PagingTypeOK ==
    /\ list \in List \cup {"none"}
    /\ stamp \in [Row -> Missing..MaxStamp]
    /\ listed \subseteq Row
    /\ settled \subseteq listed
    /\ cursor \in [id: Row, stamp: Missing..MaxStamp] \cup {FromStart, TheEnd}
    /\ given \in [Row -> Nat]
    /\ touches \in Nat

PagingInit ==
    /\ list = "none"
    /\ stamp = [r \in Row |-> Missing]
    /\ listed = {}
    /\ cursor = FromStart
    /\ given = [r \in Row |-> 0]
    /\ settled = {}
    /\ touches = 0

\* Chats that were never written in have no time; the other lists are
\* ordered by something every row has.
MayMiss(l) == l = "recent"

\* The reader opens list l; what is in it by then is anything.
OpenList(l) ==
    /\ list = "none"
    /\ list' = l
    /\ listed' \in SUBSET Row
    /\ stamp' \in [Row -> (IF MayMiss(l) THEN Missing ELSE 1)..MaxStamp]
    /\ settled' = listed'
    /\ UNCHANGED <<cursor, given, touches>>

-----------------------------------------------------------------------------
(* The order of a list. *)

\* Newest first, rows without a time at the end, then by id downwards.
RecentFirst(s, i, t, j) == \/ s > t     \* Missing is below every time
                           \/ s = t /\ i > j

\* Longest waiting first, then by id upwards.
WaitingFirst(s, i, t, j) == \/ s < t
                            \/ s = t /\ i < j

Precedes(r, q) ==
    CASE list = "waiting" -> WaitingFirst(stamp[r], r, stamp[q], q)
      [] list = "by_id"   -> r > q
      [] list \in {"recent", "clients", "deals"} -> RecentFirst(stamp[r], r, stamp[q], q)

-----------------------------------------------------------------------------
(* What comes after a cursor. *)

\* Mutant: equal times are told apart by nothing.
RecentByTime(r) == stamp[r] < cursor.stamp

\* keyset_condition
AfterRecent(r) == IF cursor.stamp = Missing
                  THEN stamp[r] = Missing /\ r < cursor.id
                  ELSE \/ stamp[r] < cursor.stamp /\ stamp[r] # Missing
                       \/ stamp[r] = cursor.stamp /\ r < cursor.id
                       \/ stamp[r] = Missing

\* keyset_after
AfterWaiting(r) == \/ stamp[r] > cursor.stamp
                   \/ stamp[r] = cursor.stamp /\ r > cursor.id

\* The list of clients, by last contact or by sum.
AfterClient(r) == \/ stamp[r] < cursor.stamp
                  \/ stamp[r] = cursor.stamp /\ r < cursor.id

\* Notes, materials, messages, and the list of deals: by id alone.
AfterId(r) == r < cursor.id

After(r) == \/ cursor = FromStart
            \/ /\ cursor.id # NoRowId
               /\ CASE list = "recent"  -> AfterRecent(r)
                    [] list = "waiting" -> AfterWaiting(r)
                    [] list = "clients" -> AfterClient(r)
                    [] list \in {"by_id", "deals"} -> AfterId(r)

Rest == {r \in listed : After(r)}

\* The next page: the first rows of the rest.
Page == {r \in Rest : Cardinality({q \in Rest : Precedes(q, r)}) < Limit}

\* One row more is asked for; without it there is no next page.
NextCursor == IF Cardinality(Rest) > Limit
              THEN LET last == CHOOSE r \in Page : \A q \in Page : q = r \/ Precedes(q, r)
                   IN [id |-> last, stamp |-> stamp[last]]
              ELSE TheEnd

TurnPage ==
    /\ list # "none"
    /\ cursor # TheEnd
    /\ given' = [r \in Row |-> given[r] + (IF r \in Page THEN 1 ELSE 0)]
    /\ cursor' = NextCursor
    /\ UNCHANGED <<list, stamp, listed, settled, touches>>

-----------------------------------------------------------------------------
(* Others work meanwhile: a message comes, a client is answered, a deal is  *)
(* paid or written, a note is deleted, a chat is given to somebody else.   *)

TouchRow(r) ==
    /\ list # "none"
    /\ touches < MaxTouches
    /\ \E present \in BOOLEAN, s \in 1..MaxStamp :
         /\ listed' = IF present THEN listed \cup {r} ELSE listed \ {r}
         /\ stamp' = [stamp EXCEPT ![r] = s]
    /\ settled' = settled \ {r}
    /\ touches' = touches + 1
    /\ UNCHANGED <<list, cursor, given>>

\* Read once more from the start.
Reread ==
    /\ cursor = TheEnd
    /\ list' = "none"
    /\ cursor' = FromStart
    /\ given' = [r \in Row |-> 0]
    /\ settled' = {}
    /\ touches' = 0
    /\ stamp' = [r \in Row |-> Missing]
    /\ listed' = {}

PagingNext ==
    \/ \E l \in List : OpenList(l)
    \/ TurnPage
    \/ \E r \in Row : TouchRow(r)
    \/ Reread

PagingSpec == PagingInit /\ [][PagingNext]_pageVars

-----------------------------------------------------------------------------
(* Properties. *)

\* Whoever reads a list to its end has seen every row that was in it all
\* along and did not move, whatever moved around it.
NothingSkipped == cursor = TheEnd => \A r \in settled : given[r] > 0

\* No such row is shown twice.
NothingTwice == \A r \in settled : given[r] <= 1

\* A list that is read page by page gives every row that stayed in its place
\* exactly once (keyset_condition, keyset_after).
ListsAreWhole == PagingTypeOK /\ NothingSkipped /\ NothingTwice

\* The same of a list that nobody touches while it is read: what
\* docs/07-architecture.md:128 promises of every list, the payments among
\* them.
StillListIsWhole ==
    cursor = TheEnd /\ touches = 0 => \A r \in listed : given[r] = 1
=============================================================================

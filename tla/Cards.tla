--------------------------------- MODULE Cards ---------------------------------
(***************************************************************************)
(* The card of one client and its writers: employees who edit it, incoming *)
(* messages that bring the profile from Telegram, and the request for the  *)
(* birthday that a new client causes.  Each reads the card, computes, and  *)
(* writes the columns it changed; nothing is locked in between.            *)
(***************************************************************************)
EXTENDS Naturals, FiniteSets

CONSTANTS
  Editor,      \* edits under way at once
  Date,        \* dates of birth
  SignOf,      \* zodiac_for
  MaxEdits     \* bound

ASSUME CardsAssumption ==
  /\ SignOf \in [Date -> STRING]
  /\ MaxEdits \in Nat

VARIABLES
  card,       \* the row of the client
  edit,       \* requests of employees
  birthday,   \* the request for the birthday
  inbound,    \* an incoming message: what it read
  edits,
  hand,       \* history: what an employee entered last, by column
  raced       \* history: columns written by who had read an older value

cardVars == <<card, edit, birthday, inbound, edits, hand, raced>>

Empty == "none"
Time == {"12:30"}
Approx == {"morning"}
Phone == {"typed", "telegram"}
Signs == {SignOf[d] : d \in Date}

Card == [birth_date : Date \cup {Empty}, zodiac_sign : Signs \cup {Empty},
         birth_time : Time \cup {Empty}, birth_time_approx : Approx \cup {Empty},
         phone : Phone \cup {Empty}]
Blank == [birth_date |-> Empty, zodiac_sign |-> Empty, birth_time |-> Empty,
          birth_time_approx |-> Empty, phone |-> Empty]

\* The fields an employee sends; one at a time.
Patch == [field : {"birth_date"}, value : Date \cup {Empty}]
           \cup [field : {"birth_time"}, value : Time \cup {Empty}]
           \cup [field : {"birth_time_approx"}, value : Approx \cup {Empty}]
           \cup [field : {"phone"}, value : {"typed", Empty}]

None == [on |-> FALSE, seen |-> Blank, patch |-> [field |-> "phone", value |-> Empty]]
Busy(patch) == [on |-> TRUE, seen |-> card, patch |-> patch]

CardsTypeOK ==
  /\ card \in Card
  /\ \A e \in Editor : edit[e].seen \in Card /\ edit[e].patch \in Patch
  /\ birthday.ph \in {"asked", "read", "over"} /\ birthday.seen \in Card
  /\ inbound.seen \in Card
  /\ edits \in 0..MaxEdits

CardsInit ==
  /\ card = Blank
  /\ edit = [e \in Editor |-> None]
  /\ birthday = [ph |-> "asked", seen |-> Blank]
  /\ inbound = [on |-> FALSE, seen |-> Blank]
  /\ edits = 0
  /\ hand = [f \in {"birth_date", "phone"} |-> Empty] /\ raced = {}

-----------------------------------------------------------------------------
\* zodiac_for
Zodiac(date) == IF date = Empty THEN Empty ELSE SignOf[date]

\* Mutant: the sign is left as it is.
DateOnly(c, date) == [c EXCEPT !.birth_date = date]
\* Wherever a date is set the sign is computed.
WithDate(c, date) == [c EXCEPT !.birth_date = date, !.zodiac_sign = Zodiac(date)]

\* update_client: a time typed in takes the place of an approximate one.
Patched(c, p) ==
  CASE p.field = "birth_date" -> WithDate(c, p.value)
    [] p.field = "birth_time" ->
         [c EXCEPT !.birth_time = p.value,
                   !.birth_time_approx = IF p.value # Empty THEN Empty ELSE @]
    [] OTHER -> [c EXCEPT ![p.field] = p.value]

\* What a flush does: the columns that differ from what was read.
Flushed(seen, new) == [f \in DOMAIN card |-> IF new[f] # seen[f] THEN new[f] ELSE card[f]]

\* Columns written over a value that was not the one read.
Raced(seen, new) == {f \in DOMAIN hand : new[f] # seen[f] /\ card[f] # seen[f]}

EditReads(e, p) ==
  /\ ~edit[e].on /\ edits < MaxEdits
  /\ edit' = [edit EXCEPT ![e] = Busy(p)]
  /\ edits' = edits + 1
  /\ UNCHANGED <<card, birthday, inbound, hand, raced>>

EditWrites(e) ==
  /\ edit[e].on
  /\ LET p == edit[e].patch IN
       /\ card' = Flushed(edit[e].seen, Patched(edit[e].seen, p))
       /\ hand' = IF p.field \in DOMAIN hand THEN [hand EXCEPT ![p.field] = card'[p.field]] ELSE hand
       /\ raced' = raced \cup Raced(edit[e].seen, Patched(edit[e].seen, p))
  /\ edit' = [edit EXCEPT ![e] = None]
  /\ UNCHANGED <<birthday, inbound, edits>>

-----------------------------------------------------------------------------
\* _backfill_birthday: the answer comes seconds later.
BirthdayReads ==
  /\ birthday.ph = "asked"
  /\ birthday' = [ph |-> "read", seen |-> card]
  /\ UNCHANGED <<card, edit, inbound, edits, hand, raced>>

\* Nobody entered a date before.
LacksDate(seen) == seen.birth_date = Empty

BirthdayWrites ==
  /\ birthday.ph = "read"
  /\ birthday' = [ph |-> "over", seen |-> Blank]
  /\ \/ \E d \in Date :
          /\ LacksDate(birthday.seen)
          /\ card' = Flushed(birthday.seen, WithDate(birthday.seen, d))
          /\ raced' = raced \cup Raced(birthday.seen, WithDate(birthday.seen, d))
     \/ UNCHANGED <<card, raced>>      \* hidden, without a year, or there already
  /\ UNCHANGED <<edit, inbound, edits, hand>>

\* An incoming message, while its transaction lasts.
InboundReads ==
  /\ ~inbound.on
  /\ inbound' = [on |-> TRUE, seen |-> card]
  /\ UNCHANGED <<card, edit, birthday, edits, hand, raced>>

\* _sync_client_from_peer: the phone only while there is none.
Synced(c) == [c EXCEPT !.phone = IF @ = Empty THEN "telegram" ELSE @]

InboundWrites ==
  /\ inbound.on
  /\ inbound' = [on |-> FALSE, seen |-> Blank]
  /\ \/ /\ card' = Flushed(inbound.seen, Synced(inbound.seen))
        /\ raced' = raced \cup Raced(inbound.seen, Synced(inbound.seen))
     \/ UNCHANGED <<card, raced>>      \* a profile without a phone
  /\ UNCHANGED <<edit, birthday, edits, hand>>

CardsNext ==
  \/ \E e \in Editor : (\E p \in Patch : EditReads(e, p)) \/ EditWrites(e)
  \/ BirthdayReads \/ BirthdayWrites \/ InboundReads \/ InboundWrites

CardsSpec == CardsInit /\ [][CardsNext]_cardVars

-----------------------------------------------------------------------------
(* Properties. *)

\* The sign on the card is that of its date ("computed from the date, not
\* entered"), unless two wrote the date at once: each writes only the columns
\* it changed, and the sign of one may stay with the date of the other.
SignFitsDateInTurn == card.zodiac_sign = Zodiac(card.birth_date) \/ "birth_date" \in raced

\* What an employee entered is not replaced by what Telegram says, unless
\* somebody wrote the column having read it before (client_service and
\* inbound_service: "not over somebody's edit").
HandStaysInTurn ==
  \A f \in DOMAIN hand : hand[f] # Empty => card[f] = hand[f] \/ f \in raced

\* The card says what was entered and what follows from it, unless two wrote
\* at once (update_client, _backfill_birthday, _sync_client_from_peer).
CardsHold == CardsTypeOK /\ SignFitsDateInTurn /\ HandStaysInTurn

\* One answer to the question when the client was born (client_service.py:
\* "to keep both is to keep two answers").
OneBirthTime == card.birth_time = Empty \/ card.birth_time_approx = Empty
=============================================================================

------------------------------- MODULE Sending -------------------------------
(***************************************************************************)
(* What one call of send_message does: the message of the CRM, a text and  *)
(* any number of files, becomes a plan of Telegram messages (send_plan),   *)
(* and the plan is executed call by call (mtproto_send).  An attempt that  *)
(* is interrupted is made again from its first step, with the same random  *)
(* ids; Telegram refuses an id it has seen.  A refused album is sent file  *)
(* by file, a caption that is too long for the account goes ahead as a     *)
(* text of its own.                                                        *)
(*                                                                         *)
(* The queue around the attempts is the module Outbox, where a message is  *)
(* a number of calls; here the calls are looked into.                      *)
(***************************************************************************)
EXTENDS Naturals, Sequences, FiniteSets

CONSTANTS
  Letter,         \* messages: records of text (its length) and kinds (of its files)
  CAPTION_LIMIT, TEXT_LIMIT, ALBUM_LIMIT,
  MaxTries,       \* MAX_ATTEMPTS of the queue
  MaxBreaks       \* bound: interruptions

\* The item of step_random_id that a caption sent ahead has.
APART == 99

ASSUME SendingAssumption ==
  /\ \A l \in Letter : /\ l.text \in Nat
                       /\ l.kinds \in Seq({"photo", "video", "audio", "document", "voice"})
                       /\ l.text > 0 \/ l.kinds # <<>>
  /\ {CAPTION_LIMIT, TEXT_LIMIT, ALBUM_LIMIT, MaxTries} \subseteq Nat \ {0}
  /\ ALBUM_LIMIT < APART
  /\ MaxBreaks \in Nat

VARIABLES
  letter,   \* the message
  bad,      \* files that spoil the album they are in
  tight,    \* the account's captions are shorter than CAPTION_LIMIT
  fate,     \* "new", "queued", "sent" or "failed"
  tries,    \* attempts that failed
  call,     \* where the attempt is
  ids,      \* Telegram numbers of the steps done in this attempt
  shown,    \* what Telegram accepted, in order; the place is the number
  breaks,   \* interruptions so far
  mishaps   \* history: an album taken apart, a caption sent ahead, numbers not found

sendVars == <<letter, bad, tight, fate, tries, call, ids, shown, breaks, mishaps>>
sent == <<letter, bad, tight>>

-----------------------------------------------------------------------------
(* The plan. *)

Ceiling(a, b) == (a + b - 1) \div b
AtMost(a, b) == IF a < b THEN a ELSE b

\* OutgoingFile.group; a voice message only goes alone.
GroupOf(kind) == CASE kind \in {"photo", "video"} -> "visual"
                   [] kind \in {"audio", "document"} -> kind
                   [] OTHER -> "alone"

\* Mutant: albums as large as the group.
OneAlbum(a, b) == TRUE
\* Two places of a group are in one album: the groups go in pieces of ALBUM_LIMIT.
SameAlbum(a, b) == a \div ALBUM_LIMIT = b \div ALBUM_LIMIT

\* A set as a sequence, by the number of members before each.
InOrder(S, Before(_, _)) ==
  [n \in 1..Cardinality(S) |-> CHOOSE s \in S : Cardinality({t \in S : Before(t, s)}) = n - 1]
Below(a, b) == a < b
Lowest(S) == CHOOSE i \in S : \A j \in S : i <= j

\* The files of a file's group; one that goes alone is a group of its own.
GroupFiles(kinds, i) ==
  {j \in DOMAIN kinds : j = i \/ (GroupOf(kinds[i]) # "alone" /\ GroupOf(kinds[j]) = GroupOf(kinds[i]))}
Place(kinds, i) == Cardinality({j \in GroupFiles(kinds, i) : j < i})
AlbumOf(kinds, i) == {j \in GroupFiles(kinds, i) : SameAlbum(Place(kinds, i), Place(kinds, j))}
AllAlbums(kinds) == {AlbumOf(kinds, i) : i \in DOMAIN kinds}

\* split_text, its length only.
TextSteps(text) ==
  [p \in 1..Ceiling(text, TEXT_LIMIT) |-> [files |-> <<>>, text |-> p]]

\* Groups in the order of their first file, the albums of a group one after another.
MediaSteps(kinds) ==
  LET Leads(album) == Lowest(GroupFiles(kinds, Lowest(album)))
      Earlier(a, b) == Leads(a) < Leads(b) \/ (Leads(a) = Leads(b) /\ Lowest(a) < Lowest(b))
      albums == InOrder(AllAlbums(kinds), Earlier)
  IN [n \in DOMAIN albums |-> InOrder(albums[n], Below)]

HasCaption(l) == l.text \in 1..CAPTION_LIMIT /\ l.kinds # <<>>

\* plan: [files, text] of every step; text is the part it carries, or 0.
PlanOf(l) ==
  (IF HasCaption(l) THEN <<>> ELSE TextSteps(l.text))
    \o LET media == MediaSteps(l.kinds)
       IN [n \in DOMAIN media |->
             [files |-> media[n], text |-> IF n = 1 /\ HasCaption(l) THEN 1 ELSE 0]]

-----------------------------------------------------------------------------
(* Where an attempt is: the step, the file of an album sent file by file   *)
(* (0: not taken apart), whether the caption went apart, and the numbers   *)
(* of the files sent one by one.                                           *)

NoCall == [step |-> 0, item |-> 0, apart |-> "no", got |-> <<>>]
AtStep(n) == [NoCall EXCEPT !.step = n]
Plan == PlanOf(letter)
Doing == Plan[call.step]
Running == call.step \in 1..Len(Plan)

\* step_random_id
StepId(n, i) == <<n, i>>

\* What the current call sends: a sequence of [id, file, text].
Sends ==
  LET n == call.step
      text == IF call.apart = "no" THEN Doing.text ELSE 0
      One(i) == [id |-> StepId(n, i), file |-> Doing.files[i],
                 text |-> IF i = 1 THEN text ELSE 0]
  IN CASE call.apart = "text" -> <<[id |-> StepId(n, APART), file |-> 0, text |-> Doing.text]>>
       [] call.apart # "text" /\ Doing.files = <<>> ->
            <<[id |-> StepId(n, 1), file |-> 0, text |-> Doing.text]>>
       [] call.apart # "text" /\ Doing.files # <<>> /\ call.item = 0 ->
            [i \in DOMAIN Doing.files |-> One(i)]
       [] OTHER -> <<One(call.item)>>

Expected == IF Doing.files = <<>> THEN 1 ELSE Len(Doing.files)
Seen(id) == \E k \in DOMAIN shown : shown[k].id = id
Duplicate == \E i \in DOMAIN Sends : Seen(Sends[i].id)
TooLong == tight /\ Doing.files # <<>> /\ Doing.text # 0 /\ call.apart = "no" /\ call.item \in {0, 1}
Rejected == /\ call.apart # "text" /\ call.item = 0 /\ Len(Doing.files) > 1
            /\ \E i \in DOMAIN Doing.files : Doing.files[i] \in bad

-----------------------------------------------------------------------------
SendInit ==
  /\ letter = [text |-> 0, kinds |-> <<>>] /\ bad = {} /\ tight = FALSE
  /\ fate = "new" /\ tries = 0 /\ call = NoCall /\ ids = <<>> /\ shown = <<>>
  /\ breaks = 0 /\ mishaps = {}

Compose ==
  /\ fate = "new"
  /\ letter' \in Letter
  /\ bad' \in {b \in SUBSET DOMAIN letter'.kinds : Cardinality(b) <= 1}
  /\ tight' \in BOOLEAN
  /\ fate' = "queued"
  /\ UNCHANGED <<tries, call, ids, shown, breaks, mishaps>>

\* An attempt begins with the first step.
StartAttempt ==
  /\ fate = "queued" /\ call = NoCall
  /\ call' = AtStep(1) /\ ids' = <<>>
  /\ UNCHANGED <<sent, fate, tries, shown, breaks, mishaps>>

\* The current call gave the numbers `got`: on to the next file or step.
GoOn(got) ==
  LET all == call.got \o got
      more == call.apart = "text" \/ (call.item # 0 /\ call.item < Len(Doing.files))
  IN IF more
     THEN /\ call' = [call EXCEPT !.got = all,
                                  !.apart = IF @ = "text" THEN "done" ELSE @,
                                  !.item = IF call.apart = "text" THEN 0 ELSE @ + 1]
          /\ UNCHANGED ids
     ELSE call' = AtStep(call.step + 1) /\ ids' = ids \o all

Accepted ==
  /\ Running /\ ~Duplicate /\ ~TooLong /\ ~Rejected
  /\ shown' = shown \o Sends
  /\ GoOn([i \in DOMAIN Sends |-> Len(shown) + i])
  /\ UNCHANGED <<sent, fate, tries, breaks, mishaps>>

TriesUsed(n) == n >= MaxTries

\* The attempt failed for good, or the queue makes another.
FailedAttempt ==
  /\ call' = NoCall /\ ids' = <<>>
  /\ tries' = tries + 1
  /\ fate' = IF TriesUsed(tries') THEN "failed" ELSE "queued"

\* An album is refused: file by file.
TakeApart ==
  /\ Running /\ Rejected
  /\ call' = [call EXCEPT !.item = 1]
  /\ mishaps' = mishaps \cup {"split"}
  /\ UNCHANGED <<sent, fate, tries, ids, shown, breaks>>

\* MediaCaptionTooLongError: the text ahead of the files.
CaptionApart ==
  /\ Running /\ TooLong
  /\ call' = [call EXCEPT !.apart = "text", !.item = 0, !.got = <<>>]
  /\ mishaps' = mishaps \cup {"apart"}
  /\ UNCHANGED <<sent, fate, tries, ids, shown, breaks>>

\* The numbers the CRM does not know yet.
NewNumbers == DOMAIN shown \ {ids[i] : i \in DOMAIN ids}

\* The last `count` of them.
Recovered(count) ==
  LET fresh == InOrder(NewNumbers, Below)
  IN SubSeq(fresh, Len(fresh) - AtMost(count, Len(fresh)) + 1, Len(fresh))

\* RandomIdDuplicateError in execute: the step is done.
SkipStep ==
  /\ Running /\ Duplicate /\ call.apart = "no"
  /\ call' = AtStep(call.step + 1)
  /\ \/ ids' = ids \o Recovered(Expected) /\ UNCHANGED mishaps
     \/ UNCHANGED ids /\ mishaps' = mishaps \cup {"blind"}
  /\ UNCHANGED <<sent, fate, tries, shown, breaks>>

\* The same error while another is handled leaves execute.
EscapedDuplicate ==
  /\ Running /\ Duplicate /\ call.apart # "no"
  /\ FailedAttempt
  /\ UNCHANGED <<sent, shown, breaks, mishaps>>

\* The connection, a flood ban or the death of the process ends the attempt,
\* before or after Telegram took the call.  Only the first counts as a try.
Break ==
  /\ Running /\ breaks < MaxBreaks
  /\ breaks' = breaks + 1
  /\ \/ UNCHANGED shown
     \/ ~Duplicate /\ ~TooLong /\ ~Rejected /\ shown' = shown \o Sends
  /\ \/ FailedAttempt
     \/ call' = NoCall /\ ids' = <<>> /\ UNCHANGED <<tries, fate>>
  /\ UNCHANGED <<sent, mishaps>>

Finish ==
  /\ fate = "queued" /\ call.step > Len(Plan)
  /\ fate' = "sent" /\ call' = NoCall
  /\ UNCHANGED <<sent, tries, ids, shown, breaks, mishaps>>

SendNext ==
  \/ Compose \/ StartAttempt \/ Accepted \/ TakeApart \/ CaptionApart
  \/ SkipStep \/ EscapedDuplicate \/ Break \/ Finish

SendSpec == SendInit /\ [][SendNext]_sendVars

-----------------------------------------------------------------------------
(* Properties. *)

SendTypeOK ==
  /\ fate \in {"new", "queued", "sent", "failed"}
  /\ tries \in 0..MaxTries /\ breaks \in 0..MaxBreaks
  /\ call.step \in 0..Len(Plan) + 1
  /\ call.apart \in {"no", "text", "done"}
  /\ \A i \in DOMAIN ids : ids[i] \in DOMAIN shown
  /\ mishaps \subseteq {"split", "apart", "blind"}

\* Telegram takes the plan: albums are small enough and of one group, a
\* caption is short enough (send_plan.py: the limits in its head).
PlanIsTaken ==
  \A n \in DOMAIN Plan :
    /\ Len(Plan[n].files) <= ALBUM_LIMIT
    /\ \A i, j \in DOMAIN Plan[n].files :
         i # j => /\ GroupOf(letter.kinds[Plan[n].files[i]]) # "alone"
                  /\ GroupOf(letter.kinds[Plan[n].files[i]])
                       = GroupOf(letter.kinds[Plan[n].files[j]])
    /\ Plan[n].files # <<>> /\ Plan[n].text # 0 => letter.text <= CAPTION_LIMIT

\* The client sees no part of the text and no file twice, whatever was
\* interrupted, taken apart or tried again.
PartShownOnce ==
  \A j, k \in DOMAIN shown :
    j # k => /\ shown[j].file = 0 \/ shown[j].file # shown[k].file
             /\ shown[j].text = 0 \/ shown[j].text # shown[k].text

Whole ==
  /\ \A f \in DOMAIN letter.kinds : \E k \in DOMAIN shown : shown[k].file = f
  /\ \A p \in 1..(IF HasCaption(letter) THEN 1 ELSE Ceiling(letter.text, TEXT_LIMIT)) :
       \E k \in DOMAIN shown : shown[k].text = p

\* A message marked as sent has reached the client with all its files and the
\* whole text, unless an interruption met an album sent file by file.
SentIsWholeOrSplit ==
  fate = "sent" => Whole \/ ("split" \in mishaps /\ breaks > 0)

\* A sent message has reached the client whole (mtproto_send.py: "better to
\* reach the client file by file than not at all").
SentIsWhole == fate = "sent" => Whole

\* The numbers stored with a sent message are those of all its parts, each
\* once, unless the chat could not be asked for them, an album was taken apart
\* or a caption went ahead.
NumbersAreWhole ==
  fate = "sent" /\ mishaps = {} =>
    /\ \A i, j \in DOMAIN ids : i # j => ids[i] # ids[j]
    /\ {ids[i] : i \in DOMAIN ids} = DOMAIN shown

\* A message goes through Telegram in steps it takes, each part reaches the
\* client once, and a message called sent has arrived, with its numbers
\* (plan, execute, _recoverer).
SentWell ==
  SendTypeOK /\ PlanIsTaken /\ PartShownOnce /\ SentIsWholeOrSplit /\ NumbersAreWhole
=============================================================================

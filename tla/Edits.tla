--------------------------------- MODULE Edits ---------------------------------
(***************************************************************************)
(* One message of ours that was sent, and who rewrites it: its author in   *)
(* several tabs, each edit a command to the gateway followed by a          *)
(* conditional update of the row, and the owner of the account on a phone. *)
(* Telegram reports edits; every report is handled by a task of its own.   *)
(* Two edits in Telegram carry different dates.                            *)
(***************************************************************************)
EXTENDS Naturals, FiniteSets

CONSTANTS
  Tab,           \* tabs of the author
  Text,          \* texts
  Original,      \* the text that was sent
  MaxRewrites,   \* bound: edits asked in tabs
  MaxPhoneEdits  \* bound: edits on a phone

ASSUME EditsAssumption ==
  /\ Original \in Text
  /\ MaxRewrites \in Nat /\ MaxPhoneEdits \in Nat

VARIABLES
  row,        \* the message in the database
  telegram,   \* the message as the client sees it
  tab,        \* requests under way
  command,    \* commands the gateway has not carried out
  report,     \* edits reported and not handled
  rewrites, phoned,
  astray      \* history: why the two texts may differ

editVars == <<row, telegram, tab, command, report, rewrites, phoned, astray>>

\* edited_at: the date Telegram gave the edit, or the one the tab wrote.
Stamp == [by : {"nobody", "telegram", "tab"}, no : 0..(MaxRewrites + MaxPhoneEdits)]
Unedited == [by |-> "nobody", no |-> 0]
Reason == {"told", "late", "missed", "same"}

AtRest == [ph |-> "idle", text |-> Original, seen |-> Unedited, no |-> 0]

EditsTypeOK ==
  /\ row \in [text : Text, edited_at : Stamp]
  /\ telegram \in [text : Text, no : 0..(MaxRewrites + MaxPhoneEdits)]
  /\ tab \in [Tab -> [ph : {"idle", "asked", "confirmed"}, text : Text, seen : Stamp, no : 0..MaxRewrites]]
  /\ command \subseteq [no : 1..MaxRewrites, text : Text]
  /\ report \subseteq [no : 1..(MaxRewrites + MaxPhoneEdits), text : Text]
  /\ astray \subseteq Reason

EditsInit ==
  /\ row = [text |-> Original, edited_at |-> Unedited]
  /\ telegram = [text |-> Original, no |-> 0]
  /\ tab = [t \in Tab |-> AtRest]
  /\ command = {} /\ report = {}
  /\ rewrites = 0 /\ phoned = 0 /\ astray = {}

-----------------------------------------------------------------------------
\* Nothing is on its way; then the texts are the same unless there is a reason.
Calm == command = {} /\ report = {} /\ \A t \in Tab : tab[t].ph = "idle"
\* A reason is spent once everything has settled and the texts are the same.
Reasons(why) ==
  astray' = IF Calm' /\ row'.text = telegram'.text THEN {} ELSE astray \cup why

\* edit_message: the row is read and the gateway asked.
AskEdit(t, text) ==
  /\ tab[t].ph = "idle" /\ rewrites < MaxRewrites
  /\ rewrites' = rewrites + 1
  /\ tab' = [tab EXCEPT ![t] = [ph |-> "asked", text |-> text, seen |-> row.edited_at, no |-> rewrites']]
  /\ command' = command \cup {[no |-> rewrites', text |-> text]}
  /\ UNCHANGED <<row, telegram, report, phoned>>
  /\ Reasons({})

\* What happens to the text in Telegram; the gateway may hear of its own edits.
Shown(text) ==
  IF text = telegram.text
    THEN UNCHANGED <<telegram, report>>     \* MessageNotModifiedError
    ELSE /\ telegram' = [text |-> text, no |-> telegram.no + 1]
         /\ report' \in {report, report \cup {[no |-> telegram'.no, text |-> text]}}

\* The requester of a command, when he still waits.
Waiting(c) == {t \in Tab : tab[t].ph = "asked" /\ tab[t].no = c.no}

\* provider.edit_message, and the answer when somebody waits for it.
CarryOut(c) ==
  /\ c \in command
  /\ command' = command \ {c}
  /\ Shown(c.text)
  /\ tab' = [t \in Tab |-> IF t \in Waiting(c) THEN [tab[t] EXCEPT !.ph = "confirmed"] ELSE tab[t]]
  /\ UNCHANGED <<row, rewrites, phoned>>
  /\ Reasons({})

\* Telegram or the gateway refuses: the requester is told, nothing changes.
RefuseEdit(c) ==
  /\ c \in command
  /\ command' = command \ {c}
  /\ tab' = [t \in Tab |-> IF t \in Waiting(c) THEN AtRest ELSE tab[t]]
  /\ UNCHANGED <<row, telegram, report, rewrites, phoned>>
  /\ Reasons({"told"})

\* No answer in time; the command may still be carried out.
EditTimesOut(t) ==
  /\ tab[t].ph = "asked"
  /\ tab' = [tab EXCEPT ![t] = AtRest]
  /\ UNCHANGED <<row, telegram, command, report, rewrites, phoned>>
  /\ Reasons({"told"})

\* Nobody held the account when the command was published.
CommandLost(c) ==
  /\ c \in command
  /\ command' = command \ {c}
  /\ UNCHANGED <<row, telegram, tab, report, rewrites, phoned>>
  /\ Reasons({})

\* Mutant: the row is written whatever happened to it meanwhile.
Anyway(t) == tab[t].ph = "confirmed"
\* The condition of the update.
Unchanged(t) == tab[t].seen = row.edited_at

\* The text is written, or the requester is told of a conflict.
WriteEdit(t) ==
  /\ tab[t].ph = "confirmed"
  /\ IF Unchanged(t)
       THEN /\ row' = [text |-> tab[t].text, edited_at |-> [by |-> "tab", no |-> tab[t].no]]
            /\ tab' = [tab EXCEPT ![t] = AtRest]
            /\ UNCHANGED <<telegram, command, report, rewrites, phoned>>
            /\ Reasons({})
       ELSE /\ tab' = [tab EXCEPT ![t] = AtRest]
            /\ UNCHANGED <<row, telegram, command, report, rewrites, phoned>>
            /\ Reasons({"told"})

\* The owner of the account edits on a phone.
PhoneEdit(text) ==
  /\ phoned < MaxPhoneEdits /\ text # telegram.text
  /\ phoned' = phoned + 1
  /\ telegram' = [text |-> text, no |-> telegram.no + 1]
  /\ report' = report \cup {[no |-> telegram'.no, text |-> text]}
  /\ UNCHANGED <<row, tab, command, rewrites>>
  /\ Reasons({})

\* _apply_edit: no comparison of dates, the report applied last wins.
Edited(e) ==
  IF e.text = row.text THEN row
  ELSE [text |-> e.text, edited_at |-> [by |-> "telegram", no |-> e.no]]

ApplyEdit(e) ==
  /\ e \in report
  /\ report' = report \ {e}
  /\ row' = Edited(e)
  /\ UNCHANGED <<telegram, tab, command, rewrites, phoned>>
  /\ Reasons({why \in {"late", "same"} :
               IF why = "late" THEN e.no < telegram.no ELSE e.text = row.text})

\* The gateway restarts: what it had heard and not written is forgotten.
ForgetReports ==
  /\ report # {}
  /\ report' = {}
  /\ UNCHANGED <<row, telegram, tab, command, rewrites, phoned>>
  /\ Reasons({"missed"})

EditsNext ==
  \/ \E t \in Tab : (\E x \in Text : AskEdit(t, x)) \/ EditTimesOut(t) \/ WriteEdit(t)
  \/ \E c \in command : CarryOut(c) \/ RefuseEdit(c) \/ CommandLost(c)
  \/ \E x \in Text : PhoneEdit(x)
  \/ \E e \in report : ApplyEdit(e)
  \/ ForgetReports

EditsSpec == EditsInit /\ [][EditsNext]_editVars

-----------------------------------------------------------------------------
\* Once everything has settled, what the employee reads is what the client
\* reads, unless somebody was told that an edit failed, or a report of an edit
\* was handled after a newer edit, or named the text the row already had and
\* left no mark, or was lost with the gateway: two tabs alone never come apart
\* silently.
NotApartSilently == Calm /\ row.text # telegram.text => astray # {}
\* As the comment says it, without the reports: does not hold.
NotApartUnlessTold == Calm /\ row.text # telegram.text => "told" \in astray
=============================================================================

------------------------------- MODULE MCDesk -------------------------------
(***************************************************************************)
(* Instances for TLC of what the employees' desk consists of: whose chat   *)
(* it is, the client's card, the lists, working hours, a message on its    *)
(* way through Telegram, its edits, and the accounts money is sent to; and *)
(* signing an account in.  They share no state, so a behaviour is one of   *)
(* them, chosen at the start.                                              *)
(***************************************************************************)
EXTENDS Chats, Cards, Hours, Paging, Sending, Edits, Requisites, Login, TLC

VARIABLE stage     \* the part that runs

deskVars == <<stage, vars, cardVars, hoursVars, pageVars, sendVars, editVars, payeeVars,
              loginVars>>

DeskInit ==
  /\ stage \in {"chats", "cards", "hours", "lists", "sending", "edits", "payees", "login"}
  /\ Init /\ CardsInit /\ HoursInit /\ PagingInit /\ SendInit
  /\ EditsInit /\ RequisitesInit /\ LoginInit
  /\ stage # "chats" => accepting = User
  /\ stage # "login" => working = 0

DeskNext ==
  \/ /\ stage = "chats" /\ Next
     /\ UNCHANGED <<stage, cardVars, hoursVars, pageVars, sendVars, editVars, payeeVars, loginVars>>
  \/ /\ stage = "cards" /\ CardsNext
     /\ UNCHANGED <<stage, vars, hoursVars, pageVars, sendVars, editVars, payeeVars, loginVars>>
  \/ /\ stage = "hours" /\ HoursNext
     /\ UNCHANGED <<stage, vars, cardVars, pageVars, sendVars, editVars, payeeVars, loginVars>>
  \/ /\ stage = "lists" /\ PagingNext
     /\ UNCHANGED <<stage, vars, cardVars, hoursVars, sendVars, editVars, payeeVars, loginVars>>
  \/ /\ stage = "sending" /\ SendNext
     /\ UNCHANGED <<stage, vars, cardVars, hoursVars, pageVars, editVars, payeeVars, loginVars>>
  \/ /\ stage = "edits" /\ EditsNext
     /\ UNCHANGED <<stage, vars, cardVars, hoursVars, pageVars, sendVars, payeeVars, loginVars>>
  \/ /\ stage = "payees" /\ RequisitesNext
     /\ UNCHANGED <<stage, vars, cardVars, hoursVars, pageVars, sendVars, editVars, loginVars>>
  \/ /\ stage = "login" /\ LoginNext
     /\ UNCHANGED <<stage, vars, cardVars, hoursVars, pageVars, sendVars, editVars, payeeVars>>

DeskSpec == DeskInit /\ [][DeskNext]_deskVars

Symmetry ==
  Permutations(Request) \cup Permutations(User \ {Founder}) \cup Permutations(Task)

Sign == [d \in Date |-> IF d = "may1" THEN "taurus" ELSE "capricorn"]

Letters == {[text |-> 1, kinds |-> <<"photo", "photo", "photo">>],
            [text |-> 2, kinds |-> <<"document", "photo", "document">>],
            [text |-> 1, kinds |-> <<"voice", "photo", "video">>],
            [text |-> 3, kinds |-> <<>>],
            [text |-> 0, kinds |-> <<"audio", "voice", "audio">>]}
=============================================================================

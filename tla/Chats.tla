-------------------------------- MODULE Chats --------------------------------
(***************************************************************************)
(* Whose chat is it: the managers of one Telegram account, the person      *)
(* responsible for each of its chats, who sees a chat, and who gets its    *)
(* live events.  An inbound message of a new client, an answer and a       *)
(* transfer read first and write later, in requests of their own; the      *)
(* administrator changes the managers of the account and edits employees   *)
(* between the two.                                                        *)
(***************************************************************************)
EXTENDS Integers, FiniteSets

CONSTANTS
  User,        \* employees
  Founder,     \* the first administrator
  Chat,        \* clients who may write to the account
  Request,     \* requests under way at once
  MaxChanges,  \* bound: changes by an administrator and in the profile
  MaxRequests  \* bound: answers, transfers and new clients

ASSUME FounderAssumption == Founder \in User
ASSUME BoundsAssumption == MaxChanges \in Nat /\ MaxRequests \in Nat
ASSUME NobodyAssumption == "nobody" \notin User

VARIABLES
  admin,      \* employees with the role of administrator
  active,     \* employees who may work
  accepting,  \* employees who take new clients
  managers,   \* account_managers: who is appointed to the account
  bot,        \* the account is a warm-up bot (funnel stage "warmup")
  exists,     \* chats that are in the database
  owner,      \* the responsible employee of each chat, or Nobody
  request,    \* requests under way
  changes, left,
  declined,   \* history: chats made while the only manager took no new clients
  stray       \* history: chats that were settled by a request that was overtaken,
              \* or in the card of an employee, since the managers were last set

vars == <<admin, active, accepting, managers, bot, exists, owner, request, changes, left,
          declined, stray>>
staff == <<admin, active, accepting>>

Nobody == "nobody"
Idle == [op |-> "none", by |-> Nobody, chat |-> Nobody, to |-> Nobody, seen |-> Nobody,
         late |-> FALSE]

\* What settles a chat past the account's own screen.
Cause == {"late", "card"}

TypeOK ==
  /\ admin \subseteq User /\ active \subseteq User /\ accepting \subseteq User
  /\ managers \subseteq User
  /\ bot \in BOOLEAN
  /\ exists \subseteq Chat
  /\ owner \in [Chat -> User \cup {Nobody}]
  /\ \A c \in Chat \ exists : owner[c] = Nobody
  /\ request \in [Request -> [op : {"none", "new", "answer", "transfer"},
                              by : User \cup {Nobody}, chat : Chat \cup {Nobody},
                              to : User \cup {Nobody}, seen : User \cup {Nobody},
                              late : BOOLEAN]]
  /\ changes \in 0..MaxChanges /\ left \in 0..MaxRequests
  /\ declined \subseteq exists
  /\ stray \subseteq Cause \X exists

Init ==
  /\ admin = {Founder} /\ active = User /\ accepting \in {User, User \ {Founder}, {}}
  /\ managers = {} /\ bot = FALSE
  /\ exists = {} /\ owner = [c \in Chat |-> Nobody]
  /\ request = [r \in Request |-> Idle]
  /\ changes = MaxChanges /\ left = MaxRequests
  /\ declined = {} /\ stray = {}

-----------------------------------------------------------------------------
(* Who sees what.                                                          *)

\* visible_account_ids: a manager has no warm-up accounts.
Has(u) == u \in admin \/ (u \in managers /\ ~bot)
\* conversation_scope_orm
Sees(u, c) == c \in exists /\ (u \in admin \/ (Has(u) /\ owner[c] \in {u, Nobody}))

\* conversation_audience
Audience(c) ==
  (IF owner[c] = Nobody THEN managers ELSE {owner[c]}) \cup (admin \cap active)

-----------------------------------------------------------------------------
(* Requests.                                                               *)

Opens(r, op, by, c, to) ==
  /\ request[r] = Idle /\ left > 0
  /\ request' = [request EXCEPT ![r] = [op |-> op, by |-> by, chat |-> c, to |-> to,
                                        seen |-> owner[c], late |-> FALSE]]
  /\ left' = left - 1
  /\ UNCHANGED <<staff, managers, bot, exists, owner, changes, declined, stray>>

\* The column is written if it differs from what the request has read of it.
Assigned(r, u) == IF request[r].seen = u THEN owner[request[r].chat] ELSE u

\* Request r commits, the responsible of its chat is u.
Commits(r, u) ==
  LET q == request[r] IN
  /\ owner' = [owner EXCEPT ![q.chat] = u]
  /\ request' = [request EXCEPT ![r] = Idle]
  /\ stray' = IF q.late /\ (q.chat \notin exists \/ u # owner[q.chat])
              THEN stray \cup {<<"late", q.chat>>} ELSE stray
  /\ UNCHANGED <<staff, managers, bot, changes, left>>

\* _sole_manager_id: the only manager, if he takes new clients.
SoleManager == IF \E u \in accepting : managers = {u}
               THEN CHOOSE u \in accepting : managers = {u} ELSE Nobody

(* get_or_create_conversation, of the first message of a client; two       *)
(* messages of one client at once insert one row.                          *)
NewChatRead(r, c) == c \notin exists /\ Opens(r, "new", Nobody, c, SoleManager)

NewChat(r) ==
  /\ request[r].op = "new"
  /\ LET c == request[r].chat IN
     IF c \in exists THEN Commits(r, owner[c]) /\ UNCHANGED <<exists, declined>>
     ELSE /\ Commits(r, request[r].to)
          /\ exists' = exists \cup {c}
          /\ declined' = IF request[r].to = Nobody /\ Cardinality(managers) = 1
                         THEN declined \cup {c} ELSE declined

(* post_message, mark_replied: the chat is looked up for who asks, then    *)
(* its row is locked and the responsible read again.                       *)
AnswerRead(r, u, c) == u \in active /\ Sees(u, c) /\ Opens(r, "answer", u, c, Nobody)

\* Mutant: the responsible is taken from what was read at first.
OwnerRead(r) == request[r].seen
\* The responsible as it is under the lock.
OwnerNow(r) == owner[request[r].chat]

Answer(r) ==
  /\ request[r].op = "answer"
  /\ Commits(r, IF OwnerNow(r) = Nobody THEN Assigned(r, request[r].by)
                ELSE owner[request[r].chat])
  /\ UNCHANGED <<exists, declined>>

\* Mutant: a chat is given to anybody who works.
Works(u) == u \in active
\* Only to who works and is appointed to the account.
Appointed(u) == u \in active \cap managers

(* transfer: checked, then written, without a lock.                        *)
TransferRead(r, u, c, to) ==
  /\ u \in active /\ Sees(u, c) /\ Appointed(to)
  /\ Opens(r, "transfer", u, c, to)

Transfer(r) ==
  /\ request[r].op = "transfer"
  /\ Commits(r, Assigned(r, request[r].to))
  /\ UNCHANGED <<exists, declined>>

-----------------------------------------------------------------------------
(* Changes by an administrator.                                            *)

\* Requests under way have read what the change makes wrong.
Races == request' = [r \in Request |-> IF request[r].op = "none" THEN request[r]
                                        ELSE [request[r] EXCEPT !.late = TRUE]]
Changes == changes > 0 /\ changes' = changes - 1

\* The chats of everybody who is not in the new list.
Released(new) == {c \in exists : owner[c] # Nobody /\ owner[c] \notin new}
\* What a sole manager adopts: all that is nobody's by now.
Adopted(new) == Released(new) \cup {c \in exists : owner[c] = Nobody}

(* set_managers: chats of others are released, and a sole manager adopts   *)
(* all that are nobody's.                                                  *)
SetManagers(new) ==
  /\ Changes
  /\ managers' = new
  /\ LET heir == IF Cardinality(new) = 1 THEN CHOOSE u \in new : TRUE ELSE Nobody
     IN /\ owner' = [c \in Chat |-> IF c \in Adopted(new) THEN heir ELSE owner[c]]
        /\ declined' = IF heir = Nobody THEN declined ELSE {}
  /\ Races /\ stray' = {}
  /\ UNCHANGED <<staff, bot, exists, left>>

(* update_user: the role, the right to work or the accounts, and no chat   *)
(* is looked at.  Somebody who rules always remains.                       *)
EditUser(u, rules, works, appointed) ==
  /\ Changes
  /\ admin' = IF rules THEN admin \cup {u} ELSE admin \ {u}
  /\ active' = IF works THEN active \cup {u} ELSE active \ {u}
  /\ managers' = IF appointed THEN managers \cup {u} ELSE managers \ {u}
  /\ admin' \cap active' # {}
  /\ 1 = Cardinality({k \in 1..3 :
         <<admin', active', managers'>>[k] # <<admin, active, managers>>[k]})
  /\ Races
  /\ stray' = stray \cup {"card"} \X {c \in exists : owner[c] \in {u, Nobody}}
  /\ UNCHANGED <<accepting, bot, exists, owner, left, declined>>

\* The profile of an employee.
SetAccepting(u) ==
  /\ Changes
  /\ accepting' = IF u \in accepting THEN accepting \ {u} ELSE accepting \cup {u}
  /\ UNCHANGED <<admin, active, managers, bot, exists, owner, request, left, declined, stray>>

\* update_account: the stage of the funnel.
SetStage ==
  /\ Changes
  /\ bot' = ~bot
  /\ UNCHANGED <<staff, managers, exists, owner, request, left, declined, stray>>

Next ==
  \/ \E r \in Request :
       \/ \E c \in Chat : NewChatRead(r, c)
       \/ NewChat(r) \/ Answer(r) \/ Transfer(r)
       \/ \E u \in User, c \in Chat :
            AnswerRead(r, u, c) \/ \E to \in User : TransferRead(r, u, c, to)
  \/ \E new \in SUBSET User : SetManagers(new)
  \/ \E u \in User : \/ \E rules, works, appointed \in BOOLEAN : EditUser(u, rules, works, appointed)
                     \/ SetAccepting(u)
  \/ SetStage

Spec == Init /\ [][Next]_vars

-----------------------------------------------------------------------------
(* Properties.                                                             *)

\* A chat that has been settled by the account's own screen, or by requests
\* that nothing overtook.
Settled(c) == \A cause \in Cause : <<cause, c>> \notin stray
\* The responsible of c sees it, or it is nobody's.
InSight(c) == owner[c] \in managers \cup admin \cup {Nobody}
\* Live events of c go to exactly those who see it.
HeardBySeers(c) == Audience(c) \cap active = {u \in active : Sees(u, c)}

(* No chat hangs with somebody who does not see it ("повисают невидимыми   *)
(* никому", set_managers): the responsible is an administrator or one of   *)
(* the managers.  The exceptions: the chats of an employee whose card was  *)
(* changed, and a chat taken or given by a request during which managers   *)
(* or roles were changed - until the managers are set again, which brings  *)
(* all chats back.                                                         *)
NobodysChat == \A c \in exists : Settled(c) => InSight(c)

(* A sole manager has all chats, but for those that came while he took no  *)
(* new clients, and with the exceptions of NobodysChat.                    *)
SoleManagerHasAll ==
  \A u \in managers : managers = {u} =>
    \A c \in exists : Settled(c) /\ owner[c] = Nobody => c \in declined

(* Live events go to exactly those who see the chat (D-26), unless the     *)
(* account is a warm-up bot's, whose managers hear and do not see, and     *)
(* with the exceptions of NobodysChat.                                     *)
AudienceIsWhoSees == ~bot => \A c \in exists : Settled(c) => HeardBySeers(c)

(* A chat has somebody who answers for it, sees it and hears of it         *)
(* (set_managers, transfer, conversation_audience), with the exceptions    *)
(* named in the parts.                                                     *)
ChatsHold == TypeOK /\ NobodysChat /\ SoleManagerHasAll /\ AudienceIsWhoSees

(* Whoever answers first keeps the chat: an answer never takes a chat from *)
(* the one who has it, however the answers interleave.                     *)
FirstAnswerKeeps ==
  [][\A r \in Request :
       LET q == request[r] IN
       q.op = "answer" /\ request'[r] = Idle /\ owner[q.chat] # Nobody
         => owner'[q.chat] = owner[q.chat]]_vars

(* What the comment of set_managers says of a chat whose responsible is    *)
(* not among the managers, for every way they are changed: the card of an  *)
(* employee (update_user) takes accounts and roles from him and leaves him *)
(* his chats.                                                              *)
CardReleases == \A c \in exists : <<"late", c>> \notin stray => InSight(c)

(* As conversation_audience has it: live events go "ровно тем, кто вправе  *)
(* его видеть", exactly to those who may see the chat.  The managers of a  *)
(* warm-up bot may not (visible_account_ids) and are sent them.            *)
AudienceOfEveryChat == \A c \in exists : Settled(c) => HeardBySeers(c)

(* "Передать можно только тому, кто ведёт аккаунт" (transfer): whom a chat *)
(* is given to is one of the managers.  He is checked before the write,    *)
(* without a lock, and the list may have changed by then.                  *)
GivenToManagers ==
  [][\A r \in Request :
       LET q == request[r] IN
       q.op = "transfer" /\ request'[r] = Idle => owner'[q.chat] \in managers]_vars
=============================================================================

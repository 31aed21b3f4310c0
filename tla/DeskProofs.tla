---------------------------- MODULE DeskProofs ------------------------------
(***************************************************************************)
(* Theorems about the employees' desk, for any number of employees, chats, *)
(* requests, rows of a list and tabs: whose chat it is, the client's card, *)
(* the edits of a message, the pages of a list, the accounts money is sent *)
(* to, working hours, and what becomes of a message that is sent.  The     *)
(* parts share no state; each has an invariant of its own.                 *)
(***************************************************************************)
EXTENDS Chats, Cards, Edits, Hours, Paging, Requisites, Sending,
        FiniteSetTheorems, NaturalsInduction, WellFoundedInduction, TLAPS

-----------------------------------------------------------------------------
(* Whose chat it is.  A request that nothing has overtaken has read what   *)
(* is still so.                                                            *)
Asking == [op : {"none", "new", "answer", "transfer"}, by : User \cup {Nobody},
           chat : Chat \cup {Nobody}, to : User \cup {Nobody}, seen : User \cup {Nobody},
           late : BOOLEAN]

\* What a request has read stays true until it commits, as long as nobody is
\* appointed or dismissed meanwhile.
StillRight(r) ==
  LET q == request[r] IN
  /\ q.op = "new" => q.to \in managers \cup {Nobody}
  /\ q.op = "answer" => q.by \in managers \cup admin
  /\ q.op = "transfer" => q.to \in managers

\* A request is about a chat; what an employee does is about one that exists.
HasChat(r) ==
  LET q == request[r] IN
  /\ q.op # "none" => q.chat \in Chat
  /\ q.op \in {"answer", "transfer"} => q.chat \in exists
  /\ q.op = "answer" => q.by \in User
  /\ q.op = "transfer" => q.to \in User

ChatsInv ==
  /\ TypeOK
  /\ \A r \in Request : HasChat(r)
  /\ \A r \in Request : request[r].late \/ StillRight(r)
  /\ NobodysChat
  /\ SoleManagerHasAll

LEMMA ChatsInit == Init => ChatsInv
<1> SUFFICES ASSUME Init PROVE ChatsInv
  OBVIOUS
<1>1. Idle \in Asking /\ Idle.op = "none"
  BY DEF Idle, Asking, Nobody
<1>2. TypeOK
  <2>1. changes \in 0..MaxChanges /\ left \in 0..MaxRequests
    BY BoundsAssumption DEF Init
  <2> QED BY <1>1, <2>1, FounderAssumption DEF Init, TypeOK, Asking
<1>3. \A r \in Request : HasChat(r) /\ StillRight(r)
  BY <1>1 DEF Init, HasChat, StillRight
<1>4. NobodysChat /\ SoleManagerHasAll
  BY DEF Init, NobodysChat, SoleManagerHasAll
<1> QED BY <1>2, <1>3, <1>4 DEF ChatsInv

(* A request begins: it has been filled in with what is true now.          *)
LEMMA OpensKeeps ==
  ASSUME ChatsInv, NEW r \in Request, NEW op \in {"new", "answer", "transfer"},
         NEW by \in User \cup {Nobody}, NEW c \in Chat, NEW to \in User \cup {Nobody},
         Opens(r, op, by, c, to),
         op = "new" => to \in managers \cup {Nobody},
         op = "answer" => by \in (managers \cup admin) \cap User,
         op = "transfer" => to \in managers,
         op \in {"answer", "transfer"} => c \in exists
  PROVE  ChatsInv'
<1> DEFINE q == [op |-> op, by |-> by, chat |-> c, to |-> to, seen |-> owner[c], late |-> FALSE]
<1>1. q \in Asking
  BY DEF Asking, ChatsInv, TypeOK
<1>2. request' = [request EXCEPT ![r] = q] /\ left' = left - 1 /\ left > 0
  BY DEF Opens
<1>3. UNCHANGED <<admin, active, accepting, managers, bot, exists, owner, changes, declined, stray>>
  BY DEF Opens, staff
<1>4. request \in [Request -> Asking]
  BY DEF ChatsInv, TypeOK, Asking
<1>5. request' \in [Request -> Asking] /\ left' \in 0..MaxRequests
  BY <1>1, <1>2, <1>4, BoundsAssumption DEF ChatsInv, TypeOK
<1>6. TypeOK'
  BY <1>3, <1>5 DEF ChatsInv, TypeOK, Asking
<1>7. request'[r] = q /\ \A s \in Request \ {r} : request'[s] = request[s]
  BY <1>2, <1>4
<1>8. \A s \in Request : HasChat(s)'
  <2>1. HasChat(r)'
    BY <1>3, <1>7, <1>6 DEF HasChat, ChatsInv, TypeOK
  <2>2. \A s \in Request \ {r} : HasChat(s)'
    BY <1>3, <1>7 DEF HasChat, ChatsInv
  <2> QED BY <2>1, <2>2
<1>9. \A s \in Request : request'[s].late \/ StillRight(s)'
  <2>1. StillRight(r)'
    BY <1>3, <1>7 DEF StillRight
  <2>2. \A s \in Request \ {r} : request'[s].late \/ StillRight(s)'
    BY <1>3, <1>7 DEF StillRight, ChatsInv
  <2> QED BY <2>1, <2>2
<1>10. NobodysChat' /\ SoleManagerHasAll'
  BY <1>3 DEF ChatsInv, NobodysChat, SoleManagerHasAll, Settled, InSight
<1> QED BY <1>6, <1>8, <1>9, <1>10 DEF ChatsInv

(* A request commits, and leaves what the other requests have read.        *)
LEMMA CommitsLeavesOthers ==
  ASSUME ChatsInv, NEW r \in Request, NEW u, Commits(r, u), exists \subseteq exists'
  PROVE  /\ request' \in [Request -> Asking]
         /\ \A s \in Request : HasChat(s)' /\ (request'[s].late \/ StillRight(s)')
<1>1. request' = [request EXCEPT ![r] = Idle] /\ UNCHANGED <<admin, active, accepting, managers>>
  BY DEF Commits, staff
<1>2. request \in [Request -> Asking] /\ Idle \in Asking
  BY DEF ChatsInv, TypeOK, Asking, Idle, Nobody
<1>3. request'[r] = Idle /\ \A s \in Request \ {r} : request'[s] = request[s]
  BY <1>1, <1>2
<1>4. HasChat(r)' /\ StillRight(r)'
  BY <1>3 DEF HasChat, StillRight, Idle
<1>5. \A s \in Request \ {r} : HasChat(s)' /\ (request'[s].late \/ StillRight(s)')
  BY <1>1, <1>3 DEF HasChat, StillRight, ChatsInv
<1>6. request' \in [Request -> Asking]
  BY <1>1, <1>2
<1> QED BY <1>4, <1>5, <1>6

(* A request of an employee commits: the chat exists and its new owner is  *)
(* the one it has, or somebody who may have it, or the request was         *)
(* overtaken.                                                              *)
LEMMA CommitsKeeps ==
  ASSUME ChatsInv, NEW r \in Request, request[r].chat \in exists,
         NEW u \in User \cup {Nobody}, Commits(r, u), UNCHANGED <<exists, declined>>,
         \/ request[r].late
         \/ u = owner[request[r].chat]
         \/ u \in managers \cup admin \cup {Nobody},
         u = Nobody => owner[request[r].chat] = Nobody
  PROVE  ChatsInv'
<1> DEFINE c == request[r].chat
<1>1. /\ owner' = [owner EXCEPT ![c] = u]
      /\ UNCHANGED <<admin, active, accepting, managers, bot, changes, left>>
      /\ stray \subseteq stray' /\ stray' \subseteq stray \cup {<<"late", c>>}
      /\ request[r].late /\ u # owner[c] => <<"late", c>> \in stray'
  BY DEF Commits, staff
<1>2. c \in Chat
  BY DEF ChatsInv, TypeOK
<1>3. request' \in [Request -> Asking]
  BY CommitsLeavesOthers
<1>4. owner' \in [Chat -> User \cup {Nobody}] /\ \A d \in Chat \ exists : owner'[d] = Nobody
  BY <1>1, <1>2 DEF ChatsInv, TypeOK
<1>5. stray' \subseteq Cause \X exists
  BY <1>1 DEF ChatsInv, TypeOK, Cause
<1>6. TypeOK'
  BY <1>1, <1>3, <1>4, <1>5 DEF ChatsInv, TypeOK, Asking
<1>7. \A s \in Request : HasChat(s)' /\ (request'[s].late \/ StillRight(s)')
  BY CommitsLeavesOthers
<1>8. \A d \in exists : Settled(d)' => Settled(d)
  BY <1>1 DEF Settled
<1>9. owner'[c] = u /\ \A d \in exists \ {c} : owner'[d] = owner[d]
  BY <1>1, <1>2 DEF ChatsInv, TypeOK
<1>10. NobodysChat'
  <2> SUFFICES ASSUME NEW d \in exists, Settled(d)' PROVE InSight(d)'
    BY <1>1 DEF NobodysChat
  <2>1. CASE owner'[d] = owner[d]
    BY <1>1, <1>8, <2>1 DEF ChatsInv, NobodysChat, InSight
  <2>2. CASE owner'[d] # owner[d]
    <3>1. d = c /\ owner'[d] = u /\ u # owner[c]
      BY <1>9, <2>2
    <3>2. <<"late", d>> \notin stray'
      BY DEF Settled, Cause
    <3>3. u \in managers \cup admin \cup {Nobody}
      BY <1>1, <3>1, <3>2
    <3> QED BY <1>1, <3>1, <3>3 DEF InSight
  <2> QED BY <2>1, <2>2
<1>11. SoleManagerHasAll'
  <2> SUFFICES ASSUME NEW v \in managers, managers = {v}, NEW d \in exists,
                      Settled(d)', owner'[d] = Nobody
               PROVE  d \in declined
    BY <1>1 DEF SoleManagerHasAll
  <2>1. Settled(d) /\ owner[d] = Nobody
    BY <1>8, <1>9
  <2> QED BY <2>1 DEF ChatsInv, SoleManagerHasAll
<1> QED BY <1>6, <1>7, <1>10, <1>11 DEF ChatsInv

(* The first message of a client makes his chat.                           *)
LEMMA NewChatKeeps == ASSUME ChatsInv, NEW r \in Request, NewChat(r) PROVE ChatsInv'
<1> DEFINE c == request[r].chat
           u == request[r].to
<1>1. CASE c \in exists
  <2>1. Commits(r, owner[c]) /\ UNCHANGED <<exists, declined>>
    BY <1>1 DEF NewChat
  <2>2. owner[c] \in User \cup {Nobody}
    BY <1>1 DEF ChatsInv, TypeOK
  <2> QED BY <1>1, <2>1, <2>2, CommitsKeeps
<1>2. CASE c \notin exists
  <2>1. /\ Commits(r, u) /\ exists' = exists \cup {c}
        /\ declined' = IF u = Nobody /\ Cardinality(managers) = 1
                       THEN declined \cup {c} ELSE declined
    BY <1>2 DEF NewChat
  <2>2. /\ owner' = [owner EXCEPT ![c] = u]
        /\ UNCHANGED <<admin, active, accepting, managers, bot, changes, left>>
        /\ stray \subseteq stray' /\ stray' \subseteq stray \cup {<<"late", c>>}
        /\ request[r].late => <<"late", c>> \in stray'
    BY <1>2, <2>1 DEF Commits, staff
  <2>3. c \in Chat /\ u \in User \cup {Nobody}
    BY DEF ChatsInv, HasChat, NewChat, TypeOK
  <2>4. request' \in [Request -> Asking]
    BY <2>1, CommitsLeavesOthers
  <2>5. owner' \in [Chat -> User \cup {Nobody}] /\ \A d \in Chat \ exists' : owner'[d] = Nobody
    BY <2>1, <2>2, <2>3 DEF ChatsInv, TypeOK
  <2>6. stray' \subseteq Cause \X exists'
    BY <2>1, <2>2 DEF ChatsInv, TypeOK, Cause
  <2>7. TypeOK'
    BY <2>1, <2>2, <2>3, <2>4, <2>5, <2>6 DEF ChatsInv, TypeOK, Asking
  <2>8. \A s \in Request : HasChat(s)' /\ (request'[s].late \/ StillRight(s)')
    BY <2>1, CommitsLeavesOthers
  <2>9. owner'[c] = u /\ \A d \in exists : owner'[d] = owner[d] /\ (Settled(d)' => Settled(d))
    BY <1>2, <2>2, <2>3 DEF ChatsInv, TypeOK, Settled
  <2>10. NobodysChat'
    <3>1. \A d \in exists : Settled(d)' => InSight(d)'
      BY <2>2, <2>9 DEF ChatsInv, NobodysChat, InSight
    <3>2. ASSUME NEW d, d = c, Settled(d)' PROVE InSight(d)'
      <4>1. <<"late", d>> \notin stray'
        BY <3>2 DEF Settled, Cause
      <4>2. ~request[r].late
        BY <2>2, <3>2, <4>1
      <4>3. u \in managers \cup {Nobody}
        BY <4>2 DEF ChatsInv, StillRight, NewChat
      <4> QED BY <2>2, <2>9, <3>2, <4>3 DEF InSight
    <3> QED BY <2>1, <3>1, <3>2 DEF NobodysChat
  <2>11. SoleManagerHasAll'
    <3> SUFFICES ASSUME NEW v \in managers, managers = {v}, NEW d \in exists',
                        Settled(d)', owner'[d] = Nobody
                 PROVE  d \in declined'
      BY <2>2 DEF SoleManagerHasAll
    <3>1. Cardinality(managers) = 1
      BY FS_Singleton
    <3>2. CASE d = c
      BY <2>1, <2>9, <3>1, <3>2
    <3>3. CASE d # c
      BY <2>1, <2>9, <3>3 DEF ChatsInv, SoleManagerHasAll
    <3> QED BY <3>2, <3>3
  <2> QED BY <2>7, <2>8, <2>10, <2>11 DEF ChatsInv
<1> QED BY <1>1, <1>2

(* A change of managers or roles overtakes every request that is under     *)
(* way.                                                                    *)
LEMMA RacesKeep ==
  ASSUME ChatsInv, Races, UNCHANGED exists
  PROVE  /\ request' \in [Request -> Asking]
         /\ \A r \in Request : HasChat(r)' /\ (request'[r].late \/ StillRight(r)')
<1>1. request \in [Request -> Asking]
  BY DEF ChatsInv, TypeOK, Asking
<1>2. ASSUME NEW r \in Request
      PROVE  request'[r] \in Asking /\ HasChat(r)' /\ (request'[r].late \/ StillRight(r)')
  <2>1. request[r] \in Asking
    BY <1>1
  <2>2. CASE request[r].op = "none"
    <3>1. request'[r] = request[r]
      BY <2>2 DEF Races
    <3> QED BY <2>1, <2>2, <3>1 DEF HasChat, StillRight
  <2>3. CASE request[r].op # "none"
    <3>1. request'[r] = [request[r] EXCEPT !.late = TRUE]
      BY <2>3 DEF Races
    <3>2. request'[r] \in Asking /\ request'[r].late
      BY <2>1, <3>1 DEF Asking
    <3>3. HasChat(r)'
      BY <2>1, <3>1 DEF HasChat, ChatsInv, Asking
    <3> QED BY <3>2, <3>3
  <2> QED BY <2>2, <2>3
<1>3. request' \in [Request -> Asking]
  <2>1. DOMAIN request' = Request /\ request' = [r \in Request |-> request'[r]]
    BY DEF Races
  <2> QED BY <1>2, <2>1
<1> QED BY <1>2, <1>3

(* The administrator appoints others.                                      *)
LEMMA SetManagersKeeps ==
  ASSUME ChatsInv, NEW new \in SUBSET User, SetManagers(new) PROVE ChatsInv'
<1> DEFINE heir == IF Cardinality(new) = 1 THEN CHOOSE u \in new : TRUE ELSE Nobody
<1>1. /\ managers' = new /\ Races /\ stray' = {}
      /\ owner' = [c \in Chat |-> IF c \in Adopted(new) THEN heir ELSE owner[c]]
      /\ declined' = IF heir = Nobody THEN declined ELSE {}
      /\ changes > 0 /\ changes' = changes - 1
      /\ UNCHANGED <<admin, active, accepting, bot, exists, left>>
  BY DEF SetManagers, Changes, staff
<1>2. heir \in new \/ heir = Nobody
  BY FS_EmptySet
<1>3. Adopted(new) \subseteq exists
  BY DEF Adopted, Released
<1>4. request' \in [Request -> Asking]
      /\ \A r \in Request : HasChat(r)' /\ (request'[r].late \/ StillRight(r)')
  BY <1>1, RacesKeep
<1>5. TypeOK'
  <2>1. owner' \in [Chat -> User \cup {Nobody}] /\ \A c \in Chat \ exists : owner'[c] = Nobody
    BY <1>1, <1>2, <1>3 DEF ChatsInv, TypeOK
  <2>2. changes' \in 0..MaxChanges
    BY <1>1, BoundsAssumption DEF ChatsInv, TypeOK
  <2> QED BY <1>1, <1>4, <2>1, <2>2 DEF ChatsInv, TypeOK, Asking
<1>6. NobodysChat'
  BY <1>1, <1>2 DEF NobodysChat, InSight, Adopted, Released, ChatsInv, TypeOK
<1>7. SoleManagerHasAll'
  <2> SUFFICES ASSUME NEW u \in new, new = {u}, NEW c \in exists PROVE owner'[c] # Nobody
    BY <1>1 DEF SoleManagerHasAll
  <2>1. heir = u /\ u # Nobody
    BY FS_Singleton, NobodyAssumption DEF Nobody
  <2>2. c \in Chat
    BY DEF ChatsInv, TypeOK
  <2> QED BY <1>1, <2>1, <2>2 DEF Adopted, Released
<1> QED BY <1>4, <1>5, <1>6, <1>7 DEF ChatsInv

(* What an administrator changes on a card: the chats of its employee, and *)
(* those that are nobody's, are from now on outside of what the managers'  *)
(* list keeps in order.                                                    *)
LEMMA EditUserKeeps ==
  ASSUME ChatsInv, NEW u \in User, NEW rules \in BOOLEAN, NEW works \in BOOLEAN,
         NEW appointed \in BOOLEAN, EditUser(u, rules, works, appointed)
  PROVE  ChatsInv'
<1>1. /\ admin' \subseteq User /\ active' \subseteq User /\ managers' \subseteq User
      /\ admin \ {u} \subseteq admin' /\ managers \ {u} \subseteq managers'
      /\ changes > 0 /\ changes' = changes - 1 /\ Races
      /\ stray' = stray \cup ({"card"} \X {c \in exists : owner[c] \in {u, Nobody}})
      /\ UNCHANGED <<accepting, bot, exists, owner, left, declined>>
  BY DEF EditUser, Changes, ChatsInv, TypeOK
<1>2. request' \in [Request -> Asking]
      /\ \A r \in Request : HasChat(r)' /\ (request'[r].late \/ StillRight(r)')
  BY <1>1, RacesKeep
<1>3. changes' \in 0..MaxChanges
  BY <1>1, BoundsAssumption DEF ChatsInv, TypeOK
<1>4. stray' \subseteq Cause \X exists
  BY <1>1 DEF ChatsInv, TypeOK, Cause
<1>5. TypeOK'
  BY <1>1, <1>2, <1>3, <1>4 DEF ChatsInv, TypeOK, Asking
<1>6. \A c \in exists : Settled(c)' => Settled(c) /\ owner[c] \notin {u, Nobody}
  BY <1>1 DEF Settled, Cause
<1>7. NobodysChat'
  BY <1>1, <1>6 DEF ChatsInv, NobodysChat, InSight
<1>8. SoleManagerHasAll'
  BY <1>1, <1>6 DEF SoleManagerHasAll
<1> QED BY <1>2, <1>5, <1>7, <1>8 DEF ChatsInv

LEMMA OtherChangesKeep ==
  ASSUME ChatsInv, SetStage \/ \E u \in User : SetAccepting(u) PROVE ChatsInv'
<1>1. /\ accepting' \subseteq User /\ bot' \in BOOLEAN
      /\ changes > 0 /\ changes' = changes - 1
      /\ UNCHANGED <<admin, active, managers, exists, owner, request, left, declined, stray>>
  BY DEF SetStage, SetAccepting, Changes, staff, ChatsInv, TypeOK
<1>2. changes' \in 0..MaxChanges
  BY <1>1, BoundsAssumption DEF ChatsInv, TypeOK
<1>3. TypeOK'
  BY <1>1, <1>2 DEF ChatsInv, TypeOK
<1>4. \A r \in Request : HasChat(r)' /\ (request'[r].late \/ StillRight(r)')
  BY <1>1 DEF HasChat, StillRight, ChatsInv
<1>5. NobodysChat' /\ SoleManagerHasAll'
  BY <1>1 DEF ChatsInv, NobodysChat, SoleManagerHasAll, Settled, InSight
<1> QED BY <1>3, <1>4, <1>5 DEF ChatsInv

LEMMA ChatsStep == ChatsInv /\ [Next]_vars => ChatsInv'
<1> SUFFICES ASSUME ChatsInv, [Next]_vars PROVE ChatsInv'
  OBVIOUS
<1>1. ASSUME NEW r \in Request, NEW c \in Chat, NewChatRead(r, c) PROVE ChatsInv'
  <2>1. SoleManager \in managers \cup {Nobody} /\ SoleManager \in User \cup {Nobody}
    BY DEF SoleManager, ChatsInv, TypeOK
  <2> QED BY <1>1, <2>1, OpensKeeps DEF NewChatRead
<1>2. ASSUME NEW r \in Request, NewChat(r) PROVE ChatsInv'
  BY <1>2, NewChatKeeps
<1>3. ASSUME NEW r \in Request, NEW u \in User, NEW c \in Chat, AnswerRead(r, u, c) PROVE ChatsInv'
  <2>1. u \in (managers \cup admin) \cap User /\ c \in exists /\ owner[c] \in User \cup {Nobody}
    BY <1>3 DEF AnswerRead, Sees, Has, ChatsInv, TypeOK
  <2> QED BY <1>3, <2>1, OpensKeeps DEF AnswerRead
<1>4. ASSUME NEW r \in Request, Answer(r) PROVE ChatsInv'
  <2> DEFINE c == request[r].chat
             u == IF OwnerNow(r) = Nobody THEN Assigned(r, request[r].by) ELSE owner[c]
  <2>1. c \in exists /\ c \in Chat /\ request[r].by \in User /\ owner[c] \in User \cup {Nobody}
    BY <1>4 DEF Answer, ChatsInv, HasChat, TypeOK
  <2>2. u = owner[c] \/ u = request[r].by
    BY DEF Assigned
  <2>3. u \in User \cup {Nobody} /\ (u = Nobody => owner[c] = Nobody)
    BY <2>1, <2>2, NobodyAssumption DEF Nobody
  <2>4. request[r].late \/ u = owner[c] \/ u \in managers \cup admin \cup {Nobody}
    BY <1>4, <2>2 DEF Answer, ChatsInv, StillRight
  <2> QED BY <1>4, <2>1, <2>3, <2>4, CommitsKeeps DEF Answer
<1>5. ASSUME NEW r \in Request, NEW u \in User, NEW c \in Chat, NEW to \in User,
             TransferRead(r, u, c, to)
      PROVE  ChatsInv'
  <2>1. to \in managers /\ c \in exists
    BY <1>5 DEF TransferRead, Appointed, Sees
  <2> QED BY <1>5, <2>1, OpensKeeps DEF TransferRead
<1>6. ASSUME NEW r \in Request, Transfer(r) PROVE ChatsInv'
  <2> DEFINE c == request[r].chat
             u == Assigned(r, request[r].to)
  <2>1. c \in exists /\ c \in Chat /\ request[r].to \in User /\ owner[c] \in User \cup {Nobody}
    BY <1>6 DEF Transfer, ChatsInv, HasChat, TypeOK
  <2>2. u = owner[c] \/ u = request[r].to
    BY DEF Assigned
  <2>3. u \in User \cup {Nobody} /\ (u = Nobody => owner[c] = Nobody)
    BY <2>1, <2>2, NobodyAssumption DEF Nobody
  <2>4. request[r].late \/ u = owner[c] \/ u \in managers \cup admin \cup {Nobody}
    BY <1>6, <2>2 DEF Transfer, ChatsInv, StillRight
  <2> QED BY <1>6, <2>1, <2>3, <2>4, CommitsKeeps DEF Transfer
<1>7. ASSUME NEW new \in SUBSET User, SetManagers(new) PROVE ChatsInv'
  BY <1>7, SetManagersKeeps
<1>8. ASSUME NEW u \in User, NEW rules \in BOOLEAN, NEW works \in BOOLEAN, NEW appointed \in BOOLEAN,
             EditUser(u, rules, works, appointed)
      PROVE  ChatsInv'
  BY <1>8, EditUserKeeps
<1>9. CASE SetStage \/ \E u \in User : SetAccepting(u)
  BY <1>9, OtherChangesKeep
<1>10. CASE UNCHANGED vars
  BY <1>10 DEF vars, ChatsInv, TypeOK, HasChat, StillRight, NobodysChat, SoleManagerHasAll,
               Settled, InSight
<1> QED BY <1>1, <1>2, <1>3, <1>4, <1>5, <1>6, <1>7, <1>8, <1>9, <1>10 DEF Next

LEMMA ChatsCorrect == Spec => []ChatsInv
BY ChatsInit, ChatsStep, PTL DEF Spec

(* A chat that was settled on the account's own screen, or by requests     *)
(* that no change of managers or roles overtook, has somebody who answers  *)
(* for it and sees it, its live events go to exactly those who see it (of  *)
(* an account that is not a warm-up bot), and a sole manager has every     *)
(* such chat that came while he took new clients (set_managers, transfer,  *)
(* conversation_audience).  Chats that an overtaken request or a change of *)
(* an employee's card has settled are left out, until the managers are set *)
(* again.                                                                  *)
THEOREM ChatsAreSomebodys == Spec => []ChatsHold
<1>1. ASSUME ChatsInv PROVE AudienceIsWhoSees
  <2> SUFFICES ASSUME ~bot, NEW c \in exists, Settled(c) PROVE HeardBySeers(c)
    BY DEF AudienceIsWhoSees
  <2>1. owner[c] \in managers \cup admin \cup {Nobody}
    BY <1>1 DEF ChatsInv, NobodysChat, InSight
  <2>2. CASE owner[c] = Nobody
    BY <2>1, <2>2 DEF HeardBySeers, Audience, Sees, Has
  <2>3. CASE owner[c] # Nobody
    BY <2>1, <2>3 DEF HeardBySeers, Audience, Sees, Has
  <2> QED BY <2>2, <2>3
<1>2. ChatsInv => ChatsHold
  BY <1>1 DEF ChatsInv, ChatsHold
<1> QED BY <1>2, ChatsCorrect, PTL

(* An answer never takes a chat from the one who has it (mark_replied),    *)
(* whatever other requests commit between its reading and its writing.     *)
THEOREM FirstAnswer == Spec => FirstAnswerKeeps
<1>1. ASSUME ChatsInv, [Next]_vars, NEW r \in Request, request[r].op = "answer",
             request'[r] = Idle, owner[request[r].chat] # Nobody
      PROVE  owner'[request[r].chat] = owner[request[r].chat]
  <2>1. request[r] # Idle
    BY <1>1 DEF Idle
  <2>2. request \in [Request -> Asking]
    BY <1>1 DEF ChatsInv, TypeOK, Asking
  <2>3. Answer(r)
    <3>1. ASSUME NEW s \in Request, NEW op, NEW by, NEW c, NEW to, Opens(s, op, by, c, to) PROVE FALSE
      BY <1>1, <2>1, <2>2, <3>1 DEF Opens
    <3>2. ASSUME NEW s \in Request, NEW u, Commits(s, u), s # r PROVE FALSE
      BY <1>1, <2>1, <2>2, <3>2 DEF Commits
    <3>3. ASSUME NEW s \in Request, NewChat(s) \/ Transfer(s) PROVE FALSE
      BY <1>1, <3>2, <3>3 DEF NewChat, Transfer
    <3>4. ASSUME NEW s \in Request, Answer(s) PROVE s = r
      BY <3>2, <3>4 DEF Answer
    <3>5. CASE UNCHANGED request
      BY <1>1, <2>1, <3>5
    <3>6. CASE Races
      <4>1. request'[r] = [request[r] EXCEPT !.late = TRUE] /\ request[r] \in Asking
        BY <1>1, <2>2, <3>6 DEF Races
      <4>2. request'[r].op = "answer"
        BY <1>1, <4>1 DEF Asking
      <4> QED BY <1>1, <4>2 DEF Idle
    <3> QED BY <1>1, <3>1, <3>3, <3>4, <3>5, <3>6
            DEF Next, NewChatRead, AnswerRead, TransferRead, SetManagers, EditUser,
                SetAccepting, SetStage, vars
  <2>4. request[r].chat \in Chat /\ owner \in [Chat -> User \cup {Nobody}]
    BY <1>1 DEF ChatsInv, HasChat, TypeOK
  <2> QED BY <1>1, <2>3, <2>4 DEF Answer, Commits, OwnerNow
<1>2. ChatsInv /\ [Next]_vars =>
        [\A r \in Request :
           LET q == request[r] IN
           q.op = "answer" /\ request'[r] = Idle /\ owner[q.chat] # Nobody
             => owner'[q.chat] = owner[q.chat]]_vars
  BY <1>1
<1> QED BY <1>2, ChatsCorrect, PTL DEF Spec, FirstAnswerKeeps

-----------------------------------------------------------------------------
(* The client's card.  A flush writes single columns, so the date and the  *)
(* sign of a card can only come apart when two requests wrote the date and *)
(* one had not seen the other's.  What a request has read is a card that   *)
(* was whole when it was read.                                             *)
Column == {"birth_date", "zodiac_sign", "birth_time", "birth_time_approx", "phone"}
Entered == {"birth_date", "phone"}
SignFits(c) == c.zodiac_sign = Zodiac(c.birth_date)

CardsRows ==
  /\ card \in Card
  /\ edit \in [Editor -> [on : BOOLEAN, seen : Card, patch : Patch]]
  /\ birthday \in [ph : {"asked", "read", "over"}, seen : Card]
  /\ inbound \in [on : BOOLEAN, seen : Card]
  /\ edits \in 0..MaxEdits
  /\ DOMAIN hand = Entered

SeenWhole ==
  \/ "birth_date" \in raced
  \/ SignFits(card) /\ SignFits(birthday.seen) /\ \A e \in Editor : SignFits(edit[e].seen)

CardsInv == CardsRows /\ SeenWhole /\ HandStaysInTurn

(* A card has its five columns, and the sign of a date is a sign.          *)
LEMMA CardColumns == ASSUME NEW c \in Card PROVE DOMAIN c = Column
  BY DEF Card, Column

LEMMA Zodiacs == \A d \in Date \cup {Empty} : Zodiac(d) \in Signs \cup {Empty}
  BY DEF Zodiac, Signs

(* What the writers make of a card is a card, and a whole one of a whole   *)
(* one.                                                                    *)
LEMMA WithDateIsWhole ==
  ASSUME NEW c \in Card, NEW d \in Date \cup {Empty}
  PROVE  WithDate(c, d) \in Card /\ SignFits(WithDate(c, d))
  BY Zodiacs DEF WithDate, Card, SignFits

(* What the write of one field makes of a card (`update`, with its         *)
(* `_apply_zodiac`) is a card, and a whole one of a whole one.             *)
LEMMA PatchedIsWhole ==
  ASSUME NEW c \in Card, NEW p \in Patch
  PROVE  Patched(c, p) \in Card /\ (SignFits(c) => SignFits(Patched(c, p)))
<1>1. CASE p.field = "birth_date"
  BY <1>1, WithDateIsWhole DEF Patched, Patch
<1>2. CASE p.field = "birth_time"
  BY <1>2 DEF Patched, Patch, Card, SignFits
<1>3. CASE p.field = "birth_time_approx"
  BY <1>3 DEF Patched, Patch, Card, SignFits
<1>4. CASE p.field = "phone"
  BY <1>4 DEF Patched, Patch, Card, SignFits, Phone
<1> QED BY <1>1, <1>2, <1>3, <1>4 DEF Patch

(* Only the column that was entered differs from what was read.            *)
LEMMA PatchedElsewhere ==
  ASSUME NEW c \in Card, NEW p \in Patch, NEW f \in Entered, f # p.field
  PROVE  Patched(c, p)[f] = c[f]
<1>1. CASE p.field = "birth_date"
  BY <1>1 DEF Patched, Patch, Card, WithDate, Entered
<1>2. CASE p.field = "birth_time"
  BY <1>2 DEF Patched, Patch, Card, Entered
<1>3. CASE p.field = "birth_time_approx"
  BY <1>3 DEF Patched, Patch, Card, Entered
<1>4. CASE p.field = "phone"
  BY <1>4 DEF Patched, Patch, Card, Entered
<1> QED BY <1>1, <1>2, <1>3, <1>4 DEF Patch

(* A flush writes the columns a request has changed and leaves the others. *)
LEMMA FlushedColumns ==
  ASSUME CardsRows, NEW seen \in Card, NEW new \in Card
  PROVE  /\ Flushed(seen, new) \in Card
         /\ \A f \in Column : Flushed(seen, new)[f] = IF new[f] # seen[f] THEN new[f] ELSE card[f]
<1>1. DOMAIN card = Column
  BY CardColumns DEF CardsRows
<1> QED BY <1>1 DEF Flushed, CardsRows, Card, Column

(* A flush keeps the card whole, or the date has been written from two     *)
(* sides.                                                                  *)
LEMMA FlushedIsWhole ==
  ASSUME CardsRows, NEW seen \in Card, NEW new \in Card, SignFits(seen) => SignFits(new),
         "birth_date" \in raced \/ (SignFits(card) /\ SignFits(seen))
  PROVE  SignFits(Flushed(seen, new)) \/ "birth_date" \in raced \cup Raced(seen, new)
<1> DEFINE c == Flushed(seen, new)
<1>1. /\ c.birth_date = IF new.birth_date # seen.birth_date THEN new.birth_date ELSE card.birth_date
      /\ c.zodiac_sign = IF new.zodiac_sign # seen.zodiac_sign THEN new.zodiac_sign ELSE card.zodiac_sign
  BY FlushedColumns DEF Column
<1>2. card.birth_date # seen.birth_date /\ new.birth_date # seen.birth_date
        => "birth_date" \in Raced(seen, new)
  BY DEF Raced, CardsRows, Entered
<1> HIDE DEF c
<1> QED BY <1>1, <1>2 DEF SignFits, c

LEMMA CardsStart == CardsInit => CardsInv
<1> SUFFICES ASSUME CardsInit PROVE CardsInv
  OBVIOUS
<1>1. Blank \in Card /\ SignFits(Blank) /\ None.seen = Blank
  BY DEF Blank, Card, SignFits, Zodiac, None
<1>2. None \in [on : BOOLEAN, seen : Card, patch : Patch]
  BY <1>1 DEF None, Patch
<1> QED BY <1>1, <1>2, CardsAssumption
        DEF CardsInit, CardsInv, CardsRows, SeenWhole, HandStaysInTurn, Entered

LEMMA EditReadsKeeps ==
  ASSUME CardsInv, NEW e \in Editor, NEW p \in Patch, EditReads(e, p) PROVE CardsInv'
<1>1. CardsRows'
  BY CardsAssumption DEF CardsInv, CardsRows, EditReads, Busy
<1>2. SeenWhole'
  BY DEF CardsInv, CardsRows, EditReads, Busy, SeenWhole, SignFits, Zodiac
<1> QED BY <1>1, <1>2 DEF CardsInv, EditReads, HandStaysInTurn

LEMMA EditWritesKeeps == ASSUME CardsInv, NEW e \in Editor, EditWrites(e) PROVE CardsInv'
<1> DEFINE p == edit[e].patch  seen == edit[e].seen  new == Patched(seen, p)
<1>1. p \in Patch /\ seen \in Card /\ new \in Card /\ (SignFits(seen) => SignFits(new))
  BY PatchedIsWhole DEF CardsInv, CardsRows
<1>2. /\ card' = Flushed(seen, new) /\ raced' = raced \cup Raced(seen, new)
      /\ hand' = IF p.field \in DOMAIN hand THEN [hand EXCEPT ![p.field] = card'[p.field]] ELSE hand
      /\ edit' = [edit EXCEPT ![e] = None] /\ UNCHANGED <<birthday, inbound, edits>>
  BY DEF EditWrites
<1>3. \A f \in Entered : f # p.field => new[f] = seen[f]
  BY <1>1, PatchedElsewhere
<1> HIDE DEF p, seen, new
<1>4. /\ card' \in Card
      /\ \A f \in Column : card'[f] = IF new[f] # seen[f] THEN new[f] ELSE card[f]
  BY <1>1, <1>2, FlushedColumns DEF CardsInv
<1>5. CardsRows'
  <2>1. None \in [on : BOOLEAN, seen : Card, patch : Patch]
    BY DEF None, Patch, Blank, Card
  <2> QED BY <1>2, <1>4, <2>1 DEF CardsInv, CardsRows
<1>6. SeenWhole'
  <2>1. SignFits(None.seen)
    BY DEF None, Blank, SignFits, Zodiac
  <2>2. "birth_date" \in raced \/ (SignFits(card) /\ SignFits(seen))
    BY DEF CardsInv, SeenWhole, seen
  <2>3. SignFits(card') \/ "birth_date" \in raced'
    BY <1>1, <1>2, <2>2, FlushedIsWhole DEF CardsInv
  <2>4. \A g \in Editor : edit'[g].seen = edit[g].seen \/ edit'[g].seen = None.seen
    BY <1>2 DEF CardsInv, CardsRows
  <2> QED BY <1>2, <2>1, <2>3, <2>4 DEF CardsInv, SeenWhole, SignFits, Zodiac
<1>7. HandStaysInTurn'
  <2> SUFFICES ASSUME NEW f \in Entered, hand'[f] # Empty
               PROVE  card'[f] = hand'[f] \/ f \in raced'
    BY <1>5 DEF HandStaysInTurn, CardsRows
  <2>1. CASE f = p.field
    BY <1>2, <2>1 DEF CardsInv, CardsRows
  <2>2. CASE f # p.field
    <3>1. card'[f] = card[f] /\ hand'[f] = hand[f]
      BY <1>2, <1>3, <1>4, <2>2 DEF CardsInv, CardsRows, Entered, Column
    <3> QED BY <1>2, <3>1 DEF CardsInv, CardsRows, HandStaysInTurn
  <2> QED BY <2>1, <2>2
<1> QED BY <1>5, <1>6, <1>7 DEF CardsInv

(* A writer that is no employee fills a column only if it read it empty.   *)
LEMMA FillingKeepsHand ==
  ASSUME CardsInv, NEW seen \in Card, NEW new \in Card, UNCHANGED hand,
         card' = Flushed(seen, new), raced' = raced \cup Raced(seen, new),
         \A f \in Entered : new[f] = seen[f] \/ seen[f] = Empty
  PROVE  HandStaysInTurn'
<1> SUFFICES ASSUME NEW f \in Entered, hand[f] # Empty
             PROVE  card'[f] = hand[f] \/ f \in raced'
  BY DEF HandStaysInTurn, CardsInv, CardsRows
<1>1. card'[f] = IF new[f] # seen[f] THEN new[f] ELSE card[f]
  BY FlushedColumns DEF CardsInv, Column, Entered
<1>2. new[f] # seen[f] /\ card[f] # seen[f] => f \in raced'
  BY DEF Raced, CardsInv, CardsRows
<1>3. card[f] = hand[f] \/ f \in raced
  BY DEF CardsInv, CardsRows, HandStaysInTurn
<1> QED BY <1>1, <1>2, <1>3

LEMMA BirthdayReadsKeeps == ASSUME CardsInv, BirthdayReads PROVE CardsInv'
<1>1. CardsRows'
  BY DEF CardsInv, CardsRows, BirthdayReads
<1>2. SeenWhole'
  BY DEF CardsInv, BirthdayReads, SeenWhole, SignFits, Zodiac
<1> QED BY <1>1, <1>2 DEF CardsInv, BirthdayReads, HandStaysInTurn

LEMMA BirthdayWritesKeeps == ASSUME CardsInv, BirthdayWrites PROVE CardsInv'
<1>1. Blank \in Card /\ SignFits(Blank)
  BY DEF Blank, Card, SignFits, Zodiac
<1>2. birthday' = [ph |-> "over", seen |-> Blank] /\ UNCHANGED <<edit, inbound, edits, hand>>
  BY DEF BirthdayWrites
<1>3. CASE UNCHANGED <<card, raced>>
  BY <1>1, <1>2, <1>3 DEF CardsInv, CardsRows, SeenWhole, HandStaysInTurn, SignFits, Zodiac
<1>4. ASSUME NEW d \in Date, LacksDate(birthday.seen),
             card' = Flushed(birthday.seen, WithDate(birthday.seen, d)),
             raced' = raced \cup Raced(birthday.seen, WithDate(birthday.seen, d))
      PROVE  CardsInv'
  <2> DEFINE seen == birthday.seen  new == WithDate(seen, d)
  <2>1. seen \in Card /\ new \in Card /\ SignFits(new)
    BY WithDateIsWhole DEF CardsInv, CardsRows
  <2>2. \A f \in Entered : new[f] = seen[f] \/ seen[f] = Empty
    BY <1>4, <2>1 DEF WithDate, LacksDate, Card, Entered
  <2>3. "birth_date" \in raced \/ (SignFits(card) /\ SignFits(seen))
    BY DEF CardsInv, SeenWhole
  <2> HIDE DEF seen, new
  <2>4. card' = Flushed(seen, new) /\ raced' = raced \cup Raced(seen, new)
    BY <1>4 DEF seen, new
  <2>5. card' \in Card /\ (SignFits(card') \/ "birth_date" \in raced')
    BY <2>1, <2>3, <2>4, FlushedColumns, FlushedIsWhole DEF CardsInv
  <2>6. CardsRows'
    BY <1>1, <1>2, <2>5 DEF CardsInv, CardsRows
  <2>7. SeenWhole'
    BY <1>1, <1>2, <2>4, <2>5 DEF CardsInv, SeenWhole, SignFits, Zodiac
  <2>8. HandStaysInTurn'
    BY <1>2, <2>1, <2>2, <2>4, FillingKeepsHand
  <2> QED BY <2>6, <2>7, <2>8 DEF CardsInv
<1> QED BY <1>3, <1>4 DEF BirthdayWrites

LEMMA InboundReadsKeeps == ASSUME CardsInv, InboundReads PROVE CardsInv'
  BY DEF CardsInv, CardsRows, InboundReads, SeenWhole, HandStaysInTurn, SignFits, Zodiac

LEMMA InboundWritesKeeps == ASSUME CardsInv, InboundWrites PROVE CardsInv'
<1>1. Blank \in Card
  BY DEF Blank, Card
<1>2. inbound' = [on |-> FALSE, seen |-> Blank] /\ UNCHANGED <<edit, birthday, edits, hand>>
  BY DEF InboundWrites
<1>3. CASE UNCHANGED <<card, raced>>
  BY <1>1, <1>2, <1>3 DEF CardsInv, CardsRows, SeenWhole, HandStaysInTurn, SignFits, Zodiac
<1>4. CASE /\ card' = Flushed(inbound.seen, Synced(inbound.seen))
           /\ raced' = raced \cup Raced(inbound.seen, Synced(inbound.seen))
  <2> DEFINE seen == inbound.seen  new == Synced(seen)
  <2>1. seen \in Card /\ new \in Card
    BY DEF CardsInv, CardsRows, Synced, Card, Phone
  <2>2. /\ \A f \in Entered : new[f] = seen[f] \/ seen[f] = Empty
        /\ new.birth_date = seen.birth_date /\ new.zodiac_sign = seen.zodiac_sign
    BY <2>1 DEF Synced, Card, Entered
  <2> HIDE DEF seen, new
  <2>3. card' = Flushed(seen, new) /\ raced' = raced \cup Raced(seen, new)
    BY <1>4 DEF seen, new
  <2>4. /\ card' \in Card
        /\ card'.birth_date = card.birth_date /\ card'.zodiac_sign = card.zodiac_sign
    BY <2>1, <2>2, <2>3, FlushedColumns DEF CardsInv, Column
  <2>5. CardsRows'
    BY <1>1, <1>2, <2>4 DEF CardsInv, CardsRows
  <2>6. SeenWhole'
    BY <1>2, <2>3, <2>4 DEF CardsInv, SeenWhole, SignFits, Zodiac
  <2>7. HandStaysInTurn'
    BY <1>2, <2>1, <2>2, <2>3, FillingKeepsHand
  <2> QED BY <2>5, <2>6, <2>7 DEF CardsInv
<1> QED BY <1>3, <1>4 DEF InboundWrites

LEMMA CardsStep == CardsInv /\ [CardsNext]_cardVars => CardsInv'
<1>1. ASSUME CardsInv, UNCHANGED cardVars PROVE CardsInv'
  BY <1>1 DEF cardVars, CardsInv, CardsRows, SeenWhole, HandStaysInTurn, SignFits, Zodiac
<1> QED BY <1>1, EditReadsKeeps, EditWritesKeeps, BirthdayReadsKeeps,
BirthdayWritesKeeps,
           InboundReadsKeeps, InboundWritesKeeps DEF CardsNext

(* However edits, the profile from Telegram and the answer to the question *)
(* for the birthday interleave, for any number of employees and dates: the *)
(* sign is that of the date, and what an employee entered stays, unless    *)
(* somebody wrote the very column from an older reading.                   *)
THEOREM CardsStayWhole == CardsSpec => []CardsHold
<1>1. CardsInit => CardsInv
  BY CardsStart
<1>2. CardsInv => CardsHold
  BY DEF CardsInv, CardsRows, CardsHold, CardsTypeOK, SignFitsDateInTurn, SeenWhole,
         SignFits
<1> QED BY <1>1, <1>2, CardsStep, PTL DEF CardsSpec

-----------------------------------------------------------------------------
(* Edits of a message.  The mark of the last write of the row is never     *)
(* used again, so a tab that read an older mark is told of a conflict      *)
(* sooner or later; of the others, the last in Telegram is the last in the *)
(* row, or its report is on its way.                                       *)
Mark == [by : {"nobody", "telegram", "tab"}, no : Nat]
UnderWay(t) == tab[t].ph # "idle"

EditRows ==
  /\ row \in [text : Text, edited_at : Mark]
  /\ telegram \in [text : Text, no : Nat]
  /\ tab \in [Tab -> [ph : {"idle", "asked", "confirmed"}, text : Text, seen : Mark, no : Nat]]
  /\ command \subseteq [no : Nat, text : Text]
  /\ report \subseteq [no : Nat, text : Text]
  /\ rewrites \in Nat

(* A command is one request's, and a report names one edit.                *)
OneEach ==
  /\ \A t, u \in Tab : UnderWay(t) /\ UnderWay(u) /\ tab[t].no = tab[u].no => t = u
  /\ \A c, d \in command : c.no = d.no => c = d
  /\ \A e, f \in report : e.no = f.no => e = f
  /\ \A c \in command, t \in Tab : tab[t].ph = "asked" /\ tab[t].no = c.no => tab[t].text = c.text
  /\ \A e \in report : e.no = telegram.no => e.text = telegram.text

(* Marks grow.                                                             *)
Used(mark) ==
  /\ mark.by = "tab" => mark.no <= rewrites
  /\ mark.by = "telegram" => mark.no <= telegram.no
NumbersGrow ==
  /\ \A t \in Tab : UnderWay(t) => tab[t].no <= rewrites /\ Used(tab[t].seen)
  /\ \A c \in command : c.no <= rewrites
  /\ \A e \in report : e.no <= telegram.no
  /\ Used(row.edited_at)

(* The mark that a request, or a report, will write is not yet known.      *)
Unknown(mark) == row.edited_at # mark /\ \A u \in Tab : UnderWay(u) => tab[u].seen # mark
MarksAreNew ==
  /\ \A t \in Tab : UnderWay(t) => Unknown([by |-> "tab", no |-> tab[t].no])
  /\ \A e \in report : Unknown([by |-> "telegram", no |-> e.no])

Reported == \E e \in report : e.no = telegram.no
Late(t) == UnderWay(t) /\ tab[t].seen # row.edited_at

(* Why the texts may differ: somebody was told, or will be; or the last    *)
(* edit is still to be written.                                            *)
DifferenceExplained ==
  \/ astray # {} \/ row.text = telegram.text \/ Reported
  \/ \E t \in Tab : Late(t) \/ (tab[t].ph = "confirmed" /\ tab[t].text = telegram.text)
ConfirmedIsLast ==
  \A t \in Tab : tab[t].ph = "confirmed" /\ ~Late(t) =>
    \/ astray # {} \/ tab[t].text = telegram.text \/ Reported
    \/ \E u \in Tab \ {t} : UnderWay(u)
CommandIsAwaited == \A c \in command : astray # {} \/ Waiting(c) # {}

EditsInv ==
  /\ EditRows /\ OneEach /\ NumbersGrow /\ MarksAreNew
  /\ DifferenceExplained /\ ConfirmedIsLast /\ CommandIsAwaited

(* A reason stays until everything has settled and the texts are the same. *)
LEMMA ReasonStays ==
  ASSUME NEW why, Reasons(why)
  PROVE  \/ astray \cup why \subseteq astray'
         \/ Calm' /\ row'.text = telegram'.text
  BY DEF Reasons

LEMMA AskEditKeeps == ASSUME EditsInv, NEW t \in Tab, NEW x \in Text, AskEdit(t, x) PROVE EditsInv'
<1> USE EditsAssumption DEF EditsInv
<1>1. EditRows'
  BY DEF EditRows, AskEdit, Mark
<1>2. OneEach'
  BY <1>1 DEF EditRows, OneEach, NumbersGrow, UnderWay, AskEdit, Mark
<1>3. NumbersGrow'
  BY <1>1 DEF EditRows, NumbersGrow, OneEach, UnderWay, Used, AskEdit, Mark
<1>4. MarksAreNew'
  BY <1>1 DEF EditRows, MarksAreNew, NumbersGrow, OneEach, Unknown, Used, UnderWay,
         AskEdit, Mark
<1>5. PICK why : Reasons(why)
  BY DEF AskEdit
<1>6. DifferenceExplained'
  BY <1>1, <1>5, ReasonStays DEF EditRows, OneEach, NumbersGrow, MarksAreNew, Unknown,
         DifferenceExplained, ConfirmedIsLast, CommandIsAwaited, Waiting, Late,
         Reported, UnderWay, Calm, AskEdit
<1>7. ConfirmedIsLast'
  BY <1>1, <1>5, ReasonStays DEF EditRows, OneEach, NumbersGrow, MarksAreNew, Unknown,
         ConfirmedIsLast, CommandIsAwaited, Waiting, Late, Reported, UnderWay, Calm,
         AskEdit
<1>8. CommandIsAwaited'
  BY <1>1, <1>5, ReasonStays DEF EditRows, OneEach, NumbersGrow, CommandIsAwaited,
         Waiting, UnderWay, Calm, AskEdit
<1> QED BY <1>1, <1>2, <1>3, <1>4, <1>6, <1>7, <1>8

LEMMA CarryOutKeeps == ASSUME EditsInv, NEW c \in command, CarryOut(c) PROVE EditsInv'
<1> USE EditsAssumption DEF EditsInv
<1>1. EditRows'
  BY DEF EditRows, CarryOut, Shown, Waiting, AtRest, Mark
<1>2. OneEach'
  BY <1>1 DEF EditRows, OneEach, NumbersGrow, UnderWay, CarryOut, Shown, Waiting,
         AtRest, Mark
<1>3. NumbersGrow'
  BY <1>1 DEF EditRows, NumbersGrow, OneEach, UnderWay, Used, CarryOut, Shown, Waiting,
         AtRest, Mark
<1>4. MarksAreNew'
  BY <1>1 DEF EditRows, MarksAreNew, NumbersGrow, OneEach, Unknown, Used, UnderWay,
         CarryOut, Shown, Waiting, AtRest, Mark
<1>5. PICK why : Reasons(why)
  BY DEF CarryOut, Shown, Waiting, AtRest
<1>6. DifferenceExplained'
  BY <1>1, <1>5, ReasonStays DEF EditRows, OneEach, NumbersGrow, MarksAreNew, Unknown,
         DifferenceExplained, ConfirmedIsLast, CommandIsAwaited, Waiting, Late,
         Reported, UnderWay, Calm, CarryOut, Shown, AtRest
<1>7. ConfirmedIsLast'
  BY <1>1, <1>5, ReasonStays DEF EditRows, OneEach, NumbersGrow, MarksAreNew, Unknown,
         ConfirmedIsLast, CommandIsAwaited, Waiting, Late, Reported, UnderWay, Calm,
         CarryOut, Shown, AtRest
<1>8. CommandIsAwaited'
  <2> SUFFICES ASSUME NEW d \in command \ {c}
               PROVE  astray' # {} \/ \E u \in Tab : tab'[u].ph = "asked" /\ tab'[u].no = d.no
    BY DEF CarryOut, CommandIsAwaited, Waiting
  <2>1. ~Calm'
    BY DEF CarryOut, Calm
  <2>2. CASE astray # {}
    BY <1>5, <2>1, <2>2, ReasonStays
  <2>3. ASSUME NEW u \in Tab, tab[u].ph = "asked", tab[u].no = d.no
        PROVE  tab'[u] = tab[u]
    <3>1. d.no # c.no
      BY DEF OneEach
    <3> QED BY <2>3, <3>1 DEF CarryOut, Waiting
  <2> QED BY <2>2, <2>3 DEF CommandIsAwaited, Waiting
<1> QED BY <1>1, <1>2, <1>3, <1>4, <1>6, <1>7, <1>8

LEMMA RefuseEditKeeps == ASSUME EditsInv, NEW c \in command, RefuseEdit(c) PROVE EditsInv'
<1> USE EditsAssumption DEF EditsInv
<1>1. EditRows'
  BY DEF EditRows, RefuseEdit, Waiting, AtRest, Unedited, Mark
<1>2. OneEach'
  BY <1>1 DEF EditRows, OneEach, NumbersGrow, UnderWay, RefuseEdit, Waiting, AtRest,
         Unedited, Mark
<1>3. NumbersGrow'
  BY <1>1 DEF EditRows, NumbersGrow, OneEach, UnderWay, Used, RefuseEdit, Waiting,
         AtRest, Unedited, Mark
<1>4. MarksAreNew'
  BY <1>1 DEF EditRows, MarksAreNew, NumbersGrow, OneEach, Unknown, Used, UnderWay,
         RefuseEdit, Waiting, AtRest, Unedited, Mark
<1>5. PICK why : Reasons(why)
  BY DEF RefuseEdit, Waiting, AtRest, Unedited
<1>6. DifferenceExplained'
  BY <1>1, <1>5, ReasonStays DEF EditRows, OneEach, NumbersGrow, MarksAreNew, Unknown,
         DifferenceExplained, ConfirmedIsLast, CommandIsAwaited, Waiting, Late,
         Reported, UnderWay, Calm, RefuseEdit, AtRest, Unedited
<1>7. ConfirmedIsLast'
  BY <1>1, <1>5, ReasonStays DEF EditRows, OneEach, NumbersGrow, MarksAreNew, Unknown,
         ConfirmedIsLast, CommandIsAwaited, Waiting, Late, Reported, UnderWay, Calm,
         RefuseEdit, AtRest, Unedited
<1>8. CommandIsAwaited'
  BY <1>1, <1>5, ReasonStays DEF EditRows, OneEach, NumbersGrow, CommandIsAwaited,
         Waiting, UnderWay, Calm, RefuseEdit, AtRest, Unedited
<1> QED BY <1>1, <1>2, <1>3, <1>4, <1>6, <1>7, <1>8

LEMMA EditTimesOutKeeps == ASSUME EditsInv, NEW t \in Tab, EditTimesOut(t) PROVE EditsInv'
<1> USE EditsAssumption DEF EditsInv
<1>1. EditRows'
  BY DEF EditRows, EditTimesOut, AtRest, Unedited, Mark
<1>2. OneEach'
  BY <1>1
     DEF EditRows, OneEach, NumbersGrow, UnderWay, EditTimesOut, AtRest, Unedited, Mark
<1>3. NumbersGrow'
  BY <1>1 DEF EditRows, NumbersGrow, OneEach, UnderWay, Used, EditTimesOut, AtRest,
         Unedited, Mark
<1>4. MarksAreNew'
  BY <1>1 DEF EditRows, MarksAreNew, NumbersGrow, OneEach, Unknown, Used, UnderWay,
         EditTimesOut, AtRest, Unedited, Mark
<1>5. PICK why : Reasons(why)
  BY DEF EditTimesOut, AtRest, Unedited
<1>6. DifferenceExplained'
  BY <1>1, <1>5, ReasonStays DEF EditRows, OneEach, NumbersGrow, MarksAreNew, Unknown,
         DifferenceExplained, ConfirmedIsLast, CommandIsAwaited, Waiting, Late,
         Reported, UnderWay, Calm, EditTimesOut, AtRest, Unedited
<1>7. ConfirmedIsLast'
  BY <1>1, <1>5, ReasonStays DEF EditRows, OneEach, NumbersGrow, MarksAreNew, Unknown,
         ConfirmedIsLast, CommandIsAwaited, Waiting, Late, Reported, UnderWay, Calm,
         EditTimesOut, AtRest, Unedited
<1>8. CommandIsAwaited'
  BY <1>1, <1>5, ReasonStays DEF EditRows, OneEach, NumbersGrow, CommandIsAwaited,
         Waiting, UnderWay, Calm, EditTimesOut, AtRest, Unedited
<1> QED BY <1>1, <1>2, <1>3, <1>4, <1>6, <1>7, <1>8

LEMMA CommandLostKeeps == ASSUME EditsInv, NEW c \in command, CommandLost(c) PROVE EditsInv'
<1> USE EditsAssumption DEF EditsInv
<1>1. EditRows'
  BY DEF EditRows, CommandLost, Mark
<1>2. OneEach'
  BY <1>1 DEF EditRows, OneEach, NumbersGrow, UnderWay, CommandLost, Mark
<1>3. NumbersGrow'
  BY <1>1 DEF EditRows, NumbersGrow, OneEach, UnderWay, Used, CommandLost, Mark
<1>4. MarksAreNew'
  BY <1>1 DEF EditRows, MarksAreNew, NumbersGrow, OneEach, Unknown, Used, UnderWay,
         CommandLost, Mark
<1>5. PICK why : Reasons(why)
  BY DEF CommandLost
<1>6. DifferenceExplained'
  BY <1>1, <1>5, ReasonStays DEF EditRows, OneEach, NumbersGrow, MarksAreNew, Unknown,
         DifferenceExplained, ConfirmedIsLast, CommandIsAwaited, Waiting, Late,
         Reported, UnderWay, Calm, CommandLost
<1>7. ConfirmedIsLast'
  BY <1>1, <1>5, ReasonStays DEF EditRows, OneEach, NumbersGrow, MarksAreNew, Unknown,
         ConfirmedIsLast, CommandIsAwaited, Waiting, Late, Reported, UnderWay, Calm,
         CommandLost
<1>8. CommandIsAwaited'
  BY <1>1, <1>5, ReasonStays DEF EditRows, OneEach, NumbersGrow, CommandIsAwaited,
         Waiting, UnderWay, Calm, CommandLost
<1> QED BY <1>1, <1>2, <1>3, <1>4, <1>6, <1>7, <1>8

(* A tab that lost the race is told; the mark of one that won is new, and  *)
(* makes every other one late.                                             *)
LEMMA WriteEditKeeps == ASSUME EditsInv, NEW t \in Tab, WriteEdit(t) PROVE EditsInv'
<1> USE EditsAssumption DEF EditsInv
<1>0. tab[t].ph = "confirmed" /\ tab' = [tab EXCEPT ![t] = AtRest]
      /\ UNCHANGED <<telegram, command, report, rewrites, phoned>>
  BY DEF WriteEdit
<1>1. tab'[t] = AtRest /\ \A u \in Tab \ {t} : tab'[u] = tab[u]
  BY <1>0 DEF EditRows
<1>2. AtRest.ph = "idle" /\ AtRest \in [ph : {"idle", "asked", "confirmed"}, text : Text, seen : Mark, no : Nat]
  BY DEF AtRest, Unedited, Mark
<1>3. \A u \in Tab : UnderWay(u)' => u # t /\ UnderWay(u) /\ tab'[u] = tab[u]
  BY <1>1, <1>2 DEF UnderWay
<1>4. OneEach'
  <2>1. \A u, v \in Tab : UnderWay(u)' /\ UnderWay(v)' /\ tab'[u].no = tab'[v].no => u = v
    BY <1>3 DEF OneEach
  <2>2. \A c \in command, u \in Tab : tab'[u].ph = "asked" /\ tab'[u].no = c.no => tab'[u].text = c.text
    BY <1>3, <1>1, <1>2 DEF OneEach
  <2> QED BY <1>0, <2>1, <2>2 DEF OneEach
<1>5. ASSUME NEW c \in command PROVE Waiting(c)' = Waiting(c)
  BY <1>0, <1>1, <1>2 DEF Waiting
<1>6. CASE Unchanged(t)
  <2> DEFINE mark == [by |-> "tab", no |-> tab[t].no]
  <2>1. row' = [text |-> tab[t].text, edited_at |-> mark] /\ Reasons({})
    BY <1>6 DEF WriteEdit
  <2>2. mark \in Mark /\ Used(mark) /\ Unknown(mark)
    BY <1>0 DEF Mark, EditRows, NumbersGrow, MarksAreNew, Used, UnderWay
  <2>3. \A u \in Tab \ {t} : UnderWay(u) => [by |-> "tab", no |-> tab[u].no] # mark
    BY <1>0 DEF OneEach, UnderWay
  <2>4. \A e \in report : [by |-> "telegram", no |-> e.no] # mark
    OBVIOUS
  <2> HIDE DEF mark
  <2>5. row'.text = tab[t].text /\ row'.edited_at = mark
    BY <2>1
  <2>6. EditRows'
    BY <1>0, <1>2, <2>1, <2>2 DEF EditRows
  <2>7. NumbersGrow'
    BY <1>0, <1>3, <2>2, <2>5 DEF NumbersGrow, Used
  <2>8. MarksAreNew'
    BY <1>0, <1>3, <2>3, <2>4, <2>5 DEF MarksAreNew, Unknown
  <2>9. \A u \in Tab : UnderWay(u)' => Late(u)'
    BY <1>3, <2>2, <2>5 DEF Late, Unknown, UnderWay
  <2>10. astray \subseteq astray' \/ row'.text = telegram'.text
    BY <2>1, ReasonStays
  <2>11. DifferenceExplained'
    <3>1. \/ astray # {} \/ tab[t].text = telegram.text \/ Reported
          \/ \E u \in Tab \ {t} : UnderWay(u)
      BY <1>0, <1>6 DEF ConfirmedIsLast, Late, Unchanged
    <3>2. ASSUME NEW u \in Tab \ {t}, UnderWay(u) PROVE Late(u)'
      BY <1>1, <2>9, <3>2 DEF UnderWay
    <3> QED BY <1>0, <2>5, <2>10, <3>1, <3>2 DEF DifferenceExplained, Reported
  <2>12. ConfirmedIsLast'
    BY <2>9 DEF ConfirmedIsLast, UnderWay
  <2>13. CommandIsAwaited'
    <3>1. command # {} => ~Calm'
      BY <1>0 DEF Calm
    <3>2. command # {} => astray \subseteq astray'
      BY <2>1, <3>1, ReasonStays
    <3> QED BY <1>0, <1>5, <3>2 DEF CommandIsAwaited
  <2> QED BY <1>4, <2>6, <2>7, <2>8, <2>11, <2>12, <2>13
<1>7. CASE ~Unchanged(t)
  <2>1. UNCHANGED row /\ Reasons({"told"})
    BY <1>7 DEF WriteEdit
  <2>2. EditRows'
    BY <1>0, <1>2, <2>1 DEF EditRows
  <2>3. NumbersGrow' /\ MarksAreNew'
    BY <1>0, <1>3, <2>1 DEF NumbersGrow, Used, MarksAreNew, Unknown
  <2>4. astray' # {} \/ (Calm' /\ row'.text = telegram'.text)
    BY <2>1, ReasonStays
  <2>5. DifferenceExplained' /\ ConfirmedIsLast' /\ CommandIsAwaited'
    BY <2>4 DEF DifferenceExplained, ConfirmedIsLast, CommandIsAwaited, Calm
  <2> QED BY <1>4, <2>2, <2>3, <2>5
<1> QED BY <1>6, <1>7

LEMMA PhoneEditKeeps == ASSUME EditsInv, NEW x \in Text, PhoneEdit(x) PROVE EditsInv'
<1> USE EditsAssumption DEF EditsInv
<1>1. EditRows'
  BY DEF EditRows, PhoneEdit, Mark
<1>2. OneEach'
  BY <1>1 DEF EditRows, OneEach, NumbersGrow, UnderWay, PhoneEdit, Mark
<1>3. NumbersGrow'
  BY <1>1 DEF EditRows, NumbersGrow, OneEach, UnderWay, Used, PhoneEdit, Mark
<1>4. MarksAreNew'
  BY <1>1 DEF EditRows, MarksAreNew, NumbersGrow, OneEach, Unknown, Used, UnderWay,
         PhoneEdit, Mark
<1>5. PICK why : Reasons(why)
  BY DEF PhoneEdit
<1>6. DifferenceExplained'
  BY <1>1, <1>5, ReasonStays DEF EditRows, OneEach, NumbersGrow, MarksAreNew, Unknown,
         DifferenceExplained, ConfirmedIsLast, CommandIsAwaited, Waiting, Late,
         Reported, UnderWay, Calm, PhoneEdit
<1>7. ConfirmedIsLast'
  BY <1>1, <1>5, ReasonStays DEF EditRows, OneEach, NumbersGrow, MarksAreNew, Unknown,
         ConfirmedIsLast, CommandIsAwaited, Waiting, Late, Reported, UnderWay, Calm,
         PhoneEdit
<1>8. CommandIsAwaited'
  BY <1>1, <1>5, ReasonStays DEF EditRows, OneEach, NumbersGrow, CommandIsAwaited,
         Waiting, UnderWay, Calm, PhoneEdit
<1> QED BY <1>1, <1>2, <1>3, <1>4, <1>6, <1>7, <1>8

LEMMA ApplyEditKeeps == ASSUME EditsInv, NEW e \in report, ApplyEdit(e) PROVE EditsInv'
<1> USE EditsAssumption DEF EditsInv
<1>1. EditRows'
  BY DEF EditRows, ApplyEdit, Edited, Mark
<1>2. OneEach'
  BY <1>1 DEF EditRows, OneEach, NumbersGrow, UnderWay, ApplyEdit, Edited, Mark
<1>3. NumbersGrow'
  BY <1>1 DEF EditRows, NumbersGrow, OneEach, UnderWay, Used, ApplyEdit, Edited, Mark
<1>4. MarksAreNew'
  BY <1>1 DEF EditRows, MarksAreNew, NumbersGrow, OneEach, Unknown, Used, UnderWay,
         ApplyEdit, Edited, Mark
<1>5. /\ report' = report \ {e} /\ row' = Edited(e)
      /\ UNCHANGED <<telegram, tab, command, rewrites, phoned>>
      /\ (e.no < telegram.no \/ e.text = row.text)
           => (astray' # {} \/ (Calm' /\ row'.text = telegram'.text))
      /\ astray # {} => (astray' # {} \/ (Calm' /\ row'.text = telegram'.text))
  BY ReasonStays DEF ApplyEdit
<1>6. row'.text = e.text
  BY <1>5 DEF Edited, EditRows
<1>7. e.no = telegram.no => row'.text = telegram'.text
  BY <1>5, <1>6 DEF OneEach
<1>8. e.no \in Nat /\ telegram.no \in Nat /\ e.no <= telegram.no
  BY DEF EditRows, NumbersGrow
<1>9. DifferenceExplained'
  BY <1>5, <1>7, <1>8 DEF DifferenceExplained
<1>10. ConfirmedIsLast'
  <2> SUFFICES ASSUME NEW t \in Tab, tab[t].ph = "confirmed", astray' = {}, ~Late(t)'
               PROVE  FALSE
    BY <1>5 DEF ConfirmedIsLast
  <2>1. e.text # row.text
    BY <1>5 DEF Calm
  <2>2. row'.edited_at = [by |-> "telegram", no |-> e.no]
    BY <1>5, <2>1 DEF Edited
  <2> QED BY <1>5, <2>2 DEF MarksAreNew, Unknown, UnderWay, Late
<1>11. CommandIsAwaited'
  BY <1>5 DEF CommandIsAwaited, Waiting, Calm
<1> QED BY <1>1, <1>2, <1>3, <1>4, <1>9, <1>10, <1>11

LEMMA ForgetReportsKeeps == ASSUME EditsInv, ForgetReports PROVE EditsInv'
<1> USE EditsAssumption DEF EditsInv
<1>1. EditRows'
  BY DEF EditRows, ForgetReports, Mark
<1>2. OneEach'
  BY <1>1 DEF EditRows, OneEach, NumbersGrow, UnderWay, ForgetReports, Mark
<1>3. NumbersGrow'
  BY <1>1 DEF EditRows, NumbersGrow, OneEach, UnderWay, Used, ForgetReports, Mark
<1>4. MarksAreNew'
  BY <1>1 DEF EditRows, MarksAreNew, NumbersGrow, OneEach, Unknown, Used, UnderWay,
         ForgetReports, Mark
<1>5. PICK why : Reasons(why)
  BY DEF ForgetReports
<1>6. DifferenceExplained'
  BY <1>1, <1>5, ReasonStays DEF EditRows, OneEach, NumbersGrow, MarksAreNew, Unknown,
         DifferenceExplained, ConfirmedIsLast, CommandIsAwaited, Waiting, Late,
         Reported, UnderWay, Calm, ForgetReports
<1>7. ConfirmedIsLast'
  BY <1>1, <1>5, ReasonStays DEF EditRows, OneEach, NumbersGrow, MarksAreNew, Unknown,
         ConfirmedIsLast, CommandIsAwaited, Waiting, Late, Reported, UnderWay, Calm,
         ForgetReports
<1>8. CommandIsAwaited'
  BY <1>1, <1>5, ReasonStays DEF EditRows, OneEach, NumbersGrow, CommandIsAwaited,
         Waiting, UnderWay, Calm, ForgetReports
<1> QED BY <1>1, <1>2, <1>3, <1>4, <1>6, <1>7, <1>8

LEMMA EditsStart == EditsInit => EditsInv
  BY EditsAssumption
  DEF EditsInit, EditsInv, EditRows, OneEach, NumbersGrow, MarksAreNew,
      DifferenceExplained,
      ConfirmedIsLast, CommandIsAwaited, AtRest, Unedited, Mark, Used, Unknown, UnderWay

LEMMA EditsStep == EditsInv /\ [EditsNext]_editVars => EditsInv'
<1>1. ASSUME EditsInv, UNCHANGED editVars PROVE EditsInv'
  BY <1>1 DEF editVars, EditsInv, EditRows, OneEach, NumbersGrow, MarksAreNew,
     DifferenceExplained, ConfirmedIsLast, CommandIsAwaited, Used, Unknown, UnderWay, Waiting,
     Late, Reported
<1> QED BY <1>1, AskEditKeeps, CarryOutKeeps, RefuseEditKeeps, EditTimesOutKeeps,
CommandLostKeeps,
           WriteEditKeeps, PhoneEditKeeps, ApplyEditKeeps, ForgetReportsKeeps DEF EditsNext

(* However edits in any number of tabs, edits on a phone and their reports *)
(* interleave: the texts come apart only with somebody told, or with a     *)
(* report that came late, named what the row had or was lost.              *)
THEOREM NobodyIsDeceived == EditsSpec => []NotApartSilently
<1>1. EditsInit => EditsInv
  BY EditsStart
<1>2. EditsInv => NotApartSilently
  BY DEF EditsInv, DifferenceExplained, NotApartSilently, Calm, Late, Reported, UnderWay
<1> QED BY <1>1, <1>2, EditsStep, PTL DEF EditsSpec

-----------------------------------------------------------------------------
(* The pages of a list.  Of the rows nobody touches, those the cursor      *)
(* stands before are still to be given, and the others have been given     *)
(* once.                                                                   *)
LEMMA Least ==
    ASSUME NEW S \in SUBSET Nat, S # {}
    PROVE  \E x \in S : \A y \in S : x <= y
<1>1. \E x \in S : \A y \in S : ~ (<<y, x>> \in OpToRel(<, Nat))
  BY NatLessThanWellFounded, WFMin
<1>2. \A x, y \in Nat : <<y, x>> \in OpToRel(<, Nat) <=> y < x
  BY DEF OpToRel
<1>3. PICK x \in S : \A y \in S : ~ (<<y, x>> \in OpToRel(<, Nat))
  BY <1>1
<1>4. \A y \in S : ~ (y < x)
  BY <1>2, <1>3
<1>5. \A y \in S : x <= y
  BY <1>4
<1> QED BY <1>5

\* In a finite set with a strict order somebody has nobody after him.
LEMMA SomebodyIsLast ==
    ASSUME NEW S, IsFiniteSet(S), S # {}, NEW G,
           \A a \in S : <<a, a>> \notin G,
           \A a, b, c \in S : <<a, b>> \in G /\ <<b, c>> \in G => <<a, c>> \in G
    PROVE  \E r \in S : \A q \in S : <<r, q>> \notin G
<1> DEFINE Behind(r) == {q \in S : <<r, q>> \in G}
           Counts == {Cardinality(Behind(r)) : r \in S}
<1>1. \A r \in S : IsFiniteSet(Behind(r)) /\ Cardinality(Behind(r)) \in Nat
  BY FS_Subset, FS_CardinalityType
<1>2. Counts \in SUBSET Nat /\ Counts # {}
  <2>1. \A r \in S : Cardinality(Behind(r)) \in Nat
    BY <1>1
  <2> HIDE DEF Behind
  <2> QED BY <2>1
<1>3. PICK n \in Counts : \A m \in Counts : n <= m
  <2> HIDE DEF Counts
  <2> QED BY <1>2, Least
<1>4. PICK r \in S : n = Cardinality(Behind(r))
  BY <1>3
<1>5. ASSUME NEW q \in S, <<r, q>> \in G PROVE FALSE
  <2>1. Behind(q) \subseteq Behind(r) /\ q \in Behind(r) /\ q \notin Behind(q)
    BY <1>5
  <2>2. Cardinality(Behind(q)) < Cardinality(Behind(r))
    <3> HIDE DEF Behind
    <3>1. Behind(q) \in SUBSET Behind(r) /\ Behind(q) # Behind(r)
      BY <2>1
    <3> QED BY <1>1, <3>1, FS_Subset
  <2>3. Cardinality(Behind(q)) \in Counts
    OBVIOUS
  <2>4. n <= Cardinality(Behind(q)) /\ n = Cardinality(Behind(r))
    BY <1>3, <1>4, <2>3
  <2>5. Cardinality(Behind(q)) \in Nat /\ Cardinality(Behind(r)) \in Nat
    BY <1>1
  <2> HIDE DEF Behind, Counts
  <2> QED BY <2>2, <2>4, <2>5
<1> QED BY <1>5

-----------------------------------------------------------------------------
\* Row i with stamp s comes before row j with stamp t.
Goes(s, i, t, j) == CASE list = "waiting" -> WaitingFirst(s, i, t, j)
                      [] list = "by_id"   -> i > j
                      [] list \in {"recent", "clients"} -> RecentFirst(s, i, t, j)

\* The cursor stands before r.
Ahead(r) == Goes(cursor.stamp, cursor.id, stamp[r], r)

Keyset == list \in (List \ {"deals"}) \cup {"none"}

PagingInv ==
    /\ PagingTypeOK
    /\ Keyset
    /\ list = "none" => cursor = FromStart /\ settled = {}
    /\ cursor = FromStart => \A r \in Row : given[r] = 0
    /\ cursor = TheEnd => \A r \in settled : given[r] = 1
    /\ cursor.id # NoRowId =>
         \A r \in settled : given[r] = IF Ahead(r) THEN 0 ELSE 1

-----------------------------------------------------------------------------
(* The keys the lists are sorted by (`order_by` of each list) order the    *)
(* rows strictly and all of them.                                          *)
LEMMA GoesIsAnOrder ==
    ASSUME list \in {"waiting", "by_id", "recent", "clients"}
    PROVE  /\ \A s, i \in Nat : ~Goes(s, i, s, i)
           /\ \A s, i, t, j \in Nat : Goes(s, i, t, j) => ~Goes(t, j, s, i)
           /\ \A s, i, t, j \in Nat : Goes(s, i, t, j) \/ Goes(t, j, s, i) \/ i = j
           /\ \A s, i, t, j, u, k \in Nat :
                Goes(s, i, t, j) /\ Goes(t, j, u, k) => Goes(s, i, u, k)
<1>1. CASE list = "waiting"
  BY <1>1 DEF Goes, WaitingFirst
<1>2. CASE list = "by_id"
  BY <1>2 DEF Goes
<1>3. CASE list \in {"recent", "clients"}
  <2>1. ASSUME NEW s, NEW i, NEW t, NEW j
        PROVE  Goes(s, i, t, j) = RecentFirst(s, i, t, j)
    BY <1>3 DEF Goes
  <2>2. /\ \A s, i \in Nat : ~RecentFirst(s, i, s, i)
        /\ \A s, i, t, j \in Nat : RecentFirst(s, i, t, j) => ~RecentFirst(t, j, s, i)
        /\ \A s, i, t, j \in Nat :
             RecentFirst(s, i, t, j) \/ RecentFirst(t, j, s, i) \/ i = j
        /\ \A s, i, t, j, u, k \in Nat :
             RecentFirst(s, i, t, j) /\ RecentFirst(t, j, u, k)
               => RecentFirst(s, i, u, k)
    BY DEF RecentFirst
  <2> QED BY <2>1, <2>2
<1> QED BY <1>1, <1>2, <1>3

(* The condition a page is selected by asks which rows come after the      *)
(* cursor in that very order.                                              *)
LEMMA WhatIsAhead ==
    ASSUME PagingAssumption, PagingTypeOK, list \in List \ {"deals"}
    PROVE  /\ list \in {"waiting", "by_id", "recent", "clients"}
           /\ stamp \in [Row -> Nat]
           /\ cursor.id # NoRowId => cursor.id \in Row /\ cursor.stamp \in Nat
           /\ \A r, q \in Row : Precedes(r, q) = Goes(stamp[r], r, stamp[q], q)
           /\ cursor.id # NoRowId => \A r \in Row : After(r) <=> Ahead(r)
           /\ cursor = FromStart => \A r \in Row : After(r)
<1>1. list \in {"waiting", "by_id", "recent", "clients"}
  BY DEF PagingAssumption
<1>2. stamp \in [Row -> Nat]
  BY DEF PagingAssumption, PagingTypeOK, Missing
<1>3. cursor.id # NoRowId => cursor.id \in Row /\ cursor.stamp \in Nat
  BY DEF PagingAssumption, PagingTypeOK, Missing, FromStart, TheEnd
<1>4. \A r, q \in Row : Precedes(r, q) = Goes(stamp[r], r, stamp[q], q)
  BY <1>1 DEF Precedes, Goes
<1>5. ASSUME cursor.id # NoRowId, NEW r \in Row PROVE After(r) <=> Ahead(r)
  <2>1. cursor # FromStart
    BY <1>5 DEF FromStart
  <2>2. stamp[r] \in Nat /\ r \in Nat /\ cursor.id \in Nat /\ cursor.stamp \in Nat
    BY <1>2, <1>3, <1>5 DEF PagingAssumption
  <2>3. CASE list = "waiting"
    BY <1>5, <2>1, <2>2, <2>3 DEF After, AfterWaiting, Ahead, Goes, WaitingFirst
  <2>4. CASE list = "by_id"
    BY <1>5, <2>1, <2>2, <2>4 DEF After, AfterId, Ahead, Goes
  <2>5. CASE list = "recent"
    BY <1>5, <2>1, <2>2, <2>5
       DEF After, AfterRecent, Ahead, Goes, RecentFirst, Missing
  <2>6. CASE list = "clients"
    BY <1>5, <2>1, <2>2, <2>6 DEF After, AfterClient, Ahead, Goes, RecentFirst
  <2> QED BY <1>1, <2>3, <2>4, <2>5, <2>6
<1> QED BY <1>1, <1>2, <1>3, <1>4, <1>5 DEF After

\* How many of the rest come before r.
Rank(r) == Cardinality({q \in Rest : Precedes(q, r)})

(* So the rows of a list are ordered, and what is ahead of the cursor is   *)
(* closed under what comes later.                                          *)
LEMMA OrderOfRows ==
    ASSUME PagingAssumption, PagingTypeOK, list \in List \ {"deals"}
    PROVE  /\ \A r \in Row : ~Precedes(r, r)
           /\ \A r, q \in Row : Precedes(r, q) => ~Precedes(q, r)
           /\ \A r, q \in Row : Precedes(r, q) \/ Precedes(q, r) \/ r = q
           /\ \A r, q, p \in Row : Precedes(r, q) /\ Precedes(q, p) => Precedes(r, p)
           /\ \A r, q \in Row : cursor.id # NoRowId /\ Ahead(r) /\ Precedes(r, q) => Ahead(q)
<1> DEFINE P(r, q) == Goes(stamp[r], r, stamp[q], q)
<1>1. /\ list \in {"waiting", "by_id", "recent", "clients"}
      /\ \A r \in Row : stamp[r] \in Nat /\ r \in Nat
      /\ cursor.id # NoRowId => cursor.id \in Nat /\ cursor.stamp \in Nat
      /\ \A r, q \in Row : Precedes(r, q) = P(r, q)
  BY WhatIsAhead DEF PagingAssumption
<1>2. \A r \in Row : ~P(r, r)
  BY <1>1, GoesIsAnOrder
<1>3. \A r, q \in Row : P(r, q) => ~P(q, r)
  BY <1>1, GoesIsAnOrder
<1>4. \A r, q \in Row : P(r, q) \/ P(q, r) \/ r = q
  BY <1>1, GoesIsAnOrder
<1>5. \A r, q, p \in Row : P(r, q) /\ P(q, p) => P(r, p)
  BY <1>1, GoesIsAnOrder
<1>6. \A r, q \in Row : cursor.id # NoRowId /\ Ahead(r) /\ P(r, q) => Ahead(q)
  BY <1>1, GoesIsAnOrder DEF Ahead
<1> HIDE DEF P
<1> QED BY <1>1, <1>2, <1>3, <1>4, <1>5, <1>6

(* What is left of a list can be counted.                                  *)
LEMMA RestIsFinite ==
    ASSUME PagingAssumption, PagingTypeOK
    PROVE  /\ Rest \subseteq Row /\ IsFiniteSet(Rest) /\ Cardinality(Rest) \in Nat
           /\ \A r \in Row : Rank(r) \in Nat
<1>1. Rest \subseteq Row /\ IsFiniteSet(Row)
  BY DEF PagingAssumption, PagingTypeOK, Rest
<1>2. IsFiniteSet(Rest) /\ Cardinality(Rest) \in Nat
  BY <1>1, FS_Subset, FS_CardinalityType
<1>3. ASSUME NEW r \in Row PROVE Rank(r) \in Nat
  <2>1. {q \in Rest : Precedes(q, r)} \in SUBSET Rest
    OBVIOUS
  <2> QED BY <1>2, <2>1, FS_Subset, FS_CardinalityType DEF Rank
<1> QED BY <1>1, <1>2, <1>3

(* A rest that fits on one page is that page.                              *)
LEMMA ShortRestFits ==
    ASSUME PagingAssumption, PagingTypeOK, list \in List \ {"deals"},
           Cardinality(Rest) <= Limit
    PROVE  Page = Rest
<1>1. ASSUME NEW r \in Rest PROVE Rank(r) < Limit
  <2> DEFINE B == {q \in Rest : Precedes(q, r)}
  <2>1. r \in Row /\ ~Precedes(r, r)
    BY RestIsFinite, OrderOfRows
  <2>2. B \in SUBSET Rest /\ B # Rest
    BY <1>1, <2>1
  <2> HIDE DEF B
  <2>3. Cardinality(B) < Cardinality(Rest) /\ Cardinality(B) \in Nat
    BY <2>2, RestIsFinite, FS_Subset, FS_CardinalityType
  <2> USE DEF B
  <2> QED BY <2>3, RestIsFinite DEF Rank, PagingAssumption
<1> QED BY <1>1 DEF Page, Rank

\* The page ends with a row that everything on it precedes, and what is left
\* of the rest comes after it.
LEMMA PageHasLast ==
    ASSUME PagingAssumption, PagingTypeOK, list \in List \ {"deals"},
           Cardinality(Rest) > Limit
    PROVE  \E last \in Page : 
             /\ NextCursor = [id |-> last, stamp |-> stamp[last]]
             /\ \A q \in Page : q = last \/ Precedes(q, last)
             /\ \A q \in Rest \ Page : Precedes(last, q)
<1> USE RestIsFinite, OrderOfRows
<1>1. Page \subseteq Rest /\ IsFiniteSet(Page) /\ Page \subseteq Row
  <2>1. Page \in SUBSET Rest
    BY DEF Page
  <2> QED BY <2>1, FS_Subset
<1>2. Rest # {}
  BY FS_EmptySet DEF PagingAssumption
<1>3. Page # {}
  <2> DEFINE G == {e \in Rest \X Rest : Precedes(e[2], e[1])}
  <2>1. \A a, b \in Rest : <<a, b>> \in G <=> Precedes(b, a)
    OBVIOUS
  <2> HIDE DEF G
  <2>2. \E r \in Rest : \A q \in Rest : <<r, q>> \notin G
    BY <1>2, <2>1, SomebodyIsLast
  <2>3. PICK r \in Rest : \A q \in Rest : ~Precedes(q, r)
    BY <2>1, <2>2
  <2>4. Rank(r) = 0
    BY <2>3, FS_EmptySet DEF Rank
  <2> QED BY <2>4 DEF Page, Rank, PagingAssumption
<1>4. \E r \in Page : \A q \in Page : q = r \/ Precedes(q, r)
  <2> DEFINE G == {e \in Page \X Page : Precedes(e[1], e[2])}
  <2>1. \A a, b \in Page : <<a, b>> \in G <=> Precedes(a, b)
    OBVIOUS
  <2> HIDE DEF G
  <2>2. \E r \in Page : \A q \in Page : <<r, q>> \notin G
    BY <1>1, <1>3, <2>1, SomebodyIsLast
  <2>3. PICK r \in Page : \A q \in Page : ~Precedes(r, q)
    BY <2>1, <2>2
  <2> QED BY <1>1, <2>3
<1> DEFINE last == CHOOSE r \in Page : \A q \in Page : q = r \/ Precedes(q, r)
<1>5. last \in Page /\ \A q \in Page : q = last \/ Precedes(q, last)
  BY <1>4
<1>6. NextCursor = [id |-> last, stamp |-> stamp[last]]
  BY DEF NextCursor
<1> HIDE DEF last
<1>7. ASSUME NEW q \in Rest \ Page, ~Precedes(last, q) PROVE FALSE
  <2>1. Precedes(q, last)
    BY <1>1, <1>5, <1>7
  <2> DEFINE B(r) == {p \in Rest : Precedes(p, r)}
  <2>2. B(q) \in SUBSET B(last) /\ B(last) \in SUBSET Rest
    BY <1>1, <1>5, <2>1
  <2> HIDE DEF B
  <2>3. Cardinality(B(q)) <= Cardinality(B(last))
    BY <2>2, FS_Subset
  <2> USE DEF B
  <2>4. Rank(q) <= Rank(last)
    BY <2>3 DEF Rank
  <2>5. Rank(last) < Limit /\ ~(Rank(q) < Limit)
    BY <1>5, <1>7 DEF Page, Rank
  <2> QED BY <1>1, <1>5, <2>4, <2>5 DEF PagingAssumption
<1> QED BY <1>5, <1>6, <1>7

-----------------------------------------------------------------------------
LEMMA PagingStart == PagingAssumption /\ PagingInit => PagingInv
BY DEF PagingAssumption, PagingInit, PagingInv, PagingTypeOK, Keyset, FromStart,
       TheEnd, Missing

LEMMA OpenListKeeps ==
    ASSUME PagingAssumption, PagingInv, NEW l \in List \ {"deals"}, OpenList(l)
    PROVE  PagingInv'
<1>1. cursor = FromStart /\ cursor' = FromStart /\ cursor'.id = NoRowId
      /\ cursor' # TheEnd
  BY DEF PagingInv, OpenList, FromStart, TheEnd, Missing
<1>2. \A r \in Row : given'[r] = 0
  BY <1>1 DEF PagingInv, OpenList
<1>3. stamp' \in [Row -> Missing..MaxStamp]
  BY DEF PagingAssumption, OpenList, Missing
<1>4. list' # "none" /\ Keyset'
  BY DEF PagingAssumption, OpenList, Keyset
<1>5. PagingTypeOK'
  BY <1>1, <1>3 DEF PagingInv, PagingTypeOK, OpenList
<1> QED BY <1>1, <1>2, <1>4, <1>5 DEF PagingInv

LEMMA TurnPageKeeps ==
    ASSUME PagingAssumption, PagingInv, TurnPage
    PROVE  PagingInv'
<1>1. PagingTypeOK /\ list \in List \ {"deals"}
  BY DEF PagingInv, Keyset, TurnPage
<1>2. /\ given' = [r \in Row |-> given[r] + (IF r \in Page THEN 1 ELSE 0)]
      /\ cursor # TheEnd /\ cursor' = NextCursor
      /\ UNCHANGED <<list, stamp, listed, settled, touches>>
  BY DEF TurnPage
<1>3. /\ settled \subseteq listed /\ listed \subseteq Row /\ Rest \subseteq Row
      /\ given \in [Row -> Nat] /\ stamp \in [Row -> Nat]
      /\ stamp \in [Row -> Missing..MaxStamp]
      /\ cursor = FromStart \/ cursor.id # NoRowId
      /\ NoRowId \notin Row /\ Row \subseteq Nat
  BY <1>1, <1>2, WhatIsAhead
     DEF PagingTypeOK, PagingAssumption, Rest, FromStart, TheEnd, Missing
<1>4. Page \subseteq Rest
  BY DEF Page
<1>5. ASSUME NEW r \in settled
      PROVE  /\ r \in Rest => given[r] = 0
             /\ r \notin Rest => given[r] = 1 /\ cursor.id # NoRowId /\ ~Ahead(r)
  <2>1. r \in listed /\ r \in Row
    BY <1>3
  <2>2. CASE cursor = FromStart
    BY <1>1, <2>1, <2>2, WhatIsAhead DEF PagingInv, Rest
  <2>3. CASE cursor.id # NoRowId
    BY <1>1, <2>1, <2>3, WhatIsAhead DEF PagingInv, Rest
  <2> QED BY <1>3, <2>2, <2>3
<1>6. given' \in [Row -> Nat] /\ \A r \in Row : given'[r] = given[r] + (IF r \in Page THEN 1 ELSE 0)
  BY <1>2, <1>3
<1>7. CASE Cardinality(Rest) <= Limit
  <2>1. Page = Rest
    BY <1>1, <1>7, ShortRestFits
  <2>2. cursor' = TheEnd
    BY <1>1, <1>2, <1>7, RestIsFinite DEF NextCursor, PagingAssumption
  <2>3. \A r \in settled' : given'[r] = 1
    BY <1>2, <1>3, <1>5, <1>6, <2>1
  <2>4. cursor' # FromStart /\ cursor'.id = NoRowId
    BY <2>2 DEF TheEnd, FromStart, Missing
  <2>5. PagingTypeOK'
    BY <1>1, <1>2, <1>6, <2>2 DEF PagingTypeOK
  <2> QED BY <1>1, <1>2, <2>2, <2>3, <2>4, <2>5 DEF PagingInv, Keyset, PagingAssumption
<1>8. CASE Cardinality(Rest) > Limit
  <2>1. PICK last \in Page : 
             /\ NextCursor = [id |-> last, stamp |-> stamp[last]]
             /\ \A q \in Page : q = last \/ Precedes(q, last)
             /\ \A q \in Rest \ Page : Precedes(last, q)
    BY <1>1, <1>8, PageHasLast
  <2>2. /\ last \in Row /\ last \in Rest /\ cursor'.id = last
        /\ cursor'.stamp = stamp[last]
    BY <1>2, <1>3, <1>4, <2>1
  <2>3. cursor' # FromStart /\ cursor' # TheEnd
    BY <1>3, <2>2 DEF FromStart, TheEnd
  <2>4. \A r \in Row : Ahead(r)' <=> Precedes(last, r)
    <3>1. \A r \in Row : Ahead(r)' <=> Goes(stamp[last], last, stamp[r], r)
      BY <1>2, <2>2 DEF Ahead, Goes
    <3> QED BY <1>1, <2>2, <3>1, WhatIsAhead
  <2>5. ASSUME NEW r \in settled
        PROVE  given'[r] = IF Precedes(last, r) THEN 0 ELSE 1
    <3>1. r \in Row
      BY <1>3
    <3>2. CASE r \in Page
      <4>1. given'[r] = 1
        BY <1>4, <1>5, <1>6, <3>1, <3>2
      <4>2. ~Precedes(last, r)
        BY <1>1, <2>1, <2>2, <3>1, <3>2, OrderOfRows
      <4> QED BY <4>1, <4>2
    <3>3. CASE r \in Rest \ Page
      BY <1>5, <1>6, <2>1, <3>1, <3>3
    <3>4. CASE r \notin Rest
      <4>1. given'[r] = 1 /\ cursor.id # NoRowId /\ ~Ahead(r)
        BY <1>3, <1>4, <1>5, <1>6, <3>1, <3>4
      <4>2. Ahead(last)
        BY <1>1, <2>2, <4>1, WhatIsAhead DEF Rest
      <4>3. ~Precedes(last, r)
        BY <1>1, <2>2, <3>1, <4>1, <4>2, OrderOfRows
      <4> QED BY <4>1, <4>3
    <3> QED BY <3>2, <3>3, <3>4
  <2>6. PagingTypeOK'
    <3>1. cursor' \in [id: Row, stamp: Missing..MaxStamp]
      BY <1>2, <1>3, <2>1, <2>2
    <3> QED BY <1>1, <1>2, <1>6, <3>1 DEF PagingTypeOK
  <2> QED BY <1>1, <1>2, <1>3, <2>3, <2>4, <2>5, <2>6
          DEF PagingInv, Keyset, PagingAssumption
<1> QED
  <2>1. Cardinality(Rest) \in Nat /\ Limit \in Nat
    BY <1>1, RestIsFinite DEF PagingAssumption
  <2> QED BY <1>7, <1>8, <2>1

LEMMA TouchRowKeeps ==
    ASSUME PagingAssumption, PagingInv, NEW r \in Row, TouchRow(r)
    PROVE  PagingInv'
<1>1. PICK present \in BOOLEAN, s \in 1..MaxStamp :
         /\ listed' = IF present THEN listed \cup {r} ELSE listed \ {r}
         /\ stamp' = [stamp EXCEPT ![r] = s]
  BY DEF TouchRow
<1>2. settled' = settled \ {r} /\ touches' = touches + 1
      /\ UNCHANGED <<list, cursor, given>> /\ list # "none"
  BY DEF TouchRow
<1>3. stamp' \in [Row -> Missing..MaxStamp]
      /\ \A q \in Row \ {r} : stamp'[q] = stamp[q]
  BY <1>1 DEF PagingInv, PagingTypeOK, PagingAssumption, Missing
<1>4. PagingTypeOK'
  BY <1>1, <1>2, <1>3 DEF PagingInv, PagingTypeOK
<1>5. \A q \in Row \ {r} : Ahead(q)' <=> Ahead(q)
  BY <1>2, <1>3 DEF Ahead, Goes
<1> QED BY <1>2, <1>4, <1>5 DEF PagingInv, PagingTypeOK, Keyset

LEMMA RereadKeeps ==
    ASSUME PagingAssumption, PagingInv, Reread
    PROVE  PagingInv'
BY DEF PagingAssumption, PagingInv, PagingTypeOK, Reread, Keyset, FromStart, TheEnd,
       Missing

LEMMA PagingStep ==
    ASSUME PagingAssumption, "deals" \notin List, PagingInv, [PagingNext]_pageVars
    PROVE  PagingInv'
<1>1. ASSUME NEW l \in List, OpenList(l) PROVE PagingInv'
  BY <1>1, OpenListKeeps
<1>2. ASSUME TurnPage PROVE PagingInv'
  BY <1>2, TurnPageKeeps
<1>3. ASSUME NEW r \in Row, TouchRow(r) PROVE PagingInv'
  BY <1>3, TouchRowKeeps
<1>4. ASSUME Reread PROVE PagingInv'
  BY <1>4, RereadKeeps
<1>5. CASE UNCHANGED pageVars
  BY <1>5 DEF PagingInv, PagingTypeOK, Keyset, pageVars, Ahead, Goes
<1> QED BY <1>1, <1>2, <1>3, <1>4, <1>5 DEF PagingNext

(* However rows move and appear while somebody turns the pages of a list, a*)
(* row that was in it all along and did not move is given exactly once by  *)
(* the time the end is reached, for any number of rows, any page size and  *)
(* any stamps (`keyset_condition`, `keyset_after`). The list of deals is   *)
(* left out because it is sorted by a time and continued after an id, and  *)
(* so skips rows.                                                         *)
THEOREM PagesAreWhole ==
    ASSUME "deals" \notin List
    PROVE  PagingSpec => []ListsAreWhole
<1>1. PagingInit => PagingInv
  BY PagingAssumption, PagingStart
<1>2. PagingInv /\ [PagingNext]_pageVars => PagingInv'
  BY PagingAssumption, PagingStep
<1>3. PagingInv => ListsAreWhole
  <2> SUFFICES ASSUME PagingInv PROVE ListsAreWhole
    OBVIOUS
  <2>1. ASSUME NEW r \in settled PROVE given[r] \in {0, 1}
    <3>1. cursor = FromStart \/ cursor = TheEnd \/ cursor.id # NoRowId
      BY PagingAssumption DEF PagingInv, PagingTypeOK, PagingAssumption
    <3> QED BY <2>1, <3>1 DEF PagingInv, PagingTypeOK
  <2>2. NothingTwice
    BY <2>1 DEF NothingTwice
  <2>3. NothingSkipped
    BY DEF NothingSkipped, PagingInv
  <2> QED BY <2>2, <2>3 DEF ListsAreWhole, PagingInv
<1> QED BY <1>1, <1>2, <1>3, PTL DEF PagingSpec

-----------------------------------------------------------------------------
(* The accounts money is sent to.  As long as requests come in turn, the   *)
(* check each one made holds when it commits.                              *)
Changing == [op : Op \cup {"free"}, on : Payee \cup {NoPayee}, seen : BOOLEAN]

RowsOK ==
  /\ DOMAIN payee \subseteq Payee
  /\ payee \in [DOMAIN payee -> PayeeRow]
  /\ change \in [Director -> Changing]
  /\ changed \in 0..MaxChanged
  /\ overlapped \in BOOLEAN
  /\ \A d \in Director : change[d].op # "free" => change[d].on \in Payee

\* What a request that works alone relies on until its commit: the check it
\* made still holds.
CheckStillHolds(d) ==
  LET c == change[d] IN
  /\ c.op \in {"off", "delete"} => Active \ {c.on} # {}
  /\ c.op = "create" => c.on \notin DOMAIN payee
  /\ c.op \in {"on", "off", "delete"} => c.on \in DOMAIN payee

InTurn ==
  ~overlapped =>
    /\ \A d, e \in Director : change[d].op # "free" /\ change[e].op # "free" => d = e
    /\ Active # {}
    /\ \A d \in Director : CheckStillHolds(d)

RequisitesInv == RowsOK /\ InTurn

LEMMA RowsInit == RequisitesInit => RequisitesInv
<1> SUFFICES ASSUME RequisitesInit PROVE RequisitesInv
  OBVIOUS
<1>1. Seeded \in Payee
  BY RequisitesAssumption DEF Seeded
<1>2. RowsOK
  <2>1. DOMAIN payee = {Seeded} /\ payee \in [DOMAIN payee -> PayeeRow]
    BY DEF RequisitesInit, PayeeRow
  <2>2. Free \in Changing
    BY DEF Free, Changing, NoPayee
  <2>3. change \in [Director -> Changing] /\ \A d \in Director : change[d].op = "free"
    BY <2>2 DEF RequisitesInit, Free
  <2>4. changed = 0 /\ overlapped = FALSE
    BY DEF RequisitesInit
  <2>5. DOMAIN payee \subseteq Payee
    BY <1>1, <2>1
  <2>6. changed \in 0..MaxChanged
    BY <2>4, RequisitesAssumption
  <2>7. overlapped \in BOOLEAN
    BY <2>4
  <2>8. \A d \in Director : change[d].op # "free" => change[d].on \in Payee
    BY <2>3
  <2> QED BY <2>1, <2>3, <2>5, <2>6, <2>7, <2>8 DEF RowsOK
<1>3. Seeded \in Active
  BY <1>1 DEF RequisitesInit, Active, Exists
<1>4. InTurn
  BY <1>3 DEF RequisitesInit, InTurn, CheckStillHolds, Free
<1> QED BY <1>2, <1>4 DEF RequisitesInv

LEMMA BeginKeeps ==
  ASSUME RequisitesInv, NEW d \in Director, NEW op \in Op, NEW p \in Payee, BeginChange(d, op, p)
  PROVE  RequisitesInv'
<1> DEFINE new == [op |-> op, on |-> p, seen |-> op # "create" /\ payee[p].is_active]
<1>1. new \in Changing
  BY DEF BeginChange, Allowed, Exists, RequisitesInv, RowsOK, PayeeRow, Changing, Op
<1>2. change' = [change EXCEPT ![d] = new] /\ payee' = payee
  BY DEF BeginChange
<1>3. RowsOK'
  BY <1>1, <1>2, RequisitesAssumption
     DEF BeginChange, RequisitesInv, RowsOK, PayeeRow, Changing
<1>4. InTurn'
  <2> SUFFICES ASSUME ~overlapped' PROVE InTurn'
    BY DEF InTurn
  <2>1. ~overlapped /\ \A e \in Director \ {d} : change[e].op = "free"
    BY <1>3 DEF BeginChange, RowsOK, RequisitesInv
  <2>2. Active # {} /\ Active' = Active
    BY <1>2, <2>1 DEF RequisitesInv, InTurn, Active, Exists
  <2>3. \A e \in Director \ {d} : change'[e].op = "free"
    BY <1>2, <2>1 DEF RequisitesInv, RowsOK
  <2>4. change'[d] = new
    BY <1>2 DEF RequisitesInv, RowsOK
  <2>5. op \in {"off", "delete"} => Active \ {p} # {}
    <3>1. CASE op = "off" \/ (op = "delete" /\ payee[p].is_active)
      BY <3>1 DEF BeginChange, Allowed, LeavesAnother
    <3>2. CASE op = "delete" /\ ~payee[p].is_active
      <4>1. p \notin Active
        BY <3>2 DEF Active
      <4> QED BY <4>1, <2>2
    <3> QED BY <3>1, <3>2
  <2>6. op = "create" => p \notin DOMAIN payee
    BY DEF BeginChange, Allowed
  <2>7. op \in {"on", "off", "delete"} => p \in DOMAIN payee
    BY DEF BeginChange, Allowed, Exists
  <2>8. CheckStillHolds(d)'
    BY <2>2, <2>4, <2>5, <2>6, <2>7, <1>2 DEF CheckStillHolds
  <2>9. \A e \in Director \ {d} : CheckStillHolds(e)'
    BY <2>3 DEF CheckStillHolds
  <2> QED BY <2>2, <2>3, <2>8, <2>9 DEF InTurn
<1> QED BY <1>3, <1>4 DEF RequisitesInv

LEMMA CommitKeeps ==
  ASSUME RequisitesInv, NEW d \in Director, CommitChange(d)
  PROVE  RequisitesInv'
<1> DEFINE c == change[d]
<1>1. c \in Changing /\ c.on \in Payee /\ c.op \in Op
  BY DEF CommitChange, RequisitesInv, RowsOK, Changing, Op
<1>2. change' = [change EXCEPT ![d] = Free]
  BY DEF CommitChange
<1>3. change' \in [Director -> Changing]
  BY <1>2 DEF RequisitesInv, RowsOK, Changing, Free
<1>4. DOMAIN payee' \subseteq Payee /\ payee' \in [DOMAIN payee' -> PayeeRow]
  <2>1. CASE c.op = "create"
    <3>1. PICK on \in BOOLEAN :
            payee' = [p \in DOMAIN payee \cup {c.on} |->
                        IF p = c.on THEN [is_active |-> on, deleted |-> FALSE] ELSE payee[p]]
      BY <2>1 DEF CommitChange
    <3>2. DOMAIN payee' = DOMAIN payee \cup {c.on}
      BY <3>1
    <3>3. \A p \in DOMAIN payee' : payee'[p] \in PayeeRow
      BY <3>1, <3>2 DEF RequisitesInv, RowsOK, PayeeRow
    <3>4. payee' \in [DOMAIN payee' -> PayeeRow]
      BY <3>1, <3>3
    <3> QED BY <1>1, <3>2, <3>4 DEF RequisitesInv, RowsOK
  <2>2. CASE c.op # "create"
    <3>1. payee' = [payee EXCEPT ![c.on] = Written(c)]
      BY <2>2 DEF CommitChange
    <3>2. ASSUME c.on \in DOMAIN payee PROVE Written(c) \in PayeeRow
      BY <3>2, <1>1 DEF Written, RequisitesInv, RowsOK, PayeeRow, Changing
    <3> QED BY <3>1, <3>2 DEF RequisitesInv, RowsOK
  <2> QED BY <2>1, <2>2
<1>5. RowsOK'
  BY <1>2, <1>3, <1>4 DEF RowsOK, RequisitesInv, CommitChange, Free
<1>6. InTurn'
  <2> SUFFICES ASSUME ~overlapped' PROVE InTurn'
    BY DEF InTurn
  <2>1. ~overlapped /\ InTurn
    BY DEF CommitChange, RequisitesInv
  <2>2. \A e \in Director : change'[e].op = "free"
    BY <1>2, <2>1 DEF InTurn, CommitChange, RequisitesInv, RowsOK, Free
  <2>3. Active' # {}
    <3>1. CASE c.op = "create"
      <4>1. Active \subseteq Active'
        BY <3>1, <2>1 DEF CommitChange, InTurn, CheckStillHolds, Active, Exists
      <4> QED BY <4>1, <2>1 DEF InTurn
    <3>2. CASE c.op # "create"
      <4>1. payee' = [payee EXCEPT ![c.on] = Written(c)]
        BY <3>2 DEF CommitChange
      <4>2. Active \ {c.on} \subseteq Active'
        BY <4>1 DEF Active, Exists, RequisitesInv, RowsOK
      <4>3. CASE c.op \in {"off", "delete"}
        BY <4>2, <4>3, <2>1 DEF InTurn, CheckStillHolds
      <4>4. CASE c.op = "on"
        <5>1. c.on \in DOMAIN payee
          BY <4>4, <2>1 DEF InTurn, CheckStillHolds
        <5>2. c.on \in Active => c.on \in Active'
          BY <4>1, <4>4, <5>1, <1>1
             DEF Active, Exists, Written, RequisitesInv, RowsOK, Changing
        <5> QED BY <4>2, <5>2, <2>1 DEF InTurn
      <4> QED BY <4>3, <4>4, <3>2, <1>1 DEF Op
    <3> QED BY <3>1, <3>2
  <2>4. \A e \in Director : CheckStillHolds(e)'
    BY <2>2 DEF CheckStillHolds
  <2> QED BY <2>2, <2>3, <2>4 DEF InTurn
<1> QED BY <1>5, <1>6 DEF RequisitesInv

LEMMA LoadKeeps == ASSUME RequisitesInv, LoadRequisites PROVE RequisitesInv'
<1>1. PICK rows \in SUBSET {p \in Payee : \A d \in Director : change[d].op = "create" => change[d].on # p} :
        payee' = [p \in DOMAIN payee \cup rows |->
                    IF p \notin DOMAIN payee THEN [is_active |-> TRUE, deleted |-> FALSE]
                    ELSE IF p \in rows THEN [payee[p] EXCEPT !.is_active = TRUE]
                    ELSE payee[p]]
  BY DEF LoadRequisites
<1>2. DOMAIN payee' = DOMAIN payee \cup rows /\ rows \subseteq Payee
  BY <1>1
<1>3. \A p \in DOMAIN payee' : payee'[p] \in PayeeRow
  BY <1>1 DEF RequisitesInv, RowsOK, PayeeRow
<1>4. change' = change /\ overlapped' = overlapped
  BY DEF LoadRequisites
<1>5. RowsOK'
  <2>1. payee' \in [DOMAIN payee' -> PayeeRow]
    BY <1>1, <1>3
  <2>2. changed' \in 0..MaxChanged
    BY RequisitesAssumption DEF LoadRequisites, RequisitesInv, RowsOK
  <2> QED BY <1>2, <1>4, <2>1, <2>2 DEF RequisitesInv, RowsOK
<1>6. Active \subseteq Active'
  BY <1>1 DEF Active, Exists, RequisitesInv, RowsOK, PayeeRow
<1>7. \A d \in Director : CheckStillHolds(d) => CheckStillHolds(d)'
  BY <1>1, <1>2, <1>4, <1>6 DEF CheckStillHolds
<1>8. InTurn'
  BY <1>4, <1>6, <1>7 DEF InTurn, RequisitesInv
<1> QED BY <1>5, <1>8 DEF RequisitesInv

LEMMA RowsStep == RequisitesInv /\ [RequisitesNext]_payeeVars => RequisitesInv'
<1> SUFFICES ASSUME RequisitesInv, [RequisitesNext]_payeeVars PROVE RequisitesInv'
  OBVIOUS
<1>1. CASE LoadRequisites
  BY <1>1, LoadKeeps
<1>2. ASSUME NEW d \in Director, NEW op \in Op, NEW p \in Payee, BeginChange(d, op, p)
      PROVE  RequisitesInv'
  BY <1>2, BeginKeeps
<1>3. ASSUME NEW d \in Director, CommitChange(d) PROVE RequisitesInv'
  BY <1>3, CommitKeeps
<1>4. CASE UNCHANGED payeeVars
  BY <1>4 DEF payeeVars, RequisitesInv, RowsOK, InTurn, CheckStillHolds, Active, Exists
<1> QED BY <1>1, <1>2, <1>3, <1>4 DEF RequisitesNext

(* As long as no two directors work at once there always is an active      *)
(* account a manager can name (set_active, delete), whatever lists are     *)
(* loaded in the middle of a director's request.                           *)
THEOREM ManagersCanName == RequisitesSpec => []OneActiveInTurn
<1>1. RequisitesInv => OneActiveInTurn
  BY DEF RequisitesInv, InTurn, OneActiveInTurn
<1> QED BY <1>1, RowsInit, RowsStep, PTL DEF RequisitesSpec


-----------------------------------------------------------------------------
(* Working hours.  A shift that starts on a day holds the moments from its *)
(* opening to its closing; the shifts of different days hold none in       *)
(* common.                                                                 *)
OpensAt(q, day) == day * DAY + q.start
InShift(q, day, t) ==
  /\ Weekday(day) \in q.days
  /\ OpensAt(q, day) <= t /\ t < OpensAt(q, day) + ShiftLength(q.start, q.end)
ShiftMoments(q) == {t \in q.from..(q.to - 1) : \E day \in Int : InShift(q, day, t)}

LEMMA DayBounds ==
  ASSUME NEW t \in Int
  PROVE  /\ t \div DAY \in Int /\ t % DAY \in 0..(DAY - 1)
         /\ t % DAY = t - (t \div DAY) * DAY
         /\ (t \div DAY) * DAY <= t /\ t < (t \div DAY) * DAY + DAY
<1>1. DAY \in Nat /\ DAY > 0
  BY HoursAssumption
<1>2. t \div DAY \in Int /\ t % DAY \in 0..(DAY - 1)
  BY <1>1
<1>3. t % DAY = t - DAY * (t \div DAY)
  BY <1>1
<1>4. DAY * (t \div DAY) = (t \div DAY) * DAY
  BY <1>1, <1>2
<1> QED BY <1>1, <1>2, <1>3, <1>4

LEMMA DayOrder ==
  ASSUME NEW d \in Int, NEW e \in Int, d < e
  PROVE  d * DAY + DAY <= e * DAY /\ d * DAY \in Int /\ e * DAY \in Int
<1>1. DAY \in Nat /\ DAY > 0
  BY HoursAssumption
<1>2. e - d - 1 \in Nat /\ (e - d - 1) * DAY >= 0
  BY <1>1
<1>3. (e - d - 1) * DAY = e * DAY - d * DAY - DAY
  BY <1>1
<1> QED BY <1>1, <1>2, <1>3

LEMMA ShiftBounds ==
  ASSUME NEW q \in Question
  PROVE  /\ ShiftLength(q.start, q.end) \in 1..DAY
         /\ q.from \in Nat /\ q.to \in Nat /\ q.start \in 0..(DAY - 1) /\ q.end \in 0..(DAY - 1)
         /\ q.days \subseteq 1..WEEK
BY HoursAssumption DEF Question, ShiftLength

LEMMA OneShift ==
  ASSUME NEW q \in Question, NEW t \in Int, NEW d \in Int, NEW e \in Int,
         InShift(q, d, t), InShift(q, e, t)
  PROVE  d = e
<1>1. ASSUME NEW a \in Int, NEW b \in Int, a < b, InShift(q, a, t), InShift(q, b, t) PROVE FALSE
  <2>1. a * DAY + DAY <= b * DAY /\ a * DAY \in Int /\ b * DAY \in Int
    BY <1>1, DayOrder
  <2> QED BY <1>1, <2>1, ShiftBounds, HoursAssumption DEF InShift, OpensAt
<1> QED BY <1>1

(* A shift that holds a moment of the interval starts on one of the days   *)
(* the sum goes through.                                                   *)
LEMMA DayIsCounted ==
  ASSUME NEW q \in Question, NEW t \in q.from..(q.to - 1), NEW d \in Int, InShift(q, d, t)
  PROVE  d \in DaysOf(q)
<1>1. /\ q.from \in Int /\ q.to \in Int /\ t \in Int /\ q.from <= t /\ t < q.to
      /\ ShiftLength(q.start, q.end) \in 1..DAY /\ q.start \in 0..(DAY - 1) /\ DAY \in Nat /\ DAY > 0
  BY ShiftBounds, HoursAssumption
<1> DEFINE a == q.from \div DAY
           b == q.to \div DAY
<1>2. /\ a \in Int /\ a * DAY <= q.from
      /\ b \in Int /\ q.to < b * DAY + DAY
  BY <1>1, DayBounds
<1>3. /\ d * DAY <= t /\ t < d * DAY + DAY + DAY - 1 + 1 /\ d * DAY \in Int
  BY <1>1 DEF InShift, OpensAt
<1>4. d <= b
  <2> SUFFICES ASSUME b < d PROVE FALSE
    BY <1>2
  <2>1. b * DAY + DAY <= d * DAY /\ b * DAY \in Int
    BY <1>2, DayOrder
  <2> QED BY <1>1, <1>2, <1>3, <2>1
<1>5. a - 1 <= d
  <2> SUFFICES ASSUME d + 1 < a PROVE FALSE
    BY <1>2
  <2>1. (d + 1) * DAY + DAY <= a * DAY /\ a * DAY \in Int
    BY <1>2, DayOrder
  <2>2. (d + 1) * DAY = d * DAY + DAY
    BY <1>1
  <2> QED BY <1>1, <1>2, <1>3, <2>1, <2>2
<1> QED BY <1>2, <1>4, <1>5 DEF DaysOf

LEMMA MomentsAreFinite ==
  ASSUME NEW q \in Question
  PROVE  IsFiniteSet(ShiftMoments(q)) /\ Cardinality(ShiftMoments(q)) \in Nat
<1>1. IsFiniteSet(q.from..(q.to - 1))
  <2>1. q.from \in Int /\ q.to - 1 \in Int
    BY ShiftBounds
  <2> QED BY <2>1, FS_Interval
<1>2. ShiftMoments(q) \subseteq q.from..(q.to - 1)
  BY DEF ShiftMoments
<1> QED BY <1>1, <1>2, FS_Subset, FS_CardinalityType

(* The working time of an interval is the number of its moments that fall  *)
(* into a shift.                                                           *)
LEMMA WorkedIsCounted ==
  ASSUME NEW q \in Question
  PROVE  Worked(q) = Cardinality(ShiftMoments(q))
<1> DEFINE Ticks == UNION {{day} \X (1..Shared(q, day)) : day \in DaysOf(q)}
           Begin(d) == IF OpensAt(q, d) > q.from THEN OpensAt(q, d) ELSE q.from
           Closes(d) == OpensAt(q, d) + ShiftLength(q.start, q.end)
           Till(d) == IF Closes(d) < q.to THEN Closes(d) ELSE q.to
<1>1. CASE q.to <= q.from \/ q.days = {}
  <2>1. ShiftMoments(q) = {}
    BY <1>1, ShiftBounds DEF ShiftMoments, InShift
  <2> QED BY <1>1, <2>1, FS_EmptySet DEF Worked
<1>2. CASE ~(q.to <= q.from \/ q.days = {})
  <2>1. Worked(q) = Cardinality(Ticks)
    BY <1>2 DEF Worked
  <2>2. DaysOf(q) \subseteq Int
    BY DEF DaysOf
  <2>3. \A d \in Int : OpensAt(q, d) \in Int /\ Closes(d) \in Int /\ Begin(d) \in Int /\ Till(d) \in Int
    <3> TAKE d \in Int
    <3>1. d * DAY \in Int
      BY HoursAssumption
    <3> QED BY <3>1, ShiftBounds DEF OpensAt
  <2>4. \A d \in Int : Shared(q, d) = IF Weekday(d) \in q.days /\ Till(d) > Begin(d)
                                       THEN Till(d) - Begin(d) ELSE 0
    BY DEF Shared, OpensAt
  <2>5. \A d, k : <<d, k>> \in Ticks <=> d \in DaysOf(q) /\ k \in 1..Shared(q, d)
    OBVIOUS
  <2>6. \A x \in Ticks : x = <<x[1], x[2]>> /\ x[1] \in DaysOf(q) /\ x[2] \in 1..Shared(q, x[1])
    OBVIOUS
  <2> DEFINE f == [x \in Ticks |-> Begin(x[1]) + x[2] - 1]
  <2>7. \A x \in Ticks : f[x] \in q.from..(q.to - 1) /\ InShift(q, x[1], f[x])
    <3> TAKE x \in Ticks
    <3> DEFINE d == x[1]
               k == x[2]
    <3>1. d \in Int /\ k \in 1..Shared(q, d)
      BY <2>2, <2>6
    <3>2. Weekday(d) \in q.days /\ Till(d) > Begin(d) /\ k \in 1..(Till(d) - Begin(d))
      BY <2>3, <2>4, <3>1
    <3>3. f[x] = Begin(d) + k - 1
      OBVIOUS
    <3>4. /\ OpensAt(q, d) <= Begin(d) /\ q.from <= Begin(d)
          /\ Till(d) <= Closes(d) /\ Till(d) <= q.to
      BY <2>3, <3>1, ShiftBounds
    <3>5. f[x] \in Int /\ Begin(d) <= f[x] /\ f[x] < Till(d)
      BY <2>3, <3>1, <3>2, <3>3
    <3> HIDE DEF f, Begin, Till
    <3> QED BY <2>3, <3>1, <3>2, <3>4, <3>5, ShiftBounds DEF InShift
  <2>8. f \in Injection(Ticks, ShiftMoments(q))
    <3>1. \A x \in Ticks : f[x] \in ShiftMoments(q)
      BY <2>2, <2>6, <2>7 DEF ShiftMoments
    <3>2. ASSUME NEW x \in Ticks, NEW y \in Ticks, f[x] = f[y] PROVE x = y
      <4>1. x[1] = y[1]
        <5> HIDE DEF f
        <5>1. f[x] \in Int
          BY <2>7
        <5> QED BY <2>2, <2>6, <2>7, <3>2, <5>1, OneShift
      <4>2. f[x] = Begin(x[1]) + x[2] - 1 /\ f[y] = Begin(x[1]) + y[2] - 1
        BY <4>1
      <4>3. Begin(x[1]) \in Int /\ x[2] \in Int /\ y[2] \in Int
        BY <2>2, <2>3, <2>6
      <4>4. x[2] = y[2]
        <5>1. \A c, m, n \in Int : c + m - 1 = c + n - 1 => m = n
          OBVIOUS
        <5> HIDE DEF Begin, f
        <5> QED BY <3>2, <4>2, <4>3, <5>1
      <4> QED BY <2>6, <4>1, <4>4
    <3> HIDE DEF f
    <3>3. f \in [Ticks -> ShiftMoments(q)]
      BY <3>1 DEF f
    <3> QED BY <3>2, <3>3 DEF Injection, IsInjective
  <2>9. f \in Surjection(Ticks, ShiftMoments(q))
    <3>1. ASSUME NEW t \in ShiftMoments(q) PROVE \E x \in Ticks : f[x] = t
      <4>1. PICK d \in Int : InShift(q, d, t)
        BY <3>1 DEF ShiftMoments
      <4>2. t \in q.from..(q.to - 1)
        BY <3>1 DEF ShiftMoments
      <4>3. d \in DaysOf(q)
        BY <4>1, <4>2, DayIsCounted
      <4>4. t \in Int /\ Begin(d) <= t /\ t < Till(d) /\ Begin(d) \in Int /\ Till(d) \in Int
        BY <2>3, <4>1, <4>2, ShiftBounds DEF InShift
      <4>5. Shared(q, d) = Till(d) - Begin(d)
        <5> HIDE DEF Begin, Till
        <5> QED BY <2>4, <4>1, <4>4 DEF InShift
      <4> DEFINE k == t - Begin(d) + 1
      <4>6. k \in 1..Shared(q, d) /\ Begin(d) + k - 1 = t
        <5> HIDE DEF Begin, Till
        <5> QED BY <4>4, <4>5
      <4>7. <<d, k>> \in Ticks
        BY <2>5, <4>3, <4>6
      <4>8. f[<<d, k>>] = Begin(d) + k - 1
        BY <4>7
      <4> QED BY <4>6, <4>7, <4>8
    <3> HIDE DEF f
    <3> QED BY <2>8, <3>1 DEF Injection, Surjection
  <2>10. Cardinality(Ticks) = Cardinality(ShiftMoments(q))
    <3> HIDE DEF f, Ticks
    <3> QED BY <2>8, <2>9, MomentsAreFinite, FS_Injection
  <2> QED BY <2>1, <2>10
<1> QED BY <1>1, <1>2

(* A week has its days: the shift of the day before, found by is_on_shift  *)
(* among the days of the week, is that of the day before.                  *)
LEMMA Yesterday ==
  ASSUME NEW d \in Int
  PROVE  /\ Weekday(d) \in 1..WEEK
         /\ Weekday(d - 1) = IF Weekday(d) = 1 THEN WEEK ELSE Weekday(d) - 1
<1>1. WEEK \in Nat /\ WEEK > 0
  BY HoursAssumption
<1> DEFINE r == d % WEEK
           w == d \div WEEK
<1>2. /\ r \in 0..(WEEK - 1) /\ w \in Int
      /\ r = d - WEEK * w
  BY <1>1
<1>3. ASSUME NEW x \in Int, NEW v \in Int, NEW s \in 0..(WEEK - 1), x = WEEK * v + s
      PROVE  x % WEEK = s
  <2>1. /\ x % WEEK \in 0..(WEEK - 1) /\ x \div WEEK \in Int
        /\ x % WEEK = x - WEEK * (x \div WEEK)
    BY <1>1
  <2> DEFINE u == x \div WEEK
  <2>2. WEEK * u <= x /\ x < WEEK * u + WEEK /\ WEEK * u \in Int /\ WEEK * v \in Int
    BY <1>1, <2>1
  <2>3. u = v
    <3>1. ASSUME NEW a \in Int, NEW b \in Int, a < b PROVE WEEK * a + WEEK <= WEEK * b
      <4>1. b - a - 1 \in Nat /\ WEEK * (b - a - 1) >= 0
        BY <1>1, <3>1
      <4>2. WEEK * (b - a - 1) = WEEK * b - WEEK * a - WEEK
        BY <1>1
      <4> QED BY <1>1, <4>1, <4>2
    <3> HIDE DEF u
    <3> QED BY <1>1, <1>3, <2>1, <2>2, <3>1 DEF u
  <2> HIDE DEF u
  <2> QED BY <1>3, <2>1, <2>2, <2>3 DEF u
<1>4. CASE r = 0
  <2>1. d - 1 = WEEK * (w - 1) + (WEEK - 1)
    BY <1>1, <1>2, <1>4
  <2>2. (d - 1) % WEEK = WEEK - 1
    <3> HIDE DEF w, r
    <3> QED BY <1>1, <1>2, <1>3, <2>1
  <2> QED BY <1>1, <1>2, <1>4, <2>2 DEF Weekday
<1>5. CASE r # 0
  <2>1. d - 1 = WEEK * w + (r - 1)
    BY <1>1, <1>2, <1>5
  <2>2. (d - 1) % WEEK = r - 1
    <3>1. r - 1 \in 0..(WEEK - 1) /\ d - 1 \in Int
      BY <1>1, <1>2, <1>5
    <3> HIDE DEF w, r
    <3> QED BY <1>2, <1>3, <2>1, <3>1
  <2> QED BY <1>1, <1>2, <1>5, <2>2 DEF Weekday
<1> QED BY <1>4, <1>5

(* is_on_shift and the shifts of the sum hold the same moments, except of  *)
(* round-the-clock shifts that begin after midnight.                       *)
LEMMA OnShiftIsInShift ==
  ASSUME NEW q \in Question, NEW t \in Int, q.start # q.end \/ q.start = 0
  PROVE  OnShift(q, t) <=> \E day \in Int : InShift(q, day, t)
<1> DEFINE d == t \div DAY
           s == q.start
           e == q.end
<1>1. /\ d \in Int /\ t % DAY = t - d * DAY /\ d * DAY \in Int
      /\ d * DAY <= t /\ t < d * DAY + DAY
      /\ DAY \in Nat /\ DAY > 0 /\ s \in 0..(DAY - 1) /\ e \in 0..(DAY - 1)
  <2>1. DAY \in Nat /\ DAY > 0 /\ s \in 0..(DAY - 1) /\ e \in 0..(DAY - 1)
    BY ShiftBounds, HoursAssumption
  <2>2. /\ d \in Int /\ t % DAY = t - d * DAY
        /\ d * DAY <= t /\ t < d * DAY + DAY
    BY DayBounds
  <2>3. d * DAY \in Int
    BY <2>1, <2>2
  <2> QED BY <2>1, <2>2, <2>3
<1>2. (d - 1) * DAY = d * DAY - DAY
  BY <1>1
<1> DEFINE today == Weekday(d)
           yesterday == Weekday(d - 1)
           clock == t - d * DAY
<1>3. OnShift(q, t) <=> IF s < e THEN today \in q.days /\ s <= clock /\ clock < e
                        ELSE IF s = e THEN today \in q.days
                        ELSE (today \in q.days /\ clock >= s) \/ (yesterday \in q.days /\ clock < e)
  <2>1. yesterday = IF today = 1 THEN WEEK ELSE today - 1
    BY <1>1, Yesterday
  <2> QED BY <1>1, <2>1 DEF OnShift
<1>4. \A c \in Int : InShift(q, c, t) => c \in {d, d - 1}
  <2> SUFFICES ASSUME NEW c \in Int, InShift(q, c, t) PROVE c \in {d, d - 1}
    OBVIOUS
  <2>1. c * DAY <= t /\ t < c * DAY + DAY + DAY /\ c * DAY \in Int
    BY <1>1, ShiftBounds DEF InShift, OpensAt
  <2>2. c <= d
    <3> SUFFICES ASSUME d < c PROVE FALSE
      BY <1>1
    <3>1. d * DAY + DAY <= c * DAY
      BY <1>1, DayOrder
    <3> QED BY <1>1, <2>1, <3>1
  <2>3. d - 1 <= c
    <3> SUFFICES ASSUME c < d - 1 PROVE FALSE
      BY <1>1
    <3>1. c * DAY + DAY <= (d - 1) * DAY
      BY <1>1, DayOrder
    <3> QED BY <1>1, <1>2, <2>1, <3>1
  <2> QED BY <1>1, <2>2, <2>3
<1>5. InShift(q, d, t) <=> today \in q.days /\ s <= clock /\ clock < s + ShiftLength(s, e)
  BY <1>1, ShiftBounds DEF InShift, OpensAt
<1>6. InShift(q, d - 1, t) <=> yesterday \in q.days /\ clock + DAY < s + ShiftLength(s, e)
  BY <1>1, <1>2, ShiftBounds DEF InShift, OpensAt
<1>7. (\E day \in Int : InShift(q, day, t)) <=> InShift(q, d, t) \/ InShift(q, d - 1, t)
  BY <1>1, <1>4
<1>8. clock \in 0..(DAY - 1)
  BY <1>1
<1>9. ShiftLength(s, e) = IF e > s THEN e - s ELSE DAY - (s - e)
  BY DEF ShiftLength
<1> HIDE DEF clock, today, yesterday, d
<1>10. CASE s < e
  BY <1>1, <1>3, <1>5, <1>6, <1>7, <1>8, <1>9, <1>10
<1>11. CASE s = e
  BY <1>1, <1>3, <1>5, <1>6, <1>7, <1>8, <1>9, <1>11
<1>12. CASE s > e
  BY <1>1, <1>3, <1>5, <1>6, <1>7, <1>8, <1>9, <1>12
<1> QED BY <1>1, <1>10, <1>11, <1>12

LEMMA WorkedOnShift ==
  ASSUME question \in Question PROVE WorkedIsOnShift
<1> DEFINE q == question
<1> SUFFICES ASSUME q.start # q.end \/ q.start = 0
             PROVE  Worked(q) = Cardinality({t \in q.from..(q.to - 1) : OnShift(q, t)})
  BY DEF WorkedIsOnShift
<1>1. \A t \in q.from..(q.to - 1) : OnShift(q, t) <=> \E day \in Int : InShift(q, day, t)
  BY OnShiftIsInShift, ShiftBounds
<1>2. {t \in q.from..(q.to - 1) : OnShift(q, t)} = ShiftMoments(q)
  BY <1>1 DEF ShiftMoments
<1> QED BY <1>2, WorkedIsCounted

LEMMA WaitsAdd ==
  ASSUME question \in Question PROVE WaitsAddUp
<1> DEFINE q == question
<1> SUFFICES ASSUME NEW t \in q.from..q.to
             PROVE  /\ Waited([q EXCEPT !.to = t]) + Waited([q EXCEPT !.from = t]) = Waited(q)
                    /\ Waited([q EXCEPT !.to = t]) <= Waited(q)
  BY DEF WaitsAddUp
<1> DEFINE a == [q EXCEPT !.to = t]
           b == [q EXCEPT !.from = t]
<1>1. q.from \in 0..Latest /\ q.to \in 0..Latest /\ q.from <= t /\ t <= q.to /\ t \in 0..Latest
  BY HoursAssumption DEF Question
<1>2. /\ a \in Question /\ b \in Question
      /\ a.from = q.from /\ a.to = t /\ b.from = t /\ b.to = q.to
      /\ a.days = q.days /\ b.days = q.days /\ a.start = q.start /\ b.start = q.start
      /\ a.end = q.end /\ b.end = q.end /\ a.enabled = q.enabled /\ b.enabled = q.enabled
  BY <1>1 DEF Question
<1> HIDE DEF a, b
<1>3. CASE Limited(q)
  <2>1. Limited(a) /\ Limited(b)
    BY <1>2, <1>3 DEF Limited
  <2>2. \A day \in Int : \A x : (InShift(a, day, x) <=> InShift(q, day, x))
                                 /\ (InShift(b, day, x) <=> InShift(q, day, x))
    BY <1>2 DEF InShift, OpensAt
  <2>3. ShiftMoments(q) = ShiftMoments(a) \cup ShiftMoments(b)
    <3>1. q.from..(q.to - 1) = (a.from..(a.to - 1)) \cup (b.from..(b.to - 1))
      BY <1>1, <1>2
    <3> QED BY <2>2, <3>1 DEF ShiftMoments
  <2>4. ShiftMoments(a) \cap ShiftMoments(b) = {}
    <3>1. (a.from..(a.to - 1)) \cap (b.from..(b.to - 1)) = {}
      BY <1>1, <1>2
    <3> QED BY <3>1 DEF ShiftMoments
  <2>5. Cardinality(ShiftMoments(q)) = Cardinality(ShiftMoments(a)) + Cardinality(ShiftMoments(b))
    <3>1. \A S, T : IsFiniteSet(S) /\ IsFiniteSet(T) =>
                       Cardinality(S \cup T) = Cardinality(S) + Cardinality(T) - Cardinality(S \cap T)
      BY FS_Union
    <3>2. /\ IsFiniteSet(ShiftMoments(a)) /\ Cardinality(ShiftMoments(a)) \in Nat
          /\ IsFiniteSet(ShiftMoments(b)) /\ Cardinality(ShiftMoments(b)) \in Nat
      BY <1>2, MomentsAreFinite
    <3>3. Cardinality(ShiftMoments(q)) = Cardinality(ShiftMoments(a)) + Cardinality(ShiftMoments(b)) - 0
      BY <2>3, <2>4, <3>1, <3>2, FS_EmptySet
    <3> QED BY <3>2, <3>3
  <2>6. Waited(q) = Worked(q) /\ Waited(a) = Worked(a) /\ Waited(b) = Worked(b)
    BY <1>3, <2>1 DEF Waited
  <2>7. Worked(q) = Worked(a) + Worked(b) /\ Worked(a) \in Nat /\ Worked(b) \in Nat
    BY <1>2, <2>5, WorkedIsCounted, MomentsAreFinite
  <2> QED BY <2>6, <2>7 DEF a, b
<1>4. CASE ~Limited(q)
  <2>1. ~Limited(a) /\ ~Limited(b)
    BY <1>2, <1>4 DEF Limited
  <2>2. /\ Waited(q) = (IF q.to > q.from THEN q.to - q.from ELSE 0)
        /\ Waited(a) = (IF t > q.from THEN t - q.from ELSE 0)
        /\ Waited(b) = (IF q.to > t THEN q.to - t ELSE 0)
    BY <1>2, <1>4, <2>1 DEF Waited
  <2> QED BY <1>1, <2>2 DEF a, b
<1> QED BY <1>3, <1>4

LEMMA AllIsCounted ==
  ASSUME question \in Question PROVE NothingIsFree
<1> DEFINE q == question
<1> SUFFICES ASSUME ~q.enabled \/ q.days = {} \/ (q.days = 1..WEEK /\ q.start = q.end)
             PROVE  Waited(q) = IF q.to > q.from THEN q.to - q.from ELSE 0
  BY DEF NothingIsFree
<1>1. CASE ~Limited(q)
  BY <1>1 DEF Waited
<1>2. CASE Limited(q)
  <2>1. q.days = 1..WEEK /\ q.start = q.end
    BY <1>2 DEF Limited
  <2>2. \A t \in q.from..(q.to - 1) : \E day \in Int : InShift(q, day, t)
    <3> TAKE t \in q.from..(q.to - 1)
    <3> DEFINE u == t - q.start
               d == u \div DAY
    <3>1. t \in Int /\ q.start \in Int /\ u \in Int
      BY ShiftBounds
    <3>2. d \in Int /\ d * DAY <= u /\ u < d * DAY + DAY /\ d * DAY \in Int
      <4>1. d \in Int /\ d * DAY <= u /\ u < d * DAY + DAY
        BY <3>1, DayBounds
      <4> QED BY <4>1, HoursAssumption
    <3>3. ShiftLength(q.start, q.end) = DAY
      BY <2>1, <3>1, HoursAssumption DEF ShiftLength
    <3>4. Weekday(d) \in q.days
      BY <2>1, <3>2, Yesterday
    <3>5. q.start + d * DAY <= t /\ t < q.start + d * DAY + DAY
      <4> HIDE DEF d
      <4> QED BY <3>1, <3>2, HoursAssumption
    <3> HIDE DEF d, u
    <3>6. InShift(q, d, t)
      BY <3>1, <3>2, <3>3, <3>4, <3>5, HoursAssumption DEF InShift, OpensAt
    <3> QED BY <3>2, <3>6
  <2>3. ShiftMoments(q) = q.from..(q.to - 1)
    BY <2>2 DEF ShiftMoments
  <2>4. Cardinality(q.from..(q.to - 1)) = IF q.to > q.from THEN q.to - q.from ELSE 0
    <3>1. q.from \in Int /\ q.to \in Int /\ q.to - 1 \in Int
      BY ShiftBounds
    <3>2. Cardinality(q.from..(q.to - 1)) = IF q.from > q.to - 1 THEN 0 ELSE (q.to - 1) - q.from + 1
      BY <3>1, FS_Interval
    <3> QED BY <3>1, <3>2
  <2>5. Waited(q) = Worked(q)
    BY <1>2 DEF Waited
  <2> QED BY <2>3, <2>4, <2>5, WorkedIsCounted
<1> QED BY <1>1, <1>2

(* The clock of a shift, the working time of an interval and the wait of a *)
(* client agree for every shift and every interval, whatever the length of *)
(* a day and of a week (schedule.is_on_shift, worktime.working_seconds,    *)
(* WorkHours.seconds_between).                                             *)
THEOREM ClocksAgree == HoursSpec => []HoursAgree
<1>1. HoursInit => HoursTypeOK
  BY HoursAssumption DEF HoursInit, HoursTypeOK, Question, NoQuestion
<1>2. HoursTypeOK /\ [HoursNext]_hoursVars => HoursTypeOK'
  BY DEF HoursTypeOK, HoursNext, Asks, hoursVars
<1>3. HoursTypeOK => HoursAgree
  BY WorkedOnShift, WaitsAdd, AllIsCounted DEF HoursAgree, HoursTypeOK
<1> QED BY <1>1, <1>2, <1>3, PTL DEF HoursSpec

-----------------------------------------------------------------------------
(* A message on its way through Telegram.  First its plan, for any number  *)
(* of files of any kinds and any length of text: sets are counted to put   *)
(* albums and files in order.  Then what every attempt keeps (SendInv):    *)
(* what was shown is what the plan has under the same id, and a step whose *)
(* messages are known has arrived as a whole.                              *)

\* What a file can be.
Kind == {"photo", "video", "audio", "document", "voice"}

(* A finite set whose members are ordered: each rank has its member.  Of a *)
(* member, `before` gives those that come before it.                       *)
LEMMA Ranks ==
  ASSUME NEW S, IsFiniteSet(S), NEW before \in [S -> SUBSET S],
         \A s \in S : s \notin before[s],
         \A s, t \in S : s # t => s \in before[t] \/ t \in before[s],
         \A s, t \in S : s \in before[t] => before[s] \subseteq before[t]
  PROVE  /\ \A n \in 1..Cardinality(S) : \E s \in S : Cardinality(before[s]) = n - 1
         /\ \A s, t \in S : Cardinality(before[s]) = Cardinality(before[t]) => s = t
         /\ \A s \in S : Cardinality(before[s]) + 1 \in 1..Cardinality(S)
<1>1. \A s \in S : IsFiniteSet(before[s]) /\ Cardinality(before[s]) \in Nat
  BY FS_Subset, FS_CardinalityType
<1>2. \A s, t \in S : s \in before[t] => Cardinality(before[s]) < Cardinality(before[t])
  <2> TAKE s \in S, t \in S
  <2> HAVE s \in before[t]
  <2>1. before[s] \in SUBSET before[t] /\ before[s] # before[t]
    OBVIOUS
  <2>2. /\ Cardinality(before[s]) <= Cardinality(before[t])
        /\ Cardinality(before[s]) # Cardinality(before[t])
    BY <1>1, <2>1, FS_Subset
  <2> QED BY <1>1, <2>2
<1>3. \A s, t \in S : Cardinality(before[s]) = Cardinality(before[t]) => s = t
  BY <1>1, <1>2
<1>4. Cardinality(S) \in Nat
  BY FS_CardinalityType
<1>5. \A s \in S : Cardinality(before[s]) \in 0..(Cardinality(S) - 1)
  <2> TAKE s \in S
  <2>1. before[s] \in SUBSET S /\ before[s] # S
    OBVIOUS
  <2>2. Cardinality(before[s]) <= Cardinality(S) /\ Cardinality(before[s]) # Cardinality(S)
    BY <2>1, FS_Subset
  <2> QED BY <1>1, <1>4, <2>2
<1> DEFINE T == 0..(Cardinality(S) - 1)
           f == [s \in S |-> Cardinality(before[s])]
<1>6. IsFiniteSet(T) /\ Cardinality(T) = Cardinality(S)
  <2>1. 0 \in Int /\ Cardinality(S) - 1 \in Int
    BY <1>4
  <2>2. IsFiniteSet(T) /\ Cardinality(T) = IF 0 > Cardinality(S) - 1 THEN 0 ELSE Cardinality(S) - 1 - 0 + 1
    BY <2>1, FS_Interval
  <2> QED BY <1>4, <2>2
<1>7. f \in Injection(S, T)
  BY <1>3, <1>5 DEF Injection, IsInjective
<1>8. f \in Surjection(S, T)
  <2> HIDE DEF f, T
  <2> QED BY <1>6, <1>7, FS_Injection
<1>9. \A n \in 1..Cardinality(S) : \E s \in S : Cardinality(before[s]) = n - 1
  <2> TAKE n \in 1..Cardinality(S)
  <2>1. n - 1 \in T
    BY <1>4
  <2>2. \E s \in S : f[s] = n - 1
    BY <1>8, <2>1 DEF Surjection
  <2> QED BY <2>2
<1> QED BY <1>3, <1>4, <1>5, <1>9

(* A finite set of numbers in ascending order has each of them once.       *)
LEMMA NumbersInOrder ==
  ASSUME NEW S \in SUBSET Nat, IsFiniteSet(S)
  PROVE  /\ Cardinality(S) \in Nat
         /\ InOrder(S, Below) \in [1..Cardinality(S) -> S]
         /\ \A m, n \in 1..Cardinality(S) : InOrder(S, Below)[m] = InOrder(S, Below)[n] => m = n
         /\ \A s \in S : \E n \in 1..Cardinality(S) : InOrder(S, Below)[n] = s
<1> DEFINE before == [s \in S |-> {t \in S : Below(t, s)}]
           o == InOrder(S, Below)
<1>1. /\ \A n \in 1..Cardinality(S) : \E s \in S : Cardinality(before[s]) = n - 1
      /\ \A s, t \in S : Cardinality(before[s]) = Cardinality(before[t]) => s = t
      /\ \A s \in S : Cardinality(before[s]) + 1 \in 1..Cardinality(S)
  <2>1. before \in [S -> SUBSET S]
    OBVIOUS
  <2>2. \A s, t \in S : s \in before[t] <=> s < t
    BY DEF Below
  <2>3. \A s \in S : s \in Int
    OBVIOUS
  <2>4. \A s, t \in S : s \in before[t] => before[s] \subseteq before[t]
    <3> TAKE s \in S, t \in S
    <3> HAVE s \in before[t]
    <3>1. \A u \in S : u \in before[s] => u \in before[t]
      BY <2>2, <2>3
    <3> HIDE DEF before
    <3> QED BY <2>1, <3>1
  <2>5. /\ \A s \in S : s \notin before[s]
        /\ \A s, t \in S : s # t => s \in before[t] \/ t \in before[s]
    <3> HIDE DEF before
    <3> QED BY <2>2, <2>3
  <2> HIDE DEF before
  <2> QED BY <2>1, <2>4, <2>5, Ranks
<1>2. Cardinality(S) \in Nat
  BY FS_CardinalityType
<1> DEFINE e(n) == CHOOSE s \in S : Cardinality({t \in S : Below(t, s)}) = n - 1
<1>3. \A n \in 1..Cardinality(S) : e(n) \in S /\ Cardinality(before[e(n)]) = n - 1
  <2> TAKE n \in 1..Cardinality(S)
  <2>1. \E s \in S : Cardinality({t \in S : Below(t, s)}) = n - 1
    BY <1>1
  <2>2. e(n) \in S /\ Cardinality({t \in S : Below(t, e(n))}) = n - 1
    BY <2>1
  <2> HIDE DEF e
  <2> QED BY <2>2
<1>4. o = [n \in 1..Cardinality(S) |-> e(n)]
  BY DEF InOrder
<1> HIDE DEF o, e
<1>5. o \in [1..Cardinality(S) -> S] /\ \A n \in 1..Cardinality(S) : o[n] = e(n)
  BY <1>3, <1>4
<1>6. \A m, n \in 1..Cardinality(S) : o[m] = o[n] => m = n
  <2> TAKE m, n \in 1..Cardinality(S)
  <2> HAVE o[m] = o[n]
  <2>1. e(m) = e(n)
    BY <1>5
  <2>2. Cardinality(before[e(m)]) = m - 1 /\ Cardinality(before[e(n)]) = n - 1
    BY <1>3
  <2> HIDE DEF before
  <2>3. m - 1 = n - 1
    BY <2>1, <2>2
  <2> QED BY <1>2, <2>3
<1>7. ASSUME NEW s \in S PROVE \E n \in 1..Cardinality(S) : o[n] = s
  <2> DEFINE r == Cardinality(before[s])
  <2>1. r + 1 \in 1..Cardinality(S) /\ r \in Int
    <3>1. IsFiniteSet(before[s])
      BY FS_Subset
    <3> QED BY <1>1, <3>1, FS_CardinalityType
  <2>2. o[r + 1] \in S /\ Cardinality(before[o[r + 1]]) = r
    <3>1. o[r + 1] \in S /\ Cardinality(before[o[r + 1]]) = (r + 1) - 1
      BY <1>3, <1>5, <2>1
    <3> HIDE DEF before
    <3> QED BY <2>1, <3>1
  <2>3. o[r + 1] = s
    BY <1>1, <2>2
  <2> QED BY <2>1, <2>3
<1> QED BY <1>2, <1>5, <1>6, <1>7 DEF o
LEMMA LowestIs ==
  ASSUME NEW S \in SUBSET Nat, S # {}
  PROVE  Lowest(S) \in S /\ \A i \in S : Lowest(S) <= i
<1>1. \E i \in S : \A j \in S : i <= j
  BY Least
<1> QED BY <1>1 DEF Lowest

(* The files of a message in groups: a file is in its own, and files of    *)
(* one group have the same.                                                *)
LEMMA GroupIsShared ==
  ASSUME NEW kinds \in Seq(Kind), NEW i \in DOMAIN kinds
  PROVE  /\ DOMAIN kinds \in SUBSET Nat /\ IsFiniteSet(DOMAIN kinds)
         /\ i \in GroupFiles(kinds, i) /\ GroupFiles(kinds, i) \subseteq DOMAIN kinds
         /\ IsFiniteSet(GroupFiles(kinds, i))
         /\ \A j \in GroupFiles(kinds, i) : GroupFiles(kinds, j) = GroupFiles(kinds, i)
<1>1. DOMAIN kinds = 1..Len(kinds) /\ Len(kinds) \in Nat
  OBVIOUS
<1>2. DOMAIN kinds \in SUBSET Nat /\ IsFiniteSet(DOMAIN kinds)
  BY <1>1, FS_Interval
<1>3. i \in GroupFiles(kinds, i) /\ GroupFiles(kinds, i) \subseteq DOMAIN kinds
  BY DEF GroupFiles
<1>4. \A j \in GroupFiles(kinds, i) : GroupFiles(kinds, j) = GroupFiles(kinds, i)
  BY DEF GroupFiles
<1> QED BY <1>2, <1>3, <1>4, FS_Subset

LEMMA PlaceGrows ==
  ASSUME NEW kinds \in Seq(Kind), NEW i \in DOMAIN kinds,
         NEW j \in GroupFiles(kinds, i), NEW k \in GroupFiles(kinds, i), j < k
  PROVE  Place(kinds, j) < Place(kinds, k)
<1> DEFINE G == GroupFiles(kinds, i)
           B(x) == {y \in G : y < x}
<1>1. /\ G \subseteq Nat /\ IsFiniteSet(G)
      /\ GroupFiles(kinds, j) = G /\ GroupFiles(kinds, k) = G
  BY GroupIsShared
<1>2. Place(kinds, j) = Cardinality(B(j)) /\ Place(kinds, k) = Cardinality(B(k))
  BY <1>1 DEF Place
<1>3. B(j) \in SUBSET B(k) /\ j \in B(k) /\ j \notin B(j)
  BY <1>1
<1>4. IsFiniteSet(B(k)) /\ IsFiniteSet(B(j))
  BY <1>1, FS_Subset
<1> HIDE DEF B
<1>5. Cardinality(B(j)) <= Cardinality(B(k)) /\ Cardinality(B(j)) # Cardinality(B(k))
  BY <1>3, <1>4, FS_Subset
<1>6. Cardinality(B(j)) \in Nat /\ Cardinality(B(k)) \in Nat
  BY <1>4, FS_CardinalityType
<1> QED BY <1>2, <1>5, <1>6

LEMMA PlaceType ==
  ASSUME NEW kinds \in Seq(Kind), NEW i \in DOMAIN kinds
  PROVE  Place(kinds, i) \in Nat
<1>1. IsFiniteSet({j \in GroupFiles(kinds, i) : j < i})
  BY GroupIsShared, FS_Subset
<1> QED BY <1>1, FS_CardinalityType DEF Place

(* An album has its own files: each file is in one of them, files of one   *)
(* album are of one group, and there are at most ALBUM_LIMIT.              *)
LEMMA AlbumIsShared ==
  ASSUME NEW kinds \in Seq(Kind), NEW i \in DOMAIN kinds
  PROVE  /\ i \in AlbumOf(kinds, i) /\ AlbumOf(kinds, i) \in SUBSET DOMAIN kinds
         /\ IsFiniteSet(AlbumOf(kinds, i))
         /\ \A j \in AlbumOf(kinds, i) : AlbumOf(kinds, j) = AlbumOf(kinds, i)
         /\ \A j, k \in AlbumOf(kinds, i) :
              j # k => /\ GroupOf(kinds[j]) # "alone"
                       /\ GroupOf(kinds[j]) = GroupOf(kinds[k])
<1>1. i \in AlbumOf(kinds, i) /\ AlbumOf(kinds, i) \in SUBSET DOMAIN kinds
  BY GroupIsShared DEF AlbumOf, SameAlbum
<1>2. IsFiniteSet(AlbumOf(kinds, i))
  BY <1>1, GroupIsShared, FS_Subset
<1>3. \A j \in AlbumOf(kinds, i) : AlbumOf(kinds, j) = AlbumOf(kinds, i)
  <2> TAKE j \in AlbumOf(kinds, i)
  <2>1. GroupFiles(kinds, j) = GroupFiles(kinds, i)
    BY GroupIsShared DEF AlbumOf
  <2>2. SameAlbum(Place(kinds, i), Place(kinds, j))
    BY DEF AlbumOf
  <2> QED BY <2>1, <2>2 DEF AlbumOf, SameAlbum
<1>4. ASSUME NEW j \in AlbumOf(kinds, i), NEW k \in AlbumOf(kinds, i), j # k
      PROVE  GroupOf(kinds[j]) # "alone" /\ GroupOf(kinds[j]) = GroupOf(kinds[k])
  BY <1>4 DEF AlbumOf, GroupFiles
<1> QED BY <1>1, <1>2, <1>3, <1>4

(* An album is no larger than the limit: the places of its files lie in    *)
(* one piece of the group.                                                 *)
LEMMA AlbumIsSmall ==
  ASSUME NEW kinds \in Seq(Kind), NEW i \in DOMAIN kinds
  PROVE  Cardinality(AlbumOf(kinds, i)) <= ALBUM_LIMIT
<1> DEFINE A == AlbumOf(kinds, i)
           q == Place(kinds, i) \div ALBUM_LIMIT
           low == q * ALBUM_LIMIT
           T == low..(low + ALBUM_LIMIT - 1)
           f == [j \in A |-> Place(kinds, j)]
<1>1. ALBUM_LIMIT \in Nat /\ ALBUM_LIMIT > 0
  BY SendingAssumption
<1>2. \A j \in A : Place(kinds, j) \in Nat /\ Place(kinds, j) \div ALBUM_LIMIT = q
  BY AlbumIsShared, PlaceType DEF AlbumOf, SameAlbum
<1>3. q \in Int /\ low \in Int
  <2>1. Place(kinds, i) \in Nat
    BY PlaceType
  <2> QED BY <1>1, <2>1
<1>4. \A j \in A : Place(kinds, j) \in T
  <2> TAKE j \in A
  <2> DEFINE p == Place(kinds, j)
  <2>1. p \in Nat /\ p \div ALBUM_LIMIT = q
    BY <1>2
  <2>2. ALBUM_LIMIT * (p \div ALBUM_LIMIT) <= p /\ p < ALBUM_LIMIT * (p \div ALBUM_LIMIT) + ALBUM_LIMIT
    <3> HIDE DEF p
    <3> QED BY <1>1, <2>1
  <2>3. ALBUM_LIMIT * q = q * ALBUM_LIMIT
    BY <1>1, <1>3
  <2> HIDE DEF p, q
  <2> QED BY <1>1, <1>3, <2>1, <2>2, <2>3 DEF p
<1>5. \A j, k \in A : Place(kinds, j) = Place(kinds, k) => j = k
  <2> TAKE j, k \in A
  <2>1. /\ j \in GroupFiles(kinds, i) /\ k \in GroupFiles(kinds, i)
        /\ j \in Nat /\ k \in Nat
    BY GroupIsShared DEF AlbumOf
  <2>2. Place(kinds, j) \in Nat /\ Place(kinds, k) \in Nat
    BY <1>2
  <2> QED BY <2>1, <2>2, PlaceGrows
<1> HIDE DEF T, A, q
<1>6. f \in Injection(A, T)
  BY <1>4, <1>5 DEF Injection, IsInjective
<1>7. IsFiniteSet(T) /\ Cardinality(T) = ALBUM_LIMIT
  <2>1. low + ALBUM_LIMIT - 1 \in Int
    BY <1>1, <1>3
  <2>2. /\ IsFiniteSet(T)
        /\ Cardinality(T) = IF low > low + ALBUM_LIMIT - 1 THEN 0 ELSE (low + ALBUM_LIMIT - 1) - low + 1
    BY <1>3, <2>1, FS_Interval DEF T
  <2> QED BY <1>1, <1>3, <2>2
<1> QED BY <1>6, <1>7, FS_Injection DEF A

(* The albums of a message one after another: each file is in one of them, *)
(* in one place.                                                           *)
MediaIsWhole(kinds) ==
  LET media == MediaSteps(kinds)
  IN /\ media \in Seq(Seq(Nat))
     /\ \A n \in 1..Len(media) : Len(media[n]) \in 1..ALBUM_LIMIT
     /\ \A n \in 1..Len(media) : \A i \in 1..Len(media[n]) : media[n][i] \in DOMAIN kinds
     /\ \A m, n \in 1..Len(media) : \A i \in 1..Len(media[m]) : \A j \in 1..Len(media[n]) :
          media[m][i] = media[n][j] => m = n /\ i = j
     /\ \A f \in DOMAIN kinds : \E n \in 1..Len(media) : \E i \in 1..Len(media[n]) : media[n][i] = f
     /\ \A n \in 1..Len(media) : \A i, j \in 1..Len(media[n]) :
          i # j => /\ GroupOf(kinds[media[n][i]]) # "alone"
                   /\ GroupOf(kinds[media[n][i]]) = GroupOf(kinds[media[n][j]])

(* The albums have an order: by the first file of the group, then by the   *)
(* first of their own.                                                     *)
LEMMA AlbumsInOrder ==
  ASSUME NEW kinds \in Seq(Kind)
  PROVE  \E o, N : /\ N \in Nat /\ o \in [1..N -> AllAlbums(kinds)]
                   /\ \A m, n \in 1..N : o[m] = o[n] => m = n
                   /\ \A a \in AllAlbums(kinds) : \E n \in 1..N : o[n] = a
                   /\ MediaSteps(kinds) = [n \in 1..N |-> InOrder(o[n], Below)]
<1> DEFINE AA == AllAlbums(kinds)
           Leads(album) == Lowest(GroupFiles(kinds, Lowest(album)))
           Earlier(a, b) == Leads(a) < Leads(b) \/ (Leads(a) = Leads(b) /\ Lowest(a) < Lowest(b))
           N == Cardinality(AA)
           e(n) == CHOOSE s \in AA : Cardinality({t \in AA : Earlier(t, s)}) = n - 1
           o == [n \in 1..N |-> e(n)]
           before == [s \in AA |-> {t \in AA : Earlier(t, s)}]
<1>1. MediaSteps(kinds) = [n \in 1..N |-> InOrder(o[n], Below)]
  <2>1. MediaSteps(kinds) = [n \in DOMAIN o |-> InOrder(o[n], Below)]
    BY DEF MediaSteps, InOrder
  <2> QED BY <2>1
<1>2. IsFiniteSet(AA) /\ N \in Nat
  <2> DEFINE f == [i \in DOMAIN kinds |-> AlbumOf(kinds, i)]
  <2>1. f \in Surjection(DOMAIN kinds, AA)
    BY DEF Surjection, AllAlbums
  <2>2. IsFiniteSet(DOMAIN kinds)
    <3>1. DOMAIN kinds = 1..Len(kinds) /\ Len(kinds) \in Nat
      OBVIOUS
    <3> QED BY <3>1, FS_Interval
  <2> HIDE DEF f, AA
  <2> QED BY <2>1, <2>2, FS_Surjection, FS_CardinalityType
<1>3. \A a \in AA : \E i \in DOMAIN kinds : a = AlbumOf(kinds, i)
  BY DEF AllAlbums
<1>4. \A a \in AA : Lowest(a) \in a /\ Lowest(a) \in DOMAIN kinds /\ Lowest(a) \in Nat /\ Leads(a) \in Nat
  <2> TAKE a \in AA
  <2>1. PICK i \in DOMAIN kinds : a = AlbumOf(kinds, i)
    BY <1>3
  <2>2. a \in SUBSET DOMAIN kinds /\ a # {} /\ DOMAIN kinds \in SUBSET Nat
    BY <2>1, AlbumIsShared, GroupIsShared
  <2>3. Lowest(a) \in a /\ Lowest(a) \in DOMAIN kinds /\ Lowest(a) \in Nat
    BY <2>2, LowestIs
  <2>4. /\ GroupFiles(kinds, Lowest(a)) \in SUBSET Nat
        /\ GroupFiles(kinds, Lowest(a)) # {}
    BY <2>2, <2>3, GroupIsShared
  <2>5. Leads(a) \in Nat
    BY <2>4, LowestIs
  <2> QED BY <2>3, <2>5
<1>5. \A a, b \in AA : Lowest(a) = Lowest(b) => a = b
  BY <1>3, <1>4, AlbumIsShared
<1> HIDE DEF Leads, AA
<1>6. /\ \A s \in AA : ~Earlier(s, s)
      /\ \A s, t \in AA : s # t => Earlier(s, t) \/ Earlier(t, s)
      /\ \A s, t, u \in AA : Earlier(s, t) /\ Earlier(t, u) => Earlier(s, u)
  BY <1>4, <1>5
<1> HIDE DEF Earlier
<1>7. \A s, t \in AA : s \in before[t] <=> Earlier(s, t)
  OBVIOUS
<1>8. /\ \A n \in 1..N : \E s \in AA : Cardinality(before[s]) = n - 1
      /\ \A s, t \in AA : Cardinality(before[s]) = Cardinality(before[t]) => s = t
      /\ \A s \in AA : Cardinality(before[s]) + 1 \in 1..N
  <2>1. before \in [AA -> SUBSET AA]
    OBVIOUS
  <2> HIDE DEF before
  <2>2. /\ \A s \in AA : s \notin before[s]
        /\ \A s, t \in AA : s # t => s \in before[t] \/ t \in before[s]
    BY <1>6, <1>7
  <2>3. \A s, t \in AA : s \in before[t] => before[s] \subseteq before[t]
    BY <1>6, <1>7, <2>1
  <2> QED BY <1>2, <2>1, <2>2, <2>3, Ranks
<1>9. \A n \in 1..N : e(n) \in AA /\ Cardinality(before[e(n)]) = n - 1
  <2> TAKE n \in 1..N
  <2>1. \E s \in AA : Cardinality({t \in AA : Earlier(t, s)}) = n - 1
    BY <1>8
  <2>2. e(n) \in AA /\ Cardinality({t \in AA : Earlier(t, e(n))}) = n - 1
    BY <2>1
  <2> HIDE DEF e
  <2> QED BY <2>2
<1> HIDE DEF e, before
<1>10. o \in [1..N -> AA]
  BY <1>9
<1>11. \A m, n \in 1..N : o[m] = o[n] => m = n
  <2> TAKE m, n \in 1..N
  <2> HAVE o[m] = o[n]
  <2>1. e(m) = e(n)
    OBVIOUS
  <2>2. Cardinality(before[e(m)]) = m - 1 /\ Cardinality(before[e(n)]) = n - 1
    BY <1>9
  <2>3. m - 1 = n - 1
    BY <2>1, <2>2
  <2> QED BY <1>2, <2>3
<1>12. ASSUME NEW s \in AA PROVE \E n \in 1..N : o[n] = s
  <2> DEFINE r == Cardinality(before[s])
  <2>1. r + 1 \in 1..N /\ r \in Int
    <3>1. IsFiniteSet(before[s])
      BY <1>2, FS_Subset DEF before
    <3> QED BY <1>8, <3>1, FS_CardinalityType
  <2>2. e(r + 1) \in AA /\ Cardinality(before[e(r + 1)]) = (r + 1) - 1
    BY <1>9, <2>1
  <2>3. e(r + 1) = s
    BY <1>8, <2>1, <2>2
  <2> QED BY <2>1, <2>3
<1> HIDE DEF o, N
<1> QED BY <1>1, <1>2, <1>10, <1>11, <1>12 DEF AA, N

LEMMA MediaWhole == ASSUME NEW kinds \in Seq(Kind) PROVE MediaIsWhole(kinds)
<1> DEFINE media == MediaSteps(kinds)
<1>1. PICK o, N : /\ N \in Nat /\ o \in [1..N -> AllAlbums(kinds)]
                  /\ \A m, n \in 1..N : o[m] = o[n] => m = n
                  /\ \A a \in AllAlbums(kinds) : \E n \in 1..N : o[n] = a
                  /\ media = [n \in 1..N |-> InOrder(o[n], Below)]
  BY AlbumsInOrder
<1>2. DOMAIN kinds \in SUBSET Nat
  OBVIOUS
<1>3. \A n \in 1..N : \E i \in DOMAIN kinds : o[n] = AlbumOf(kinds, i)
  BY <1>1 DEF AllAlbums
<1>4. \A n \in 1..N : /\ o[n] \in SUBSET DOMAIN kinds /\ IsFiniteSet(o[n])
                      /\ Cardinality(o[n]) \in 1..ALBUM_LIMIT
                      /\ \A j \in o[n] : AlbumOf(kinds, j) = o[n]
                      /\ \A j, k \in o[n] : j # k => /\ GroupOf(kinds[j]) # "alone"
                                                     /\ GroupOf(kinds[j]) = GroupOf(kinds[k])
  <2> TAKE n \in 1..N
  <2>1. PICK i \in DOMAIN kinds : o[n] = AlbumOf(kinds, i)
    BY <1>3
  <2>2. /\ o[n] \in SUBSET DOMAIN kinds /\ IsFiniteSet(o[n]) /\ o[n] # {}
        /\ \A j \in o[n] : AlbumOf(kinds, j) = o[n]
        /\ \A j, k \in o[n] : j # k => /\ GroupOf(kinds[j]) # "alone"
                                       /\ GroupOf(kinds[j]) = GroupOf(kinds[k])
    BY <2>1, AlbumIsShared
  <2>3. Cardinality(o[n]) \in Nat /\ Cardinality(o[n]) # 0 /\ Cardinality(o[n]) <= ALBUM_LIMIT
    BY <2>1, <2>2, AlbumIsSmall, FS_CardinalityType, FS_EmptySet
  <2>4. ALBUM_LIMIT \in Nat
    BY SendingAssumption
  <2> QED BY <2>2, <2>3, <2>4
<1>5. \A n \in 1..N :
        /\ media[n] \in [1..Cardinality(o[n]) -> o[n]]
        /\ \A i, j \in 1..Cardinality(o[n]) : media[n][i] = media[n][j] => i = j
        /\ \A f \in o[n] : \E i \in 1..Cardinality(o[n]) : media[n][i] = f
  <2> TAKE n \in 1..N
  <2>1. o[n] \in SUBSET Nat /\ IsFiniteSet(o[n])
    BY <1>2, <1>4
  <2>2. media[n] = InOrder(o[n], Below)
    BY <1>1
  <2> DEFINE S == o[n]
             w == InOrder(S, Below)
  <2> HIDE DEF media, S
  <2>3. /\ w \in [1..Cardinality(S) -> S]
        /\ \A i, j \in 1..Cardinality(S) : w[i] = w[j] => i = j
        /\ \A f \in S : \E i \in 1..Cardinality(S) : w[i] = f
    BY <2>1, NumbersInOrder DEF S
  <2> HIDE DEF w
  <2> QED BY <2>2, <2>3 DEF w, S
<1> HIDE DEF media
<1>6. \A n \in 1..N : /\ media[n] \in Seq(Nat) /\ Len(media[n]) = Cardinality(o[n])
                      /\ Len(media[n]) \in 1..ALBUM_LIMIT
                      /\ \A i \in 1..Len(media[n]) : media[n][i] \in o[n]
  <2> TAKE n \in 1..N
  <2>1. Cardinality(o[n]) \in Nat /\ o[n] \in SUBSET Nat
    BY <1>2, <1>4
  <2>2. media[n] \in [1..Cardinality(o[n]) -> o[n]]
    BY <1>5
  <2>3. media[n] \in Seq(Nat) /\ Len(media[n]) = Cardinality(o[n])
    BY <2>1, <2>2
  <2> QED BY <1>4, <2>2, <2>3
<1>7. media \in Seq(Seq(Nat)) /\ Len(media) = N
  BY <1>1, <1>6
<1>8. \A m, n \in 1..N : \A f : f \in o[m] /\ f \in o[n] => m = n
  BY <1>1, <1>4
<1>9. \A m, n \in 1..N : \A i \in 1..Len(media[m]) : \A j \in 1..Len(media[n]) :
        media[m][i] = media[n][j] => m = n /\ i = j
  <2> TAKE m, n \in 1..N
  <2> TAKE i \in 1..Len(media[m])
  <2> TAKE j \in 1..Len(media[n])
  <2> HAVE media[m][i] = media[n][j]
  <2>1. m = n
    BY <1>6, <1>8
  <2> QED BY <1>5, <1>6, <2>1
<1>10. \A f \in DOMAIN kinds : \E n \in 1..N : \E i \in 1..Len(media[n]) : media[n][i] = f
  <2> TAKE f \in DOMAIN kinds
  <2>1. AlbumOf(kinds, f) \in AllAlbums(kinds) /\ f \in AlbumOf(kinds, f)
    BY AlbumIsShared DEF AllAlbums
  <2>2. PICK n \in 1..N : o[n] = AlbumOf(kinds, f)
    BY <1>1, <2>1
  <2>3. \E i \in 1..Cardinality(o[n]) : media[n][i] = f
    BY <1>5, <2>1, <2>2
  <2>4. Len(media[n]) = Cardinality(o[n])
    BY <1>6
  <2> QED BY <2>3, <2>4
<1>11. \A n \in 1..N : \A i, j \in 1..Len(media[n]) :
          i # j => /\ GroupOf(kinds[media[n][i]]) # "alone"
                   /\ GroupOf(kinds[media[n][i]]) = GroupOf(kinds[media[n][j]])
  <2> TAKE n \in 1..N
  <2> TAKE i, j \in 1..Len(media[n])
  <2> HAVE i # j
  <2>1. media[n][i] \in o[n] /\ media[n][j] \in o[n] /\ media[n][i] # media[n][j]
    BY <1>5, <1>6
  <2> QED BY <1>4, <2>1
<1>12. \A n \in 1..N : \A i \in 1..Len(media[n]) : media[n][i] \in DOMAIN kinds
  BY <1>4, <1>6
<1> QED BY <1>6, <1>7, <1>9, <1>10, <1>11, <1>12 DEF MediaIsWhole, media

(* The plan of a message. *)
Parts(l) == IF HasCaption(l) THEN 1 ELSE Ceiling(l.text, TEXT_LIMIT)

\* The plan of a message leaves nothing out and nothing twice.
PlanIsWhole(l) ==
  LET plan == PlanOf(l)
      last == Len(plan)
  IN /\ plan \in Seq([files : Seq(Nat), text : Nat])
     /\ \A n \in 1..last : \A i \in DOMAIN plan[n].files : plan[n].files[i] \in DOMAIN l.kinds
     /\ \A m, n \in 1..last : \A i \in DOMAIN plan[m].files : \A j \in DOMAIN plan[n].files :
          plan[m].files[i] = plan[n].files[j] => m = n /\ i = j
     /\ \A f \in DOMAIN l.kinds : \E n \in 1..last : \E i \in DOMAIN plan[n].files : plan[n].files[i] = f
     /\ \A n \in 1..last :
          /\ Len(plan[n].files) <= ALBUM_LIMIT
          /\ plan[n].text = 0 => plan[n].files # <<>>
          /\ plan[n].files # <<>> /\ plan[n].text # 0 => HasCaption(l)
          /\ \A i, j \in DOMAIN plan[n].files :
               i # j => /\ GroupOf(l.kinds[plan[n].files[i]]) # "alone"
                        /\ GroupOf(l.kinds[plan[n].files[i]]) = GroupOf(l.kinds[plan[n].files[j]])
     /\ \A m, n \in 1..last : plan[m].text # 0 /\ plan[m].text = plan[n].text => m = n
     /\ \A p \in 1..Parts(l) : \E n \in 1..last : plan[n].text = p

LEMMA CeilingType == ASSUME NEW a \in Nat, NEW b \in Nat \ {0} PROVE Ceiling(a, b) \in Nat
<1>1. a + b - 1 \in Nat /\ b > 0
  OBVIOUS
<1>2. \A x \in Nat : x \div b \in Nat
  <2> TAKE x \in Nat
  <2>1. x \div b \in Int
    OBVIOUS
  <2>2. b * (x \div b) <= x /\ x < b * (x \div b) + b
    OBVIOUS
  <2> DEFINE q == x \div b
  <2>3. ASSUME q < 0 PROVE FALSE
    <3>1. b * (- q - 1) >= 0
      BY <2>1, <2>3
    <3>2. b * (- q - 1) = - (b * q) - b
      BY <2>1
    <3> QED BY <2>1, <2>2, <3>1, <3>2
  <2> QED BY <2>1, <2>3
<1> QED BY <1>1, <1>2 DEF Ceiling

(* Whatever the message, the plan has each of its files and each part of   *)
(* its text once, in albums Telegram takes.                                *)
LEMMA PlanWhole ==
  ASSUME NEW l, l.text \in Nat, l.kinds \in Seq(Kind)
  PROVE  PlanIsWhole(l)
<1> DEFINE plan == PlanOf(l)
           media == MediaSteps(l.kinds)
           texts == IF HasCaption(l) THEN <<>> ELSE TextSteps(l.text)
           files == [n \in DOMAIN media |->
                       [files |-> media[n], text |-> IF n = 1 /\ HasCaption(l) THEN 1 ELSE 0]]
           T == IF HasCaption(l) THEN 0 ELSE Ceiling(l.text, TEXT_LIMIT)
           N == Len(media)
           Step == [files : Seq(Nat), text : Nat]
<1>1. plan = texts \o files
  BY DEF PlanOf
<1>2. Ceiling(l.text, TEXT_LIMIT) \in Nat /\ T \in Nat
  BY CeilingType, SendingAssumption
<1>3. MediaIsWhole(l.kinds)
  BY MediaWhole
<1>4. /\ media \in Seq(Seq(Nat)) /\ N \in Nat /\ DOMAIN media = 1..N
      /\ \A n \in 1..N : media[n] \in Seq(Nat) /\ Len(media[n]) \in 1..ALBUM_LIMIT
                         /\ DOMAIN media[n] = 1..Len(media[n]) /\ media[n] # <<>>
  <2>1. media \in Seq(Seq(Nat)) /\ \A n \in 1..N : Len(media[n]) \in 1..ALBUM_LIMIT
    BY <1>3 DEF MediaIsWhole
  <2> HIDE DEF media
  <2>2. N \in Nat /\ DOMAIN media = 1..N /\ \A n \in 1..N : media[n] \in Seq(Nat)
    BY <2>1
  <2> QED BY <2>1, <2>2
<1> HIDE DEF media
<1>5. texts \in Seq(Step) /\ Len(texts) = T /\ \A n \in 1..T : texts[n] = [files |-> <<>>, text |-> n]
  <2>1. CASE HasCaption(l)
    BY <2>1
  <2>2. CASE ~HasCaption(l)
    <3>1. texts = [p \in 1..T |-> [files |-> <<>>, text |-> p]]
      BY <2>2 DEF TextSteps
    <3> HIDE DEF texts, T
    <3>2. \A p \in 1..T : [files |-> <<>>, text |-> p] \in Step
      OBVIOUS
    <3> HIDE DEF Step
    <3> QED BY <1>2, <3>1, <3>2
  <2> QED BY <2>1, <2>2
<1>6. /\ files \in Seq(Step) /\ Len(files) = N
      /\ \A n \in 1..N : files[n] = [files |-> media[n],
                                     text |-> IF n = 1 /\ HasCaption(l) THEN 1 ELSE 0]
  BY <1>4
<1> HIDE DEF texts, files, T, N, plan
<1>m. /\ \A n \in 1..N : \A i \in 1..Len(media[n]) : media[n][i] \in DOMAIN l.kinds
      /\ \A m, n \in 1..N : \A i \in 1..Len(media[m]) : \A j \in 1..Len(media[n]) :
           media[m][i] = media[n][j] => m = n /\ i = j
      /\ \A f \in DOMAIN l.kinds : \E n \in 1..N : \E i \in 1..Len(media[n]) : media[n][i] = f
      /\ \A n \in 1..N : \A i, j \in 1..Len(media[n]) :
           i # j => /\ GroupOf(l.kinds[media[n][i]]) # "alone"
                    /\ GroupOf(l.kinds[media[n][i]]) = GroupOf(l.kinds[media[n][j]])
  BY <1>3 DEF MediaIsWhole, media, N
<1>7. /\ plan \in Seq(Step) /\ Len(plan) = T + N
      /\ \A n \in 1..T : plan[n] = texts[n]
      /\ \A n \in (T + 1)..(T + N) : plan[n] = files[n - T]
  <2> HIDE DEF Step
  <2>1. plan \in Seq(Step) /\ Len(plan) = T + N
    <3>1. \A S : \A s, t \in Seq(S) : s \o t \in Seq(S) /\ Len(s \o t) = Len(s) + Len(t)
      OBVIOUS
    <3>2. texts \o files \in Seq(Step) /\ Len(texts \o files) = Len(texts) + Len(files)
      BY <1>5, <1>6, <3>1
    <3> QED BY <1>1, <1>5, <1>6, <3>2
  <2>2. \A n \in 1..(T + N) : plan[n] = IF n <= T THEN texts[n] ELSE files[n - T]
    BY <1>1, <1>5, <1>6
  <2>3. \A n \in 1..T : n \in 1..(T + N) /\ n <= T
    BY <1>2, <1>4
  <2>4. \A n \in (T + 1)..(T + N) : n \in 1..(T + N) /\ ~(n <= T)
    BY <1>2, <1>4
  <2> QED BY <2>1, <2>2, <2>3, <2>4
<1>8. /\ \A n \in 1..T : plan[n].files = <<>> /\ plan[n].text = n
      /\ \A n \in (T + 1)..(T + N) :
           /\ n - T \in 1..N
           /\ plan[n].files = media[n - T]
           /\ plan[n].text = IF n - T = 1 /\ HasCaption(l) THEN 1 ELSE 0
  <2>1. \A n \in (T + 1)..(T + N) : n - T \in 1..N
    BY <1>2, <1>4
  <2>2. \A n \in (T + 1)..(T + N) : /\ plan[n].files = media[n - T]
                                    /\ plan[n].text = IF n - T = 1 /\ HasCaption(l) THEN 1 ELSE 0
    BY <1>6, <1>7, <2>1
  <2>3. \A n \in 1..T : plan[n] = [files |-> <<>>, text |-> n]
    BY <1>5, <1>7
  <2>4. ASSUME NEW n \in 1..T PROVE plan[n].files = <<>> /\ plan[n].text = n
    <3>1. plan[n] = [files |-> <<>>, text |-> n]
      BY <2>3
    <3> QED BY <3>1
  <2> QED BY <2>1, <2>2, <2>4
<1>9. \A n \in 1..Len(plan) : n \in 1..T \/ n \in (T + 1)..(T + N)
  BY <1>2, <1>4, <1>7
<1>10. \A n \in 1..Len(plan) : \A i \in DOMAIN plan[n].files :
         /\ n \in (T + 1)..(T + N) /\ i \in 1..Len(media[n - T])
         /\ plan[n].files[i] = media[n - T][i]
  <2> TAKE n \in 1..Len(plan)
  <2> TAKE i \in DOMAIN plan[n].files
  <2>1. n \in (T + 1)..(T + N)
    <3>1. n \in 1..T => DOMAIN plan[n].files = {}
      BY <1>8
    <3> QED BY <1>9, <3>1
  <2> QED BY <1>4, <1>8, <2>1
<1>11. \A n \in 1..Len(plan) : \A i \in DOMAIN plan[n].files : plan[n].files[i] \in DOMAIN l.kinds
  BY <1>8, <1>10, <1>m
<1>12. \A m, n \in 1..Len(plan) : \A i \in DOMAIN plan[m].files : \A j \in DOMAIN plan[n].files :
         plan[m].files[i] = plan[n].files[j] => m = n /\ i = j
  <2> TAKE m, n \in 1..Len(plan)
  <2> TAKE i \in DOMAIN plan[m].files
  <2> TAKE j \in DOMAIN plan[n].files
  <2> HAVE plan[m].files[i] = plan[n].files[j]
  <2>1. m - T \in 1..N /\ n - T \in 1..N /\ i \in 1..Len(media[m - T]) /\ j \in 1..Len(media[n - T])
    BY <1>8, <1>10
  <2>2. media[m - T][i] = media[n - T][j]
    BY <1>10
  <2>3. m - T = n - T /\ i = j
    BY <1>m, <2>1, <2>2
  <2> QED BY <1>2, <2>3
<1>13. \A f \in DOMAIN l.kinds : \E n \in 1..Len(plan) : \E i \in DOMAIN plan[n].files : plan[n].files[i] = f
  <2> TAKE f \in DOMAIN l.kinds
  <2>1. PICK n \in 1..N : \E i \in 1..Len(media[n]) : media[n][i] = f
    BY <1>m
  <2>2. PICK i \in 1..Len(media[n]) : media[n][i] = f
    BY <2>1
  <2>3. n + T \in (T + 1)..(T + N) /\ n + T - T = n /\ n + T \in 1..Len(plan)
    BY <1>2, <1>4, <1>7
  <2>4. plan[n + T].files = media[n]
    <3> DEFINE k == n + T
    <3>1. k \in (T + 1)..(T + N) /\ k - T = n
      BY <1>2, <2>3
    <3> HIDE DEF k
    <3>2. plan[k].files = media[k - T]
      BY <1>8, <3>1
    <3> QED BY <3>1, <3>2 DEF k
  <2> QED BY <1>4, <2>2, <2>3, <2>4
<1>14. ASSUME NEW n \in 1..Len(plan)
       PROVE  /\ Len(plan[n].files) <= ALBUM_LIMIT
              /\ plan[n].text = 0 => plan[n].files # <<>>
              /\ plan[n].files # <<>> /\ plan[n].text # 0 => HasCaption(l)
  <2>1. CASE n \in 1..T
    <3>1. plan[n].files = <<>> /\ plan[n].text = n
      BY <1>8, <2>1
    <3> QED BY <2>1, <3>1, SendingAssumption
  <2>2. CASE n \in (T + 1)..(T + N)
    <3>1. /\ n - T \in 1..N
          /\ plan[n].files = media[n - T]
          /\ plan[n].text = IF n - T = 1 /\ HasCaption(l) THEN 1 ELSE 0
      BY <1>8, <2>2
    <3>2. media[n - T] # <<>> /\ Len(media[n - T]) <= ALBUM_LIMIT
      BY <1>4, <3>1
    <3> QED BY <3>1, <3>2
  <2> QED BY <1>9, <2>1, <2>2
<1>15. ASSUME NEW n \in 1..Len(plan), NEW i \in DOMAIN plan[n].files, NEW j \in DOMAIN plan[n].files, i # j
       PROVE  /\ GroupOf(l.kinds[plan[n].files[i]]) # "alone"
              /\ GroupOf(l.kinds[plan[n].files[i]]) = GroupOf(l.kinds[plan[n].files[j]])
  <2>1. n - T \in 1..N /\ i \in 1..Len(media[n - T]) /\ j \in 1..Len(media[n - T])
    BY <1>8, <1>10
  <2>2. plan[n].files[i] = media[n - T][i] /\ plan[n].files[j] = media[n - T][j]
    BY <1>10
  <2>3. /\ GroupOf(l.kinds[media[n - T][i]]) # "alone"
        /\ GroupOf(l.kinds[media[n - T][i]]) = GroupOf(l.kinds[media[n - T][j]])
    <3> DEFINE k == n - T
    <3> HIDE DEF k
    <3>1. k \in 1..N /\ i \in 1..Len(media[k]) /\ j \in 1..Len(media[k])
      BY <2>1 DEF k
    <3>2. /\ GroupOf(l.kinds[media[k][i]]) # "alone"
          /\ GroupOf(l.kinds[media[k][i]]) = GroupOf(l.kinds[media[k][j]])
      BY <1>15, <1>m, <3>1
    <3> QED BY <3>2 DEF k
  <2> QED BY <2>2, <2>3
<1>16. \A m, n \in 1..Len(plan) : plan[m].text # 0 /\ plan[m].text = plan[n].text => m = n
  <2> TAKE m, n \in 1..Len(plan)
  <2> HAVE plan[m].text # 0 /\ plan[m].text = plan[n].text
  <2>1. CASE HasCaption(l)
    <3>1. T = 0
      BY <2>1 DEF T
    <3>2. m - T = 1 /\ n - T = 1
      BY <1>8, <1>9, <3>1
    <3> QED BY <1>2, <3>2
  <2>2. CASE ~HasCaption(l)
    <3>1. plan[m].text = m /\ plan[n].text = n
      BY <1>8, <1>9, <2>2
    <3> QED BY <3>1
  <2> QED BY <2>1, <2>2
<1>17. \A p \in 1..Parts(l) : \E n \in 1..Len(plan) : plan[n].text = p
  <2> TAKE p \in 1..Parts(l)
  <2>1. CASE HasCaption(l)
    <3>1. p = 1 /\ T = 0
      BY <2>1 DEF Parts, T
    <3>2. N # 0
      <4>1. 1 \in DOMAIN l.kinds
        <5>1. l.kinds # <<>> /\ l.kinds \in Seq(Kind)
          BY <2>1 DEF HasCaption
        <5> QED BY <5>1
      <4> QED BY <1>4, <1>m, <4>1
    <3>3. 1 \in (T + 1)..(T + N) /\ 1 - T = 1 /\ 1 \in 1..Len(plan)
      BY <1>4, <1>7, <3>1, <3>2
    <3>4. plan[1].text = 1
      BY <1>8, <2>1, <3>3
    <3> QED BY <3>1, <3>3, <3>4
  <2>2. CASE ~HasCaption(l)
    <3>1. p \in 1..T
      BY <2>2 DEF Parts, T
    <3>2. p \in 1..Len(plan) /\ plan[p].text = p
      BY <1>2, <1>4, <1>7, <1>8, <3>1
    <3> QED BY <3>2
  <2> QED BY <2>1, <2>2
<1> QED BY <1>7, <1>11, <1>12, <1>13, <1>14, <1>15, <1>16, <1>17 DEF PlanIsWhole, plan

(* What holds all the way.  An interruption met an album sent file by file: *)
(* the attempt after it skips the album, whatever of it has arrived.       *)
Torn == "split" \in mishaps /\ breaks > 0
\* The caption of the step goes ahead of its files.
Captioned(n) == tight /\ Plan[n].files # <<>> /\ Plan[n].text # 0
\* The number of messages of a step, and that all of them have arrived.
Size(n) == IF Plan[n].files = <<>> THEN 1 ELSE Len(Plan[n].files)
Complete(n) ==
  /\ \A i \in 1..Size(n) : Seen(<<n, i>>)
  /\ Captioned(n) => Seen(<<n, APART>>)

\* A message that was shown is what the plan has under its id: a caption
\* ahead, a part of the text, or a file.
FitsIn(plan, short, s) ==
  \E n \in 1..Len(plan) :
     \/ /\ s.id = <<n, APART>> /\ short /\ plan[n].files # <<>> /\ plan[n].text # 0
        /\ s.file = 0 /\ s.text = plan[n].text
     \/ plan[n].files = <<>> /\ s.id = <<n, 1>> /\ s.file = 0 /\ s.text = plan[n].text
     \/ \E i \in DOMAIN plan[n].files :
          /\ s.id = <<n, i>> /\ s.file = plan[n].files[i]
          /\ s.text = IF i = 1 /\ ~short THEN plan[n].text ELSE 0
Fits(s) == FitsIn(Plan, tight, s)

Message == [id : Nat \X Nat, file : Nat, text : Nat]

SendTypes ==
  /\ fate \in {"new", "queued", "sent", "failed"}
  /\ letter \in Letter \cup {[text |-> 0, kinds |-> <<>>]}
  /\ fate # "new" => letter \in Letter
  /\ fate = "new" => call = NoCall /\ shown = <<>> /\ breaks = 0 /\ mishaps = {} /\ tries = 0
  /\ tight \in BOOLEAN /\ bad \subseteq DOMAIN letter.kinds
  /\ tries \in 0..MaxTries /\ breaks \in 0..MaxBreaks
  /\ fate = "queued" => tries < MaxTries
  /\ shown \in Seq(Message)
  /\ ids \in Seq(DOMAIN shown)
  /\ call \in [step : 0..Len(Plan) + 1, item : Nat, apart : {"no", "text", "done"},
               got : Seq(DOMAIN shown)]
  /\ mishaps \subseteq {"split", "apart", "blind"}

\* An attempt is under way only while the message is queued; it sends file by
\* file only what was refused, and a caption ahead only if it has to.
CallShape ==
  /\ call.step = 0 => call = NoCall
  /\ fate # "queued" => call = NoCall
  /\ ~Running => call.item = 0 /\ call.apart = "no" /\ call.got = <<>>
  /\ call.apart # "no" => Captioned(call.step) /\ "apart" \in mishaps
  /\ call.apart = "text" => call.item = 0
  /\ call.item > 0 => /\ Len(Doing.files) > 1 /\ call.item <= Len(Doing.files)
                      /\ "split" \in mishaps
  /\ call.item = 0 /\ call.apart # "done" => call.got = <<>>

\* Nothing is shown that is not planned, and nothing under one id twice.
ShownFits ==
  /\ \A k \in DOMAIN shown : Fits(shown[k])
  /\ \A j, k \in DOMAIN shown : shown[j].id = shown[k].id => j = k

\* The steps behind an attempt have arrived, and of every other step either
\* all or nothing, but for the one that is being sent.
DoneSoFar ==
  /\ ~Torn => \A n \in 1..(call.step - 1) : Complete(n)
  /\ ~Torn => \A k \in DOMAIN shown :
       LET n == shown[k].id[1]
           i == shown[k].id[2]
       IN i # APART => Complete(n) \/ (n = call.step /\ i < call.item)
  /\ call.apart = "done" => Seen(<<call.step, APART>>)
  /\ call.item > 1 /\ Captioned(call.step) => call.apart = "done"
  /\ \A i \in 1..(call.item - 1) : Seen(<<call.step, i>>)

\* An attempt that nothing has interrupted yet is the first, and Telegram has
\* only seen what lies behind it: no id is sent a second time.
FirstTime ==
  breaks = 0 /\ fate # "sent" =>
    \A k \in DOMAIN shown :
      LET n == shown[k].id[1]
          i == shown[k].id[2]
      IN \/ n < call.step
         \/ n = call.step /\ IF i = APART THEN call.apart = "done" ELSE i < call.item

\* A message called sent has arrived.
Arrived == fate = "sent" => Torn \/ \A n \in 1..Len(Plan) : Complete(n)

\* Without mishaps an attempt has as many numbers as the steps behind it have
\* messages, each number once.
Known ==
  mishaps = {} =>
    /\ \A i, j \in DOMAIN ids : ids[i] = ids[j] => i = j
    /\ \A k \in DOMAIN shown : shown[k].id[2] # APART
    /\ fate = "sent" => Len(ids) = Len(shown)
    /\ call.step > 0 => Len(ids) = Cardinality({k \in DOMAIN shown : shown[k].id[1] < call.step})

SendInv == SendTypes /\ CallShape /\ ShownFits /\ DoneSoFar /\ FirstTime /\ Arrived /\ Known

\* What Telegram knows the n-th message of the current call by.
SendId(i) == <<call.step, IF call.apart = "text" THEN APART ELSE IF call.item > 0 THEN call.item ELSE i>>

(* The plan of the message at hand.                                        *)
LEMMA PlanFacts ==
  ASSUME letter \in Letter \cup {[text |-> 0, kinds |-> <<>>]}
  PROVE  /\ PlanIsWhole(letter) /\ Len(Plan) \in Nat
         /\ \A n \in 1..Len(Plan) :
              /\ Plan[n].files \in Seq(Nat) /\ Plan[n].text \in Nat
              /\ DOMAIN Plan[n].files = 1..Len(Plan[n].files)
              /\ Len(Plan[n].files) < APART /\ Len(Plan[n].files) \in Nat
              /\ Size(n) \in 1..(APART - 1)
              /\ Plan[n].files # <<>> => Size(n) = Len(Plan[n].files)
<1>1. letter.text \in Nat /\ letter.kinds \in Seq(Kind)
  <2>1. CASE letter \in Letter
    BY <2>1, SendingAssumption DEF Kind
  <2>2. CASE letter = [text |-> 0, kinds |-> <<>>]
    BY <2>2
  <2> QED BY <2>1, <2>2
<1>2. PlanIsWhole(letter)
  BY <1>1, PlanWhole
<1>3. /\ Plan \in Seq([files : Seq(Nat), text : Nat])
      /\ \A n \in 1..Len(Plan) : Len(Plan[n].files) <= ALBUM_LIMIT
  BY <1>2 DEF PlanIsWhole, Plan
<1>4. ALBUM_LIMIT \in Nat /\ ALBUM_LIMIT < APART /\ APART \in Nat /\ APART > 1
  BY SendingAssumption DEF APART
<1> HIDE DEF Plan
<1>5. ASSUME NEW n \in 1..Len(Plan)
      PROVE  /\ Plan[n].files \in Seq(Nat) /\ Plan[n].text \in Nat
             /\ DOMAIN Plan[n].files = 1..Len(Plan[n].files)
             /\ Len(Plan[n].files) < APART /\ Len(Plan[n].files) \in Nat
             /\ Size(n) \in 1..(APART - 1)
             /\ Plan[n].files # <<>> => Size(n) = Len(Plan[n].files)
  <2>1. Plan[n] \in [files : Seq(Nat), text : Nat] /\ Len(Plan[n].files) <= ALBUM_LIMIT
    <3>1. \A S : \A q \in Seq(S) : \A m \in 1..Len(q) : q[m] \in S
      OBVIOUS
    <3> QED BY <1>3, <3>1
  <2>2. Plan[n].files \in Seq(Nat) /\ Plan[n].text \in Nat
    BY <2>1
  <2>3. Len(Plan[n].files) \in Nat /\ DOMAIN Plan[n].files = 1..Len(Plan[n].files)
    BY <2>2
  <2>4. Plan[n].files # <<>> => Len(Plan[n].files) > 0
    BY <2>2
  <2> QED BY <1>4, <2>1, <2>2, <2>3, <2>4 DEF Size
<1> QED BY <1>2, <1>3, <1>5

(* What the current call sends, by its ids; and that it is what the plan   *)
(* has there.                                                              *)
LEMMA SendsShape ==
  ASSUME SendTypes, CallShape, Running
  PROVE  /\ Sends \in Seq(Message) /\ Len(Sends) \in Nat /\ DOMAIN Sends = 1..Len(Sends)
         /\ Len(Sends) = IF call.apart # "text" /\ call.item = 0 THEN Size(call.step) ELSE 1
         /\ \A i \in 1..Len(Sends) : Sends[i].id = SendId(i)
         /\ ~TooLong => \A i \in 1..Len(Sends) : Fits(Sends[i])
<1> DEFINE n == call.step
           doc == Plan[n]
           text == IF call.apart = "no" THEN doc.text ELSE 0
           One(i) == [id |-> <<n, i>>, file |-> doc.files[i], text |-> IF i = 1 THEN text ELSE 0]
<1>1. /\ n \in 1..Len(Plan) /\ n \in Nat
      /\ call.item \in Nat /\ call.apart \in {"no", "text", "done"}
      /\ letter \in Letter \cup {[text |-> 0, kinds |-> <<>>]} /\ tight \in BOOLEAN
  BY DEF SendTypes, Running
<1>2. /\ doc.files \in Seq(Nat) /\ doc.text \in Nat
      /\ DOMAIN doc.files = 1..Len(doc.files) /\ Len(doc.files) \in Nat
      /\ Size(n) \in 1..(APART - 1) /\ APART \in Nat
      /\ doc.files # <<>> => Size(n) = Len(doc.files)
  BY <1>1, PlanFacts DEF APART
<1>3. /\ call.apart = "text" => call.item = 0
      /\ call.apart # "no" => tight /\ doc.files # <<>> /\ doc.text # 0
      /\ call.item > 0 => call.item \in 1..Len(doc.files) /\ doc.files # <<>>
  <2>1. call.item > 0 => Len(doc.files) > 1 /\ call.item <= Len(doc.files)
    BY DEF CallShape, Doing
  <2>2. <<>> \in Seq(Nat) /\ Len(<<>>) = 0
    OBVIOUS
  <2> QED BY <1>1, <1>2, <2>1, <2>2 DEF CallShape, Captioned
<1>4. TooLong <=> tight /\ doc.files # <<>> /\ doc.text # 0 /\ call.apart = "no" /\ call.item \in {0, 1}
  BY DEF TooLong, Doing
<1>5. SendId(1) \in Nat \X Nat /\ \A i \in 1..Len(doc.files) : One(i) \in Message
  <2>1. \A i \in 1..Len(doc.files) : doc.files[i] \in Nat
    BY <1>2
  <2> QED BY <1>1, <1>2, <2>1 DEF SendId, Message
<1>6. CASE call.apart = "text"
  <2> DEFINE s == [id |-> <<n, APART>>, file |-> 0, text |-> doc.text]
  <2>1. Sends = <<s>>
    BY <1>6 DEF Sends, StepId, Doing
  <2>2. SendId(1) = <<n, APART>>
    BY <1>6 DEF SendId
  <2>3. s \in Message
    BY <1>1, <1>2 DEF Message
  <2>4. FitsIn(Plan, tight, s)
    BY <1>1, <1>3, <1>6 DEF FitsIn
  <2>5. s.id = SendId(1)
    BY <2>2
  <2> HIDE DEF s
  <2>6. /\ Sends \in Seq(Message) /\ Len(Sends) = 1 /\ DOMAIN Sends = 1..1
        /\ Sends[1] = s
    BY <2>1, <2>3
  <2> QED BY <1>6, <2>4, <2>5, <2>6 DEF Fits
<1>7. CASE call.apart # "text" /\ doc.files = <<>>
  <2> DEFINE s == [id |-> <<n, 1>>, file |-> 0, text |-> doc.text]
  <2>1. Sends = <<s>>
    BY <1>7 DEF Sends, StepId, Doing
  <2>2. SendId(1) = <<n, 1>> /\ call.item = 0
    BY <1>1, <1>3, <1>7 DEF SendId
  <2>3. s \in Message
    BY <1>1, <1>2 DEF Message
  <2>4. FitsIn(Plan, tight, s)
    BY <1>1, <1>7 DEF FitsIn
  <2>5. s.id = SendId(1)
    BY <2>2
  <2> HIDE DEF s
  <2>6. /\ Sends \in Seq(Message) /\ Len(Sends) = 1 /\ DOMAIN Sends = 1..1
        /\ Sends[1] = s
    BY <2>1, <2>3
  <2>7. Size(n) = 1
    BY <1>7 DEF Size
  <2> QED BY <1>7, <2>2, <2>4, <2>5, <2>6, <2>7 DEF Fits
<1>8. CASE call.apart # "text" /\ doc.files # <<>> /\ call.item = 0
  <2>1. Sends = [i \in DOMAIN doc.files |-> One(i)]
    BY <1>8 DEF Sends, StepId, Doing
  <2>2. \A i : SendId(i) = <<n, i>>
    BY <1>8 DEF SendId
  <2>3. \A i \in 1..Len(doc.files) : One(i).id = SendId(i) /\ (~TooLong => FitsIn(Plan, tight, One(i)))
    <3> TAKE i \in 1..Len(doc.files)
    <3>1. One(i).id = <<n, i>> /\ One(i).file = doc.files[i] /\ One(i).text = IF i = 1 THEN text ELSE 0
      OBVIOUS
    <3>2. ~TooLong => (IF i = 1 THEN text ELSE 0) = IF i = 1 /\ ~tight THEN doc.text ELSE 0
      BY <1>1, <1>3, <1>4, <1>8
    <3> HIDE DEF One
    <3> QED BY <1>1, <1>2, <2>2, <3>1, <3>2 DEF FitsIn
  <2> HIDE DEF One
  <2>4. /\ Sends \in Seq(Message) /\ Len(Sends) = Len(doc.files) /\ DOMAIN Sends = 1..Len(Sends)
        /\ \A i \in 1..Len(Sends) : Sends[i] = One(i)
    BY <1>2, <1>5, <2>1
  <2> QED BY <1>2, <1>8, <2>3, <2>4 DEF Fits
<1>9. CASE call.apart # "text" /\ doc.files # <<>> /\ call.item # 0
  <2> DEFINE s == One(call.item)
  <2>1. Sends = <<s>>
    BY <1>9 DEF Sends, StepId, Doing
  <2>2. SendId(1) = <<n, call.item>> /\ call.item > 0 /\ call.item \in 1..Len(doc.files)
    BY <1>1, <1>3, <1>9 DEF SendId
  <2>3. s \in Message /\ s.id = SendId(1)
    BY <1>5, <2>2
  <2>4. ~TooLong => FitsIn(Plan, tight, s)
    <3>1. s.id = <<n, call.item>> /\ s.file = doc.files[call.item]
          /\ s.text = IF call.item = 1 THEN text ELSE 0
      OBVIOUS
    <3>2. ~TooLong => (IF call.item = 1 THEN text ELSE 0) = IF call.item = 1 /\ ~tight THEN doc.text ELSE 0
      BY <1>1, <1>3, <1>4, <1>9
    <3> HIDE DEF s
    <3> QED BY <1>1, <1>2, <2>2, <3>1, <3>2 DEF FitsIn
  <2> HIDE DEF s
  <2>5. /\ Sends \in Seq(Message) /\ Len(Sends) = 1 /\ DOMAIN Sends = 1..1
        /\ Sends[1] = s
    BY <2>1, <2>3
  <2> QED BY <1>9, <2>3, <2>4, <2>5 DEF Fits
<1> QED BY <1>6, <1>7, <1>8, <1>9

(* What Telegram has seen stays seen, and stays what the plan says.        *)
LEMMA SameShown ==
  ASSUME UNCHANGED <<sent, shown>>
  PROVE  /\ Plan' = Plan /\ tight' = tight /\ shown' = shown
         /\ \A n : Size(n)' = Size(n) /\ Captioned(n)' = Captioned(n)
         /\ \A id : Seen(id)' = Seen(id)
         /\ \A n : Complete(n)' = Complete(n)
         /\ ShownFits => ShownFits'
<1>1. Plan' = Plan /\ tight' = tight /\ shown' = shown
  BY DEF Plan, sent
<1>2. \A n : Size(n)' = Size(n) /\ Captioned(n)' = Captioned(n)
  BY <1>1 DEF Size, Captioned
<1>3. \A id : Seen(id)' = Seen(id)
  BY <1>1 DEF Seen
<1>4. \A n : Complete(n)' = Complete(n)
  BY <1>2, <1>3 DEF Complete
<1>5. ShownFits => ShownFits'
  BY <1>1 DEF ShownFits, Fits
<1> QED BY <1>1, <1>2, <1>3, <1>4, <1>5

(* What one call adds: the messages it sends, none of them known before.   *)
LEMMA MoreShown ==
  ASSUME SendTypes, CallShape, ShownFits, Running, ~Duplicate, ~TooLong,
         UNCHANGED sent, shown' = shown \o Sends
  PROVE  /\ Plan' = Plan /\ tight' = tight
         /\ shown' \in Seq(Message) /\ Len(shown') = Len(shown) + Len(Sends)
         /\ Len(shown) \in Nat /\ DOMAIN shown = 1..Len(shown) /\ DOMAIN shown' = 1..Len(shown')
         /\ \A k \in 1..Len(shown) : k \in 1..Len(shown') /\ shown'[k] = shown[k]
         /\ \A k \in 1..Len(shown') : k \in 1..Len(shown) \/ k - Len(shown) \in 1..Len(Sends)
         /\ \A k \in 1..Len(shown') : k \notin 1..Len(shown) => shown'[k] = Sends[k - Len(shown)]
         /\ \A i \in 1..Len(Sends) : Len(shown) + i \in 1..Len(shown')
         /\ \A i \in 1..Len(Sends) : ~Seen(SendId(i))
         /\ \A id : Seen(id)' <=> Seen(id) \/ \E i \in 1..Len(Sends) : id = SendId(i)
         /\ \A n : Size(n)' = Size(n) /\ Captioned(n)' = Captioned(n)
         /\ \A n : Complete(n) => Complete(n)'
         /\ ShownFits'
<1>1. Plan' = Plan /\ tight' = tight
  BY DEF Plan, sent
<1>2. shown \in Seq(Message) /\ Len(shown) \in Nat /\ DOMAIN shown = 1..Len(shown)
  BY DEF SendTypes
<1>3. /\ Sends \in Seq(Message) /\ Len(Sends) \in Nat /\ DOMAIN Sends = 1..Len(Sends)
      /\ \A i \in 1..Len(Sends) : Sends[i].id = SendId(i) /\ Fits(Sends[i])
      /\ Len(Sends) = IF call.apart # "text" /\ call.item = 0 THEN Size(call.step) ELSE 1
  BY SendsShape
<1> DEFINE L == Len(shown)
           M == Len(Sends)
           q == Sends
<1> HIDE DEF q
<1>4. /\ shown' \in Seq(Message) /\ Len(shown') = L + M /\ DOMAIN shown' = 1..Len(shown')
      /\ \A k \in 1..(L + M) : shown'[k] = IF k <= L THEN shown[k] ELSE Sends[k - L]
  <2>1. \A S : \A s, t \in Seq(S) : /\ s \o t \in Seq(S) /\ Len(s \o t) = Len(s) + Len(t)
                                    /\ DOMAIN (s \o t) = 1..(Len(s) + Len(t))
                                    /\ \A k \in 1..(Len(s) + Len(t)) :
                                         (s \o t)[k] = IF k <= Len(s) THEN s[k] ELSE t[k - Len(s)]
    OBVIOUS
  <2> HIDE DEF Message
  <2>2. q \in Seq(Message) /\ shown' = shown \o q
    BY <1>3 DEF q
  <2> QED BY <1>2, <2>1, <2>2 DEF q
<1> HIDE DEF L, M
<1>5. L \in Nat /\ M \in Nat
  BY <1>2, <1>3 DEF L, M
<1>6. /\ \A k \in 1..L : k \in 1..Len(shown') /\ shown'[k] = shown[k]
      /\ \A k \in 1..Len(shown') : k \in 1..L \/ k - L \in 1..M
      /\ \A k \in 1..Len(shown') : k \notin 1..L => shown'[k] = Sends[k - L]
      /\ \A i \in 1..M : L + i \in 1..Len(shown')
  <2>1. \A k \in 1..L : k \in 1..(L + M) /\ k <= L
    BY <1>5
  <2>2. \A k \in 1..(L + M) : k \in 1..L \/ k - L \in 1..M
    BY <1>5
  <2>3. \A k \in 1..(L + M) : k \notin 1..L => ~(k <= L)
    BY <1>5
  <2>4. \A i \in 1..M : L + i \in 1..(L + M)
    BY <1>5
  <2> QED BY <1>4, <2>1, <2>2, <2>3, <2>4
<1>7. \A i \in 1..M : shown'[L + i] = Sends[i]
  <2> TAKE i \in 1..M
  <2> DEFINE k == L + i
  <2>1. k \in 1..Len(shown') /\ k \notin 1..L /\ k - L = i
    <3>1. L + i \in 1..Len(shown')
      BY <1>6
    <3>2. L + i \notin 1..L /\ L + i - L = i
      BY <1>5
    <3>3. k = L + i
      OBVIOUS
    <3> HIDE DEF k
    <3>4. k \in 1..Len(shown')
      BY <3>1, <3>3
    <3>5. k \notin 1..L
      BY <3>2, <3>3
    <3>6. k - L = i
      BY <1>5, <3>3
    <3> QED BY <3>4, <3>5, <3>6
  <2> HIDE DEF k
  <2> QED BY <1>6, <2>1 DEF k
<1>8. \A i \in 1..M : ~Seen(SendId(i))
  BY <1>3 DEF Duplicate, M
<1>9. ASSUME NEW id PROVE Seen(id)' <=> Seen(id) \/ \E i \in 1..M : id = SendId(i)
  <2>1. Seen(id) => Seen(id)'
    BY <1>2, <1>4, <1>6 DEF Seen, L
  <2>2. (\E i \in 1..M : id = SendId(i)) => Seen(id)'
    <3> SUFFICES ASSUME NEW i \in 1..M, id = SendId(i) PROVE Seen(id)'
      OBVIOUS
    <3>1. L + i \in DOMAIN shown'
      BY <1>4, <1>6
    <3>2. shown'[L + i] = Sends[i] /\ Sends[i].id = id
      BY <1>3, <1>7 DEF M
    <3>3. shown'[L + i].id = id
      BY <3>2
    <3> QED BY <3>1, <3>3 DEF Seen
  <2>3. ASSUME NEW k \in 1..Len(shown'), shown'[k].id = id, k \notin 1..L PROVE \E i \in 1..M : id = SendId(i)
    BY <1>3, <1>6, <2>3 DEF M
  <2>4. Seen(id)' => Seen(id) \/ \E i \in 1..M : id = SendId(i)
    <3> SUFFICES ASSUME NEW k \in 1..Len(shown'), shown'[k].id = id
                 PROVE  Seen(id) \/ \E i \in 1..M : id = SendId(i)
      BY <1>4 DEF Seen
    <3>1. CASE k \in 1..L
      BY <1>2, <1>6, <3>1 DEF Seen, L
    <3> QED BY <2>3, <3>1
  <2> QED BY <2>1, <2>2, <2>4
<1>10. \A n : Size(n)' = Size(n) /\ Captioned(n)' = Captioned(n)
  BY <1>1 DEF Size, Captioned
<1>11. \A n : Complete(n) => Complete(n)'
  BY <1>9, <1>10 DEF Complete
<1>12. \A k \in 1..Len(shown') : Fits(shown'[k])
  <2> TAKE k \in 1..Len(shown')
  <2>1. CASE k \in 1..L
    BY <1>2, <1>6, <2>1 DEF ShownFits, L
  <2>2. CASE k \notin 1..L
    BY <1>3, <1>6, <2>2 DEF M
  <2> QED BY <2>1, <2>2
<1>13. \A i, j \in 1..M : SendId(i) = SendId(j) => i = j
  BY <1>3 DEF SendId, M
<1>14. ASSUME NEW j \in 1..Len(shown'), NEW k \in 1..Len(shown'), shown'[j].id = shown'[k].id PROVE j = k
  <2>1. CASE j \in 1..L /\ k \in 1..L
    BY <1>2, <1>6, <1>14, <2>1 DEF ShownFits, L
  <2>2. ASSUME NEW a \in 1..L, NEW b \in 1..Len(shown'), b \notin 1..L, shown'[a].id = shown'[b].id PROVE FALSE
    <3>1. b - L \in 1..M /\ shown'[b].id = SendId(b - L)
      BY <1>3, <1>6, <2>2 DEF M
    <3>2. shown[a].id = SendId(b - L) /\ a \in DOMAIN shown
      BY <1>2, <1>6, <2>2, <3>1 DEF L
    <3> QED BY <1>8, <3>1, <3>2 DEF Seen
  <2>3. CASE j \notin 1..L /\ k \notin 1..L
    <3>1. j - L \in 1..M /\ k - L \in 1..M
      BY <1>6, <2>3
    <3>2. shown'[j].id = SendId(j - L) /\ shown'[k].id = SendId(k - L)
      BY <1>3, <1>6, <2>3, <3>1 DEF M
    <3>3. j - L = k - L
      BY <1>13, <1>14, <3>1, <3>2
    <3> QED BY <1>4, <1>5, <3>3
  <2> QED BY <1>14, <2>1, <2>2, <2>3
<1>15. ShownFits'
  BY <1>1, <1>4, <1>12, <1>14 DEF ShownFits, Fits
<1> QED BY <1>1, <1>2, <1>4, <1>6, <1>8, <1>9, <1>10, <1>11, <1>15 DEF L, M

LEMMA CallFields ==
  /\ NoCall = AtStep(0)
  /\ \A n : /\ AtStep(n) = [step |-> n, item |-> 0, apart |-> "no", got |-> <<>>]
            /\ AtStep(n).step = n /\ AtStep(n).item = 0 /\ AtStep(n).apart = "no" /\ AtStep(n).got = <<>>
  /\ NoCall.step = 0 /\ NoCall.item = 0 /\ NoCall.apart = "no" /\ NoCall.got = <<>>
BY DEF NoCall, AtStep

(* A call that begins with a step, or is none, has nothing behind it in    *)
(* the step.                                                               *)
LEMMA FreshCall ==
  ASSUME NEW n \in Nat, call' = AtStep(n), Len(Plan') \in Nat, n <= Len(Plan') + 1, fate' # "queued" => n = 0
  PROVE  /\ CallShape' /\ call'.step = n /\ call'.item = 0 /\ call'.apart = "no"
         /\ call' \in [step : 0..Len(Plan') + 1, item : Nat, apart : {"no", "text", "done"},
                       got : Seq(DOMAIN shown')]
<1>1. call' = [step |-> n, item |-> 0, apart |-> "no", got |-> <<>>]
  BY CallFields
<1>2. call'.step = n /\ call'.item = 0 /\ call'.apart = "no" /\ call'.got = <<>>
  BY <1>1
<1>3. CallShape'
  BY <1>2, CallFields DEF CallShape
<1>4. <<>> \in Seq(DOMAIN shown')
  OBVIOUS
<1> QED BY <1>1, <1>2, <1>3, <1>4

\* Whatever runs is a message that is queued.
LEMMA RunningFacts ==
  ASSUME SendTypes, CallShape, Running
  PROVE  /\ fate = "queued" /\ call.step \in 1..Len(Plan) /\ call.step \in Nat /\ call.item \in Nat
         /\ letter \in Letter /\ Len(Plan) \in Nat /\ PlanIsWhole(letter)
         /\ Size(call.step) \in 1..(APART - 1) /\ APART \in Nat
         /\ Plan[call.step].files # <<>> => Size(call.step) = Len(Plan[call.step].files)
         /\ call.item > 0 => call.item <= Size(call.step)
         /\ Len(Sends) \in Nat
<1>1. call.step \in 1..Len(Plan) /\ call.step # 0
  BY DEF Running
<1>2. fate = "queued"
  BY <1>1, CallFields DEF CallShape
<1>3. letter \in Letter /\ call.item \in Nat
  BY <1>2 DEF SendTypes
<1>4. /\ Len(Plan) \in Nat /\ PlanIsWhole(letter)
      /\ Size(call.step) \in 1..(APART - 1) /\ APART \in Nat
      /\ Plan[call.step].files # <<>> => Size(call.step) = Len(Plan[call.step].files)
      /\ Plan[call.step].files \in Seq(Nat)
  BY <1>1, <1>3, PlanFacts DEF APART
<1>5. call.item > 0 => call.item <= Size(call.step)
  <2> SUFFICES ASSUME call.item > 0 PROVE call.item <= Size(call.step)
    OBVIOUS
  <2>1. Len(Plan[call.step].files) > 1 /\ call.item <= Len(Plan[call.step].files)
    BY DEF CallShape, Doing
  <2>2. Plan[call.step].files # <<>>
    BY <2>1
  <2> QED BY <1>4, <2>1, <2>2
<1> QED BY <1>1, <1>2, <1>3, <1>4, <1>5, SendsShape

(* The first time through nothing is a duplicate; later, a step whose      *)
(* messages are known has arrived, unless a torn album is behind.          *)
LEMMA FirstIsNew ==
  ASSUME SendInv, Running, breaks = 0
  PROVE  ~Duplicate
<1> SUFFICES ASSUME NEW i \in DOMAIN Sends, NEW k \in DOMAIN shown, shown[k].id = Sends[i].id
             PROVE  FALSE
  BY DEF Duplicate, Seen
<1>1. shown[k].id = SendId(i) /\ i \in 1..Len(Sends) /\ i \in Nat
  BY SendsShape DEF SendInv
<1>2. fate = "queued" /\ Size(call.step) \in 1..(APART - 1) /\ APART \in Nat
      /\ (call.item > 0 => call.item <= Size(call.step)) /\ call.item \in Nat /\ call.step \in Nat
  BY RunningFacts DEF SendInv
<1>3. \/ shown[k].id[1] < call.step
      \/ /\ shown[k].id[1] = call.step
         /\ IF shown[k].id[2] = APART THEN call.apart = "done" ELSE shown[k].id[2] < call.item
  BY <1>2 DEF SendInv, FirstTime
<1>4. shown[k].id[1] = call.step
      /\ shown[k].id[2] = IF call.apart = "text" THEN APART ELSE IF call.item > 0 THEN call.item ELSE i
  BY <1>1 DEF SendId
<1>5. call.apart # "text" => i <= Size(call.step)
  <2>1. Len(Sends) = IF call.apart # "text" /\ call.item = 0 THEN Size(call.step) ELSE 1
    BY SendsShape DEF SendInv
  <2> QED BY <1>1, <1>2, <2>1
<1> QED BY <1>1, <1>2, <1>3, <1>4, <1>5

LEMMA DuplicateIsDone ==
  ASSUME SendInv, Running, Duplicate, call.apart = "no"
  PROVE  Torn \/ Complete(call.step)
<1> SUFFICES ASSUME ~Torn PROVE Complete(call.step)
  OBVIOUS
<1>1. breaks > 0
  <2>1. breaks # 0
    BY FirstIsNew
  <2> QED BY <2>1, SendingAssumption DEF SendInv, SendTypes
<1>2. call.item = 0
  <2>1. "split" \notin mishaps
    BY <1>1 DEF Torn
  <2> QED BY <2>1, RunningFacts DEF SendInv, CallShape
<1>3. PICK i \in 1..Len(Sends), k \in DOMAIN shown : shown[k].id = SendId(i)
  BY SendsShape DEF SendInv, Duplicate, Seen
<1>4. shown[k].id[1] = call.step /\ shown[k].id[2] = i /\ i \in Nat
  <2>1. SendId(i) = <<call.step, i>>
    BY <1>2 DEF SendId
  <2> QED BY <1>3, <2>1
<1>5. i # APART
  <2>1. Len(Sends) = Size(call.step)
    BY <1>2, SendsShape DEF SendInv
  <2> QED BY <1>4, <2>1, RunningFacts DEF SendInv
<1>6. Complete(call.step) \/ i < call.item
  BY <1>4, <1>5 DEF SendInv, DoneSoFar
<1> QED BY <1>2, <1>4, <1>6

LEMMA ComposeKeeps == ASSUME SendInv, Compose PROVE SendInv'
<1>1. fate = "new" /\ call = NoCall /\ shown = <<>> /\ breaks = 0 /\ mishaps = {} /\ tries = 0
  BY DEF SendInv, SendTypes, Compose
<1>2. fate' = "queued" /\ call' = NoCall /\ shown' = <<>> /\ breaks' = 0 /\ mishaps' = {} /\ tries' = 0
      /\ letter' \in Letter /\ tight' \in BOOLEAN /\ bad' \subseteq DOMAIN letter'.kinds /\ ids' = ids
  BY <1>1 DEF Compose
<1>3. Len(Plan') \in Nat
  <2> DEFINE w == letter'
  <2>1. w \in Letter
    BY <1>2
  <2>2. w.text \in Nat /\ w.kinds \in Seq(Kind)
    BY <2>1, SendingAssumption DEF Kind
  <2>3. PlanIsWhole(w)
    <3> HIDE DEF w
    <3> QED BY <2>2, PlanWhole
  <2>4. Plan' = PlanOf(w)
    BY DEF Plan
  <2>5. PlanOf(w) \in Seq([files : Seq(Nat), text : Nat])
    BY <2>3 DEF PlanIsWhole
  <2> HIDE DEF w
  <2> QED BY <2>4, <2>5
<1>4. /\ CallShape' /\ call'.step = 0 /\ call'.item = 0 /\ call'.apart = "no"
      /\ call' \in [step : 0..Len(Plan') + 1, item : Nat, apart : {"no", "text", "done"},
                    got : Seq(DOMAIN shown')]
  BY <1>2, <1>3, CallFields, FreshCall
<1>5. SendTypes'
  <2>1. ids' \in Seq(DOMAIN shown')
    BY <1>1, <1>2 DEF SendInv, SendTypes
  <2>2. shown' \in Seq(Message)
    BY <1>2
  <2>3. tries' \in 0..MaxTries /\ breaks' \in 0..MaxBreaks /\ tries' < MaxTries
    BY <1>2, SendingAssumption
  <2>4. mishaps' \subseteq {"split", "apart", "blind"} /\ fate' \in {"new", "queued", "sent", "failed"} /\ fate' # "new"
    BY <1>2
  <2> QED BY <1>2, <1>4, <2>1, <2>2, <2>3, <2>4 DEF SendTypes
<1>6. DOMAIN shown' = {}
  BY <1>2
<1>7. ShownFits' /\ FirstTime' /\ Arrived'
  BY <1>2, <1>6 DEF ShownFits, FirstTime, Arrived
<1>8. DoneSoFar'
  BY <1>4, <1>6 DEF DoneSoFar
<1>9. Known'
  <2>1. ids' = <<>>
    BY <1>1, <1>2 DEF SendInv, SendTypes
  <2> QED BY <1>2, <1>4, <1>6, <2>1 DEF Known
<1> QED BY <1>4, <1>5, <1>7, <1>8, <1>9 DEF SendInv

\* The invariant of the numbers, if no message is known by a caption alone.
LEMMA BelowFirst ==
  ASSUME SendTypes, ShownFits
  PROVE  /\ DOMAIN shown = 1..Len(shown) /\ Len(shown) \in Nat
         /\ {k \in DOMAIN shown : shown[k].id[1] < 1} = {}
         /\ {k \in DOMAIN shown : shown[k].id[1] < Len(Plan) + 1} = DOMAIN shown
         /\ \A k \in DOMAIN shown : shown[k].id[1] \in 1..Len(Plan) /\ shown[k].id[2] \in Nat
                                    /\ shown[k].id = <<shown[k].id[1], shown[k].id[2]>>
<1>1. DOMAIN shown = 1..Len(shown) /\ Len(shown) \in Nat
  BY DEF SendTypes
<1>2. \A k \in DOMAIN shown : shown[k].id[1] \in 1..Len(Plan) /\ shown[k].id[2] \in Nat
                              /\ shown[k].id = <<shown[k].id[1], shown[k].id[2]>>
  <2> TAKE k \in DOMAIN shown
  <2>1. shown[k] \in Message
    BY DEF SendTypes
  <2>2. shown[k].id \in Nat \X Nat
    BY <2>1 DEF Message
  <2>3. PICK n \in 1..Len(Plan) : \E x : shown[k].id = <<n, x>>
    BY DEF ShownFits, Fits, FitsIn
  <2> QED BY <2>2, <2>3
<1>3. Len(Plan) \in Nat
  BY PlanFacts DEF SendTypes
<1> QED BY <1>1, <1>2, <1>3

LEMMA StartKeeps == ASSUME SendInv, StartAttempt PROVE SendInv'
<1>1. fate = "queued" /\ call' = AtStep(1) /\ ids' = <<>> /\ fate' = fate /\ tries' = tries
      /\ shown' = shown /\ breaks' = breaks /\ mishaps' = mishaps /\ call = NoCall
      /\ letter' = letter /\ tight' = tight /\ bad' = bad
  BY DEF StartAttempt, sent
<1>2. Len(Plan) \in Nat
  BY PlanFacts DEF SendInv, SendTypes
<1>s. /\ Plan' = Plan /\ \A n : Complete(n)' = Complete(n)
      /\ \A id : Seen(id)' = Seen(id) /\ ShownFits'
  BY <1>1, SameShown DEF sent, SendInv
<1>3. /\ CallShape' /\ call'.step = 1 /\ call'.item = 0 /\ call'.apart = "no"
      /\ call' \in [step : 0..Len(Plan') + 1, item : Nat, apart : {"no", "text", "done"},
                    got : Seq(DOMAIN shown')]
  BY <1>1, <1>2, <1>s, FreshCall
<1>4. SendTypes'
  <2>1. ids' \in Seq(DOMAIN shown')
    BY <1>1
  <2> QED BY <1>1, <1>3, <2>1 DEF SendInv, SendTypes
<1>5. call.step = 0 /\ call.item = 0 /\ call.apart = "no"
  BY <1>1, CallFields
<1>6. DoneSoFar'
  <2>1. Torn' = Torn
    BY <1>1 DEF Torn
  <2>2. \A k \in DOMAIN shown : shown[k].id[1] \in 1..Len(Plan) /\ shown[k].id[2] \in Nat
    BY BelowFirst DEF SendInv
  <2>3. ~Torn => \A k \in DOMAIN shown : shown[k].id[2] # APART => Complete(shown[k].id[1])
    BY <1>5, <2>2 DEF SendInv, DoneSoFar
  <2> QED BY <1>1, <1>3, <1>s, <2>1, <2>3 DEF DoneSoFar
<1>7. FirstTime'
  <2>1. \A k \in DOMAIN shown : shown[k].id[1] \in 1..Len(Plan)
    BY BelowFirst DEF SendInv
  <2>2. breaks = 0 => DOMAIN shown = {}
    <3>1. breaks = 0 => \A k \in DOMAIN shown : shown[k].id[1] <= call.step
      BY <1>1, <1>2, <1>5, <2>1 DEF SendInv, FirstTime
    <3>2. \A k \in DOMAIN shown : shown[k].id[1] \in Int /\ shown[k].id[1] >= 1
      BY <1>2, <2>1
    <3>3. ASSUME breaks = 0, NEW k \in DOMAIN shown PROVE FALSE
      BY <1>5, <3>1, <3>2, <3>3
    <3> QED BY <3>3
  <2> QED BY <1>1, <2>2 DEF FirstTime
<1>8. Arrived'
  BY <1>1 DEF Arrived
<1>9. Known'
  <2>1. {k \in DOMAIN shown : shown[k].id[1] < 1} = {}
    BY BelowFirst DEF SendInv
  <2>2. Len(ids') = 0 /\ DOMAIN ids' = {}
    BY <1>1
  <2>3. mishaps = {} => \A k \in DOMAIN shown : shown[k].id[2] # APART
    BY DEF SendInv, Known
  <2>4. Cardinality({k \in DOMAIN shown : shown[k].id[1] < 1}) = 0
    BY <2>1, FS_EmptySet
  <2>5. {k \in DOMAIN shown' : shown'[k].id[1] < call'.step} = {k \in DOMAIN shown : shown[k].id[1] < 1}
    BY <1>1, <1>3
  <2> QED BY <1>1, <2>2, <2>3, <2>4, <2>5 DEF Known
<1> QED BY <1>3, <1>4, <1>6, <1>7, <1>8, <1>9, <1>s DEF SendInv

LEMMA FinishKeeps == ASSUME SendInv, Finish PROVE SendInv'
<1>1. fate = "queued" /\ call' = NoCall /\ ids' = ids /\ fate' = "sent" /\ tries' = tries
      /\ shown' = shown /\ breaks' = breaks /\ mishaps' = mishaps /\ call.step > Len(Plan)
      /\ letter' = letter /\ tight' = tight /\ bad' = bad
  BY DEF Finish, sent
<1>2. Len(Plan) \in Nat /\ call.step = Len(Plan) + 1
  <2>1. Len(Plan) \in Nat /\ call.step \in 0..Len(Plan) + 1
    BY PlanFacts DEF SendInv, SendTypes
  <2> QED BY <1>1, <2>1
<1>s. /\ Plan' = Plan /\ \A n : Complete(n)' = Complete(n)
      /\ \A id : Seen(id)' = Seen(id) /\ ShownFits'
  BY <1>1, SameShown DEF sent, SendInv
<1>3. /\ CallShape' /\ call'.step = 0 /\ call'.item = 0 /\ call'.apart = "no"
      /\ call' \in [step : 0..Len(Plan') + 1, item : Nat, apart : {"no", "text", "done"},
                    got : Seq(DOMAIN shown')]
  BY <1>1, <1>2, <1>s, CallFields, FreshCall
<1>4. SendTypes'
  BY <1>1, <1>3 DEF SendInv, SendTypes
<1>5. call.item = 0 /\ call.apart = "no"
  <2>1. ~Running
    BY <1>1, <1>2 DEF Running
  <2> QED BY <2>1 DEF SendInv, CallShape
<1>6. Torn' = Torn
  BY <1>1 DEF Torn
<1>7. DoneSoFar'
  <2>2. \A k \in DOMAIN shown : shown[k].id[1] \in 1..Len(Plan) /\ shown[k].id[2] \in Nat
    BY BelowFirst DEF SendInv
  <2>3. ~Torn => \A k \in DOMAIN shown : shown[k].id[2] # APART => Complete(shown[k].id[1])
    BY <1>2, <1>5, <2>2 DEF SendInv, DoneSoFar
  <2> QED BY <1>1, <1>3, <1>s, <1>6, <2>3 DEF DoneSoFar
<1>8. FirstTime'
  BY <1>1 DEF FirstTime
<1>9. Arrived'
  <2>1. Torn \/ \A n \in 1..Len(Plan) : Complete(n)
    BY <1>2 DEF SendInv, DoneSoFar
  <2> QED BY <1>s, <1>6, <2>1 DEF Arrived
<1>10. Known'
  <2>1. /\ {k \in DOMAIN shown : shown[k].id[1] < Len(Plan) + 1} = DOMAIN shown
        /\ DOMAIN shown = 1..Len(shown) /\ Len(shown) \in Nat
    BY BelowFirst DEF SendInv
  <2>2. Cardinality(DOMAIN shown) = Len(shown)
    BY <2>1, FS_Interval
  <2>3. mishaps = {} => Len(ids) = Len(shown)
    <3>1. call.step > 0 /\ {k \in DOMAIN shown : shown[k].id[1] < call.step} = DOMAIN shown
      BY <1>2, <2>1
    <3>2. mishaps = {} => Len(ids) = Cardinality({k \in DOMAIN shown : shown[k].id[1] < call.step})
      BY <3>1 DEF SendInv, Known
    <3> QED BY <2>2, <3>1, <3>2
  <2> QED BY <1>1, <1>3, <2>3 DEF SendInv, Known
<1> QED BY <1>3, <1>4, <1>7, <1>8, <1>9, <1>10, <1>s DEF SendInv

LEMMA TakeApartKeeps == ASSUME SendInv, TakeApart PROVE SendInv'
<1>1. Running /\ Rejected /\ call' = [call EXCEPT !.item = 1] /\ mishaps' = mishaps \cup {"split"}
      /\ fate' = fate /\ tries' = tries /\ ids' = ids /\ shown' = shown /\ breaks' = breaks
      /\ letter' = letter /\ tight' = tight /\ bad' = bad
  BY DEF TakeApart, sent
<1>s. /\ Plan' = Plan /\ \A n : Complete(n)' = Complete(n) /\ Captioned(n)' = Captioned(n)
      /\ \A id : Seen(id)' = Seen(id) /\ ShownFits'
  BY <1>1, SameShown DEF sent, SendInv
<1>2. call.apart # "text" /\ call.item = 0 /\ Len(Doing.files) > 1
  BY <1>1 DEF Rejected
<1>3. call \in [step : 0..Len(Plan) + 1, item : Nat, apart : {"no", "text", "done"},
                got : Seq(DOMAIN shown)]
  BY DEF SendInv, SendTypes
<1>4. /\ call'.step = call.step /\ call'.item = 1 /\ call'.apart = call.apart /\ call'.got = call.got
      /\ call' \in [step : 0..Len(Plan') + 1, item : Nat, apart : {"no", "text", "done"},
                    got : Seq(DOMAIN shown')]
  BY <1>1, <1>3, <1>s
<1>5. SendTypes'
  <2>1. mishaps' \subseteq {"split", "apart", "blind"}
    BY <1>1 DEF SendInv, SendTypes
  <2>2. fate # "new"
    BY <1>1, RunningFacts DEF SendInv
  <2> QED BY <1>1, <1>4, <2>1, <2>2 DEF SendInv, SendTypes
<1>6. CallShape'
  <2>1. Running' /\ Doing' = Doing
    BY <1>1, <1>4, <1>s DEF Running, Doing
  <2>2. fate' = "queued" /\ call'.step # 0 /\ 1 <= Len(Doing.files)
    <3>1. fate = "queued" /\ call.step \in 1..Len(Plan)
      BY <1>1, RunningFacts DEF SendInv
    <3>2. Len(Doing.files) \in Nat
      BY <3>1, PlanFacts DEF SendInv, SendTypes, Doing
    <3> QED BY <1>1, <1>2, <1>4, <3>1, <3>2
  <2>3. call'.apart # "no" => Captioned(call.step)' /\ "apart" \in mishaps'
    BY <1>1, <1>4, <1>s DEF SendInv, CallShape
  <2> QED BY <1>1, <1>2, <1>4, <2>1, <2>2, <2>3 DEF CallShape
<1>7. FirstTime'
  <2>1. ASSUME breaks = 0, NEW k \in DOMAIN shown
        PROVE  \/ shown[k].id[1] < call.step
               \/ /\ shown[k].id[1] = call.step
                  /\ IF shown[k].id[2] = APART THEN call.apart = "done" ELSE shown[k].id[2] < 0
    BY <1>1, <1>2, <2>1, RunningFacts DEF SendInv, FirstTime
  <2>2. ASSUME breaks = 0, NEW k \in DOMAIN shown
        PROVE  \/ shown[k].id[1] < call.step
               \/ /\ shown[k].id[1] = call.step
                  /\ IF shown[k].id[2] = APART THEN call.apart = "done" ELSE shown[k].id[2] < 1
    BY <2>1, <2>2, BelowFirst DEF SendInv
  <2> QED BY <1>1, <1>4, <2>2 DEF FirstTime
<1>8. DoneSoFar'
  <2>1. Torn => Torn'
    BY <1>1 DEF Torn
  <2>2. \A n : (\A i \in 1..(1 - 1) : Seen(<<n, i>>))
    OBVIOUS
  <2>3. ~Torn => \A k \in DOMAIN shown : shown[k].id[2] # APART => Complete(shown[k].id[1])
    BY <1>2, BelowFirst DEF SendInv, DoneSoFar
  <2>4. call.apart = "done" => Seen(<<call.step, APART>>)
    BY DEF SendInv, DoneSoFar
  <2>5. ~Torn => \A n \in 1..(call.step - 1) : Complete(n)
    BY DEF SendInv, DoneSoFar
  <2> QED BY <1>1, <1>4, <1>s, <2>1, <2>2, <2>3, <2>4, <2>5 DEF DoneSoFar
<1>9. Arrived' /\ Known'
  BY <1>1, RunningFacts DEF Arrived, Known, SendInv
<1> QED BY <1>5, <1>6, <1>7, <1>8, <1>9, <1>s DEF SendInv

LEMMA CaptionApartKeeps == ASSUME SendInv, CaptionApart PROVE SendInv'
<1>1. Running /\ TooLong /\ call' = [call EXCEPT !.apart = "text", !.item = 0, !.got = <<>>]
      /\ mishaps' = mishaps \cup {"apart"}
      /\ fate' = fate /\ tries' = tries /\ ids' = ids /\ shown' = shown /\ breaks' = breaks
      /\ letter' = letter /\ tight' = tight /\ bad' = bad
  BY DEF CaptionApart, sent
<1>s. /\ Plan' = Plan /\ \A n : Complete(n)' = Complete(n) /\ Captioned(n)' = Captioned(n)
      /\ \A id : Seen(id)' = Seen(id) /\ ShownFits'
  BY <1>1, SameShown DEF sent, SendInv
<1>2. call.apart = "no" /\ call.item \in {0, 1} /\ Captioned(call.step)
  BY <1>1 DEF TooLong, Captioned, Doing
<1>3. call \in [step : 0..Len(Plan) + 1, item : Nat, apart : {"no", "text", "done"},
                got : Seq(DOMAIN shown)]
  BY DEF SendInv, SendTypes
<1>4. /\ call'.step = call.step /\ call'.item = 0 /\ call'.apart = "text" /\ call'.got = <<>>
      /\ call' \in [step : 0..Len(Plan') + 1, item : Nat, apart : {"no", "text", "done"},
                    got : Seq(DOMAIN shown')]
  <2>1. call' = [step |-> call.step, item |-> 0, apart |-> "text", got |-> <<>>]
    BY <1>1, <1>3
  <2>2. <<>> \in Seq(DOMAIN shown')
    OBVIOUS
  <2> QED BY <1>3, <1>s, <2>1, <2>2
<1>5. SendTypes'
  <2>1. mishaps' \subseteq {"split", "apart", "blind"}
    BY <1>1 DEF SendInv, SendTypes
  <2>2. fate # "new"
    BY <1>1, RunningFacts DEF SendInv
  <2> QED BY <1>1, <1>4, <2>1, <2>2 DEF SendInv, SendTypes
<1>6. CallShape'
  <2>1. Running'
    BY <1>1, <1>4, <1>s DEF Running
  <2>2. fate' = "queued" /\ call'.step # 0
    BY <1>1, <1>4, RunningFacts DEF SendInv
  <2>3. Captioned(call.step)'
    BY <1>2, <1>4, <1>s
  <2> QED BY <1>1, <1>4, <2>1, <2>2, <2>3 DEF CallShape
<1>7. FirstTime'
  <2>1. \A k \in DOMAIN shown : shown[k].id[2] \in Nat
    BY BelowFirst DEF SendInv
  <2>2. ASSUME breaks = 0, NEW k \in DOMAIN shown PROVE shown[k].id[1] < call.step
    <3>1. \/ shown[k].id[1] < call.step
          \/ /\ shown[k].id[1] = call.step
             /\ IF shown[k].id[2] = APART THEN call.apart = "done" ELSE shown[k].id[2] < call.item
      BY <1>1, <2>2, RunningFacts DEF SendInv, FirstTime
    <3>2. \A i : shown[k].id = <<call.step, i>> => i # 0
      <4>1. Fits(shown[k])
        BY DEF SendInv, ShownFits
      <4>2. \A n \in 1..Len(Plan) : DOMAIN Plan[n].files = 1..Len(Plan[n].files) /\ Len(Plan[n].files) \in Nat
        BY PlanFacts DEF SendInv, SendTypes
      <4> QED BY <4>1, <4>2 DEF Fits, FitsIn, APART
    <3> QED BY <1>2, <2>1, <3>1, <3>2, BelowFirst DEF SendInv
  <2> QED BY <1>1, <1>4, <2>2 DEF FirstTime
<1>8. DoneSoFar'
  <2>1. Torn' = Torn
    BY <1>1 DEF Torn
  <2>3. ~Torn => \A k \in DOMAIN shown : shown[k].id[2] # APART => Complete(shown[k].id[1])
    <3> SUFFICES ASSUME ~Torn, NEW k \in DOMAIN shown, shown[k].id[2] # APART PROVE Complete(shown[k].id[1])
      OBVIOUS
    <3>1. Complete(shown[k].id[1]) \/ (shown[k].id[1] = call.step /\ shown[k].id[2] < call.item)
      BY DEF SendInv, DoneSoFar
    <3>2. shown[k].id[2] # 0
      <4>1. Fits(shown[k])
        BY DEF SendInv, ShownFits
      <4>2. \A n \in 1..Len(Plan) : DOMAIN Plan[n].files = 1..Len(Plan[n].files) /\ Len(Plan[n].files) \in Nat
        BY PlanFacts DEF SendInv, SendTypes
      <4> QED BY <4>1, <4>2 DEF Fits, FitsIn, APART
    <3> QED BY <1>2, <3>1, <3>2, BelowFirst DEF SendInv
  <2>5. ~Torn => \A n \in 1..(call.step - 1) : Complete(n)
    BY DEF SendInv, DoneSoFar
  <2> QED BY <1>1, <1>4, <1>s, <2>1, <2>3, <2>5 DEF DoneSoFar
<1>9. Arrived' /\ Known'
  BY <1>1, RunningFacts DEF Arrived, Known, SendInv
<1> QED BY <1>5, <1>6, <1>7, <1>8, <1>9, <1>s DEF SendInv

LEMMA EscapedKeeps == ASSUME SendInv, EscapedDuplicate PROVE SendInv'
<1>1. Running /\ Duplicate /\ call.apart # "no" /\ call' = NoCall /\ ids' = <<>> /\ tries' = tries + 1
      /\ fate' = (IF tries' >= MaxTries THEN "failed" ELSE "queued")
      /\ shown' = shown /\ breaks' = breaks /\ mishaps' = mishaps
      /\ letter' = letter /\ tight' = tight /\ bad' = bad
  BY DEF EscapedDuplicate, FailedAttempt, TriesUsed, sent
<1>2. Len(Plan) \in Nat /\ fate = "queued" /\ letter \in Letter
  BY <1>1, RunningFacts DEF SendInv
<1>3. breaks # 0 /\ "apart" \in mishaps
  BY <1>1, FirstIsNew DEF SendInv, CallShape
<1>s. /\ Plan' = Plan /\ \A n : Complete(n)' = Complete(n)
      /\ \A id : Seen(id)' = Seen(id) /\ ShownFits'
  BY <1>1, SameShown DEF sent, SendInv
<1>4. /\ CallShape' /\ call'.step = 0 /\ call'.item = 0 /\ call'.apart = "no"
      /\ call' \in [step : 0..Len(Plan') + 1, item : Nat, apart : {"no", "text", "done"},
                    got : Seq(DOMAIN shown')]
  BY <1>1, <1>2, <1>s, CallFields, FreshCall
<1>5. SendTypes'
  <2>1. tries < MaxTries /\ tries \in Nat /\ MaxTries \in Nat
    BY <1>2, SendingAssumption DEF SendInv, SendTypes
  <2>2. tries' \in 0..MaxTries /\ (fate' = "queued" => tries' < MaxTries)
    BY <1>1, <2>1
  <2>3. ids' \in Seq(DOMAIN shown')
    BY <1>1
  <2>4. fate' \in {"queued", "failed"}
    BY <1>1
  <2> QED BY <1>1, <1>2, <1>4, <2>2, <2>3, <2>4 DEF SendInv, SendTypes
<1>6. DoneSoFar'
  <2>1. Torn' = Torn
    BY <1>1 DEF Torn
  <2>2. ~Torn => \A k \in DOMAIN shown : shown[k].id[2] # APART => Complete(shown[k].id[1])
    <3> SUFFICES ASSUME ~Torn, NEW k \in DOMAIN shown, shown[k].id[2] # APART PROVE Complete(shown[k].id[1])
      OBVIOUS
    <3>1. breaks > 0
      BY <1>3, SendingAssumption DEF SendInv, SendTypes
    <3>2. call.item = 0
      BY <3>1, RunningFacts, <1>1 DEF SendInv, CallShape, Torn
    <3> QED BY <3>2, BelowFirst DEF SendInv, DoneSoFar
  <2> QED BY <1>1, <1>4, <1>s, <2>1, <2>2 DEF DoneSoFar
<1>7. FirstTime' /\ Arrived' /\ Known'
  BY <1>1, <1>3 DEF FirstTime, Arrived, Known
<1> QED BY <1>4, <1>5, <1>6, <1>7, <1>s DEF SendInv

(* The numbers that are asked for again.                                   *)
LEMMA RecoveredIs ==
  ASSUME SendTypes, NEW count \in Nat
  PROVE  LET r == Recovered(count)
             fresh == Cardinality(NewNumbers)
         IN /\ r \in Seq(NewNumbers) /\ fresh \in Nat
            /\ Len(r) = IF count < fresh THEN count ELSE fresh
            /\ DOMAIN r = 1..Len(r)
            /\ \A i, j \in 1..Len(r) : r[i] = r[j] => i = j
<1> DEFINE S == NewNumbers
           F == Cardinality(S)
           w == InOrder(S, Below)
           c == AtMost(count, F)
           r == Recovered(count)
<1>1. S \in SUBSET Nat /\ IsFiniteSet(S)
  <2>1. DOMAIN shown = 1..Len(shown) /\ Len(shown) \in Nat
    BY DEF SendTypes
  <2>2. IsFiniteSet(DOMAIN shown)
    BY <2>1, FS_Interval
  <2> QED BY <2>1, <2>2, FS_Subset DEF NewNumbers
<1> HIDE DEF S
<1>2. /\ F \in Nat /\ w \in [1..F -> S]
      /\ \A m, n \in 1..F : w[m] = w[n] => m = n
  BY <1>1, NumbersInOrder
<1>3. r = SubSeq(w, Len(w) - AtMost(count, Len(w)) + 1, Len(w))
  BY DEF Recovered, S
<1> HIDE DEF w, F, r
<1>4. w \in Seq(S) /\ Len(w) = F /\ DOMAIN w = 1..F
  BY <1>2
<1>5. r = SubSeq(w, F - c + 1, F)
  BY <1>3, <1>4
<1>6. c \in 0..F /\ c = (IF count < F THEN count ELSE F)
  BY <1>2 DEF AtMost
<1> HIDE DEF c
<1>7. /\ r \in Seq(S) /\ Len(r) = c /\ DOMAIN r = 1..c
      /\ \A i \in 1..c : r[i] = w[F - c + i]
  <2>1. \A a, b : a \in 1..(F + 1) /\ b \in (a - 1)..F =>
                    /\ SubSeq(w, a, b) \in Seq(S) /\ Len(SubSeq(w, a, b)) = b - a + 1
                    /\ \A i \in 1..(b - a + 1) : SubSeq(w, a, b)[i] = w[a + i - 1]
    BY <1>2, <1>4
  <2>2. F - c + 1 \in 1..(F + 1) /\ F \in (F - c + 1 - 1)..F /\ F - (F - c + 1) + 1 = c
    BY <1>2, <1>6
  <2>3. \A i \in 1..c : F - c + 1 + i - 1 = F - c + i
    BY <1>2, <1>6
  <2>4. /\ SubSeq(w, F - c + 1, F) \in Seq(S) /\ Len(SubSeq(w, F - c + 1, F)) = c
        /\ \A i \in 1..c : SubSeq(w, F - c + 1, F)[i] = w[F - c + i]
    <3> DEFINE a == F - c + 1
    <3>1. a \in 1..(F + 1) /\ F \in (a - 1)..F /\ F - a + 1 = c /\ \A i \in 1..c : a + i - 1 = F - c + i
      BY <2>2, <2>3
    <3> HIDE DEF a
    <3>2. /\ SubSeq(w, a, F) \in Seq(S) /\ Len(SubSeq(w, a, F)) = c
          /\ \A i \in 1..c : SubSeq(w, a, F)[i] = w[a + i - 1]
      BY <2>1, <3>1
    <3> QED BY <3>1, <3>2 DEF a
  <2> QED BY <1>5, <2>4
<1>8. \A i, j \in 1..c : r[i] = r[j] => i = j
  <2> TAKE i, j \in 1..c
  <2> HAVE r[i] = r[j]
  <2>1. F - c + i \in 1..F /\ F - c + j \in 1..F
    BY <1>2, <1>6
  <2>2. w[F - c + i] = w[F - c + j]
    BY <1>7
  <2>3. F - c + i = F - c + j
    BY <1>2, <2>1, <2>2
  <2> QED BY <1>2, <1>6, <2>3
<1> QED BY <1>2, <1>6, <1>7, <1>8 DEF r, F, S

(* The numbers from 1 to n.                                                *)
LEMMA UpTo == ASSUME NEW n \in Nat PROVE IsFiniteSet(1..n) /\ Cardinality(1..n) = n
<1>1. 1 \in Int /\ n \in Int
  OBVIOUS
<1>2. IsFiniteSet(1..n) /\ Cardinality(1..n) = IF 1 > n THEN 0 ELSE n - 1 + 1
  BY <1>1, FS_Interval
<1> QED BY <1>2

(* Two sequences without repetitions, and nothing in both, one after the   *)
(* other.                                                                  *)
LEMMA Joined ==
  ASSUME NEW S, NEW s \in Seq(S), NEW t \in Seq(S),
         \A i, j \in 1..Len(s) : s[i] = s[j] => i = j,
         \A i, j \in 1..Len(t) : t[i] = t[j] => i = j,
         \A i \in 1..Len(s), j \in 1..Len(t) : s[i] # t[j]
  PROVE  /\ s \o t \in Seq(S) /\ Len(s \o t) = Len(s) + Len(t)
         /\ \A i, j \in DOMAIN (s \o t) : (s \o t)[i] = (s \o t)[j] => i = j
<1> DEFINE q == s \o t
           a == Len(s)
           b == Len(t)
<1>1. /\ q \in Seq(S) /\ Len(q) = a + b /\ DOMAIN q = 1..(a + b) /\ a \in Nat /\ b \in Nat
      /\ \A k \in 1..(a + b) : q[k] = IF k <= a THEN s[k] ELSE t[k - a]
  OBVIOUS
<1> HIDE DEF q, a, b
<1>2. \A k \in 1..(a + b) : \/ k \in 1..a /\ q[k] = s[k]
                            \/ k - a \in 1..b /\ q[k] = t[k - a]
  BY <1>1
<1>3. ASSUME NEW i \in 1..(a + b), NEW j \in 1..(a + b), q[i] = q[j] PROVE i = j
  <2>1. \A m, n \in 1..a : s[m] = s[n] => m = n
    BY DEF a
  <2>2. \A m, n \in 1..b : t[m] = t[n] => m = n
    BY DEF b
  <2>3. \A m \in 1..a, n \in 1..b : s[m] # t[n]
    BY DEF a, b
  <2>4. CASE i \in 1..a /\ q[i] = s[i]
    <3>1. ~(j - a \in 1..b /\ q[j] = t[j - a])
      BY <1>3, <2>3, <2>4
    <3>2. j \in 1..a /\ q[j] = s[j]
      BY <1>2, <3>1
    <3> QED BY <1>3, <2>1, <2>4, <3>2
  <2>5. CASE i - a \in 1..b /\ q[i] = t[i - a]
    <3>1. ~(j \in 1..a /\ q[j] = s[j])
      BY <1>3, <2>3, <2>5
    <3>2. j - a \in 1..b /\ q[j] = t[j - a]
      BY <1>2, <3>1
    <3>3. i - a = j - a
      BY <1>3, <2>2, <2>5, <3>2
    <3> QED BY <1>1, <3>3
  <2> QED BY <1>2, <2>4, <2>5
<1> QED BY <1>1, <1>3 DEF q, a, b

(* A sequence without repetitions has as many members as it is long.       *)
LEMMA Distinct ==
  ASSUME NEW S, NEW q \in Seq(S), \A i, j \in DOMAIN q : q[i] = q[j] => i = j
  PROVE  /\ IsFiniteSet({q[i] : i \in DOMAIN q})
         /\ Cardinality({q[i] : i \in DOMAIN q}) = Len(q)
<1> DEFINE T == {q[i] : i \in DOMAIN q}
           D == 1..Len(q)
<1>1. DOMAIN q = D /\ Len(q) \in Nat
  OBVIOUS
<1>2. IsFiniteSet(D) /\ Cardinality(D) = Len(q)
  BY <1>1, FS_Interval
<1>3. q \in [D -> T]
  BY <1>1
<1>4. q \in Injection(D, T)
  BY <1>1, <1>3 DEF Injection, IsInjective
<1>5. q \in Surjection(D, T)
  BY <1>1, <1>3 DEF Surjection
<1> HIDE DEF T, D
<1>6. IsFiniteSet(T) /\ Cardinality(T) = Cardinality(D)
  BY <1>2, <1>4, <1>5, FS_Surjection
<1> QED BY <1>2, <1>6 DEF T

(* Without mishaps Telegram holds as many messages of a step that has      *)
(* arrived as the step has.                                                *)
LEMMA StepCount ==
  ASSUME SendInv, Running, mishaps = {}, Complete(call.step)
  PROVE  /\ IsFiniteSet({k \in DOMAIN shown : shown[k].id[1] < call.step})
         /\ IsFiniteSet({k \in DOMAIN shown : shown[k].id[1] < call.step + 1})
         /\ Cardinality({k \in DOMAIN shown : shown[k].id[1] < call.step + 1})
              = Cardinality({k \in DOMAIN shown : shown[k].id[1] < call.step}) + Size(call.step)
         /\ Cardinality({k \in DOMAIN shown : shown[k].id[1] < call.step + 1}) <= Len(shown)
<1> DEFINE n == call.step
           K == {k \in DOMAIN shown : shown[k].id[1] = n}
           B == {k \in DOMAIN shown : shown[k].id[1] < n}
           C == {k \in DOMAIN shown : shown[k].id[1] < n + 1}
           E == Size(n)
           f == [k \in K |-> shown[k].id[2]]
<1>1. /\ n \in 1..Len(Plan) /\ n \in Nat /\ E \in 1..(APART - 1) /\ APART \in Nat /\ Len(Plan) \in Nat
      /\ Plan[n].files # <<>> => E = Len(Plan[n].files)
  BY RunningFacts DEF SendInv
<1>2. /\ DOMAIN shown = 1..Len(shown) /\ Len(shown) \in Nat
      /\ \A k \in DOMAIN shown : shown[k].id[1] \in 1..Len(Plan) /\ shown[k].id[2] \in Nat
                                 /\ shown[k].id = <<shown[k].id[1], shown[k].id[2]>>
  BY BelowFirst DEF SendInv
<1>3. IsFiniteSet(DOMAIN shown) /\ Cardinality(DOMAIN shown) = Len(shown)
  BY <1>2, UpTo
<1>4. IsFiniteSet(K) /\ IsFiniteSet(B) /\ IsFiniteSet(C) /\ Cardinality(C) <= Len(shown)
  BY <1>3, FS_Subset
<1>5. C = B \cup K /\ B \cap K = {}
  BY <1>1, <1>2
<1>6. \A k \in K : f[k] \in 1..E
  <2> TAKE k \in K
  <2>1. Fits(shown[k]) /\ shown[k].id[2] # APART
    BY DEF SendInv, ShownFits, Known
  <2>2. PICK m \in 1..Len(Plan) :
          \/ shown[k].id = <<m, APART>>
          \/ Plan[m].files = <<>> /\ shown[k].id = <<m, 1>>
          \/ \E i \in DOMAIN Plan[m].files : shown[k].id = <<m, i>>
    BY <2>1 DEF Fits, FitsIn
  <2>3. m = n
    BY <2>2
  <2>4. DOMAIN Plan[n].files = 1..Len(Plan[n].files) /\ Plan[n].files \in Seq(Nat)
    BY <1>1, PlanFacts DEF SendInv, SendTypes
  <2>5. shown[k].id[2] \in 1..E
    <3>1. CASE Plan[n].files = <<>>
      BY <1>1, <2>1, <2>2, <2>3, <2>4, <3>1
    <3>2. CASE Plan[n].files # <<>>
      BY <1>1, <2>1, <2>2, <2>3, <2>4, <3>2
    <3> QED BY <3>1, <3>2
  <2> QED BY <2>5
<1>7. \A j, k \in K : f[j] = f[k] => j = k
  BY <1>2 DEF SendInv, ShownFits
<1>8. \A i \in 1..E : \E k \in K : f[k] = i
  <2> TAKE i \in 1..E
  <2>1. Seen(<<n, i>>)
    BY DEF Complete
  <2>2. PICK k \in DOMAIN shown : shown[k].id = <<n, i>>
    BY <2>1 DEF Seen
  <2>3. k \in K /\ f[k] = i
    BY <2>2
  <2> QED BY <2>3
<1>9. f \in Injection(K, 1..E) /\ f \in Surjection(K, 1..E)
  <2>1. f \in [K -> 1..E]
    BY <1>6
  <2> HIDE DEF f, K, E
  <2> QED BY <1>7, <1>8, <2>1 DEF Injection, Surjection, IsInjective
<1>10. IsFiniteSet(1..E) /\ Cardinality(1..E) = E
  <2>1. E \in Nat
    BY <1>1
  <2> QED BY <2>1, UpTo
<1>11. Cardinality(K) = E
  <2> HIDE DEF f, K, E
  <2> QED BY <1>9, <1>10, FS_Injection
<1>12. Cardinality(C) = Cardinality(B) + E
  <2>1. Cardinality(B) \in Nat /\ E \in Nat
    BY <1>1, <1>4, FS_CardinalityType
  <2> HIDE DEF B, K, C, E
  <2>2. Cardinality(B \cup K) = Cardinality(B) + Cardinality(K) - Cardinality(B \cap K)
    BY <1>4, FS_Union
  <2> QED BY <1>5, <1>11, <2>1, <2>2, FS_EmptySet
<1> QED BY <1>4, <1>12

LEMMA SkipKeeps == ASSUME SendInv, SkipStep PROVE SendInv'
<1>1. Running /\ Duplicate /\ call.apart = "no" /\ call' = AtStep(call.step + 1)
      /\ fate' = fate /\ tries' = tries /\ shown' = shown /\ breaks' = breaks
      /\ letter' = letter /\ tight' = tight /\ bad' = bad
      /\ (\/ ids' = ids \o Recovered(Expected) /\ mishaps' = mishaps
          \/ ids' = ids /\ mishaps' = mishaps \cup {"blind"})
  BY DEF SkipStep, sent
<1>2. /\ Len(Plan) \in Nat /\ fate = "queued" /\ letter \in Letter
      /\ call.step \in 1..Len(Plan) /\ call.step \in Nat /\ Size(call.step) \in 1..(APART - 1) /\ APART \in Nat
  BY <1>1, RunningFacts DEF SendInv
<1>3. breaks # 0 /\ breaks > 0 /\ (Torn \/ Complete(call.step))
  <2>1. breaks # 0
    BY <1>1, FirstIsNew
  <2> QED BY <1>1, <2>1, DuplicateIsDone, SendingAssumption DEF SendInv, SendTypes
<1>s. /\ Plan' = Plan /\ \A n : Complete(n)' = Complete(n)
      /\ \A id : Seen(id)' = Seen(id) /\ ShownFits'
  BY <1>1, SameShown DEF sent, SendInv
<1>4. /\ CallShape' /\ call'.step = call.step + 1 /\ call'.item = 0 /\ call'.apart = "no"
      /\ call' \in [step : 0..Len(Plan') + 1, item : Nat, apart : {"no", "text", "done"},
                    got : Seq(DOMAIN shown')]
  <2>1. call.step + 1 \in Nat /\ call.step + 1 <= Len(Plan) + 1
    BY <1>2
  <2> HIDE DEF CallShape
  <2> QED BY <1>1, <1>2, <1>s, <2>1, FreshCall
<1>5. Expected = Size(call.step)
  BY DEF Expected, Doing, Size
<1>6. /\ Recovered(Expected) \in Seq(NewNumbers) /\ NewNumbers \subseteq DOMAIN shown
      /\ Cardinality(NewNumbers) \in Nat
      /\ Len(Recovered(Expected))
           = IF Expected < Cardinality(NewNumbers) THEN Expected ELSE Cardinality(NewNumbers)
      /\ DOMAIN Recovered(Expected) = 1..Len(Recovered(Expected))
      /\ \A i, j \in 1..Len(Recovered(Expected)) : Recovered(Expected)[i] = Recovered(Expected)[j] => i = j
  <2>1. Expected \in Nat
    BY <1>2, <1>5
  <2> QED BY <2>1, RecoveredIs DEF SendInv, NewNumbers
<1> DEFINE r == Recovered(Expected)
<1> HIDE DEF r
<1>7. ids \in Seq(DOMAIN shown)
  BY DEF SendInv, SendTypes
<1>8. SendTypes'
  <2>1. r \in Seq(DOMAIN shown)
    BY <1>6 DEF r
  <2>2. ids \o r \in Seq(DOMAIN shown)
    BY <1>7, <2>1
  <2>3. ids' \in Seq(DOMAIN shown')
    BY <1>1, <1>7, <2>2 DEF r
  <2>4. mishaps' \subseteq {"split", "apart", "blind"}
    BY <1>1 DEF SendInv, SendTypes
  <2> QED BY <1>1, <1>2, <1>4, <2>3, <2>4 DEF SendInv, SendTypes
<1>9. Torn' = Torn
  BY <1>1 DEF Torn
<1>10. DoneSoFar'
  <2>1. ~Torn => call.item = 0
    BY <1>1, <1>3, RunningFacts DEF SendInv, CallShape, Torn
  <2>2. ~Torn => \A k \in DOMAIN shown : shown[k].id[2] # APART => Complete(shown[k].id[1])
    BY <2>1, BelowFirst DEF SendInv, DoneSoFar
  <2>3. ~Torn => \A n \in 1..(call.step + 1 - 1) : Complete(n)
    <3> SUFFICES ASSUME ~Torn, NEW n \in 1..(call.step + 1 - 1) PROVE Complete(n)
      OBVIOUS
    <3>1. n \in 1..(call.step - 1) \/ n = call.step
      BY <1>2
    <3> QED BY <1>3, <3>1 DEF SendInv, DoneSoFar
  <2>4. ASSUME ~Torn' PROVE \A n \in 1..(call'.step - 1) : Complete(n)'
    <3>0. call'.step = call.step + 1 /\ call.step \in Nat
      BY <1>2, <1>4
    <3>1. call'.step - 1 = call.step + 1 - 1
      BY <3>0
    <3>2. \A n \in 1..(call.step + 1 - 1) : Complete(n)
      BY <1>9, <2>3, <2>4
    <3>3. \A n \in 1..(call'.step - 1) : Complete(n)
      BY <3>1, <3>2
    <3> QED BY <1>s, <3>3
  <2>5. ~Torn' => \A k \in DOMAIN shown' :
          shown'[k].id[2] # APART => (\A n : n = shown'[k].id[1] => Complete(n)')
    BY <1>1, <1>s, <1>9, <2>2
  <2>6. call'.apart = "no" /\ call'.item = 0 /\ \A i \in 1..(0 - 1) : FALSE
    BY <1>4
  <2> QED BY <2>4, <2>5, <2>6 DEF DoneSoFar
<1>11. FirstTime' /\ Arrived'
  BY <1>1, <1>2, <1>3 DEF FirstTime, Arrived
<1>12. Known'
  <2> SUFFICES ASSUME mishaps' = {} PROVE Known'
    BY DEF Known
  <2>1. mishaps = {} /\ ids' = ids \o r
    BY <1>1 DEF r
  <2>2. ~Torn /\ Complete(call.step)
    BY <1>3, <2>1 DEF Torn
  <2> DEFINE R == {ids[i] : i \in DOMAIN ids}
             F == Cardinality(NewNumbers)
             B == {k \in DOMAIN shown : shown[k].id[1] < call.step}
             C == {k \in DOMAIN shown : shown[k].id[1] < call.step + 1}
  <2>3. /\ \A i, j \in DOMAIN ids : ids[i] = ids[j] => i = j
        /\ \A k \in DOMAIN shown : shown[k].id[2] # APART
        /\ Len(ids) = Cardinality(B)
    BY <1>2, <2>1 DEF SendInv, Known
  <2>4. IsFiniteSet(R) /\ Cardinality(R) = Len(ids)
    BY <1>7, <2>3, Distinct
  <2>5. /\ Cardinality(C) = Len(ids) + Size(call.step) /\ Cardinality(C) <= Len(shown)
    BY <1>1, <2>1, <2>2, <2>3, StepCount
  <2>6. Len(ids) \in Nat /\ Len(shown) \in Nat /\ DOMAIN shown = 1..Len(shown) /\ DOMAIN ids = 1..Len(ids)
    BY <1>7, BelowFirst DEF SendInv
  <2>7. F = Len(shown) - Len(ids)
    <3>1. NewNumbers = DOMAIN shown \ R /\ R \subseteq DOMAIN shown
      BY <1>7 DEF NewNumbers
    <3>2. IsFiniteSet(DOMAIN shown) /\ Cardinality(DOMAIN shown) = Len(shown)
      BY <2>6, UpTo
    <3>3. IsFiniteSet(NewNumbers)
      BY <3>1, <3>2, FS_Subset
    <3>4. DOMAIN shown = NewNumbers \cup R /\ NewNumbers \cap R = {}
      BY <3>1
    <3> HIDE DEF R
    <3>5. Cardinality(NewNumbers \cup R) = F + Cardinality(R) - Cardinality(NewNumbers \cap R)
      BY <2>4, <3>3, FS_Union
    <3>6. F \in Nat /\ Cardinality(R) = Len(ids) /\ Cardinality(NewNumbers \cap R) = 0
          /\ Cardinality(NewNumbers \cup R) = Len(shown)
      BY <1>6, <2>4, <3>2, <3>4, FS_EmptySet
    <3> HIDE DEF F
    <3>7. Len(shown) = F + Len(ids) - 0
      BY <3>5, <3>6
    <3> QED BY <2>6, <3>6, <3>7
  <2>8. Len(r) = Size(call.step)
    <3>1. Size(call.step) <= F
      BY <1>2, <2>5, <2>6, <2>7
    <3> QED BY <1>2, <1>5, <1>6, <3>1 DEF r
  <2>9. /\ r \in Seq(NewNumbers) /\ Len(r) \in Nat /\ DOMAIN r = 1..Len(r)
        /\ \A i, j \in 1..Len(r) : r[i] = r[j] => i = j
    BY <1>2, <1>6, <2>8 DEF r
  <2>10. /\ \A k \in 1..Len(r) : r[k] \notin R /\ r[k] \in DOMAIN shown
         /\ r \in Seq(DOMAIN shown)
    BY <1>6, <2>9 DEF NewNumbers
  <2>11. \A i \in 1..Len(ids), j \in 1..Len(r) : ids[i] # r[j]
    BY <2>6, <2>10
  <2>15. /\ Len(ids \o r) = Len(ids) + Len(r)
         /\ \A i, j \in DOMAIN (ids \o r) : (ids \o r)[i] = (ids \o r)[j] => i = j
    <3>1. \A i, j \in 1..Len(ids) : ids[i] = ids[j] => i = j
      BY <2>3, <2>6
    <3> QED BY <1>7, <2>9, <2>10, <2>11, <3>1, Joined
  <2>12. \A i, j \in DOMAIN ids' : ids'[i] = ids'[j] => i = j
    BY <2>1, <2>15
  <2>13. {k \in DOMAIN shown' : shown'[k].id[1] < call'.step} = C
    BY <1>1, <1>4
  <2>14. Len(ids') = Cardinality(C)
    BY <2>1, <2>5, <2>8, <2>15
  <2> HIDE DEF C
  <2> QED BY <1>1, <1>2, <2>3, <2>12, <2>13, <2>14 DEF Known
<1> QED BY <1>4, <1>8, <1>10, <1>11, <1>12, <1>s DEF SendInv

(* Telegram takes the last call of a step: the step has arrived.           *)
LEMMA CallDone ==
  ASSUME SendInv, Running, ~Duplicate, ~TooLong, UNCHANGED sent, shown' = shown \o Sends,
         call.apart # "text", call.item = 0 \/ call.item >= Len(Doing.files)
  PROVE  \A n : n = call.step => Complete(n)'
<1>1. /\ \A id : Seen(id)' <=> Seen(id) \/ \E i \in 1..Len(Sends) : id = SendId(i)
      /\ \A n : Size(n)' = Size(n) /\ Captioned(n)' = Captioned(n)
  BY MoreShown DEF SendInv
<1>2. Len(Sends) = IF call.item = 0 THEN Size(call.step) ELSE 1
  BY SendsShape DEF SendInv
<1>3. /\ call.step \in Nat /\ call.item \in Nat /\ Size(call.step) \in 1..(APART - 1) /\ APART \in Nat
      /\ Plan[call.step].files # <<>> => Size(call.step) = Len(Plan[call.step].files)
      /\ call.item > 0 => call.item <= Size(call.step)
  BY RunningFacts DEF SendInv
<1>4. call.item > 0 => call.item = Size(call.step) /\ call.item > 1
  <2> SUFFICES ASSUME call.item > 0 PROVE call.item = Size(call.step) /\ call.item > 1
    OBVIOUS
  <2>1. Len(Plan[call.step].files) > 1 /\ call.item <= Len(Plan[call.step].files)
        /\ call.item >= Len(Plan[call.step].files)
    BY <1>3 DEF SendInv, CallShape, Doing
  <2>2. Plan[call.step].files # <<>>
    BY <2>1
  <2> QED BY <1>3, <2>1, <2>2
<1>5. Captioned(call.step) => Seen(<<call.step, APART>>)
  <2> SUFFICES ASSUME Captioned(call.step) PROVE Seen(<<call.step, APART>>)
    OBVIOUS
  <2>1. call.apart = "done"
    <3>1. CASE call.item = 0
      <4>1. call.apart # "no"
        BY <3>1 DEF TooLong, Captioned, Doing
      <4> QED BY <4>1 DEF SendInv, SendTypes
    <3>2. CASE call.item > 0
      BY <1>4, <3>2 DEF SendInv, DoneSoFar
    <3> QED BY <1>3, <3>1, <3>2
  <2> QED BY <2>1 DEF SendInv, DoneSoFar
<1>6. \A i \in 1..Size(call.step) :
        Seen(<<call.step, i>>) \/ \E j \in 1..Len(Sends) : <<call.step, i>> = SendId(j)
  <2>1. CASE call.item = 0
    <3>1. \A i : SendId(i) = <<call.step, i>>
      BY <2>1 DEF SendId
    <3> QED BY <1>2, <2>1, <3>1
  <2>2. CASE call.item > 0
    <3> TAKE i \in 1..Size(call.step)
    <3>1. SendId(1) = <<call.step, call.item>> /\ 1 \in 1..Len(Sends)
      BY <1>2, <2>2 DEF SendId
    <3>2. CASE i \in 1..(call.item - 1)
      BY <3>2 DEF SendInv, DoneSoFar
    <3>3. CASE i = call.item
      BY <3>1, <3>3
    <3> QED BY <1>3, <1>4, <2>2, <3>2, <3>3
  <2> QED BY <1>3, <2>1, <2>2
<1>7. ASSUME NEW n, n = call.step PROVE Complete(n)'
  <2>1. \A i \in 1..Size(n) : Seen(<<n, i>>) \/ \E j \in 1..Len(Sends) : <<n, i>> = SendId(j)
    BY <1>6, <1>7
  <2>2. Captioned(n) => Seen(<<n, APART>>)
    BY <1>5, <1>7
  <2>3. \A i \in 1..Size(n) : Seen(<<n, i>>)'
    BY <1>1, <2>1
  <2>4. Captioned(n)' => Seen(<<n, APART>>)'
    BY <1>1, <2>2
  <2>5. Size(n)' = Size(n)
    BY <1>1
  <2> QED BY <2>3, <2>4, <2>5 DEF Complete
<1> QED BY <1>7

(* What was shown before a call, and what the call has shown.              *)
LEMMA OldOrNew ==
  ASSUME SendInv, Running, ~Duplicate, ~TooLong, UNCHANGED sent, shown' = shown \o Sends,
         NEW k \in DOMAIN shown'
  PROVE  \/ k \in DOMAIN shown /\ shown'[k] = shown[k]
         \/ /\ k \notin DOMAIN shown
            /\ \E i \in 1..Len(Sends) : /\ k = Len(shown) + i /\ shown'[k].id = SendId(i)
                                        /\ shown'[k].id[1] = call.step
                                        /\ shown'[k].id = <<call.step, SendId(i)[2]>>
<1>1. /\ Len(shown) \in Nat /\ DOMAIN shown = 1..Len(shown) /\ DOMAIN shown' = 1..Len(shown')
      /\ \A j \in 1..Len(shown) : j \in 1..Len(shown') /\ shown'[j] = shown[j]
      /\ \A j \in 1..Len(shown') : j \in 1..Len(shown) \/ j - Len(shown) \in 1..Len(Sends)
      /\ \A j \in 1..Len(shown') : j \notin 1..Len(shown) => shown'[j] = Sends[j - Len(shown)]
  BY MoreShown DEF SendInv
<1>2. \A i \in 1..Len(Sends) : Sends[i].id = SendId(i)
  BY SendsShape DEF SendInv
<1>3. CASE k \in 1..Len(shown)
  BY <1>1, <1>3
<1>4. CASE k \notin 1..Len(shown)
  <2> DEFINE i == k - Len(shown)
  <2>1. i \in 1..Len(Sends) /\ shown'[k] = Sends[i]
    BY <1>1, <1>4
  <2>2. shown'[k].id = SendId(i)
    BY <1>2, <2>1
  <2>3. k = Len(shown) + i /\ k \in Nat
    <3>1. k \in 1..Len(shown')
      BY <1>1
    <3> QED BY <1>1, <3>1
  <2>4. SendId(i)[1] = call.step /\ SendId(i) = <<call.step, SendId(i)[2]>>
    BY DEF SendId
  <2> HIDE DEF i
  <2> QED BY <1>1, <1>4, <2>1, <2>2, <2>3, <2>4
<1> QED BY <1>3, <1>4

LEMMA BreakKeeps == ASSUME SendInv, Break PROVE SendInv'
<1>1. /\ Running /\ breaks < MaxBreaks /\ breaks' = breaks + 1 /\ call' = NoCall /\ ids' = <<>>
      /\ \/ tries' = tries + 1 /\ fate' = IF tries' >= MaxTries THEN "failed" ELSE "queued"
         \/ tries' = tries /\ fate' = fate
      /\ \/ shown' = shown
         \/ ~Duplicate /\ ~TooLong /\ ~Rejected /\ shown' = shown \o Sends
      /\ letter' = letter /\ tight' = tight /\ bad' = bad /\ mishaps' = mishaps /\ UNCHANGED sent
  BY DEF Break, FailedAttempt, TriesUsed, sent
<1>2. /\ Len(Plan) \in Nat /\ fate = "queued" /\ letter \in Letter
      /\ call.step \in Nat /\ call.item \in Nat /\ Size(call.step) \in 1..(APART - 1) /\ APART \in Nat
  BY <1>1, RunningFacts DEF SendInv
<1>s. Plan' = Plan /\ shown' \in Seq(Message) /\ ShownFits' /\ \A n : Complete(n) => Complete(n)'
  <2>1. CASE shown' = shown
    BY <1>1, <2>1, SameShown DEF sent, SendInv, SendTypes
  <2>2. CASE ~Duplicate /\ ~TooLong /\ ~Rejected /\ shown' = shown \o Sends
    BY <1>1, <2>2, MoreShown DEF SendInv
  <2> QED BY <1>1, <2>1, <2>2
<1>3. breaks \in Nat /\ breaks' \in 0..MaxBreaks /\ breaks' > 0
  BY <1>1, SendingAssumption DEF SendInv, SendTypes
<1>4. fate' \in {"queued", "failed"}
  BY <1>1, <1>2
<1>5. /\ CallShape' /\ call'.step = 0 /\ call'.item = 0 /\ call'.apart = "no"
      /\ call' \in [step : 0..Len(Plan') + 1, item : Nat, apart : {"no", "text", "done"},
                    got : Seq(DOMAIN shown')]
  BY <1>1, <1>2, <1>s, CallFields, FreshCall
<1>6. SendTypes'
  <2>1. tries < MaxTries /\ tries \in Nat /\ MaxTries \in Nat
    BY <1>2, SendingAssumption DEF SendInv, SendTypes
  <2>2. tries' \in 0..MaxTries /\ (fate' = "queued" => tries' < MaxTries)
    BY <1>1, <1>2, <2>1
  <2>3. ids' \in Seq(DOMAIN shown')
    BY <1>1
  <2> QED BY <1>1, <1>2, <1>3, <1>4, <1>5, <1>s, <2>2, <2>3 DEF SendInv, SendTypes
<1>7. ASSUME NEW k \in DOMAIN shown'
      PROVE  \/ k \in DOMAIN shown /\ shown'[k] = shown[k]
             \/ /\ ~Duplicate /\ ~TooLong /\ shown' = shown \o Sends
                /\ \E i \in 1..Len(Sends) : shown'[k].id = SendId(i) /\ shown'[k].id[1] = call.step
  BY <1>1, OldOrNew
<1>8. DoneSoFar'
  <2>1. ASSUME ~Torn' PROVE ~Torn /\ call.item = 0
    <3>1. "split" \notin mishaps
      BY <1>1, <1>3, <2>1 DEF Torn
    <3> QED BY <1>2, <3>1 DEF SendInv, CallShape, Torn
  <2>2. ASSUME ~Torn', NEW k \in DOMAIN shown', shown'[k].id[2] # APART,
               NEW n, n = shown'[k].id[1]
        PROVE  Complete(n)'
    <3>1. CASE k \in DOMAIN shown /\ shown'[k] = shown[k]
      <4>1. shown[k].id[2] \in Nat
        BY <3>1, BelowFirst DEF SendInv
      <4>2. Complete(n)
        BY <2>1, <2>2, <3>1, <4>1 DEF SendInv, DoneSoFar
      <4> QED BY <1>s, <4>2
    <3>2. CASE /\ ~Duplicate /\ ~TooLong /\ shown' = shown \o Sends
               /\ \E i \in 1..Len(Sends) : shown'[k].id = SendId(i) /\ shown'[k].id[1] = call.step
      <4>1. call.apart # "text"
        BY <2>2, <3>2 DEF SendId
      <4> QED BY <1>1, <2>1, <2>2, <3>2, <4>1, CallDone
    <3> QED BY <1>7, <3>1, <3>2
  <2>3. ~Torn' => \A k \in DOMAIN shown' : shown'[k].id[2] # APART =>
          \A n : n = shown'[k].id[1] => Complete(n)'
    BY <2>2
  <2>4. \A i \in 1..(0 - 1) : FALSE
    OBVIOUS
  <2> QED BY <1>5, <2>3, <2>4 DEF DoneSoFar
<1>9. FirstTime' /\ Arrived'
  BY <1>3, <1>4 DEF FirstTime, Arrived
<1>10. Known'
  <2> SUFFICES ASSUME mishaps' = {} PROVE Known'
    BY DEF Known
  <2>1. mishaps = {} /\ call.apart = "no" /\ call.item = 0
    BY <1>1, <1>2 DEF SendInv, CallShape
  <2>2. ASSUME NEW k \in DOMAIN shown' PROVE shown'[k].id[2] # APART
    <3>1. CASE k \in DOMAIN shown /\ shown'[k] = shown[k]
      BY <2>1, <3>1 DEF SendInv, Known
    <3>2. CASE \E i \in 1..Len(Sends) : shown'[k].id = SendId(i)
      <4>1. Len(Sends) = Size(call.step)
        BY <1>1, <2>1, SendsShape DEF SendInv
      <4> QED BY <1>2, <2>1, <3>2, <4>1 DEF SendId
    <3> QED BY <1>7, <3>1, <3>2
  <2>3. \A i, j \in DOMAIN ids' : ids'[i] = ids'[j] => i = j
    BY <1>1
  <2>4. fate' # "sent" /\ ~(call'.step > 0)
    BY <1>4, <1>5
  <2> QED BY <2>2, <2>3, <2>4 DEF Known
<1> QED BY <1>5, <1>6, <1>8, <1>9, <1>10, <1>s DEF SendInv

(* Telegram takes the caption that goes ahead of the files.                *)
LEMMA AheadKeeps ==
  ASSUME SendInv, Accepted, call.apart = "text"
  PROVE  SendInv'
<1> DEFINE news == [i \in DOMAIN Sends |-> Len(shown) + i]
<1>1. /\ Running /\ ~Duplicate /\ ~TooLong /\ ~Rejected /\ shown' = shown \o Sends
      /\ call' = [call EXCEPT !.got = call.got \o news, !.apart = "done", !.item = 0] /\ ids' = ids
      /\ fate' = fate /\ tries' = tries /\ breaks' = breaks /\ mishaps' = mishaps
      /\ letter' = letter /\ tight' = tight /\ bad' = bad /\ UNCHANGED sent
  BY DEF Accepted, GoOn, sent
<1>2. /\ Len(Plan) \in Nat /\ fate = "queued" /\ letter \in Letter /\ call.step \in 1..Len(Plan)
      /\ call.step \in Nat /\ call.item = 0 /\ "apart" \in mishaps /\ Captioned(call.step)
      /\ Size(call.step) \in 1..(APART - 1) /\ APART \in Nat
  BY <1>1, RunningFacts DEF SendInv, CallShape
<1>s. /\ Plan' = Plan /\ shown' \in Seq(Message) /\ ShownFits' /\ \A n : Complete(n) => Complete(n)'
      /\ Len(shown) \in Nat /\ DOMAIN shown = 1..Len(shown) /\ DOMAIN shown' = 1..Len(shown')
      /\ \A k \in 1..Len(shown) : k \in 1..Len(shown')
      /\ \A i \in 1..Len(Sends) : Len(shown) + i \in 1..Len(shown')
      /\ \A id : Seen(id)' <=> Seen(id) \/ \E i \in 1..Len(Sends) : id = SendId(i)
      /\ \A n : Captioned(n)' = Captioned(n)
  BY <1>1, MoreShown DEF SendInv
<1>3. /\ \A i : SendId(i) = <<call.step, APART>>
      /\ Len(Sends) = 1 /\ DOMAIN Sends = 1..Len(Sends)
  BY <1>1, SendsShape DEF SendId, SendInv
<1>4. /\ call \in [step : 0..Len(Plan) + 1, item : Nat, apart : {"no", "text", "done"},
                   got : Seq(DOMAIN shown)]
      /\ call.got \in Seq(DOMAIN shown)
  BY DEF SendInv, SendTypes
<1>5. call.got \o news \in Seq(DOMAIN shown') /\ ids' \in Seq(DOMAIN shown')
  <2>1. DOMAIN shown \subseteq DOMAIN shown'
    BY <1>s
  <2>2. news \in Seq(DOMAIN shown')
    BY <1>3, <1>s
  <2>3. \A S, T : S \subseteq T => \A q \in Seq(S) : q \in Seq(T)
    OBVIOUS
  <2>4. \A S : \A p, q \in Seq(S) : p \o q \in Seq(S)
    OBVIOUS
  <2>5. ids \in Seq(DOMAIN shown)
    BY DEF SendInv, SendTypes
  <2> HIDE DEF news
  <2> QED BY <1>1, <1>4, <2>1, <2>2, <2>3, <2>4, <2>5
<1> HIDE DEF news
<1>6. /\ call'.step = call.step /\ call'.item = 0 /\ call'.apart = "done"
      /\ call' \in [step : 0..Len(Plan') + 1, item : Nat, apart : {"no", "text", "done"},
                    got : Seq(DOMAIN shown')]
  BY <1>1, <1>4, <1>5, <1>s
<1>7. SendTypes'
  BY <1>1, <1>2, <1>5, <1>6, <1>s DEF SendInv, SendTypes
<1>8. CallShape'
  <2>1. Running'
    BY <1>1, <1>6, <1>s DEF Running
  <2>2. fate' = "queued" /\ call'.step # 0
    BY <1>1, <1>2, <1>6
  <2>3. Captioned(call.step)' /\ "apart" \in mishaps'
    BY <1>1, <1>2, <1>6, <1>s DEF Captioned
  <2> QED BY <1>6, <2>1, <2>2, <2>3 DEF CallShape
<1>9. ASSUME NEW k \in DOMAIN shown'
      PROVE  \/ k \in DOMAIN shown /\ shown'[k] = shown[k]
             \/ shown'[k].id = <<call.step, APART>>
  BY <1>1, <1>3, OldOrNew
<1>10. DoneSoFar'
  <2>1. Torn' = Torn
    BY <1>1 DEF Torn
  <2>2. \A n : n = call'.step => Seen(<<n, APART>>)'
    BY <1>3, <1>6, <1>s
  <2>3. ~Torn => \A n \in 1..(call.step - 1) : Complete(n)
    BY DEF SendInv, DoneSoFar
  <2>4. ASSUME ~Torn', NEW k \in DOMAIN shown', shown'[k].id[2] # APART,
               NEW n, n = shown'[k].id[1]
        PROVE  Complete(n)'
    <3>1. CASE k \in DOMAIN shown /\ shown'[k] = shown[k]
      <4>1. shown[k].id[2] \in Nat
        BY <3>1, BelowFirst DEF SendInv
      <4>2. Complete(n)
        BY <1>2, <2>1, <2>4, <3>1, <4>1 DEF SendInv, DoneSoFar
      <4> QED BY <1>s, <4>2
    <3>2. CASE shown'[k].id = <<call.step, APART>>
      BY <2>4, <3>2
    <3> QED BY <1>9, <3>1, <3>2
  <2>5. ~Torn' => \A k \in DOMAIN shown' : shown'[k].id[2] # APART =>
          \A n : n = shown'[k].id[1] => Complete(n)'
    BY <2>4
  <2>6. ~Torn' => \A n \in 1..(call'.step - 1) : Complete(n)'
    BY <1>6, <1>s, <2>1, <2>3
  <2>7. \A i \in 1..(0 - 1) : FALSE
    OBVIOUS
  <2> QED BY <1>6, <2>2, <2>5, <2>6, <2>7 DEF DoneSoFar
<1>11. FirstTime'
  <2>1. ASSUME breaks = 0, NEW k \in DOMAIN shown' PROVE
          \/ shown'[k].id[1] < call.step
          \/ /\ shown'[k].id[1] = call.step
             /\ IF shown'[k].id[2] = APART THEN TRUE ELSE shown'[k].id[2] < 0
    BY <1>2, <1>9, <2>1 DEF SendInv, FirstTime
  <2> QED BY <1>1, <1>6, <2>1 DEF FirstTime
<1>12. Arrived' /\ Known'
  BY <1>1, <1>2 DEF Arrived, Known
<1> QED BY <1>7, <1>8, <1>10, <1>11, <1>12, <1>s DEF SendInv

(* Telegram takes a file, not the last, of an album that is sent file by   *)
(* file.                                                                   *)
LEMMA FileKeeps ==
  ASSUME SendInv, Accepted, call.apart # "text", call.item # 0, call.item < Len(Doing.files)
  PROVE  SendInv'
<1> DEFINE news == [i \in DOMAIN Sends |-> Len(shown) + i]
<1>1. /\ Running /\ ~Duplicate /\ ~TooLong /\ ~Rejected /\ shown' = shown \o Sends
      /\ call' = [call EXCEPT !.got = call.got \o news, !.apart = call.apart, !.item = call.item + 1]
      /\ ids' = ids /\ fate' = fate /\ tries' = tries /\ breaks' = breaks /\ mishaps' = mishaps
      /\ letter' = letter /\ tight' = tight /\ bad' = bad /\ UNCHANGED sent
  BY DEF Accepted, GoOn, sent
<1>2. /\ Len(Plan) \in Nat /\ fate = "queued" /\ letter \in Letter /\ call.step \in 1..Len(Plan)
      /\ call.step \in Nat /\ call.item \in Nat /\ call.item > 0
      /\ Size(call.step) \in 1..(APART - 1) /\ APART \in Nat /\ call.item <= Size(call.step)
  BY <1>1, RunningFacts DEF SendInv
<1>a. /\ "split" \in mishaps /\ Len(Doing.files) > 1
      /\ (call.apart # "no" => Captioned(call.step) /\ "apart" \in mishaps)
  BY <1>2 DEF SendInv, CallShape
<1>s. /\ Plan' = Plan /\ shown' \in Seq(Message) /\ ShownFits' /\ \A n : Complete(n) => Complete(n)'
      /\ Len(shown) \in Nat /\ DOMAIN shown = 1..Len(shown) /\ DOMAIN shown' = 1..Len(shown')
      /\ \A k \in 1..Len(shown) : k \in 1..Len(shown')
      /\ \A i \in 1..Len(Sends) : Len(shown) + i \in 1..Len(shown')
      /\ \A id : Seen(id)' <=> Seen(id) \/ \E i \in 1..Len(Sends) : id = SendId(i)
      /\ \A n : Captioned(n)' = Captioned(n)
  BY <1>1, MoreShown DEF SendInv
<1>3. /\ \A i : SendId(i) = <<call.step, call.item>>
      /\ Len(Sends) = 1 /\ DOMAIN Sends = 1..Len(Sends)
  BY <1>1, <1>2, SendsShape DEF SendId, SendInv
<1>4. /\ call \in [step : 0..Len(Plan) + 1, item : Nat, apart : {"no", "text", "done"},
                   got : Seq(DOMAIN shown)]
      /\ call.got \in Seq(DOMAIN shown)
  BY DEF SendInv, SendTypes
<1>5. call.got \o news \in Seq(DOMAIN shown') /\ ids' \in Seq(DOMAIN shown')
  <2>1. DOMAIN shown \subseteq DOMAIN shown'
    BY <1>s
  <2>2. news \in Seq(DOMAIN shown')
    BY <1>3, <1>s
  <2>3. \A S, T : S \subseteq T => \A q \in Seq(S) : q \in Seq(T)
    OBVIOUS
  <2>4. \A S : \A p, q \in Seq(S) : p \o q \in Seq(S)
    OBVIOUS
  <2>5. ids \in Seq(DOMAIN shown)
    BY DEF SendInv, SendTypes
  <2> HIDE DEF news
  <2> QED BY <1>1, <1>4, <2>1, <2>2, <2>3, <2>4, <2>5
<1> HIDE DEF news
<1>6. /\ call'.step = call.step /\ call'.item = call.item + 1 /\ call'.apart = call.apart
      /\ call' \in [step : 0..Len(Plan') + 1, item : Nat, apart : {"no", "text", "done"},
                    got : Seq(DOMAIN shown')]
  <2> DEFINE g == call.got \o news
             m == call.item + 1
  <2>1. g \in Seq(DOMAIN shown') /\ m \in Nat
    BY <1>2, <1>5
  <2>2. call' = [call EXCEPT !.got = g, !.apart = call.apart, !.item = m]
    BY <1>1
  <2> HIDE DEF g
  <2>3. call'.item = m
    BY <1>4, <2>2
  <2> HIDE DEF m
  <2>4. call'.step = call.step /\ call'.apart = call.apart
    BY <1>4, <2>2
  <2>5. call' \in [step : 0..Len(Plan') + 1, item : Nat, apart : {"no", "text", "done"},
                  got : Seq(DOMAIN shown')]
    BY <1>4, <1>s, <2>1, <2>2
  <2> QED BY <2>3, <2>4, <2>5 DEF m
<1>7. SendTypes'
  BY <1>1, <1>2, <1>5, <1>6, <1>s DEF SendInv, SendTypes
<1>8. CallShape'
  <2>1. Running' /\ Doing' = Doing
    BY <1>1, <1>6, <1>s DEF Running, Doing
  <2>2. fate' = "queued" /\ call'.step # 0
    BY <1>1, <1>2, <1>6
  <2>3. call'.apart # "no" => Captioned(call.step)' /\ "apart" \in mishaps'
    BY <1>1, <1>a, <1>6, <1>s DEF Captioned
  <2>4. call'.item # 0 /\ call'.item <= Len(Doing.files)
    <3>1. Len(Doing.files) \in Nat
      BY <1>2, PlanFacts DEF SendInv, SendTypes, Doing
    <3> QED BY <1>2, <1>6, <3>1
  <2> QED BY <1>1, <1>a, <1>6, <2>1, <2>2, <2>3, <2>4 DEF CallShape
<1>9. ASSUME NEW k \in DOMAIN shown'
      PROVE  \/ k \in DOMAIN shown /\ shown'[k] = shown[k]
             \/ shown'[k].id = <<call.step, call.item>>
  BY <1>1, <1>3, OldOrNew
<1>10. DoneSoFar'
  <2>1. Torn' = Torn
    BY <1>1 DEF Torn
  <2>2. \A n : n = call'.step => \A i \in 1..(call'.item - 1) : Seen(<<n, i>>)'
    <3>1. \A i \in 1..(call'.item - 1) : i \in 1..(call.item - 1) \/ i = call.item
      BY <1>2, <1>6
    <3>2. \A i \in 1..(call.item - 1) : Seen(<<call.step, i>>)
      BY DEF SendInv, DoneSoFar
    <3>3. \A n : n = call.step =>
            Seen(<<n, call.item>>) \/ \E i \in 1..Len(Sends) : <<n, call.item>> = SendId(i)
      BY <1>3
    <3>4. ASSUME NEW n, n = call'.step, NEW i \in 1..(call'.item - 1)
          PROVE  Seen(<<n, i>>) \/ \E j \in 1..Len(Sends) : <<n, i>> = SendId(j)
      BY <1>6, <3>1, <3>2, <3>3, <3>4
    <3> QED BY <1>s, <3>4
  <2>3. ~Torn => \A n \in 1..(call.step - 1) : Complete(n)
    BY DEF SendInv, DoneSoFar
  <2>4. ASSUME ~Torn', NEW k \in DOMAIN shown', shown'[k].id[2] # APART,
               NEW n, n = shown'[k].id[1]
        PROVE  Complete(n)' \/ (n = call'.step /\ shown'[k].id[2] < call'.item)
    <3>1. CASE k \in DOMAIN shown /\ shown'[k] = shown[k]
      <4>1. shown[k].id[2] \in Nat
        BY <3>1, BelowFirst DEF SendInv
      <4>2. Complete(n) \/ (n = call.step /\ shown[k].id[2] < call.item)
        BY <1>2, <2>1, <2>4, <3>1, <4>1 DEF SendInv, DoneSoFar
      <4>3. shown[k].id[2] < call.item => shown'[k].id[2] < call'.item
        BY <1>2, <1>6, <3>1, <4>1
      <4> QED BY <1>s, <1>6, <4>2, <4>3
    <3>2. CASE shown'[k].id = <<call.step, call.item>>
      <4>1. shown'[k].id[2] = call.item /\ shown'[k].id[1] = call.step
        BY <3>2
      <4> QED BY <1>2, <1>6, <2>4, <4>1
    <3> QED BY <1>9, <3>1, <3>2
  <2>5. ~Torn' => \A k \in DOMAIN shown' : shown'[k].id[2] # APART =>
           \A n : n = shown'[k].id[1] => Complete(n)' \/ (n = call'.step /\ shown'[k].id[2] < call'.item)
    BY <2>4
  <2>6. ~Torn' => \A n \in 1..(call'.step - 1) : Complete(n)'
    BY <1>6, <1>s, <2>1, <2>3
  <2>7. call'.apart = "done" => \A n : n = call'.step => Seen(<<n, APART>>)'
    BY <1>6, <1>s DEF SendInv, DoneSoFar
  <2>8. \A n : n = call'.step /\ Captioned(n)' => call'.apart = "done"
    <3> SUFFICES ASSUME Captioned(call.step) PROVE call.apart = "done"
      BY <1>6, <1>s
    <3>1. CASE call.item > 1
      BY <3>1 DEF SendInv, DoneSoFar
    <3>2. CASE call.item = 1
      <4>1. call.apart # "no"
        BY <1>1, <3>2 DEF TooLong, Captioned, Doing
      <4> QED BY <1>4, <4>1
    <3> QED BY <1>2, <3>1, <3>2
  <2> QED BY <2>2, <2>5, <2>6, <2>7, <2>8 DEF DoneSoFar
<1>11. FirstTime'
  <2>1. ASSUME breaks = 0, NEW k \in DOMAIN shown' PROVE
          \/ shown'[k].id[1] < call.step
          \/ /\ shown'[k].id[1] = call.step
             /\ IF shown'[k].id[2] = APART THEN call.apart = "done" ELSE shown'[k].id[2] < call.item + 1
    <3>1. CASE k \in DOMAIN shown /\ shown'[k] = shown[k]
      <4>1. shown[k].id[2] \in Nat
        BY <3>1, BelowFirst DEF SendInv
      <4> QED BY <1>2, <2>1, <3>1, <4>1 DEF SendInv, FirstTime
    <3>2. CASE shown'[k].id = <<call.step, call.item>>
      <4>1. shown'[k].id[2] = call.item /\ shown'[k].id[1] = call.step
        BY <3>2
      <4> QED BY <1>2, <4>1
    <3> QED BY <1>9, <3>1, <3>2
  <2> QED BY <1>1, <1>6, <2>1 DEF FirstTime
<1>12. Arrived' /\ Known'
  BY <1>1, <1>2, <1>a DEF Arrived, Known
<1> QED BY <1>7, <1>8, <1>10, <1>11, <1>12, <1>s DEF SendInv

(* Telegram takes the last call of a step.                                 *)
LEMMA StepKeeps ==
  ASSUME SendInv, Accepted, call.apart # "text", call.item = 0 \/ ~(call.item < Len(Doing.files))
  PROVE  SendInv'
<1> DEFINE news == [i \in DOMAIN Sends |-> Len(shown) + i]
           all == call.got \o news
<1>1. /\ Running /\ ~Duplicate /\ ~TooLong /\ ~Rejected /\ shown' = shown \o Sends
      /\ call' = AtStep(call.step + 1) /\ ids' = ids \o all
      /\ fate' = fate /\ tries' = tries /\ breaks' = breaks /\ mishaps' = mishaps
      /\ letter' = letter /\ tight' = tight /\ bad' = bad /\ UNCHANGED sent
  BY DEF Accepted, GoOn, sent
<1>2. /\ Len(Plan) \in Nat /\ fate = "queued" /\ letter \in Letter /\ call.step \in 1..Len(Plan)
      /\ call.step \in Nat /\ call.item \in Nat
      /\ Size(call.step) \in 1..(APART - 1) /\ APART \in Nat
  BY <1>1, RunningFacts DEF SendInv
<1>s. /\ Plan' = Plan /\ shown' \in Seq(Message) /\ ShownFits' /\ \A n : Complete(n) => Complete(n)'
      /\ Len(shown) \in Nat /\ DOMAIN shown = 1..Len(shown) /\ DOMAIN shown' = 1..Len(shown')
      /\ \A k \in 1..Len(shown) : k \in 1..Len(shown') /\ shown'[k] = shown[k]
      /\ \A i \in 1..Len(Sends) : Len(shown) + i \in 1..Len(shown')
      /\ \A i \in 1..Len(Sends) : ~Seen(SendId(i))
      /\ Len(shown') = Len(shown) + Len(Sends)
  BY <1>1, MoreShown DEF SendInv
<1>3. Len(Sends) \in Nat /\ DOMAIN Sends = 1..Len(Sends)
  BY <1>1, SendsShape DEF SendInv
<1>4. call.got \in Seq(DOMAIN shown) /\ ids \in Seq(DOMAIN shown)
  BY DEF SendInv, SendTypes
<1>d. \A n : n = call.step => Complete(n)'
  <2>1. call.item = 0 \/ call.item >= Len(Doing.files)
    <3>1. Len(Doing.files) \in Nat
      BY <1>2, PlanFacts DEF SendInv, SendTypes, Doing
    <3> QED BY <1>2, <3>1
  <2> QED BY <1>1, <2>1, CallDone
<1> DEFINE T == DOMAIN shown'
<1>5. ids \in Seq(T) /\ all \in Seq(T) /\ news \in Seq(T) /\ Len(news) = Len(Sends) /\ ids' \in Seq(T)
      /\ (call.got = <<>> => all = news)
  <2>1. DOMAIN shown \subseteq T
    BY <1>s
  <2>2. news \in Seq(T) /\ Len(news) = Len(Sends)
    BY <1>3, <1>s
  <2>3. \A A, B : A \subseteq B => \A q \in Seq(A) : q \in Seq(B)
    OBVIOUS
  <2>4. \A S : \A p, q \in Seq(S) : p \o q \in Seq(S)
    OBVIOUS
  <2> HIDE DEF news, T
  <2>5. call.got \in Seq(T) /\ ids \in Seq(T)
    BY <1>4, <2>1, <2>3
  <2>6. all \in Seq(T)
    BY <2>2, <2>4, <2>5
  <2>7. call.got = <<>> => all = news
    BY <2>2
  <2> QED BY <1>1, <2>2, <2>4, <2>5, <2>6, <2>7
<1>6. /\ CallShape' /\ call'.step = call.step + 1 /\ call'.item = 0 /\ call'.apart = "no"
      /\ call' \in [step : 0..Len(Plan') + 1, item : Nat, apart : {"no", "text", "done"},
                    got : Seq(DOMAIN shown')]
  <2>1. call.step + 1 \in Nat /\ call.step + 1 <= Len(Plan) + 1
    BY <1>2
  <2> HIDE DEF CallShape
  <2> QED BY <1>1, <1>2, <1>s, <2>1, FreshCall
<1>7. SendTypes'
  BY <1>1, <1>2, <1>5, <1>6, <1>s DEF SendInv, SendTypes
<1>9. ASSUME NEW k \in DOMAIN shown'
      PROVE  \/ k \in DOMAIN shown /\ shown'[k] = shown[k]
             \/ /\ shown'[k].id[1] = call.step /\ k \notin DOMAIN shown
                /\ \E i \in 1..Len(Sends) : k = Len(shown) + i /\ shown'[k].id = SendId(i)
  BY <1>1, OldOrNew
<1>10. DoneSoFar'
  <2>1. Torn' = Torn
    BY <1>1 DEF Torn
  <2>2. ASSUME ~Torn, NEW n \in 1..(call'.step - 1) PROVE Complete(n)'
    <3>1. n \in 1..(call.step - 1) \/ n = call.step
      BY <1>2, <1>6
    <3>2. n \in 1..(call.step - 1) => Complete(n)
      BY <2>2 DEF SendInv, DoneSoFar
    <3> QED BY <1>d, <1>s, <3>1, <3>2
  <2>3. ASSUME ~Torn, NEW k \in DOMAIN shown', shown'[k].id[2] # APART,
               NEW n, n = shown'[k].id[1]
        PROVE  Complete(n)'
    <3>1. CASE k \in DOMAIN shown /\ shown'[k] = shown[k]
      <4>1. Complete(n) \/ n = call.step
        BY <2>3, <3>1 DEF SendInv, DoneSoFar
      <4> QED BY <1>d, <1>s, <4>1
    <3>2. CASE shown'[k].id[1] = call.step
      BY <1>d, <2>3, <3>2
    <3> QED BY <1>9, <3>1, <3>2
  <2>4. ~Torn' => \A k \in DOMAIN shown' : shown'[k].id[2] # APART =>
          \A n : n = shown'[k].id[1] => Complete(n)'
    BY <2>1, <2>3
  <2>5. ~Torn' => \A n \in 1..(call'.step - 1) : Complete(n)'
    BY <2>1, <2>2
  <2>6. \A i \in 1..(0 - 1) : FALSE
    OBVIOUS
  <2> QED BY <1>6, <2>4, <2>5, <2>6 DEF DoneSoFar
<1>11. FirstTime'
  <2>1. ASSUME breaks = 0, NEW k \in DOMAIN shown' PROVE shown'[k].id[1] < call.step + 1
    <3>1. CASE k \in DOMAIN shown /\ shown'[k] = shown[k]
      <4>1. shown[k].id[1] \in 1..Len(Plan)
        BY <3>1, BelowFirst DEF SendInv
      <4>2. shown[k].id[1] < call.step \/ shown[k].id[1] = call.step
        BY <1>2, <2>1, <3>1 DEF SendInv, FirstTime
      <4> QED BY <1>2, <3>1, <4>1, <4>2
    <3>2. CASE shown'[k].id[1] = call.step
      BY <1>2, <3>2
    <3> QED BY <1>9, <3>1, <3>2
  <2> QED BY <1>1, <1>6, <2>1 DEF FirstTime
<1>12. Known'
  <2> SUFFICES ASSUME mishaps' = {} PROVE Known'
    BY DEF Known
  <2>1. mishaps = {} /\ call.apart = "no" /\ call.item = 0 /\ call.got = <<>> /\ ~Torn
    BY <1>1, <1>2 DEF SendInv, CallShape, Torn
  <2>2. Len(Sends) = Size(call.step) /\ \A i : SendId(i) = <<call.step, i>>
    BY <1>1, <2>1, SendsShape DEF SendInv, SendId
  <2> DEFINE B == {k \in DOMAIN shown : shown[k].id[1] < call.step}
             C == {k \in DOMAIN shown' : shown'[k].id[1] < call.step + 1}
             L == Len(shown)
             M == Len(Sends)
             N == (L + 1)..(L + M)
  <2>3. /\ \A i, j \in DOMAIN ids : ids[i] = ids[j] => i = j
        /\ \A k \in DOMAIN shown : shown[k].id[2] # APART
        /\ Len(ids) = Cardinality(B)
    BY <1>2, <2>1 DEF SendInv, Known
  <2>4. \A k \in DOMAIN shown' : shown'[k].id[2] # APART
    <3> TAKE k \in DOMAIN shown'
    <3>1. CASE k \in DOMAIN shown /\ shown'[k] = shown[k]
      BY <2>3, <3>1
    <3>2. CASE \E i \in 1..Len(Sends) : shown'[k].id = SendId(i)
      BY <1>2, <2>2, <3>2
    <3> QED BY <1>9, <3>1, <3>2
  <2>5. \A k \in DOMAIN shown : shown[k].id[1] # call.step
    <3> SUFFICES ASSUME NEW k \in DOMAIN shown, shown[k].id[1] = call.step PROVE FALSE
      OBVIOUS
    <3>1. shown[k].id[2] \in Nat
      BY BelowFirst DEF SendInv
    <3>2. Complete(call.step)
      BY <1>2, <2>1, <2>3, <3>1 DEF SendInv, DoneSoFar
    <3>3. 1 \in 1..Size(call.step) /\ 1 \in 1..Len(Sends)
      BY <1>2, <2>2
    <3>4. Seen(SendId(1))
      BY <2>2, <3>2, <3>3 DEF Complete
    <3> QED BY <1>s, <3>3, <3>4
  <2>6. C = B \cup N /\ B \cap N = {}
    <3>1. \A k \in DOMAIN shown : shown[k].id[1] \in 1..Len(Plan)
      BY BelowFirst DEF SendInv
    <3>2. ASSUME NEW k \in DOMAIN shown' PROVE k \in C <=> k \in B \cup N
      <4>1. CASE k \in DOMAIN shown /\ shown'[k] = shown[k]
        <5>1. k \in 1..L
          BY <1>s, <4>1
        <5>2. k \notin N
          BY <1>s, <5>1
        <5>3. shown[k].id[1] < call.step + 1 <=> shown[k].id[1] < call.step
          <6>1. shown[k].id[1] \in 1..Len(Plan) /\ shown[k].id[1] # call.step
            BY <2>5, <3>1, <4>1
          <6> QED BY <1>2, <6>1
        <5> QED BY <3>2, <4>1, <5>2, <5>3
      <4>2. CASE /\ shown'[k].id[1] = call.step /\ k \notin DOMAIN shown
                 /\ \E i \in 1..Len(Sends) : k = Len(shown) + i /\ shown'[k].id = SendId(i)
        <5>1. k \in N
          BY <1>3, <1>s, <4>2
        <5>2. shown'[k].id[1] < call.step + 1
          BY <1>2, <4>2
        <5> QED BY <3>2, <5>1, <5>2
      <4> QED BY <1>9, <3>2, <4>1, <4>2
    <3>3. B \subseteq DOMAIN shown' /\ B \subseteq 1..L
      BY <1>s
    <3>4. N \subseteq DOMAIN shown' /\ N \cap (1..L) = {}
      BY <1>3, <1>s
    <3> QED BY <3>2, <3>3, <3>4
  <2>7. Cardinality(C) = Cardinality(B) + M /\ Cardinality(B) \in Nat
    <3>1. L + 1 \in Int /\ L + M \in Int /\ L \in Nat /\ M \in Nat
      BY <1>3, <1>s
    <3>2. IsFiniteSet(N) /\ Cardinality(N) = IF L + 1 > L + M THEN 0 ELSE (L + M) - (L + 1) + 1
      BY <3>1, FS_Interval
    <3>3. Cardinality(N) = M
      BY <3>1, <3>2
    <3>4. IsFiniteSet(DOMAIN shown) /\ B \subseteq DOMAIN shown
      BY <1>s, UpTo
    <3> HIDE DEF N, B
    <3>5. IsFiniteSet(B) /\ Cardinality(B) \in Nat
      BY <3>4, FS_Subset, FS_CardinalityType
    <3>6. Cardinality(B \cup N) = Cardinality(B) + Cardinality(N) - Cardinality(B \cap N)
      BY <3>2, <3>5, FS_Union
    <3>7. Cardinality(B \cap N) = 0
      BY <2>6, FS_EmptySet
    <3> HIDE DEF C, L, M
    <3> QED BY <2>6, <3>1, <3>3, <3>5, <3>6, <3>7
  <2>8. all = news /\ Len(news) = M
    BY <1>5, <2>1
  <2>9. \A i \in 1..Len(news) : news[i] = L + i
    BY <1>3, <1>5
  <2> HIDE DEF news, all, B, C
  <2>10. /\ Len(ids \o news) = Len(ids) + M
         /\ \A i, j \in DOMAIN (ids \o news) : (ids \o news)[i] = (ids \o news)[j] => i = j
    <3>1. \A i, j \in 1..Len(ids) : ids[i] = ids[j] => i = j
      BY <1>4, <2>3
    <3>2. \A i, j \in 1..Len(news) : news[i] = news[j] => i = j
      BY <1>3, <1>s, <2>8, <2>9
    <3>3. \A i \in 1..Len(ids) : ids[i] \in 1..L
      BY <1>4, <1>s
    <3>4. \A i \in 1..Len(ids), j \in 1..Len(news) : ids[i] # news[j]
      BY <1>3, <1>s, <2>8, <2>9, <3>3
    <3> HIDE DEF T, M
    <3>5. ids \in Seq(T) /\ news \in Seq(T)
      BY <1>5
    <3>6. /\ Len(ids \o news) = Len(ids) + Len(news)
          /\ \A i, j \in DOMAIN (ids \o news) : (ids \o news)[i] = (ids \o news)[j] => i = j
      BY <3>1, <3>2, <3>4, <3>5, Joined
    <3> QED BY <2>8, <3>6
  <2>11. \A i, j \in DOMAIN ids' : ids'[i] = ids'[j] => i = j
    BY <1>1, <2>8, <2>10
  <2>12. {k \in DOMAIN shown' : shown'[k].id[1] < call'.step} = C
    BY <1>6 DEF C
  <2>13. Len(ids') = Cardinality(C)
    BY <1>1, <2>3, <2>7, <2>8, <2>10
  <2> QED BY <1>1, <1>2, <2>4, <2>11, <2>12, <2>13 DEF Known
<1>13. Arrived'
  BY <1>1, <1>2 DEF Arrived
<1> QED BY <1>6, <1>7, <1>10, <1>11, <1>12, <1>13, <1>s DEF SendInv

LEMMA AcceptedKeeps == ASSUME SendInv, Accepted PROVE SendInv'
BY AheadKeeps, FileKeeps, StepKeeps

LEMMA SendInvInit == SendInit => SendInv
<1> SUFFICES ASSUME SendInit PROVE SendInv
  OBVIOUS
<1>1. letter = [text |-> 0, kinds |-> <<>>] /\ bad = {} /\ tight = FALSE
      /\ fate = "new" /\ tries = 0 /\ call = NoCall /\ ids = <<>> /\ shown = <<>>
      /\ breaks = 0 /\ mishaps = {}
  BY DEF SendInit
<1>2. Len(Plan) \in Nat
  BY <1>1, PlanFacts
<1>3. call = [step |-> 0, item |-> 0, apart |-> "no", got |-> <<>>]
      /\ call.step = 0 /\ call.item = 0 /\ call.apart = "no" /\ call.got = <<>>
  BY <1>1, CallFields
<1>4. DOMAIN shown = {} /\ DOMAIN ids = {} /\ <<>> \in Seq(DOMAIN shown) /\ <<>> \in Seq(Message)
  BY <1>1
<1>5. MaxTries \in Nat /\ MaxBreaks \in Nat
  BY SendingAssumption
<1>6. SendTypes
  <2>1. call \in [step : 0..Len(Plan) + 1, item : Nat, apart : {"no", "text", "done"},
                  got : Seq(DOMAIN shown)]
    BY <1>2, <1>3, <1>4
  <2>2. shown \in Seq(Message) /\ ids \in Seq(DOMAIN shown)
    BY <1>1, <1>4
  <2>3. letter \in Letter \cup {[text |-> 0, kinds |-> <<>>]}
    BY <1>1
  <2>5. /\ bad \subseteq DOMAIN letter.kinds /\ tight \in BOOLEAN
        /\ mishaps \subseteq {"split", "apart", "blind"}
    BY <1>1
  <2>6. tries \in 0..MaxTries /\ breaks \in 0..MaxBreaks
    BY <1>1, <1>5
  <2>4. fate = "new" /\ call = NoCall /\ shown = <<>> /\ breaks = 0 /\ mishaps = {} /\ tries = 0
    BY <1>1
  <2> QED BY <2>1, <2>2, <2>3, <2>4, <2>5, <2>6 DEF SendTypes
<1>7. CallShape /\ ShownFits
  BY <1>1, <1>3, <1>4 DEF CallShape, ShownFits
<1>8. DoneSoFar
  <2>1. \A i \in 1..(0 - 1) : FALSE
    OBVIOUS
  <2> QED BY <1>3, <1>4, <2>1 DEF DoneSoFar
<1>9. FirstTime /\ Arrived
  BY <1>1, <1>4 DEF FirstTime, Arrived
<1>10. Known
  <2>1. ~(call.step > 0)
    BY <1>3
  <2> QED BY <1>1, <1>4, <2>1 DEF Known
<1> QED BY <1>6, <1>7, <1>8, <1>9, <1>10 DEF SendInv

LEMMA SendInvStep == SendInv /\ [SendNext]_sendVars => SendInv'
<1> SUFFICES ASSUME SendInv, [SendNext]_sendVars PROVE SendInv'
  OBVIOUS
<1>1. CASE Compose
  BY <1>1, ComposeKeeps
<1>2. CASE StartAttempt
  BY <1>2, StartKeeps
<1>3. CASE Accepted
  BY <1>3, AcceptedKeeps
<1>4. CASE TakeApart
  BY <1>4, TakeApartKeeps
<1>5. CASE CaptionApart
  BY <1>5, CaptionApartKeeps
<1>6. CASE SkipStep
  BY <1>6, SkipKeeps
<1>7. CASE EscapedDuplicate
  BY <1>7, EscapedKeeps
<1>8. CASE Break
  BY <1>8, BreakKeeps
<1>9. CASE Finish
  BY <1>9, FinishKeeps
<1>10. CASE UNCHANGED sendVars
  <2>1. /\ letter' = letter /\ bad' = bad /\ tight' = tight /\ fate' = fate /\ tries' = tries
        /\ call' = call /\ ids' = ids /\ shown' = shown /\ breaks' = breaks /\ mishaps' = mishaps
    BY <1>10 DEF sendVars
  <2>2. /\ Plan' = Plan /\ Doing' = Doing /\ Running' = Running /\ Torn' = Torn
        /\ \A id : Seen(id)' = Seen(id)
        /\ \A n : Complete(n)' = Complete(n) /\ Captioned(n)' = Captioned(n)
        /\ ShownFits'
    BY <2>1, SameShown DEF SendInv, sent, Plan, Doing, Running, Torn
  <2>3. SendTypes' /\ CallShape'
    BY <2>1, <2>2 DEF SendInv, SendTypes, CallShape, Captioned
  <2>4. DoneSoFar' /\ Arrived'
    <3>1. DoneSoFar' = DoneSoFar
      BY <2>1 DEF DoneSoFar, Complete, Seen, Captioned, Size, Torn, Plan
    <3>2. Arrived' = Arrived
      BY <2>1 DEF Arrived, Complete, Seen, Captioned, Size, Torn, Plan
    <3> QED BY <3>1, <3>2 DEF SendInv
  <2>5. FirstTime' /\ Known'
    BY <2>1 DEF SendInv, FirstTime, Known
  <2> QED BY <2>2, <2>3, <2>4, <2>5 DEF SendInv
<1> QED BY <1>1, <1>2, <1>3, <1>4, <1>5, <1>6, <1>7, <1>8, <1>9, <1>10 DEF SendNext

(* Of the message that Telegram holds under an id, the plan says what it   *)
(* is.                                                                     *)
LEMMA SentParts ==
  ASSUME SendInv, NEW k \in DOMAIN shown, NEW n \in 1..Len(Plan), NEW i, shown[k].id = <<n, i>>
  PROVE  \/ /\ i = APART /\ tight /\ Plan[n].files # <<>> /\ Plan[n].text # 0
            /\ shown[k].file = 0 /\ shown[k].text = Plan[n].text
         \/ Plan[n].files = <<>> /\ i = 1 /\ shown[k].file = 0 /\ shown[k].text = Plan[n].text
         \/ /\ i \in DOMAIN Plan[n].files /\ shown[k].file = Plan[n].files[i]
            /\ shown[k].text = IF i = 1 /\ ~tight THEN Plan[n].text ELSE 0
<1>1. PICK m \in 1..Len(Plan) :
        \/ /\ shown[k].id = <<m, APART>> /\ tight /\ Plan[m].files # <<>> /\ Plan[m].text # 0
           /\ shown[k].file = 0 /\ shown[k].text = Plan[m].text
        \/ Plan[m].files = <<>> /\ shown[k].id = <<m, 1>> /\ shown[k].file = 0 /\ shown[k].text = Plan[m].text
        \/ \E j \in DOMAIN Plan[m].files :
             /\ shown[k].id = <<m, j>> /\ shown[k].file = Plan[m].files[j]
             /\ shown[k].text = IF j = 1 /\ ~tight THEN Plan[m].text ELSE 0
  BY DEF SendInv, ShownFits, Fits, FitsIn
<1>2. m = n
  BY <1>1
<1>3. \A j : shown[k].id = <<m, j>> => j = i
  OBVIOUS
<1> QED BY <1>1, <1>2, <1>3

LEMMA SentOfInv == SendInv => SentWell
<1> SUFFICES ASSUME SendInv PROVE SentWell
  OBVIOUS
<1>1. /\ PlanIsWhole(letter) /\ Len(Plan) \in Nat
      /\ \A n \in 1..Len(Plan) :
           /\ Plan[n].files \in Seq(Nat) /\ Plan[n].text \in Nat
           /\ DOMAIN Plan[n].files = 1..Len(Plan[n].files)
           /\ Len(Plan[n].files) < APART /\ Len(Plan[n].files) \in Nat
           /\ Size(n) \in 1..(APART - 1)
           /\ Plan[n].files # <<>> => Size(n) = Len(Plan[n].files)
  BY PlanFacts DEF SendInv, SendTypes
<1>2. /\ Plan \in Seq([files : Seq(Nat), text : Nat]) /\ DOMAIN Plan = 1..Len(Plan)
      /\ \A n \in 1..Len(Plan) :
           /\ Len(Plan[n].files) <= ALBUM_LIMIT
           /\ Plan[n].files # <<>> /\ Plan[n].text # 0 => HasCaption(letter)
           /\ \A i, j \in DOMAIN Plan[n].files :
                i # j => /\ GroupOf(letter.kinds[Plan[n].files[i]]) # "alone"
                         /\ GroupOf(letter.kinds[Plan[n].files[i]]) = GroupOf(letter.kinds[Plan[n].files[j]])
      /\ \A m, n \in 1..Len(Plan) : \A i \in DOMAIN Plan[m].files : \A j \in DOMAIN Plan[n].files :
           Plan[m].files[i] = Plan[n].files[j] => m = n /\ i = j
      /\ \A f \in DOMAIN letter.kinds :
           \E n \in 1..Len(Plan) : \E i \in DOMAIN Plan[n].files : Plan[n].files[i] = f
      /\ \A m, n \in 1..Len(Plan) : Plan[m].text # 0 /\ Plan[m].text = Plan[n].text => m = n
      /\ \A p \in 1..Parts(letter) : \E n \in 1..Len(Plan) : Plan[n].text = p
  BY <1>1 DEF PlanIsWhole, Plan
<1>3. APART \in Nat /\ APART > 1
  BY DEF APART
<1>4. SendTypeOK
  <2>1. \A i \in DOMAIN ids : ids[i] \in DOMAIN shown
    BY DEF SendInv, SendTypes
  <2> QED BY <2>1 DEF SendInv, SendTypes, SendTypeOK
<1>5. PlanIsTaken
  <2>1. HasCaption(letter) => letter.text <= CAPTION_LIMIT
    BY DEF HasCaption
  <2> HIDE DEF Plan
  <2> QED BY <1>2, <2>1 DEF PlanIsTaken
<1>6. ASSUME NEW k \in DOMAIN shown
      PROVE  /\ shown[k].id[1] \in 1..Len(Plan) /\ shown[k].id = <<shown[k].id[1], shown[k].id[2]>>
  BY BelowFirst DEF SendInv
<1>7. PartShownOnce
  <2> SUFFICES ASSUME NEW j \in DOMAIN shown, NEW k \in DOMAIN shown, j # k
               PROVE  /\ shown[j].file = 0 \/ shown[j].file # shown[k].file
                      /\ shown[j].text = 0 \/ shown[j].text # shown[k].text
    BY DEF PartShownOnce
  <2>1. shown[j].id # shown[k].id
    BY DEF SendInv, ShownFits
  <2> DEFINE m == shown[j].id[1]
             a == shown[j].id[2]
             n == shown[k].id[1]
             b == shown[k].id[2]
  <2>2. m \in 1..Len(Plan) /\ shown[j].id = <<m, a>> /\ n \in 1..Len(Plan) /\ shown[k].id = <<n, b>>
    BY <1>6
  <2> HIDE DEF m, a, n, b
  <2>3. \/ /\ a = APART /\ tight /\ Plan[m].files # <<>> /\ Plan[m].text # 0
           /\ shown[j].file = 0 /\ shown[j].text = Plan[m].text
        \/ Plan[m].files = <<>> /\ a = 1 /\ shown[j].file = 0 /\ shown[j].text = Plan[m].text
        \/ /\ a \in DOMAIN Plan[m].files /\ shown[j].file = Plan[m].files[a]
           /\ shown[j].text = IF a = 1 /\ ~tight THEN Plan[m].text ELSE 0
    BY <2>2, SentParts
  <2>4. \/ /\ b = APART /\ tight /\ Plan[n].files # <<>> /\ Plan[n].text # 0
           /\ shown[k].file = 0 /\ shown[k].text = Plan[n].text
        \/ Plan[n].files = <<>> /\ b = 1 /\ shown[k].file = 0 /\ shown[k].text = Plan[n].text
        \/ /\ b \in DOMAIN Plan[n].files /\ shown[k].file = Plan[n].files[b]
           /\ shown[k].text = IF b = 1 /\ ~tight THEN Plan[n].text ELSE 0
    BY <2>2, SentParts
  <2> HIDE DEF Plan
  <2>5. ASSUME shown[j].file # 0, shown[j].file = shown[k].file PROVE FALSE
    <3>1. a \in DOMAIN Plan[m].files /\ b \in DOMAIN Plan[n].files /\ Plan[m].files[a] = Plan[n].files[b]
      BY <2>3, <2>4, <2>5
    <3>2. m = n /\ a = b
      BY <1>2, <2>2, <3>1
    <3> QED BY <2>1, <2>2, <3>2
  <2>6. ASSUME shown[j].text # 0, shown[j].text = shown[k].text PROVE FALSE
    <3>1. shown[j].text = Plan[m].text /\ shown[k].text = Plan[n].text
      BY <2>3, <2>4, <2>6
    <3>2. m = n
      BY <1>2, <2>2, <2>6, <3>1
    <3>3. \A x : x \in DOMAIN Plan[n].files => Plan[n].files # <<>>
      OBVIOUS
    <3>4. a = b
      BY <2>3, <2>4, <2>6, <3>2, <3>3
    <3> QED BY <2>1, <2>2, <3>2, <3>4
  <2> QED BY <2>5, <2>6
<1>8. SentIsWholeOrSplit
  <2> SUFFICES ASSUME fate = "sent", ~Torn PROVE Whole
    BY DEF SentIsWholeOrSplit, Torn
  <2>1. ASSUME NEW n \in 1..Len(Plan)
        PROVE  /\ \A i \in 1..Size(n) : Seen(<<n, i>>)
               /\ Captioned(n) => Seen(<<n, APART>>)
    BY DEF SendInv, Arrived, Complete
  <2>2. ASSUME NEW f \in DOMAIN letter.kinds PROVE \E k \in DOMAIN shown : shown[k].file = f
    <3>0. PICK n \in 1..Len(Plan) : \E i \in DOMAIN Plan[n].files : Plan[n].files[i] = f
      BY <1>2
    <3>1. PICK i \in DOMAIN Plan[n].files : Plan[n].files[i] = f
      BY <3>0
    <3>2. Plan[n].files # <<>>
      BY <3>1
    <3>3. i \in 1..Size(n) /\ i # APART
      BY <1>1, <1>3, <3>1, <3>2
    <3>4. PICK k \in DOMAIN shown : shown[k].id = <<n, i>>
      BY <2>1, <3>3 DEF Seen
    <3>5. shown[k].file = Plan[n].files[i]
      BY <3>2, <3>3, <3>4, SentParts
    <3> QED BY <3>1, <3>5
  <2>3. ASSUME NEW p \in 1..Parts(letter) PROVE \E k \in DOMAIN shown : shown[k].text = p
    <3>1. PICK n \in 1..Len(Plan) : Plan[n].text = p
      BY <1>2
    <3>2. Plan[n].text # 0
      <4>1. p # 0
        OBVIOUS
      <4> QED BY <3>1, <4>1
    <3>3. 1 \in 1..Size(n) /\ APART \notin DOMAIN Plan[n].files /\ 1 # APART
      BY <1>1, <1>3
    <3>4. CASE Plan[n].files = <<>> \/ ~tight
      <4>1. PICK k \in DOMAIN shown : shown[k].id = <<n, 1>>
        BY <2>1, <3>3 DEF Seen
      <4>2. Plan[n].files = <<>> => 1 \notin DOMAIN Plan[n].files
        OBVIOUS
      <4>3. shown[k].text = Plan[n].text
        BY <3>3, <3>4, <4>1, <4>2, SentParts
      <4> QED BY <3>1, <4>3
    <3>5. CASE Plan[n].files # <<>> /\ tight
      <4>1. Captioned(n)
        BY <3>2, <3>5 DEF Captioned
      <4>2. PICK k \in DOMAIN shown : shown[k].id = <<n, APART>>
        BY <2>1, <4>1 DEF Seen
      <4>3. shown[k].text = Plan[n].text
        BY <3>3, <3>5, <4>2, SentParts
      <4> QED BY <3>1, <4>3
    <3> QED BY <3>4, <3>5
  <2> QED BY <2>2, <2>3 DEF Whole, Parts
<1>9. NumbersAreWhole
  <2> SUFFICES ASSUME fate = "sent", mishaps = {}
               PROVE  /\ \A i, j \in DOMAIN ids : i # j => ids[i] # ids[j]
                      /\ {ids[i] : i \in DOMAIN ids} = DOMAIN shown
    BY DEF NumbersAreWhole
  <2>1. /\ \A i, j \in DOMAIN ids : ids[i] = ids[j] => i = j
        /\ Len(ids) = Len(shown) /\ ids \in Seq(DOMAIN shown)
    BY DEF SendInv, Known, SendTypes
  <2> DEFINE R == {ids[i] : i \in DOMAIN ids}
  <2>2. Cardinality(R) = Len(ids)
    BY <2>1, Distinct
  <2>3. DOMAIN shown = 1..Len(shown) /\ Len(shown) \in Nat
    BY BelowFirst DEF SendInv
  <2>4. IsFiniteSet(DOMAIN shown) /\ Cardinality(DOMAIN shown) = Len(shown)
    BY <2>3, UpTo
  <2>5. R \in SUBSET DOMAIN shown
    BY <2>1
  <2>6. R = DOMAIN shown
    <3> HIDE DEF R
    <3> QED BY <2>1, <2>2, <2>4, <2>5, FS_Subset
  <2> QED BY <2>1, <2>6
<1> QED BY <1>4, <1>5, <1>7, <1>8, <1>9 DEF SentWell

(* What the client gets: every step of a plan is one Telegram takes, no    *)
(* part of the text and no file is shown twice whatever was interrupted,   *)
(* refused or tried again, a message called sent has arrived whole, unless *)
(* an interruption met an album sent file by file, and its numbers are     *)
(* those of its parts (send_plan.plan, execute, _recoverer).               *)
THEOREM SentMeansSent == SendSpec => []SentWell
<1>1. SendInit => SendInv
  BY SendInvInit
<1>2. SendInv /\ [SendNext]_sendVars => SendInv'
  BY SendInvStep
<1>3. SendInv => SentWell
  BY SentOfInv
<1> QED BY <1>1, <1>2, <1>3, PTL DEF SendSpec

=============================================================================

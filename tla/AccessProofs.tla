--------------------------- MODULE AccessProofs -----------------------------
(***************************************************************************)
(* Theorems about Access, for any number of people, requests, links,       *)
(* sessions and attempts: the ways into the system stay what they were     *)
(* given out for, and every session that works was made under the row as   *)
(* it is now.                                                              *)
(***************************************************************************)
EXTENDS Access, FiniteSetTheorems, TLAPS

Busy == {r \in Request : request[r].op # "none"}

\* Requests that entered a wrong password and are not answered yet.
Trying(u) == {r \in Request : request[r].op = "wrong" /\ request[r].user = u}
Wrong(s) == {i \in 1..Len(s) : s[i] = "wrong"}

\* Who asks rules, and may log in tomorrow.
Ruler(u) == user[u].role = "admin" /\ user[u].active /\ user[u].pw > 0

AccessTyped ==
  /\ TypeOK
  /\ spent = [k \in Kind |-> spent[k]]

\* A password is what tells who has entered from who never did; an invitation
\* is left in the row of who has entered only by a resend that was overtaken.
RowSound(row, resent) ==
  IF row.accepted THEN row.pw > 0 /\ (row.invite = 0 \/ resent)
  ELSE row.pw = 0 /\ row.reset = 0
RowsInv ==
  \A u \in User : /\ user[u].role = "none" => user[u] = Nobody
                  /\ RowSound(user[u], <<"resend", u>> \in tangled)

\* Who may have sessions that are not current: history h tells.
Strays(h, u) == \E op \in {"login", "accept", "resend"} : <<op, u>> \in h

\* No acceptance was overtaken.
Once == \A u \in User : <<"accept", u>> \notin tangled

\* A link that still is in a row was not used, and is in no other row.
LinksInv ==
  /\ LinksWorkOnce
  /\ \A u, v \in User : u # v =>
       /\ user[u].invite = 0 \/ user[u].invite # user[v].invite
       /\ user[u].reset = 0 \/ user[u].reset # user[v].reset
  /\ \A u \in User : 
       /\ user[u].reset # 0 => spent["reset"][user[u].reset] = 0
       /\ Once /\ user[u].invite # 0 => spent["invite"][user[u].invite] = 0
  /\ \A k \in Kind : \A n \in 1..MaxLinks[k] : n > sent[k] => spent[k][n] = 0

SessionsInv ==
  /\ \A s \in 1..Len(session) : session[s].pw > 0 /\ user[session[s].user].pw > 0
  /\ \A s \in 1..Len(session) : session[s].alive =>
       Current(s) \/ Strays(tangled, session[s].user)

\* What a request has read and still may rely on.
Known(r) == LET q == request[r] IN
  /\ user[q.user].role # "none"
  /\ q.seen.invite <= sent["invite"]
  /\ q.op = "reset" => q.seen = user[q.user] /\ q.seen.reset # 0 /\ q.seen.active
  /\ q.op = "login" => q.seen.pw > 0 /\ q.seen.active /\ user[q.user].pw > 0
  /\ q.op = "accept" => q.seen.invite # 0 /\ q.seen.active
  /\ q.op = "resend" => ~q.seen.accepted
  /\ q.op = "issue" => user[q.user].accepted
  /\ q.op = "password" => q.by \in 1..Len(session) /\ session[q.by].user = q.user
  /\ q.op = "edit" => q.by \in 1..Len(session) /\ session[q.by].user # q.user

RequestsInv ==
  /\ \A r \in Busy : Known(r)
  /\ \A r, o \in Busy : /\ r # o
                        /\ request[r].op = "reset" /\ request[o].op = "reset"
                        => request[r].user # request[o].user

\* Every session was paid for with a request.
BudgetInv == Len(session) + left + Cardinality(Busy) <= MaxRequests

TriesInv == \A u \in User :
  Cardinality(Wrong(attempt[u])) + Cardinality(Trying(u))
    < MaxAttempts + Cardinality(Request)

AccessInv == /\ AccessTyped /\ RowsInv /\ LinksInv /\ SessionsInv /\ RequestsInv
             /\ BudgetInv /\ TriesInv /\ SomebodyRules

RequestRow == [op : Op, user : User, by : 0..MaxRequests, change : Change, seen : Row]
SessionRow == [user : User, alive : BOOLEAN, pw : Nat, socket : BOOLEAN]

-----------------------------------------------------------------------------
(* What the rows everything starts with are.                               *)
LEMMA RowsOfPeople ==
  ASSUME AccessAssumption
  PROVE  /\ Nobody \in Row /\ Nobody.role = "none" /\ ~Nobody.accepted /\ Nobody.active
         /\ Nobody.pw = 0 /\ Nobody.invite = 0 /\ Nobody.reset = 0
         /\ Boss \in Row /\ Boss.role = "admin" /\ Boss.accepted /\ Boss.active
         /\ Boss.pw = 1 /\ Boss.invite = 0 /\ Boss.reset = 0
         /\ Idle.op = "none" /\ Idle.seen = Nobody
<1>1. MaxLinks["invite"] \in Nat /\ MaxLinks["reset"] \in Nat
  BY DEF AccessAssumption, Kind
<1>2. /\ Nobody \in Row /\ Nobody.role = "none" /\ ~Nobody.accepted /\ Nobody.active
      /\ Nobody.pw = 0 /\ Nobody.invite = 0 /\ Nobody.reset = 0
  BY <1>1 DEF Nobody, Row
<1>3. /\ Boss.role = "admin" /\ Boss.accepted /\ Boss.active
      /\ Boss.pw = 1 /\ Boss.invite = 0 /\ Boss.reset = 0
  BY DEF Boss, Nobody
<1>4. Boss \in Row
  BY <1>2 DEF Boss, Row, Role
<1>5. Idle.op = "none" /\ Idle.seen = Nobody
  BY DEF Idle
<1> QED BY <1>2, <1>3, <1>4, <1>5

(* Requests can be counted.                                                *)
LEMMA BusyIsFinite ==
  ASSUME AccessAssumption
  PROVE  /\ IsFiniteSet(Busy) /\ Cardinality(Busy) \in Nat
         /\ \A u \in User : IsFiniteSet(Trying(u)) /\ Cardinality(Trying(u)) \in Nat
                            /\ Cardinality(Trying(u)) <= Cardinality(Request)
         /\ Cardinality(Request) \in Nat
<1>1. IsFiniteSet(Request) /\ Busy \in SUBSET Request
  BY DEF AccessAssumption, Busy
<1>2. \A u \in User : Trying(u) \in SUBSET Request
  BY DEF Trying
<1> QED BY <1>1, <1>2, FS_Subset, FS_CardinalityType

(* The wrong passwords of a list of attempts can be counted, and an attempt*)
(* adds one, or none, while to forget the oldest one adds none.            *)
LEMMA WrongIsFinite ==
  ASSUME NEW K, NEW s \in Seq(K)
  PROVE  /\ IsFiniteSet(Wrong(s)) /\ Cardinality(Wrong(s)) \in Nat
         /\ Cardinality(Wrong(s)) <= Len(s)
<1>0. Len(s) \in Nat
  OBVIOUS
<1>1. IsFiniteSet(1..Len(s)) /\ Cardinality(1..Len(s)) = Len(s)
  BY <1>0, FS_Interval
<1>2. Wrong(s) \in SUBSET (1..Len(s))
  BY DEF Wrong
<1> QED BY <1>1, <1>2, FS_Subset, FS_CardinalityType

LEMMA WrongOfAppend ==
  ASSUME NEW K, NEW s \in Seq(K), NEW e \in K
  PROVE  /\ e = "wrong" => Cardinality(Wrong(Append(s, e))) = Cardinality(Wrong(s)) + 1
         /\ e # "wrong" => Cardinality(Wrong(Append(s, e))) = Cardinality(Wrong(s))
<1>1. /\ Len(Append(s, e)) = Len(s) + 1 /\ Append(s, e)[Len(s) + 1] = e
      /\ \A i \in 1..Len(s) : Append(s, e)[i] = s[i]
      /\ Len(s) \in Nat
  OBVIOUS
<1>2. CASE e = "wrong"
  <2>1. Wrong(Append(s, e)) = Wrong(s) \cup {Len(s) + 1}
    BY <1>1, <1>2 DEF Wrong
  <2>2. Len(s) + 1 \notin Wrong(s)
    BY <1>1 DEF Wrong
  <2> QED BY <1>2, <2>1, <2>2, WrongIsFinite, FS_AddElement
<1>3. CASE e # "wrong"
  <2>1. Wrong(Append(s, e)) = Wrong(s)
    BY <1>1, <1>3 DEF Wrong
  <2> QED BY <1>3, <2>1
<1> QED BY <1>2, <1>3

LEMMA WrongOfTail ==
  ASSUME NEW K, NEW s \in Seq(K), s # <<>>
  PROVE  Cardinality(Wrong(Tail(s))) <= Cardinality(Wrong(s))
<1>1. /\ Len(Tail(s)) = Len(s) - 1 /\ Len(s) \in Nat \ {0} /\ Tail(s) \in Seq(K)
      /\ \A i \in 1..Len(Tail(s)) : Tail(s)[i] = s[i + 1]
  OBVIOUS
<1> DEFINE f == [i \in Wrong(Tail(s)) |-> i + 1]
<1>2. f \in Injection(Wrong(Tail(s)), Wrong(s))
  <2>1. \A i \in Wrong(Tail(s)) : i \in Int /\ i + 1 \in Wrong(s)
    BY <1>1 DEF Wrong
  <2> QED BY <2>1 DEF Injection, IsInjective
<1> QED BY <1>2, FS_Injection, WrongIsFinite

-----------------------------------------------------------------------------
LEMMA AccessStart == AccessAssumption /\ Init => AccessInv
<1> SUFFICES ASSUME AccessAssumption, Init PROVE AccessInv
  OBVIOUS
<1> USE RowsOfPeople
<1>1. /\ session = <<>> /\ attempt = [u \in User |-> <<>>]
      /\ request = [r \in Request |-> Idle] /\ sent = [k \in Kind |-> 0]
      /\ left = MaxRequests /\ tangled = {}
      /\ spent = [k \in Kind |-> [n \in 1..MaxLinks[k] |-> 0]]
  BY DEF Init
<1>2. PICK staff \in SUBSET (User \ {Founder}) :
        user = [u \in User |-> IF u \in staff \cup {Founder} THEN Boss ELSE Nobody]
  BY DEF Init
<1>3. user \in [User -> Row] /\ user[Founder] = Boss /\ Founder \in User
      /\ \A u \in User : user[u] \in {Boss, Nobody}
  BY <1>2 DEF AccessAssumption
<1>4. Idle \in RequestRow
  BY <1>3 DEF Idle, RequestRow, Op, Change, AccessAssumption
<1>5. Busy = {} /\ \A u \in User : Trying(u) = {}
  BY <1>1 DEF Busy, Trying
<1>6. AccessTyped
  <2>1. \A k \in Kind : MaxLinks[k] \in Nat
    BY DEF AccessAssumption
  <2>2. /\ session \in Seq(SessionRow) /\ Len(session) = 0
        /\ attempt \in [User -> Seq({"wrong", "locked"})]
        /\ request \in [Request -> RequestRow]
    BY <1>1, <1>4
  <2>3. \A k \in Kind : spent[k] \in [1..MaxLinks[k] -> Nat]
    BY <1>1
  <2>4. \A k \in Kind : sent[k] = 0
    BY <1>1
  <2>5. \A u \in User : user[u].invite = 0 /\ user[u].reset = 0
    BY <1>3
  <2>6. "invite" \in Kind /\ "reset" \in Kind
    BY DEF Kind
  <2>7. spent = [k \in Kind |-> spent[k]] /\ sent \in [Kind -> Nat]
    BY <1>1
  <2>8. MaxRequests \in Nat
    BY DEF AccessAssumption
  <2>9. /\ \A k \in Kind : sent[k] <= MaxLinks[k]
        /\ \A u \in User : user[u].invite <= sent["invite"] /\ user[u].reset <= sent["reset"]
    BY <2>1, <2>4, <2>5, <2>6
  <2>10. Len(session) <= MaxRequests /\ left \in 0..MaxRequests
    BY <1>1, <2>2, <2>8
  <2>11. tangled \subseteq Op \X User
    BY <1>1
  <2> QED BY <1>3, <2>2, <2>3, <2>7, <2>9, <2>10, <2>11
          DEF AccessTyped, TypeOK, RequestRow, SessionRow
<1>7. RowsInv
  BY <1>3 DEF RowsInv, RowSound
<1>8. LinksInv
  <2>1. \A k \in Kind : \A n \in 1..MaxLinks[k] : spent[k][n] = 0
    BY <1>1
  <2>2. \A u \in User : user[u].invite = 0 /\ user[u].reset = 0
    BY <1>3
  <2> QED BY <2>1, <2>2 DEF LinksInv, LinksWorkOnce
<1>9. SessionsInv
  BY <1>1 DEF SessionsInv
<1>10. RequestsInv
  BY <1>5 DEF RequestsInv
<1>11. BudgetInv
  BY <1>1, <1>5, FS_EmptySet DEF BudgetInv, AccessAssumption
<1>12. TriesInv
  <2>1. \A u \in User : Wrong(attempt[u]) = {}
    BY <1>1 DEF Wrong
  <2>2. \A u \in User : Cardinality(Wrong(attempt[u])) = 0 /\ Cardinality(Trying(u)) = 0
    BY <1>5, <2>1, FS_EmptySet
  <2>3. Cardinality(Request) \in Nat /\ MaxAttempts \in Nat \ {0}
    BY BusyIsFinite DEF AccessAssumption
  <2> QED BY <2>2, <2>3 DEF TriesInv
<1>13. SomebodyRules
  BY <1>3 DEF SomebodyRules
<1> QED BY <1>6, <1>7, <1>8, <1>9, <1>10, <1>11, <1>12, <1>13 DEF AccessInv

-----------------------------------------------------------------------------
LEMMA TypesOfAccess ==
  ASSUME AccessAssumption, AccessTyped
  PROVE  /\ user \in [User -> Row] /\ session \in Seq(SessionRow)
         /\ request \in [Request -> RequestRow] /\ Len(session) \in Nat
         /\ left \in Nat /\ tangled \subseteq Op \X User /\ MaxRequests \in Nat
         /\ \A s \in 1..Len(session) : session[s] \in SessionRow
         /\ sent["invite"] \in Nat /\ sent["reset"] \in Nat
         /\ MaxLinks["invite"] \in Nat /\ MaxLinks["reset"] \in Nat
         /\ \A u \in User : attempt[u] \in Seq({"wrong", "locked"})
<1>1. "invite" \in Kind /\ "reset" \in Kind
  BY DEF Kind
<1>2. /\ user \in [User -> Row] /\ session \in Seq(SessionRow)
      /\ request \in [Request -> RequestRow] /\ tangled \subseteq Op \X User
      /\ attempt \in [User -> Seq({"wrong", "locked"})]
  BY DEF AccessTyped, TypeOK, RequestRow, SessionRow
<1>3. left \in 0..MaxRequests /\ sent \in [Kind -> Nat]
  BY DEF AccessTyped, TypeOK
<1>4. MaxRequests \in Nat /\ MaxLinks \in [Kind -> Nat]
  BY DEF AccessAssumption
<1>5. Len(session) \in Nat /\ \A s \in 1..Len(session) : session[s] \in SessionRow
  BY <1>2
<1> QED BY <1>1, <1>2, <1>3, <1>4, <1>5

(* The columns of a row of a person.                                       *)
LEMMA FieldsOfRows ==
  ASSUME AccessAssumption, NEW row \in Row
  PROVE  /\ row.invite \in Nat /\ row.invite <= MaxLinks["invite"]
         /\ row.reset \in Nat /\ row.reset <= MaxLinks["reset"]
         /\ row.invite # 0 => row.invite \in 1..MaxLinks["invite"]
         /\ row.reset # 0 => row.reset \in 1..MaxLinks["reset"]
         /\ row.pw \in Nat /\ row.active \in BOOLEAN /\ row.accepted \in BOOLEAN
<1>1. MaxLinks["invite"] \in Nat /\ MaxLinks["reset"] \in Nat
  BY DEF AccessAssumption, Kind
<1>2. row.invite \in 0..MaxLinks["invite"] /\ row.reset \in 0..MaxLinks["reset"]
      /\ row.pw \in Nat /\ row.active \in BOOLEAN /\ row.accepted \in BOOLEAN
  BY DEF Row
<1> QED BY <1>1, <1>2

\* What a new request must have read.
Asks(op, u, by) ==
  /\ op \in Op \ {"none"}
  /\ op = "reset" => user[u].reset # 0 /\ user[u].active /\ Free(u)
  /\ op = "login" => user[u].pw > 0 /\ user[u].active
  /\ op = "accept" => user[u].invite # 0 /\ user[u].active
  /\ op = "resend" => ~user[u].accepted
  /\ op = "issue" => user[u].accepted
  /\ op = "password" => by \in 1..Len(session) /\ session[by].user = u
  /\ op = "edit" => by \in 1..Len(session) /\ session[by].user # u
  /\ op = "wrong" => ~Locked(u)

(* A request that begins knows what it has read.                           *)
LEMMA OpensKeeps ==
  ASSUME AccessAssumption, AccessInv, NEW r \in Request, NEW op, NEW u \in User,
         NEW by \in 0..MaxRequests, NEW change \in Change,
         Opens(r, op, u, by, change), Asks(op, u, by)
  PROVE  AccessInv'
<1> DEFINE q == [op |-> op, user |-> u, by |-> by, change |-> change, seen |-> user[u]]
<1>1. AccessTyped /\ op \in Op
  BY DEF AccessInv, Asks
<1>2. /\ request[r] = Idle /\ user[u].role # "none"
      /\ request' = [request EXCEPT ![r] = q]
      /\ left > 0 /\ left' = left - 1
      /\ UNCHANGED <<user, session, attempt, sent, spent, tangled>>
  BY DEF Opens
<1>3. user[u] \in Row /\ q \in RequestRow
  BY <1>1, TypesOfAccess DEF RequestRow
<1>4. /\ request' \in [Request -> RequestRow] /\ request'[r] = q
      /\ \A o \in Request \ {r} : request'[o] = request[o]
  BY <1>1, <1>2, <1>3, TypesOfAccess
<1>4a. /\ q.op = op /\ q.user = u /\ q.by = by /\ q.seen = user[u]
  OBVIOUS
<1> HIDE DEF q
<1>5. AccessTyped'
  <2>1. left' \in 0..MaxRequests
    BY <1>1, <1>2 DEF AccessTyped, TypeOK
  <2> QED BY <1>1, <1>2, <1>4, <2>1 DEF AccessTyped, TypeOK, RequestRow
<1>6. Busy' = Busy \cup {r} /\ r \notin Busy
  BY <1>1, <1>2, <1>4, <1>4a, RowsOfPeople DEF Busy, Asks
<1>7. BudgetInv'
  <2>1. Cardinality(Busy') = Cardinality(Busy) + 1
    BY <1>6, BusyIsFinite, FS_AddElement
  <2>2. Cardinality(Busy) \in Nat /\ Len(session) \in Nat /\ left \in Nat
    BY <1>1, BusyIsFinite, TypesOfAccess
  <2>3. Len(session) + left + Cardinality(Busy) <= MaxRequests
    BY DEF AccessInv, BudgetInv
  <2>4. MaxRequests \in Nat
    BY DEF AccessAssumption
  <2>5. Len(session') + left' + Cardinality(Busy') <= MaxRequests
    BY <1>2, <2>1, <2>2, <2>3, <2>4
  <2> QED BY <2>5 DEF BudgetInv
<1>8. RequestsInv'
  <2>1. Known(r)'
    <3>1. /\ user[u].invite <= sent["invite"]
          /\ op # "none" /\ op = "reset" => user[u].reset # 0 /\ user[u].active
      BY <1>1 DEF AccessTyped, TypeOK, Asks
    <3> QED BY <1>2, <1>4, <1>4a, <3>1 DEF Known, Asks, Ruler
  <2>2. ASSUME NEW o \in Busy', o # r PROVE Known(o)'
    <3>1. o \in Busy /\ request'[o] = request[o]
      BY <1>4, <1>6, <2>2 DEF Busy
    <3>2. Known(o)
      BY <3>1 DEF AccessInv, RequestsInv
    <3> QED BY <1>2, <3>1, <3>2 DEF Known, Ruler
  <2>3. ASSUME NEW o \in Request, o # r, request'[o].op = "reset", op = "reset"
        PROVE  request'[o].user # u
    BY <1>4, <2>3 DEF Asks, Free
  <2>4. ASSUME NEW o \in Busy', NEW p \in Busy', o # p,
               request'[o].op = "reset", request'[p].op = "reset"
        PROVE  request'[o].user # request'[p].user
    <3>1. o \in Request /\ p \in Request
      BY <2>4 DEF Busy
    <3>2. CASE o = r
      BY <1>4, <1>4a, <2>3, <2>4, <3>1, <3>2
    <3>3. CASE p = r
      BY <1>4, <1>4a, <2>3, <2>4, <3>1, <3>3
    <3>4. CASE o # r /\ p # r
      BY <1>4, <1>6, <2>4, <3>1, <3>4 DEF AccessInv, RequestsInv
    <3> QED BY <3>2, <3>3, <3>4
  <2>5. \A o \in Busy' : Known(o)'
    BY <2>1, <2>2
  <2> HIDE DEF Known
  <2> QED BY <2>4, <2>5 DEF RequestsInv
<1>9. TriesInv'
  <2> SUFFICES ASSUME NEW v \in User
               PROVE  Cardinality(Wrong(attempt[v])) + Cardinality(Trying(v)')
                        < MaxAttempts + Cardinality(Request)
    BY <1>2 DEF TriesInv
  <2>1. CASE op = "wrong" /\ v = u
    <3>1. Len(attempt[u]) < MaxAttempts
      BY <1>1, <2>1, TypesOfAccess DEF Asks, Locked, AccessAssumption
    <3>2. /\ Cardinality(Wrong(attempt[u])) <= Len(attempt[u])
          /\ Cardinality(Wrong(attempt[u])) \in Nat /\ Len(attempt[u]) \in Nat
      BY <1>1, TypesOfAccess, WrongIsFinite
    <3>3. Trying(v)' \in SUBSET Request
      BY DEF Trying
    <3>4. /\ Cardinality(Trying(v)') <= Cardinality(Request)
          /\ Cardinality(Trying(v)') \in Nat /\ Cardinality(Request) \in Nat
      BY <3>3, FS_Subset, FS_CardinalityType DEF AccessAssumption
    <3> QED BY <2>1, <3>1, <3>2, <3>4 DEF AccessAssumption
  <2>2. CASE ~(op = "wrong" /\ v = u)
    <3>1. Trying(v)' = Trying(v)
      BY <1>2, <1>4, <1>4a, <2>2, RowsOfPeople DEF Trying
    <3> QED BY <3>1 DEF AccessInv, TriesInv
  <2> QED BY <2>1, <2>2
<1>10. RowsInv' /\ LinksInv' /\ SessionsInv' /\ SomebodyRules'
  BY <1>2 DEF AccessInv, RowsInv, LinksInv, LinksWorkOnce, Once, SessionsInv, Current,
              SomebodyRules
<1> QED BY <1>5, <1>7, <1>8, <1>9, <1>10 DEF AccessInv

LEMMA AskKeeps ==
  ASSUME AccessAssumption, AccessInv, NEW r \in Request, Ask(r)
  PROVE  AccessInv'
<1>1. AccessTyped /\ 0 \in 0..MaxRequests /\ "enable" \in Change
  BY DEF AccessInv, AccessAssumption, Change
<1>2. ASSUME NEW s \in 1..Len(session)
      PROVE  s \in 0..MaxRequests /\ session[s].user \in User
  <2>1. session[s] \in SessionRow /\ Len(session) \in Nat /\ MaxRequests \in Nat
    BY <1>1, TypesOfAccess
  <2>2. Len(session) <= MaxRequests
    BY <1>1 DEF AccessTyped, TypeOK
  <2> QED BY <2>1, <2>2 DEF SessionRow
<1>4. ASSUME NEW u \in User, LoginRead(r, u) PROVE AccessInv'
  <2>1. Asks("login", u, 0) \/ ~(user[u].pw > 0 /\ user[u].active)
    BY DEF Asks, Op
  <2>2. ~Locked(u) => Asks("wrong", u, 0)
    BY DEF Asks, Op
  <2> QED BY <1>1, <1>4, <2>1, <2>2, OpensKeeps DEF LoginRead
<1>5. ASSUME NEW u \in User, AcceptRead(r, u) PROVE AccessInv'
  <2>1. Asks("accept", u, 0)
    BY <1>5 DEF Asks, Op, AcceptRead
  <2> QED BY <1>1, <1>5, <2>1, OpensKeeps DEF AcceptRead
<1>6. ASSUME NEW u \in User, ResetRead(r, u) PROVE AccessInv'
  <2>1. Asks("reset", u, 0)
    BY <1>6 DEF Asks, Op, ResetRead
  <2> QED BY <1>1, <1>6, <2>1, OpensKeeps DEF ResetRead
<1>7. ASSUME NEW s \in 1..Len(session), PasswordRead(r, s) PROVE AccessInv'
  <2>1. Asks("password", session[s].user, s)
    BY <1>7 DEF Asks, Op, PasswordRead
  <2> QED BY <1>1, <1>2, <1>7, <2>1, OpensKeeps DEF PasswordRead
<1>8. ASSUME NEW s \in 1..Len(session), NEW u \in User, ResendRead(r, s, u) PROVE AccessInv'
  <2>1. Asks("resend", u, s)
    BY <1>8 DEF Asks, Op, ResendRead
  <2> QED BY <1>1, <1>2, <1>8, <2>1, OpensKeeps DEF ResendRead
<1>9. ASSUME NEW s \in 1..Len(session), NEW u \in User, IssueRead(r, s, u) PROVE AccessInv'
  <2>1. Asks("issue", u, s)
    BY <1>9 DEF Asks, Op, IssueRead, Issuable
  <2> QED BY <1>1, <1>2, <1>9, <2>1, OpensKeeps DEF IssueRead
<1>10. ASSUME NEW s \in 1..Len(session), NEW u \in User, NEW change \in Change,
              EditRead(r, s, u, change)
       PROVE  AccessInv'
  <2>1. Asks("edit", u, s)
    BY <1>10 DEF Asks, Op, EditRead, ChangeOk
  <2> QED BY <1>1, <1>2, <1>10, <2>1, OpensKeeps DEF EditRead
<1> QED BY <1>4, <1>5, <1>6, <1>7, <1>8, <1>9, <1>10 DEF Ask

-----------------------------------------------------------------------------
SessionsGrow ==
  /\ session' \in Seq(SessionRow)
  /\ Len(session) <= Len(session') /\ Len(session') <= Len(session) + 1
  /\ \A s \in 1..Len(session) : session'[s].user = session[s].user

\* What a commit adds to the history of requests that were overtaken.
LEMMA CommitTangles ==
  ASSUME AccessAssumption, AccessInv, NEW r \in Request, request[r].op \in Op \ {"none"},
         NEW row, Commits(r, row)
  PROVE  /\ tangled' \subseteq Op \X User /\ tangled \subseteq tangled'
         /\ \A u : Strays(tangled, u) => Strays(tangled', u)
         /\ Once' => Once
         /\ request[r].op \in {"login", "accept", "resend"} =>
              \/ request[r].seen = user[request[r].user]
              \/ <<request[r].op, request[r].user>> \in tangled'
         /\ request[r].op = "edit" =>
              \/ Ruler(session[request[r].by].user)
              \/ <<"edit", request[r].user>> \in tangled'
<1> DEFINE q == request[r]
<1>1. AccessTyped /\ r \in Busy
  BY DEF AccessInv, Busy
<1>2. tangled \subseteq Op \X User /\ q \in RequestRow
  BY <1>1, TypesOfAccess
<1>3. <<q.op, q.user>> \in Op \X User
  BY <1>2 DEF RequestRow
<1>4. tangled' = IF Overtaken(r) THEN tangled \cup {<<q.op, q.user>>} ELSE tangled
  BY DEF Commits
<1> HIDE DEF q
<1>5. tangled' \subseteq Op \X User /\ tangled \subseteq tangled'
  BY <1>2, <1>3, <1>4
<1>6. /\ \A u : Strays(tangled, u) => Strays(tangled', u)
      /\ Once' => Once
  BY <1>5 DEF Strays, Once
<1>7. Overtaken(r) => <<q.op, q.user>> \in tangled'
  BY <1>4
<1>8. q.op \in {"login", "accept", "resend"} => q.seen = user[q.user] \/ Overtaken(r)
  BY DEF Overtaken, q
<1>9. q.op = "edit" => Ruler(session[q.by].user) \/ Overtaken(r)
  <2> SUFFICES ASSUME q.op = "edit", ~Overtaken(r) PROVE Ruler(session[q.by].user)
    OBVIOUS
  <2>1. Rules(q.by) /\ q.by \in 1..Len(session)
    BY <1>1 DEF Overtaken, AccessInv, RequestsInv, Known, q
  <2>2. user[session[q.by].user].pw > 0
    BY <2>1 DEF AccessInv, SessionsInv
  <2> QED BY <2>1, <2>2 DEF Rules, Alive, Ruler
<1> QED BY <1>5, <1>6, <1>7, <1>8, <1>9 DEF q

\* What every commit does to the rows and to the other requests.
LEMMA CommitKeeps ==
  ASSUME AccessAssumption, AccessInv, NEW r \in Request,
         request[r].op \in Op \ {"none", "wrong"},
         NEW row \in Row, row.role # "none", Commits(r, row),
         request[r].op = "reset" \/ Free(request[r].user),
         sent["invite"] <= sent'["invite"], sent'["invite"] \in Nat,
         SessionsGrow, left' = left,
         \A u \in User : attempt'[u] = attempt[u] \/ attempt'[u] = <<>>,
         row.pw >= user[request[r].user].pw,
         user[request[r].user].accepted => row.accepted
  PROVE  /\ user' \in [User -> Row] /\ user'[request[r].user] = row
         /\ \A u \in User \ {request[r].user} : user'[u] = user[u]
         /\ request' \in [Request -> RequestRow]
         /\ Len(session') <= MaxRequests
         /\ Known(r) /\ request[r].user \in User /\ request[r] \in RequestRow
         /\ user[request[r].user] \in Row /\ request[r].seen \in Row
         /\ user[request[r].user].role # "none"
         /\ RequestsInv' /\ BudgetInv' /\ TriesInv'
<1> DEFINE w == request[r].user
<1>1. AccessTyped /\ r \in Busy
  BY DEF AccessInv, Busy
<1>2. /\ user \in [User -> Row] /\ session \in Seq(SessionRow)
      /\ request \in [Request -> RequestRow] /\ Len(session) \in Nat
      /\ left \in Nat /\ MaxRequests \in Nat
      /\ sent["invite"] \in Nat
  BY <1>1, TypesOfAccess
<1>3. w \in User /\ request[r] \in RequestRow /\ user[w] \in Row /\ request[r].seen \in Row
  BY <1>2 DEF RequestRow
<1>4. Known(r) /\ user[w].role # "none"
  BY <1>1 DEF AccessInv, RequestsInv, Known
<1>5. /\ user' = [user EXCEPT ![w] = row]
      /\ request' = [request EXCEPT ![r] = Idle]
  BY DEF Commits
<1>6. /\ user' \in [User -> Row] /\ user'[w] = row
      /\ \A u \in User \ {w} : user'[u] = user[u]
  BY <1>2, <1>3, <1>5
<1>7. Idle \in RequestRow /\ Idle.op = "none"
  BY <1>2, RowsOfPeople DEF RequestRow, Idle, Op, Change, AccessAssumption
<1>8. \A o \in Request \ {r} : request'[o] = request[o]
  BY <1>2, <1>5
<1>9. request' \in [Request -> RequestRow] /\ request'[r] = Idle
  BY <1>2, <1>5, <1>7
<1>12. Busy' = Busy \ {r} /\ \A u \in User : Trying(u)' = Trying(u)
  <2>1. Busy' = Busy \ {r}
    BY <1>7, <1>8, <1>9 DEF Busy
  <2>2. ASSUME NEW u \in User PROVE Trying(u)' = Trying(u)
    BY <1>7, <1>8, <1>9 DEF Trying
  <2> QED BY <2>1, <2>2
<1>13. Cardinality(Busy') = Cardinality(Busy) - 1 /\ Cardinality(Busy) \in Nat
       /\ Cardinality(Busy') \in Nat
  BY <1>1, <1>12, BusyIsFinite, FS_RemoveElement, FS_CardinalityType
<1>14. BudgetInv' /\ Len(session') <= MaxRequests
  <2>1. Len(session) + left + Cardinality(Busy) <= MaxRequests
    BY DEF AccessInv, BudgetInv
  <2>2. Len(session') <= Len(session) + 1 /\ Len(session') \in Nat
    BY DEF SessionsGrow
  <2>3. Len(session') + left' + Cardinality(Busy') <= MaxRequests
    BY <1>2, <1>13, <2>1, <2>2
  <2> QED BY <1>2, <1>13, <2>2, <2>3 DEF BudgetInv
<1>15. TriesInv'
  <2> SUFFICES ASSUME NEW u \in User
               PROVE  Cardinality(Wrong(attempt'[u])) + Cardinality(Trying(u))
                        < MaxAttempts + Cardinality(Request)
    BY <1>12 DEF TriesInv
  <2>1. CASE attempt'[u] = attempt[u]
    BY <2>1 DEF AccessInv, TriesInv
  <2>2. CASE attempt'[u] = <<>>
    <3>1. Wrong(<<>>) = {}
      BY DEF Wrong
    <3>2. Cardinality(Wrong(attempt'[u])) = 0
      BY <2>2, <3>1, FS_EmptySet
    <3>3. /\ Cardinality(Trying(u)) \in Nat /\ Cardinality(Request) \in Nat
          /\ Cardinality(Trying(u)) <= Cardinality(Request)
      BY BusyIsFinite
    <3>4. MaxAttempts \in Nat \ {0}
      BY DEF AccessAssumption
    <3> QED BY <3>2, <3>3, <3>4
  <2> QED BY <2>1, <2>2
<1>16. ASSUME NEW o \in Busy' PROVE Known(o)'
  <2>1. o \in Busy /\ o # r /\ Known(o) /\ o \in Request
    BY <1>12, <1>16 DEF AccessInv, RequestsInv, Busy
  <2>2. request'[o] = request[o]
    BY <1>8, <2>1
  <2>3. request[o].user \in User /\ request[o].seen \in Row /\ request[o].seen.invite \in Nat
    <3>1. request[o].user \in User /\ request[o].seen \in Row
      BY <1>2, <2>1 DEF RequestRow
    <3> QED BY <3>1, FieldsOfRows
  <2>4. user'[request[o].user].role # "none"
    BY <1>6, <2>1, <2>3 DEF Known
  <2>5. request[o].seen.invite <= sent'["invite"]
    BY <1>2, <2>1, <2>3 DEF Known
  <2>6. request[o].op = "reset" => user'[request[o].user] = user[request[o].user]
    <3>1. request[o].op = "reset" => request[o].user # w
      BY <1>1, <2>1 DEF AccessInv, RequestsInv, Free
    <3> QED BY <1>6, <2>3, <3>1
  <2>7. \A s \in 1..Len(session) : s \in 1..Len(session') /\ session'[s].user = session[s].user
    BY <1>2 DEF SessionsGrow
  <2>8. /\ user[request[o].user].pw > 0 => user'[request[o].user].pw > 0
        /\ user[request[o].user].accepted => user'[request[o].user].accepted
    <3>1. row.pw \in Nat /\ user[w].pw \in Nat
      BY <1>3, FieldsOfRows
    <3> QED BY <1>6, <2>3, <3>1
  <2> QED BY <2>1, <2>2, <2>4, <2>5, <2>6, <2>7, <2>8 DEF Known
<1>17. RequestsInv'
  <2>1. ASSUME NEW o \in Busy', NEW p \in Busy', o # p,
               request'[o].op = "reset", request'[p].op = "reset"
        PROVE  request'[o].user # request'[p].user
    <3>1. /\ o \in Busy /\ p \in Busy /\ o \in Request \ {r} /\ p \in Request \ {r}
      BY <1>12, <2>1 DEF Busy
    <3> QED BY <1>8, <2>1, <3>1 DEF AccessInv, RequestsInv
  <2> HIDE DEF Known
  <2> QED BY <1>16, <2>1 DEF RequestsInv
<1> QED BY <1>3, <1>4, <1>6, <1>9, <1>14, <1>15, <1>17

\* The types of what a commit leaves.
LEMMA CommitTyped ==
  ASSUME AccessAssumption, AccessTyped, NEW w \in User, NEW row \in Row,
         user' \in [User -> Row], user'[w] = row,
         \A u \in User \ {w} : user'[u] = user[u],
         request' \in [Request -> RequestRow],
         tangled' \subseteq Op \X User,
         session' \in Seq(SessionRow), Len(session') <= MaxRequests,
         left' = left,
         attempt' \in [User -> Seq({"wrong", "locked"})],
         sent' \in [Kind -> Nat],
         \A k \in Kind : sent[k] <= sent'[k] /\ sent'[k] <= MaxLinks[k],
         row.invite <= sent'["invite"], row.reset <= sent'["reset"],
         \A k \in Kind : spent'[k] \in [1..MaxLinks[k] -> Nat],
         spent' = [k \in Kind |-> spent'[k]]
  PROVE  AccessTyped'
<1>1. left' \in 0..MaxRequests
  BY DEF AccessTyped, TypeOK
<1>2. ASSUME NEW u \in User
      PROVE  user'[u].invite <= sent'["invite"] /\ user'[u].reset <= sent'["reset"]
  <2>1. CASE u = w
    BY <2>1
  <2>2. CASE u # w
    <3>1. user[u].invite <= sent["invite"] /\ user[u].reset <= sent["reset"]
      BY DEF AccessTyped, TypeOK
    <3>2. user[u] \in Row /\ user'[u] = user[u]
      BY <2>2, TypesOfAccess
    <3>3. user[u].invite \in Nat /\ user[u].reset \in Nat
      BY <3>2, FieldsOfRows
    <3>4. "invite" \in Kind /\ "reset" \in Kind
      BY DEF Kind
    <3>5. /\ sent["invite"] \in Nat /\ sent'["invite"] \in Nat
          /\ sent["reset"] \in Nat /\ sent'["reset"] \in Nat
          /\ sent["invite"] <= sent'["invite"] /\ sent["reset"] <= sent'["reset"]
      BY <3>4, TypesOfAccess
    <3>6. /\ user[u].invite <= sent'["invite"]
          /\ user[u].reset <= sent'["reset"]
      <4>1. \A a, b, c \in Nat : a <= b /\ b <= c => a <= c
        OBVIOUS
      <4> QED BY <3>1, <3>3, <3>5, <4>1
    <3> QED BY <3>2, <3>6
  <2> QED BY <2>1, <2>2
<1> QED BY <1>1, <1>2 DEF AccessTyped, TypeOK, RequestRow, SessionRow

\* A commit that takes links away or puts the next one in.
LEMMA LinksKeep ==
  ASSUME AccessAssumption, AccessTyped, LinksInv, NEW w \in User, NEW row \in Row,
         user' \in [User -> Row], user'[w] = row,
         \A u \in User \ {w} : user'[u] = user[u],
         Once' => Once,
         sent' \in [Kind -> Nat], \A k \in Kind : sent[k] <= sent'[k],
         spent' = spent,
         \/ row.invite \in {0, user[w].invite}
         \/ row.invite = sent["invite"] + 1 /\ row.invite <= MaxLinks["invite"],
         \/ row.reset \in {0, user[w].reset}
         \/ row.reset = sent["reset"] + 1 /\ row.reset <= MaxLinks["reset"]
  PROVE  LinksInv'
<1>1. /\ user \in [User -> Row]
      /\ sent["invite"] \in Nat /\ sent["reset"] \in Nat
      /\ MaxLinks["invite"] \in Nat /\ MaxLinks["reset"] \in Nat
      /\ "invite" \in Kind /\ "reset" \in Kind /\ MaxLinks \in [Kind -> Nat]
  BY TypesOfAccess DEF Kind, AccessAssumption
<1>2. \A u \in User : /\ user[u].invite \in Nat /\ user[u].reset \in Nat
                      /\ user[u].invite <= MaxLinks["invite"] /\ user[u].reset <= MaxLinks["reset"]
                      /\ user[u].invite <= sent["invite"] /\ user[u].reset <= sent["reset"]
  <2>1. \A u \in User : user[u].invite <= sent["invite"] /\ user[u].reset <= sent["reset"]
    BY DEF AccessTyped, TypeOK
  <2> QED BY <1>1, <2>1 DEF Row
<1>3. row.invite \in Nat /\ row.reset \in Nat
  BY <1>1 DEF Row
<1>4. LinksWorkOnce'
  BY DEF LinksInv, LinksWorkOnce, Once
<1>5. ASSUME NEW u \in User, u # w, row.invite # 0 PROVE row.invite # user[u].invite
  BY <1>1, <1>2, <1>3, <1>5 DEF LinksInv
<1>6. ASSUME NEW u \in User, u # w, row.reset # 0 PROVE row.reset # user[u].reset
  BY <1>1, <1>2, <1>3, <1>6 DEF LinksInv
<1>7. ASSUME NEW u \in User, NEW v \in User, u # v
      PROVE  /\ user'[u].invite = 0 \/ user'[u].invite # user'[v].invite
             /\ user'[u].reset = 0 \/ user'[u].reset # user'[v].reset
  <2>1. CASE u = w
    BY <1>5, <1>6, <1>7, <2>1
  <2>2. CASE v = w
    BY <1>5, <1>6, <1>7, <2>2
  <2>3. CASE u # w /\ v # w
    BY <1>7, <2>3 DEF LinksInv
  <2> QED BY <2>1, <2>2, <2>3
<1>8. /\ row.reset # 0 => spent["reset"][row.reset] = 0
      /\ Once /\ row.invite # 0 => spent["invite"][row.invite] = 0
  <2>1. \A k \in Kind : \A n \in 1..MaxLinks[k] : n > sent[k] => spent[k][n] = 0
    BY DEF LinksInv
  <2>2. row.reset = sent["reset"] + 1 /\ row.reset <= MaxLinks["reset"] =>
          spent["reset"][row.reset] = 0
    BY <1>1, <2>1
  <2>3. row.invite = sent["invite"] + 1 /\ row.invite <= MaxLinks["invite"] =>
          spent["invite"][row.invite] = 0
    BY <1>1, <2>1
  <2> QED BY <2>2, <2>3 DEF LinksInv
<1>9. ASSUME NEW u \in User
      PROVE  /\ user'[u].reset # 0 => spent["reset"][user'[u].reset] = 0
             /\ Once' /\ user'[u].invite # 0 => spent["invite"][user'[u].invite] = 0
  <2>1. CASE u = w
    BY <1>8, <2>1
  <2>2. CASE u # w
    BY <2>2 DEF LinksInv
  <2> QED BY <2>1, <2>2
<1>10. ASSUME NEW k \in Kind, NEW n \in 1..MaxLinks[k], n > sent'[k]
       PROVE  spent[k][n] = 0
  <2>1. sent[k] \in Nat /\ sent'[k] \in Nat /\ n \in Nat
    BY <1>1 DEF AccessTyped, TypeOK
  <2>2. n > sent[k]
    BY <1>10, <2>1
  <2> QED BY <2>2 DEF LinksInv
<1> QED BY <1>4, <1>7, <1>9, <1>10 DEF LinksInv

\* A commit that uses the link in the row.
LEMMA LinkSpent ==
  ASSUME AccessAssumption, AccessTyped, LinksInv, NEW w \in User, NEW row \in Row,
         user' \in [User -> Row], user'[w] = row,
         \A u \in User \ {w} : user'[u] = user[u],
         Once' => Once, sent' = sent,
         NEW k \in Kind, NEW n \in 1..MaxLinks[k], Spends(k, n), n <= sent[k],
         k = "reset" => n = user[w].reset /\ row.reset = 0 /\ row.invite \in {0, user[w].invite},
         k = "invite" => /\ row.invite = 0 /\ row.reset \in {0, user[w].reset}
                         /\ Once' => n = user[w].invite
  PROVE  /\ LinksInv'
         /\ \A j \in Kind : spent'[j] \in [1..MaxLinks[j] -> Nat]
         /\ spent' = [j \in Kind |-> spent'[j]]
<1>1. /\ spent = [j \in Kind |-> spent[j]]
      /\ \A j \in Kind : spent[j] \in [1..MaxLinks[j] -> Nat]
      /\ spent' = [spent EXCEPT ![k][n] = @ + 1]
  BY DEF AccessTyped, TypeOK, Spends
<1>2. /\ \A j \in Kind : spent'[j] \in [1..MaxLinks[j] -> Nat]
      /\ spent' = [j \in Kind |-> spent'[j]]
      /\ spent'[k][n] = spent[k][n] + 1
      /\ \A j \in Kind : \A m \in 1..MaxLinks[j] :
           j # k \/ m # n => spent'[j][m] = spent[j][m]
  <2> DEFINE f == [spent[k] EXCEPT ![n] = @ + 1]
  <2>1. f \in [1..MaxLinks[k] -> Nat] /\ f[n] = spent[k][n] + 1
        /\ \A m \in 1..MaxLinks[k] : m # n => f[m] = spent[k][m]
    BY <1>1
  <2>2. spent' = [spent EXCEPT ![k] = f]
    BY <1>1
  <2> HIDE DEF f
  <2>3. DOMAIN spent = Kind
    BY <1>1
  <2>4. spent'[k] = f /\ DOMAIN spent' = Kind /\ \A j \in Kind : j # k => spent'[j] = spent[j]
    BY <2>2, <2>3
  <2>5. spent' = [j \in Kind |-> spent'[j]]
    BY <2>2, <2>3
  <2> QED BY <1>1, <2>1, <2>4, <2>5
<1>3. \A u \in User : user[u] \in Row
  BY TypesOfAccess
<1>4. Kind = {"invite", "reset"} /\ n # 0 /\ sent[k] \in Nat /\ n \in Nat
  <2>1. MaxLinks \in [Kind -> Nat] /\ sent \in [Kind -> Nat]
    BY DEF AccessAssumption, AccessTyped, TypeOK
  <2> QED BY <2>1 DEF Kind
<1>5. \A u \in User : /\ user[u].invite # 0 => user[u].invite \in 1..MaxLinks["invite"]
                      /\ user[u].reset # 0 => user[u].reset \in 1..MaxLinks["reset"]
  BY <1>3, FieldsOfRows
<1>6. ASSUME NEW u \in User, NEW v \in User, u # v
      PROVE  /\ user'[u].invite = 0 \/ user'[u].invite # user'[v].invite
             /\ user'[u].reset = 0 \/ user'[u].reset # user'[v].reset
  <2>1. row.invite \in {0, user[w].invite} /\ row.reset \in {0, user[w].reset}
    BY <1>4
  <2>2. /\ user[u].invite = 0 \/ user[u].invite # user[v].invite
        /\ user[u].reset = 0 \/ user[u].reset # user[v].reset
    BY <1>6 DEF LinksInv
  <2>3. \A x \in {u, v} : /\ user'[x].invite \in {0, user[x].invite}
                         /\ user'[x].reset \in {0, user[x].reset}
    BY <2>1
  <2> QED BY <2>2, <2>3
<1>7. CASE k = "reset"
  <2>1. spent["reset"][n] = 0 /\ n = user[w].reset
    BY <1>4, <1>7 DEF LinksInv
  <2>2. LinksWorkOnce'
    <3> SUFFICES ASSUME NEW j \in Kind, NEW m \in 1..MaxLinks[j]
                 PROVE  spent'[j][m] <= 1 \/ (j = "invite" /\ ~Once')
      BY DEF LinksWorkOnce, Once
    <3>1. CASE j = k /\ m = n
      BY <1>2, <1>7, <2>1, <3>1
    <3>2. CASE j # k \/ m # n
      <4>1. spent'[j][m] = spent[j][m] /\ (spent[j][m] <= 1 \/ (j = "invite" /\ ~Once))
        BY <1>2, <3>2 DEF LinksInv, LinksWorkOnce, Once
      <4> QED BY <4>1
    <3> QED BY <3>1, <3>2
  <2>3. ASSUME NEW u \in User
        PROVE  /\ user'[u].reset # 0 => spent'["reset"][user'[u].reset] = 0
               /\ Once' /\ user'[u].invite # 0 => spent'["invite"][user'[u].invite] = 0
    <3>1. user'[u].reset # 0 => u # w /\ user'[u].reset = user[u].reset /\ user[u].reset # n
      BY <1>4, <1>7, <2>1 DEF LinksInv
    <3>2. user'[u].invite # 0 => user'[u].invite = user[u].invite
      BY <1>7
    <3>3. user'[u].reset # 0 => spent'["reset"][user'[u].reset] = 0
      <4> SUFFICES ASSUME user'[u].reset # 0
                   PROVE  spent'["reset"][user'[u].reset] = 0
        OBVIOUS
      <4>1. /\ user'[u].reset = user[u].reset /\ user[u].reset # n
            /\ user[u].reset \in 1..MaxLinks["reset"]
        BY <1>5, <3>1
      <4>2. spent["reset"][user[u].reset] = 0
        BY <4>1 DEF LinksInv
      <4> QED BY <1>2, <1>4, <4>1, <4>2
    <3>4. Once' /\ user'[u].invite # 0 => spent'["invite"][user'[u].invite] = 0
      <4> SUFFICES ASSUME Once', user'[u].invite # 0
                   PROVE  spent'["invite"][user'[u].invite] = 0
        OBVIOUS
      <4>1. /\ user'[u].invite = user[u].invite
            /\ user[u].invite \in 1..MaxLinks["invite"]
        BY <1>5, <3>2
      <4>2. spent["invite"][user[u].invite] = 0
        BY <4>1 DEF LinksInv
      <4> QED BY <1>2, <1>4, <1>7, <4>1, <4>2
    <3> QED BY <3>3, <3>4
  <2>4. ASSUME NEW j \in Kind, NEW m \in 1..MaxLinks[j], m > sent'[j]
        PROVE  spent'[j][m] = 0
    <3>1. j # k \/ m # n
      BY <1>4, <2>4
    <3>2. m > sent[j]
      BY <2>4
    <3>3. spent[j][m] = 0
      BY <3>2 DEF LinksInv
    <3> QED BY <1>2, <3>1, <3>3
  <2> QED BY <1>2, <1>6, <2>2, <2>3, <2>4 DEF LinksInv
<1>8. CASE k = "invite"
  <2>1. Once' => spent["invite"][n] = 0 /\ n = user[w].invite
    BY <1>4, <1>8 DEF LinksInv
  <2>2. LinksWorkOnce'
    <3> SUFFICES ASSUME NEW j \in Kind, NEW m \in 1..MaxLinks[j]
                 PROVE  spent'[j][m] <= 1 \/ (j = "invite" /\ ~Once')
      BY DEF LinksWorkOnce, Once
    <3>1. CASE j = k /\ m = n
      BY <1>2, <1>8, <2>1, <3>1
    <3>2. CASE j # k \/ m # n
      <4>1. spent'[j][m] = spent[j][m] /\ (spent[j][m] <= 1 \/ (j = "invite" /\ ~Once))
        BY <1>2, <3>2 DEF LinksInv, LinksWorkOnce, Once
      <4> QED BY <4>1
    <3> QED BY <3>1, <3>2
  <2>3. ASSUME NEW u \in User
        PROVE  /\ user'[u].reset # 0 => spent'["reset"][user'[u].reset] = 0
               /\ Once' /\ user'[u].invite # 0 => spent'["invite"][user'[u].invite] = 0
    <3>1. /\ Once' /\ user'[u].invite # 0 =>
                u # w /\ user'[u].invite = user[u].invite /\ user[u].invite # n
      BY <1>4, <1>8, <2>1 DEF LinksInv
    <3>2. user'[u].reset # 0 => user'[u].reset = user[u].reset
      BY <1>8
    <3>3. Once' /\ user'[u].invite # 0 => spent'["invite"][user'[u].invite] = 0
      <4> SUFFICES ASSUME Once', user'[u].invite # 0
                   PROVE  spent'["invite"][user'[u].invite] = 0
        OBVIOUS
      <4>1. /\ user'[u].invite = user[u].invite /\ user[u].invite # n
            /\ user[u].invite \in 1..MaxLinks["invite"]
        BY <1>5, <3>1
      <4>2. spent["invite"][user[u].invite] = 0
        BY <4>1 DEF LinksInv
      <4> QED BY <1>2, <1>4, <4>1, <4>2
    <3>4. user'[u].reset # 0 => spent'["reset"][user'[u].reset] = 0
      <4> SUFFICES ASSUME user'[u].reset # 0
                   PROVE  spent'["reset"][user'[u].reset] = 0
        OBVIOUS
      <4>1. /\ user'[u].reset = user[u].reset
            /\ user[u].reset \in 1..MaxLinks["reset"]
        BY <1>5, <3>2
      <4>2. spent["reset"][user[u].reset] = 0
        BY <4>1 DEF LinksInv
      <4> QED BY <1>2, <1>4, <1>8, <4>1, <4>2
    <3> QED BY <3>3, <3>4
  <2>4. ASSUME NEW j \in Kind, NEW m \in 1..MaxLinks[j], m > sent'[j]
        PROVE  spent'[j][m] = 0
    <3>1. j # k \/ m # n
      BY <1>4, <2>4
    <3>2. m > sent[j]
      BY <2>4
    <3>3. spent[j][m] = 0
      BY <3>2 DEF LinksInv
    <3> QED BY <1>2, <3>1, <3>3
  <2> QED BY <1>2, <1>6, <2>2, <2>3, <2>4 DEF LinksInv
<1> QED BY <1>2, <1>4, <1>7, <1>8

\* What request r knows, and what its row is like.
LEMMA KnownToRequest ==
  ASSUME AccessAssumption, AccessInv, NEW r \in Request, request[r].op # "none"
  PROVE  /\ Known(r) /\ request[r] \in RequestRow /\ request[r].user \in User
         /\ request[r].seen \in Row /\ user[request[r].user] \in Row
         /\ user[request[r].user].role # "none"
         /\ RowSound(user[request[r].user], <<"resend", request[r].user>> \in tangled)
         /\ user \in [User -> Row] /\ session \in Seq(SessionRow) /\ Len(session) \in Nat
         /\ sent["invite"] \in Nat /\ sent["reset"] \in Nat /\ sent \in [Kind -> Nat]
         /\ \A k \in Kind : sent[k] <= MaxLinks[k]
         /\ attempt \in [User -> Seq({"wrong", "locked"})]
<1>1. AccessTyped /\ r \in Busy
  BY DEF AccessInv, Busy
<1>2. request \in [Request -> RequestRow] /\ user \in [User -> Row]
      /\ session \in Seq(SessionRow) /\ Len(session) \in Nat
      /\ sent["invite"] \in Nat /\ sent["reset"] \in Nat
  BY <1>1, TypesOfAccess
<1>3. request[r] \in RequestRow /\ request[r].user \in User /\ request[r].seen \in Row
  BY <1>2 DEF RequestRow
<1>4. Known(r)
  BY <1>1 DEF AccessInv, RequestsInv
<1>5. user[request[r].user].role # "none"
  BY <1>4 DEF Known
<1>6. RowSound(user[request[r].user], <<"resend", request[r].user>> \in tangled)
  BY <1>3 DEF AccessInv, RowsInv
<1>7. /\ sent \in [Kind -> Nat] /\ \A k \in Kind : sent[k] <= MaxLinks[k]
      /\ attempt \in [User -> Seq({"wrong", "locked"})]
  BY <1>1 DEF AccessTyped, TypeOK
<1> QED BY <1>2, <1>3, <1>4, <1>5, <1>6, <1>7

\* Session s lives on for somebody nothing changed for, or fits the new row.
KeepsUp(r, row, s) ==
  LET w == request[r].user
      now == session'[s] IN
  /\ now.pw > 0
  /\ now.user = w =>
       /\ row.pw > 0
       /\ now.alive => Strays(tangled', w) \/ (row.active /\ now.pw = row.pw)
  /\ now.user # w =>
       /\ s \in 1..Len(session) /\ now.user = session[s].user
       /\ now.alive => session[s].alive /\ now.pw = session[s].pw

(* A write of one row keeps the sessions current if each of them keeps up. *)
LEMMA SessionsFollow ==
  ASSUME AccessAssumption, AccessTyped, SessionsInv, NEW r \in Request, NEW row \in Row,
         request[r].user \in User,
         user' \in [User -> Row], user'[request[r].user] = row,
         \A u \in User \ {request[r].user} : user'[u] = user[u],
         \A u : Strays(tangled, u) => Strays(tangled', u),
         session' \in Seq(SessionRow),
         \A s \in 1..Len(session') : KeepsUp(r, row, s)
  PROVE  SessionsInv'
<1> DEFINE w == request[r].user
<1>1. ASSUME NEW s \in 1..Len(session')
      PROVE  /\ session'[s].pw > 0 /\ user'[session'[s].user].pw > 0
             /\ session'[s].alive => Current(s)' \/ Strays(tangled', session'[s].user)
  <2>0. session'[s] \in SessionRow /\ KeepsUp(r, row, s)
    OBVIOUS
  <2>1. session'[s].user \in User
    BY <2>0 DEF SessionRow
  <2>2. CASE session'[s].user = w
    <3>1. session'[s].alive => Strays(tangled', w) \/ (row.active /\ session'[s].pw = row.pw)
      BY <2>0, <2>2 DEF KeepsUp
    <3> QED BY <2>0, <2>2, <3>1 DEF KeepsUp, Current
  <2>3. CASE session'[s].user # w
    <3>1. /\ s \in 1..Len(session) /\ session'[s].user = session[s].user /\ session'[s].pw > 0
          /\ session'[s].alive => session[s].alive /\ session'[s].pw = session[s].pw
      BY <2>0, <2>3 DEF KeepsUp
    <3>2. /\ user[session[s].user].pw > 0
          /\ session[s].alive => Current(s) \/ Strays(tangled, session[s].user)
      BY <3>1 DEF SessionsInv
    <3>3. user'[session'[s].user] = user[session[s].user]
      BY <2>1, <2>3, <3>1
    <3> QED BY <3>1, <3>2, <3>3 DEF Current
  <2> QED BY <2>2, <2>3
<1> QED BY <1>1 DEF SessionsInv, Strays

\* The next link comes into the row, or its links stay or go.
SendsOrTakes(r, row) ==
  LET old == user[request[r].user] IN
  /\ spent' = spent
  /\ \/ row.invite \in {0, old.invite}
     \/ row.invite = sent["invite"] + 1 /\ row.invite <= MaxLinks["invite"]
  /\ \/ row.reset \in {0, old.reset}
     \/ row.reset = sent["reset"] + 1 /\ row.reset <= MaxLinks["reset"]

\* The link that was in the row is used.
UsesLink(r, row) ==
  LET old == user[request[r].user] IN
  \E k \in Kind : \E n \in 1..MaxLinks[k] :
     /\ Spends(k, n) /\ n <= sent[k] /\ sent' = sent
     /\ k = "reset" => n = old.reset /\ row.reset = 0 /\ row.invite \in {0, old.invite}
     /\ k = "invite" => /\ row.invite = 0 /\ row.reset \in {0, old.reset}
                        /\ request[r].op = "accept"
                        /\ request[r].seen = old => n = old.invite

\* A commit that leaves its row sound, the links in order, the sessions of
\* its person current and somebody to rule.
LEMMA WriteKeeps ==
  ASSUME AccessAssumption, AccessInv, NEW r \in Request,
         request[r].op \in Op \ {"none", "wrong"},
         NEW row \in Row, row.role # "none", Commits(r, row),
         request[r].op = "reset" \/ Free(request[r].user),
         sent' \in [Kind -> Nat],
         \A k \in Kind : sent[k] <= sent'[k] /\ sent'[k] <= MaxLinks[k],
         row.invite <= sent'["invite"], row.reset <= sent'["reset"],
         SessionsGrow, left' = left,
         attempt' \in [User -> Seq({"wrong", "locked"})],
         \A u \in User : attempt'[u] = attempt[u] \/ attempt'[u] = <<>>,
         RowSound(row, <<"resend", request[r].user>> \in tangled'),
         SendsOrTakes(r, row) \/ UsesLink(r, row),
         \A s \in 1..Len(session') : KeepsUp(r, row, s),
         row.pw >= user[request[r].user].pw,
         user[request[r].user].accepted => row.accepted,
         \/ request[r].op = "edit"
         \/ /\ row.role = user[request[r].user].role
            /\ row.active = user[request[r].user].active
  PROVE  AccessInv'
<1> DEFINE w == request[r].user
<1>1. /\ Known(r) /\ w \in User /\ user[w] \in Row /\ user \in [User -> Row]
      /\ AccessTyped /\ RowsInv /\ LinksInv /\ SessionsInv /\ SomebodyRules
      /\ sent["invite"] <= sent'["invite"] /\ sent'["invite"] \in Nat
      /\ session \in Seq(SessionRow)
  <2>1. "invite" \in Kind
    BY DEF Kind
  <2> QED BY <2>1, KnownToRequest DEF AccessInv
<1>2. request[r].op = "edit" =>
        LET a == session[request[r].by].user IN a \in User \ {w} /\ user'[a] = user[a]
  <2> SUFFICES ASSUME request[r].op = "edit"
               PROVE  LET a == session[request[r].by].user IN a \in User \ {w} /\ user'[a] = user[a]
    OBVIOUS
  <2>1. request[r].by \in 1..Len(session) /\ session[request[r].by].user # w
    BY <1>1 DEF Known
  <2>1a. session[request[r].by] \in SessionRow
    BY <1>1, <2>1
  <2>2. session[request[r].by].user \in User
    BY <2>1a DEF SessionRow
  <2>3. user' = [user EXCEPT ![w] = row]
    BY DEF Commits
  <2> QED BY <1>1, <2>1, <2>2, <2>3
<1>3. /\ user' \in [User -> Row] /\ user'[w] = row
      /\ \A u \in User \ {w} : user'[u] = user[u]
      /\ request' \in [Request -> RequestRow]
      /\ Len(session') <= MaxRequests
      /\ RequestsInv' /\ BudgetInv' /\ TriesInv'
  BY <1>1, CommitKeeps
<1>3a. /\ tangled' \subseteq Op \X User /\ tangled \subseteq tangled'
       /\ \A u : Strays(tangled, u) => Strays(tangled', u)
       /\ Once' => Once
       /\ request[r].op \in {"login", "accept", "resend"} =>
            request[r].seen = user[w] \/ <<request[r].op, w>> \in tangled'
       /\ request[r].op = "edit" =>
            Ruler(session[request[r].by].user) \/ <<"edit", w>> \in tangled'
  BY CommitTangles DEF Op
<1> HIDE DEF w
<1>4. RowsInv'
  <2>1. ASSUME NEW u \in User
        PROVE  /\ user'[u].role = "none" => user'[u] = Nobody
               /\ RowSound(user'[u], <<"resend", u>> \in tangled')
    <3>1. CASE u = w
      BY <1>3, <3>1 DEF w
    <3>2. CASE u # w
      BY <1>1, <1>3, <1>3a, <3>2 DEF RowsInv, RowSound
    <3> QED BY <3>1, <3>2
  <2>2. Nobody' = Nobody
    BY DEF Nobody
  <2> QED BY <2>1, <2>2 DEF RowsInv, RowSound
<1>5. /\ LinksInv'
      /\ \A k \in Kind : spent'[k] \in [1..MaxLinks[k] -> Nat]
      /\ spent' = [k \in Kind |-> spent'[k]]
  <2>1. CASE /\ spent' = spent
             /\ \/ row.invite \in {0, user[w].invite}
                \/ row.invite = sent["invite"] + 1 /\ row.invite <= MaxLinks["invite"]
             /\ \/ row.reset \in {0, user[w].reset}
                \/ row.reset = sent["reset"] + 1 /\ row.reset <= MaxLinks["reset"]
    <3>1. LinksInv'
      BY <1>1, <1>3, <1>3a, <2>1, LinksKeep
    <3>2. /\ \A k \in Kind : spent[k] \in [1..MaxLinks[k] -> Nat]
          /\ spent = [k \in Kind |-> spent[k]]
      BY <1>1 DEF AccessTyped, TypeOK
    <3> QED BY <2>1, <3>1, <3>2
  <2>2. ASSUME NEW k \in Kind, NEW n \in 1..MaxLinks[k],
               Spends(k, n), n <= sent[k], sent' = sent,
               k = "reset" => /\ n = user[w].reset /\ row.reset = 0
                              /\ row.invite \in {0, user[w].invite},
               k = "invite" => /\ row.invite = 0
                               /\ row.reset \in {0, user[w].reset}
                               /\ request[r].op = "accept"
                               /\ request[r].seen = user[w] => n = user[w].invite
        PROVE  /\ LinksInv'
               /\ \A j \in Kind : spent'[j] \in [1..MaxLinks[j] -> Nat]
               /\ spent' = [j \in Kind |-> spent'[j]]
    <3>1. k = "reset" => n = user[w].reset /\ row.reset = 0 /\ row.invite \in {0, user[w].invite}
      BY <2>2
    <3>2. k = "invite" => /\ row.invite = 0 /\ row.reset \in {0, user[w].reset}
                          /\ Once' => n = user[w].invite
      BY <1>1, <1>3a, <2>2 DEF Once
    <3>3. Once' => Once
      BY <1>3a
    <3>4. /\ AccessTyped /\ LinksInv /\ w \in User /\ user' \in [User -> Row] /\ user'[w] = row
          /\ \A u \in User \ {w} : user'[u] = user[u]
      BY <1>1, <1>3
    <3>5. Spends(k, n) /\ n <= sent[k] /\ sent' = sent
      BY <2>2
    <3> QED BY <3>1, <3>2, <3>3, <3>4, <3>5, LinkSpent
  <2> QED BY <2>1, <2>2 DEF w, SendsOrTakes, UsesLink
<1>6. SessionsInv'
  <2>1. session' \in Seq(SessionRow)
    BY DEF SessionsGrow
  <2> QED BY <1>1, <1>3, <1>3a, <2>1, SessionsFollow DEF w
<1>7. SomebodyRules'
  <2> SUFFICES ASSUME NEW v \in User, TRUE
               PROVE  (\E u \in User : Ruler(u)') \/ \E u \in User : <<"edit", u>> \in tangled'
    BY <1>1 DEF SomebodyRules, Ruler
  <2>1. SomebodyRules /\ tangled \subseteq tangled'
    BY <1>1, <1>3a
  <2>2. CASE request[r].op = "edit"
    <3>1. CASE <<"edit", w>> \in tangled'
      BY <1>1, <3>1
    <3>2. CASE Ruler(session[request[r].by].user)
      BY <1>2, <2>2, <3>2 DEF Ruler, w
    <3> QED BY <1>3a, <2>2, <3>1, <3>2
  <2>3. CASE /\ row.role = user[w].role /\ row.active = user[w].active
             /\ ~ \E u \in User : <<"edit", u>> \in tangled
    <3>0. row.pw >= user[w].pw
      BY DEF w
    <3>1. PICK u \in User : user[u].role = "admin" /\ user[u].active /\ user[u].pw > 0
      BY <2>1, <2>3 DEF SomebodyRules
    <3>2. CASE u = w
      <4>1. row.pw \in Nat /\ user[w].pw \in Nat
        BY <1>1, FieldsOfRows
      <4> QED BY <1>3, <2>3, <3>0, <3>1, <3>2, <4>1 DEF Ruler
    <3>3. CASE u # w
      BY <1>3, <3>1, <3>3 DEF Ruler
    <3> QED BY <3>2, <3>3
  <2> QED BY <2>1, <2>2, <2>3 DEF w
<1>8. AccessTyped'
  <2>1. session' \in Seq(SessionRow)
    BY DEF SessionsGrow
  <2> QED BY <1>1, <1>3, <1>3a, <1>5, <2>1, CommitTyped
<1> QED BY <1>3, <1>4, <1>5, <1>6, <1>7, <1>8 DEF AccessInv

-----------------------------------------------------------------------------
(* What clearing a link, ending sessions, a login and an edit make of a row*)
(* and of the sessions.                                                    *)
LEMMA ClearedRow ==
  ASSUME AccessAssumption, NEW row \in Row, NEW seen \in Row
  PROVE  LET new == Cleared(row, seen) IN
         /\ new \in Row /\ new.role = row.role /\ new.active = row.active
         /\ new.accepted = row.accepted /\ new.pw = row.pw /\ new.invite = row.invite
         /\ new.reset \in {0, row.reset}
         /\ seen = row => new.reset = 0
<1>1. MaxLinks["reset"] \in Nat
  BY DEF AccessAssumption, Kind
<1>2. CASE seen.reset = 0
  BY <1>2 DEF Cleared
<1>3. CASE seen.reset # 0
  BY <1>1, <1>3 DEF Cleared, Row
<1> QED BY <1>2, <1>3

LEMMA RevokedSessions ==
  ASSUME session \in Seq(SessionRow), NEW u, NEW by
  PROVE  /\ Revoked(u, by) \in Seq(SessionRow) /\ Len(Revoked(u, by)) = Len(session)
         /\ \A s \in 1..Len(session) :
              /\ Revoked(u, by)[s].user = session[s].user
              /\ Revoked(u, by)[s].pw = session[s].pw
              /\ Revoked(u, by)[s].alive <=>
                   session[s].alive /\ ~(session[s].user = u /\ s # by)
<1>1. \A s \in 1..Len(session) : session[s] \in SessionRow
  OBVIOUS
<1>2. ASSUME NEW s \in 1..Len(session)
      PROVE  /\ Revoked(u, by)[s] \in SessionRow
             /\ Revoked(u, by)[s].user = session[s].user
             /\ Revoked(u, by)[s].pw = session[s].pw
             /\ Revoked(u, by)[s].alive <=>
                   session[s].alive /\ ~(session[s].user = u /\ s # by)
  <2>1. Revoked(u, by)[s] = IF session[s].user = u /\ s # by
                            THEN [session[s] EXCEPT !.alive = FALSE] ELSE session[s]
    BY DEF Revoked
  <2>2. session[s] \in SessionRow
    BY <1>1
  <2> QED BY <2>1, <2>2 DEF SessionRow
<1>3. /\ Revoked(u, by) \in Seq(SessionRow) /\ Len(Revoked(u, by)) = Len(session)
  <2>1. Len(session) \in Nat
    OBVIOUS
  <2>2. Revoked(u, by) = [s \in 1..Len(session) |-> Revoked(u, by)[s]]
    BY DEF Revoked
  <2> QED BY <1>2, <2>1, <2>2
<1> QED BY <1>2, <1>3

LEMMA NewSession ==
  ASSUME NEW old \in Seq(SessionRow), NEW u \in User, NEW pw \in Nat
  PROVE  LET new == Append(old, Fresh(u, pw)) IN
         /\ new \in Seq(SessionRow) /\ Len(new) = Len(old) + 1 /\ Len(old) \in Nat
         /\ \A s \in 1..Len(old) : new[s] = old[s]
         /\ new[Len(old) + 1].user = u /\ new[Len(old) + 1].pw = pw
<1>1. Fresh(u, pw) \in SessionRow /\ Fresh(u, pw).user = u /\ Fresh(u, pw).pw = pw
  BY DEF Fresh, SessionRow
<1> QED BY <1>1

LEMMA LoginKeeps ==
  ASSUME AccessAssumption, AccessInv, NEW r \in Request, Login(r)
  PROVE  AccessInv'
<1> DEFINE q == request[r]
           w == q.user
           row == Cleared(user[w], q.seen)
<1>1. /\ q.op = "login" /\ Free(w) /\ Commits(r, row)
      /\ session' = Append(session, Fresh(w, q.seen.pw))
      /\ UNCHANGED <<attempt, sent, left, spent>>
  BY DEF Login
<1>2. /\ Known(r) /\ w \in User /\ q.seen \in Row /\ user[w] \in Row
      /\ user[w].role # "none" /\ RowSound(user[w], <<"resend", w>> \in tangled)
      /\ session \in Seq(SessionRow) /\ Len(session) \in Nat /\ sent \in [Kind -> Nat]
      /\ \A k \in Kind : sent[k] <= MaxLinks[k]
      /\ attempt \in [User -> Seq({"wrong", "locked"})]
  BY <1>1, KnownToRequest
<1>3. /\ row \in Row /\ row.role = user[w].role /\ row.active = user[w].active
      /\ row.accepted = user[w].accepted /\ row.pw = user[w].pw
      /\ row.invite = user[w].invite /\ row.reset \in {0, user[w].reset}
      /\ q.seen = user[w] => row.reset = 0
  BY <1>2, ClearedRow
<1>4. q.seen.pw > 0 /\ q.seen.active /\ q.seen.pw \in Nat
  BY <1>1, <1>2, FieldsOfRows DEF Known
<1>4h. /\ tangled \subseteq tangled' /\ \A u : Strays(tangled, u) => Strays(tangled', u)
       /\ q.op \in {"login", "accept", "resend"} =>
            q.seen = user[w] \/ <<q.op, w>> \in tangled'
  BY <1>1, CommitTangles DEF Op
<1> HIDE DEF row
<1>5. /\ session' \in Seq(SessionRow) /\ Len(session') = Len(session) + 1
      /\ \A s \in 1..Len(session) : session'[s] = session[s]
      /\ session'[Len(session) + 1].user = w /\ session'[Len(session) + 1].pw = q.seen.pw
  BY <1>1, <1>2, <1>4, NewSession
<1>6. SessionsGrow
  BY <1>2, <1>5 DEF SessionsGrow
<1>7. \A s \in 1..Len(session') : KeepsUp(r, row, s)
  <2> SUFFICES ASSUME NEW s \in 1..Len(session') PROVE KeepsUp(r, row, s)
    OBVIOUS
  <2>1. CASE s = Len(session) + 1
    <3>1. user[w].pw > 0 /\ (q.seen = user[w] \/ Strays(tangled', w))
      BY <1>1, <1>2, <1>4h DEF Known, Strays
    <3> QED BY <1>3, <1>4, <1>5, <2>1, <3>1 DEF KeepsUp
  <2>2. CASE s \in 1..Len(session)
    <3>1. /\ session[s].pw > 0 /\ user[session[s].user].pw > 0
          /\ session[s].alive => Current(s) \/ Strays(tangled, session[s].user)
      BY <2>2 DEF AccessInv, SessionsInv
    <3> QED BY <1>3, <1>4h, <1>5, <2>2, <3>1 DEF KeepsUp, Current
  <2> QED BY <1>2, <1>5, <2>1, <2>2
<1>8. RowSound(row, <<"resend", w>> \in tangled')
  BY <1>2, <1>3, <1>4h DEF RowSound
<1>9. SendsOrTakes(r, row)
  BY <1>1, <1>3 DEF SendsOrTakes
<1>10. /\ row.invite <= sent'["invite"] /\ row.reset <= sent'["reset"] /\ row.pw >= user[w].pw
  <2>1. user[w].invite <= sent["invite"] /\ user[w].reset <= sent["reset"]
    BY <1>2 DEF AccessInv, AccessTyped, TypeOK
  <2>2. row.pw \in Nat /\ sent["reset"] \in Nat
    BY <1>1, <1>2, <1>3, FieldsOfRows, KnownToRequest
  <2> QED BY <1>1, <1>3, <2>1, <2>2
<1>11. \A k \in Kind : sent[k] <= sent'[k] /\ sent'[k] <= MaxLinks[k]
  BY <1>1, <1>2
<1> QED BY <1>1, <1>2, <1>3, <1>6, <1>7, <1>8, <1>9, <1>10, <1>11, WriteKeeps DEF Op




LEMMA AcceptKeeps ==
  ASSUME AccessAssumption, AccessInv, NEW r \in Request, Accept(r)
  PROVE  AccessInv'
<1> DEFINE q == request[r]
           w == q.user
           new == user[w].pw + 1
           row == [user[w] EXCEPT !.pw = new, !.accepted = TRUE, !.invite = 0]
<1>1. /\ q.op = "accept" /\ Free(w) /\ Commits(r, row)
      /\ session' = Append(session, Fresh(w, new))
      /\ Spends("invite", q.seen.invite)
      /\ UNCHANGED <<attempt, sent, left>>
  BY DEF Accept
<1>2. /\ Known(r) /\ w \in User /\ q.seen \in Row /\ user[w] \in Row
      /\ user[w].role # "none" /\ RowSound(user[w], <<"resend", w>> \in tangled)
      /\ session \in Seq(SessionRow) /\ Len(session) \in Nat /\ sent \in [Kind -> Nat]
      /\ \A k \in Kind : sent[k] <= MaxLinks[k]
      /\ attempt \in [User -> Seq({"wrong", "locked"})]
      /\ sent["invite"] \in Nat /\ sent["reset"] \in Nat
      /\ user[w].invite <= sent["invite"] /\ user[w].reset <= sent["reset"]
  <2>1. w \in User
    BY <1>1, KnownToRequest
  <2>2. user[w].invite <= sent["invite"] /\ user[w].reset <= sent["reset"]
    BY <2>1 DEF AccessInv, AccessTyped, TypeOK
  <2> QED BY <1>1, <2>2, KnownToRequest
<1>3. /\ row \in Row /\ row.role = user[w].role /\ row.active = user[w].active
      /\ row.accepted /\ row.pw = new /\ new \in Nat /\ new > 0 /\ new >= user[w].pw
      /\ row.invite = 0 /\ row.reset = user[w].reset
  <2>1. user[w].pw \in Nat /\ MaxLinks["invite"] \in Nat
    BY <1>2, FieldsOfRows DEF AccessAssumption, Kind
  <2>2. new \in Nat /\ new > 0 /\ new >= user[w].pw
    BY <2>1
  <2> HIDE DEF new
  <2>3. 0 \in 0..MaxLinks["invite"]
    BY <2>1
  <2>4. row \in Row
    BY <1>2, <2>2, <2>3 DEF Row
  <2>5. /\ row.role = user[w].role /\ row.active = user[w].active
        /\ row.accepted /\ row.pw = new
        /\ row.reset = user[w].reset /\ row.invite = 0
    BY <1>2 DEF Row
  <2> QED BY <2>2, <2>4, <2>5
<1>4. /\ q.seen.active /\ q.seen.invite \in 1..MaxLinks["invite"]
      /\ q.seen.invite <= sent["invite"]
  BY <1>1, <1>2, FieldsOfRows DEF Known
<1>4a. q.seen = user[w] => user[w].pw = 0 \/ <<"resend", w>> \in tangled
  BY <1>1, <1>2 DEF Known, RowSound
<1>4h. /\ tangled \subseteq tangled' /\ \A u : Strays(tangled, u) => Strays(tangled', u)
       /\ q.op \in {"login", "accept", "resend"} =>
            q.seen = user[w] \/ <<q.op, w>> \in tangled'
  BY <1>1, CommitTangles DEF Op
<1> HIDE DEF row, new
<1>5. /\ session' \in Seq(SessionRow) /\ Len(session') = Len(session) + 1
      /\ \A s \in 1..Len(session) : session'[s] = session[s]
      /\ session'[Len(session) + 1].user = w /\ session'[Len(session) + 1].pw = new
  BY <1>1, <1>2, <1>3, NewSession
<1>6. SessionsGrow
  BY <1>2, <1>5 DEF SessionsGrow
<1>7. \A s \in 1..Len(session') : KeepsUp(r, row, s)
  <2> SUFFICES ASSUME NEW s \in 1..Len(session') PROVE KeepsUp(r, row, s)
    OBVIOUS
  <2>1. CASE s = Len(session) + 1
    BY <1>1, <1>2, <1>3, <1>4, <1>4h, <1>5, <2>1 DEF KeepsUp, Strays
  <2>2. CASE s \in 1..Len(session)
    <3>1. /\ session[s].pw > 0 /\ user[session[s].user].pw > 0
          /\ session[s].alive => Current(s) \/ Strays(tangled, session[s].user)
      BY <2>2 DEF AccessInv, SessionsInv
    <3>2. session[s].user = w => Strays(tangled', w)
      <4>1. user[w].pw \in Nat
        BY <1>2, FieldsOfRows
      <4> QED BY <1>1, <1>4a, <1>4h, <3>1, <4>1 DEF Strays
    <3> QED BY <1>3, <1>5, <2>2, <3>1, <3>2 DEF KeepsUp
  <2> QED BY <1>2, <1>5, <2>1, <2>2
<1>8. RowSound(row, <<"resend", w>> \in tangled')
  BY <1>3 DEF RowSound
<1>9. UsesLink(r, row)
  BY <1>1, <1>3, <1>4 DEF UsesLink, Kind
<1>10. row.invite <= sent'["invite"] /\ row.reset <= sent'["reset"] /\ row.pw >= user[w].pw
  BY <1>1, <1>2, <1>3
<1>11. \A k \in Kind : sent[k] <= sent'[k] /\ sent'[k] <= MaxLinks[k]
  BY <1>1, <1>2
<1> QED BY <1>1, <1>2, <1>3, <1>6, <1>7, <1>8, <1>9, <1>10, <1>11, WriteKeeps DEF Op

LEMMA ResetKeeps ==
  ASSUME AccessAssumption, AccessInv, NEW r \in Request, Reset(r)
  PROVE  AccessInv'
<1> DEFINE q == request[r]
           w == q.user
           new == user[w].pw + 1
           row == [user[w] EXCEPT !.pw = new, !.reset = 0]
<1>1. /\ q.op = "reset" /\ Commits(r, row)
      /\ session' = Append(Revoked(w, 0), Fresh(w, new))
      /\ attempt' = [attempt EXCEPT ![w] = <<>>]
      /\ Spends("reset", q.seen.reset)
      /\ UNCHANGED <<sent, left>>
  BY DEF Reset
<1>2. /\ Known(r) /\ w \in User /\ q.seen \in Row /\ user[w] \in Row
      /\ user[w].role # "none" /\ RowSound(user[w], <<"resend", w>> \in tangled)
      /\ session \in Seq(SessionRow) /\ Len(session) \in Nat /\ sent \in [Kind -> Nat]
      /\ \A k \in Kind : sent[k] <= MaxLinks[k]
      /\ attempt \in [User -> Seq({"wrong", "locked"})]
      /\ sent["invite"] \in Nat /\ sent["reset"] \in Nat
      /\ user[w].invite <= sent["invite"] /\ user[w].reset <= sent["reset"]
  <2>1. w \in User
    BY <1>1, KnownToRequest
  <2>2. user[w].invite <= sent["invite"] /\ user[w].reset <= sent["reset"]
    BY <2>1 DEF AccessInv, AccessTyped, TypeOK
  <2> QED BY <1>1, <2>2, KnownToRequest
<1>3. /\ row \in Row /\ row.role = user[w].role /\ row.active = user[w].active
      /\ row.accepted = user[w].accepted /\ row.pw = new /\ new \in Nat /\ new > 0
      /\ new >= user[w].pw /\ row.invite = user[w].invite /\ row.reset = 0
  <2>1. user[w].pw \in Nat /\ MaxLinks["reset"] \in Nat
    BY <1>2, FieldsOfRows DEF AccessAssumption, Kind
  <2>2. new \in Nat /\ new > 0 /\ new >= user[w].pw
    BY <2>1
  <2> HIDE DEF new
  <2>3. 0 \in 0..MaxLinks["reset"]
    BY <2>1
  <2>4. row \in Row
    BY <1>2, <2>2, <2>3 DEF Row
  <2>5. /\ row.role = user[w].role /\ row.active = user[w].active
        /\ row.accepted = user[w].accepted /\ row.pw = new
        /\ row.invite = user[w].invite /\ row.reset = 0
    BY <1>2 DEF Row
  <2> QED BY <2>2, <2>4, <2>5
<1>4. /\ q.seen = user[w] /\ user[w].active /\ q.seen.reset \in 1..MaxLinks["reset"]
      /\ q.seen.reset <= sent["reset"]
  BY <1>1, <1>2, FieldsOfRows DEF Known
<1>4h. /\ tangled \subseteq tangled' /\ \A u : Strays(tangled, u) => Strays(tangled', u)
       /\ q.op \in {"login", "accept", "resend"} =>
            q.seen = user[w] \/ <<q.op, w>> \in tangled'
  BY <1>1, CommitTangles DEF Op
<1> HIDE DEF row, new
<1>5a. /\ Revoked(w, 0) \in Seq(SessionRow) /\ Len(Revoked(w, 0)) = Len(session)
       /\ \A s \in 1..Len(session) :
            /\ Revoked(w, 0)[s].user = session[s].user
            /\ Revoked(w, 0)[s].pw = session[s].pw
            /\ Revoked(w, 0)[s].alive <=> session[s].alive /\ session[s].user # w
  <2>1. \A s \in 1..Len(session) : s # 0
    BY <1>2
  <2> QED BY <1>2, <2>1, RevokedSessions
<1>5. /\ session' \in Seq(SessionRow) /\ Len(session') = Len(session) + 1
      /\ \A s \in 1..Len(session) : session'[s] = Revoked(w, 0)[s]
      /\ session'[Len(session) + 1].user = w /\ session'[Len(session) + 1].pw = new
  BY <1>1, <1>2, <1>3, <1>5a, NewSession
<1>6. SessionsGrow
  <2>1. Len(session) \in Nat
    BY <1>2
  <2>2. \A s \in 1..Len(session) : session'[s].user = session[s].user
    BY <1>5, <1>5a
  <2> QED BY <1>5, <2>1, <2>2 DEF SessionsGrow
<1>7. \A s \in 1..Len(session') : KeepsUp(r, row, s)
  <2> SUFFICES ASSUME NEW s \in 1..Len(session') PROVE KeepsUp(r, row, s)
    OBVIOUS
  <2>1. CASE s = Len(session) + 1
    BY <1>3, <1>4, <1>5, <2>1 DEF KeepsUp
  <2>2. CASE s \in 1..Len(session)
    <3>1. session[s].pw > 0
      BY <2>2 DEF AccessInv, SessionsInv
    <3> QED BY <1>3, <1>5, <1>5a, <2>2, <3>1 DEF KeepsUp
  <2> QED BY <1>2, <1>5, <2>1, <2>2
<1>8. RowSound(row, <<"resend", w>> \in tangled')
  BY <1>1, <1>2, <1>3, <1>4, <1>4h, FieldsOfRows DEF RowSound, Known
<1>9. UsesLink(r, row)
  BY <1>1, <1>3, <1>4 DEF UsesLink, Kind
<1>10. row.invite <= sent'["invite"] /\ row.reset <= sent'["reset"] /\ row.pw >= user[w].pw
  BY <1>1, <1>2, <1>3
<1>11. \A k \in Kind : sent[k] <= sent'[k] /\ sent'[k] <= MaxLinks[k]
  BY <1>1, <1>2
<1>12. /\ attempt' \in [User -> Seq({"wrong", "locked"})]
       /\ \A u \in User : attempt'[u] = attempt[u] \/ attempt'[u] = <<>>
  BY <1>1, <1>2
<1> QED BY <1>1, <1>2, <1>3, <1>6, <1>7, <1>8, <1>9, <1>10, <1>11, <1>12, WriteKeeps
   DEF Op

LEMMA PasswordKeeps ==
  ASSUME AccessAssumption, AccessInv, NEW r \in Request, Password(r)
  PROVE  AccessInv'
<1> DEFINE q == request[r]
           w == q.user
           new == user[w].pw + 1
           old == Cleared(user[w], q.seen)
           row == [old EXCEPT !.pw = new]
           rest == Revoked(w, q.by)
<1>1. /\ q.op = "password" /\ Free(w) /\ Commits(r, row)
      /\ session' = [rest EXCEPT ![q.by].pw = new]
      /\ UNCHANGED <<attempt, sent, left, spent>>
  BY DEF Password
<1>2. /\ Known(r) /\ w \in User /\ q.seen \in Row /\ user[w] \in Row
      /\ user[w].role # "none" /\ RowSound(user[w], <<"resend", w>> \in tangled)
      /\ session \in Seq(SessionRow) /\ Len(session) \in Nat /\ sent \in [Kind -> Nat]
      /\ \A k \in Kind : sent[k] <= MaxLinks[k]
      /\ attempt \in [User -> Seq({"wrong", "locked"})]
      /\ sent["invite"] \in Nat /\ sent["reset"] \in Nat
      /\ user[w].invite <= sent["invite"] /\ user[w].reset <= sent["reset"]
  <2>1. w \in User
    BY <1>1, KnownToRequest
  <2>2. user[w].invite <= sent["invite"] /\ user[w].reset <= sent["reset"]
    BY <2>1 DEF AccessInv, AccessTyped, TypeOK
  <2> QED BY <1>1, <2>2, KnownToRequest
<1>3. /\ row \in Row /\ row.role = user[w].role /\ row.active = user[w].active
      /\ row.accepted = user[w].accepted /\ row.pw = new /\ new \in Nat /\ new > 0
      /\ new >= user[w].pw /\ row.invite = user[w].invite /\ row.reset \in {0, user[w].reset}
      /\ q.seen = user[w] => row.reset = 0
  <2>1. user[w].pw \in Nat
    BY <1>2, FieldsOfRows
  <2>2. /\ old \in Row /\ old.role = user[w].role /\ old.active = user[w].active
        /\ old.accepted = user[w].accepted
        /\ old.invite = user[w].invite /\ old.reset \in {0, user[w].reset}
        /\ q.seen = user[w] => old.reset = 0
    BY <1>2, ClearedRow
  <2> HIDE DEF old
  <2> QED BY <2>1, <2>2 DEF Row
<1>4. q.by \in 1..Len(session) /\ session[q.by].user = w
  BY <1>1, <1>2 DEF Known
<1>4a. user[w].accepted
  <2>1. user[w].pw > 0 /\ user[w].pw \in Nat
    BY <1>2, <1>4, FieldsOfRows DEF AccessInv, SessionsInv
  <2> QED BY <1>2, <2>1 DEF RowSound
<1>4h. /\ tangled \subseteq tangled' /\ \A u : Strays(tangled, u) => Strays(tangled', u)
       /\ q.op \in {"login", "accept", "resend"} =>
            q.seen = user[w] \/ <<q.op, w>> \in tangled'
  BY <1>1, CommitTangles DEF Op
<1> HIDE DEF row, new
<1>5a. /\ rest \in Seq(SessionRow) /\ Len(rest) = Len(session)
       /\ \A s \in 1..Len(session) :
            /\ rest[s].user = session[s].user
            /\ rest[s].pw = session[s].pw
            /\ rest[s].alive <=> session[s].alive /\ ~(session[s].user = w /\ s # q.by)
  BY <1>2, RevokedSessions
<1> HIDE DEF rest
<1>5. /\ session' \in Seq(SessionRow) /\ Len(session') = Len(session)
      /\ \A s \in 1..Len(session) :
           /\ session'[s].user = session[s].user
           /\ session'[s].alive = rest[s].alive
           /\ session'[s].pw = IF s = q.by THEN new ELSE session[s].pw
  <2> DEFINE one == [rest[q.by] EXCEPT !.pw = new]
  <2>1. rest[q.by] \in SessionRow
    BY <1>4, <1>5a
  <2>2. one \in SessionRow /\ one.user = rest[q.by].user /\ one.alive = rest[q.by].alive
        /\ one.pw = new
    BY <1>3, <2>1 DEF SessionRow
  <2>3. session' = [rest EXCEPT ![q.by] = one]
    BY <1>1
  <2> HIDE DEF one
  <2>4. /\ session' \in Seq(SessionRow) /\ Len(session') = Len(session)
        /\ session'[q.by] = one
        /\ \A s \in 1..Len(session) : s # q.by => session'[s] = rest[s]
    BY <1>4, <1>5a, <2>2, <2>3
  <2> QED BY <1>4, <1>5a, <2>2, <2>4
<1>6. SessionsGrow
  BY <1>2, <1>5 DEF SessionsGrow
<1>7. \A s \in 1..Len(session') : KeepsUp(r, row, s)
  <2> SUFFICES ASSUME NEW s \in 1..Len(session') PROVE KeepsUp(r, row, s)
    OBVIOUS
  <2>1. s \in 1..Len(session)
    BY <1>5
  <2>2. CASE s = q.by
    <3>1. session[s].alive => Current(s) \/ Strays(tangled, w)
      BY <1>4, <2>1, <2>2 DEF AccessInv, SessionsInv
    <3> QED BY <1>3, <1>4, <1>4h, <1>5, <1>5a, <2>1, <2>2, <3>1 DEF KeepsUp, Current
  <2>3. CASE s # q.by
    <3>1. session[s].pw > 0
      BY <2>1 DEF AccessInv, SessionsInv
    <3> QED BY <1>3, <1>5, <1>5a, <2>1, <2>3, <3>1 DEF KeepsUp
  <2> QED BY <2>2, <2>3
<1>8. RowSound(row, <<"resend", w>> \in tangled')
  BY <1>2, <1>3, <1>4a, <1>4h DEF RowSound
<1>9. SendsOrTakes(r, row)
  BY <1>1, <1>3 DEF SendsOrTakes
<1>10. row.invite <= sent'["invite"] /\ row.reset <= sent'["reset"] /\ row.pw >= user[w].pw
  BY <1>1, <1>2, <1>3
<1>11. \A k \in Kind : sent[k] <= sent'[k] /\ sent'[k] <= MaxLinks[k]
  BY <1>1, <1>2
<1> QED BY <1>1, <1>2, <1>3, <1>6, <1>7, <1>8, <1>9, <1>10, <1>11, WriteKeeps DEF Op

LEMMA ResendKeeps ==
  ASSUME AccessAssumption, AccessInv, NEW r \in Request, Resend(r)
  PROVE  AccessInv'
<1> DEFINE q == request[r]
           w == q.user
           old == Cleared(user[w], q.seen)
           row == [old EXCEPT !.invite = sent["invite"] + 1]
<1>1. /\ q.op = "resend" /\ Free(w) /\ Sends("invite") /\ Commits(r, row)
      /\ UNCHANGED <<session, attempt, left, spent>>
  BY DEF Resend, Number
<1>2. /\ Known(r) /\ w \in User /\ q.seen \in Row /\ user[w] \in Row
      /\ user[w].role # "none" /\ RowSound(user[w], <<"resend", w>> \in tangled)
      /\ session \in Seq(SessionRow) /\ Len(session) \in Nat /\ sent \in [Kind -> Nat]
      /\ \A k \in Kind : sent[k] <= MaxLinks[k]
      /\ attempt \in [User -> Seq({"wrong", "locked"})]
      /\ sent["invite"] \in Nat /\ sent["reset"] \in Nat
      /\ user[w].invite <= sent["invite"] /\ user[w].reset <= sent["reset"]
  <2>1. w \in User
    BY <1>1, KnownToRequest
  <2>2. user[w].invite <= sent["invite"] /\ user[w].reset <= sent["reset"]
    BY <2>1 DEF AccessInv, AccessTyped, TypeOK
  <2> QED BY <1>1, <2>2, KnownToRequest
<1>2a. /\ sent["invite"] < MaxLinks["invite"] /\ sent'["invite"] = sent["invite"] + 1
       /\ sent'["reset"] = sent["reset"] /\ sent' \in [Kind -> Nat]
       /\ \A k \in Kind : sent[k] <= sent'[k] /\ sent'[k] <= MaxLinks[k]
       /\ MaxLinks["invite"] \in Nat
  <2>1. MaxLinks \in [Kind -> Nat]
    BY DEF AccessAssumption
  <2> QED BY <1>1, <1>2, <2>1 DEF Sends, Kind
<1>3. /\ row \in Row /\ row.role = user[w].role /\ row.active = user[w].active
      /\ row.accepted = user[w].accepted /\ row.pw = user[w].pw /\ row.pw \in Nat
      /\ row.invite = sent["invite"] + 1 /\ row.reset \in {0, user[w].reset}
      /\ q.seen = user[w] => row.reset = 0
  <2>1. user[w].pw \in Nat
    BY <1>2, FieldsOfRows
  <2>2. /\ old \in Row /\ old.role = user[w].role /\ old.active = user[w].active
        /\ old.accepted = user[w].accepted /\ old.pw = user[w].pw
        /\ old.reset \in {0, user[w].reset}
        /\ q.seen = user[w] => old.reset = 0
    BY <1>2, ClearedRow
  <2> HIDE DEF old
  <2> DEFINE n == sent["invite"] + 1
  <2>3. n \in 0..MaxLinks["invite"]
    BY <1>2, <1>2a
  <2> HIDE DEF n
  <2>4. [old EXCEPT !.invite = n] \in Row
    BY <2>2, <2>3 DEF Row
  <2>5. /\ [old EXCEPT !.invite = n].role = old.role
        /\ [old EXCEPT !.invite = n].active = old.active
        /\ [old EXCEPT !.invite = n].accepted = old.accepted
        /\ [old EXCEPT !.invite = n].pw = old.pw
        /\ [old EXCEPT !.invite = n].reset = old.reset
        /\ [old EXCEPT !.invite = n].invite = n
    BY <2>2 DEF Row
  <2> QED BY <2>1, <2>2, <2>4, <2>5 DEF n
<1>4. ~q.seen.accepted
  BY <1>1, <1>2 DEF Known
<1>4h. /\ tangled \subseteq tangled' /\ \A u : Strays(tangled, u) => Strays(tangled', u)
       /\ q.op \in {"login", "accept", "resend"} =>
            q.seen = user[w] \/ <<q.op, w>> \in tangled'
  BY <1>1, CommitTangles DEF Op
<1> HIDE DEF row
<1>6. SessionsGrow
  BY <1>1, <1>2 DEF SessionsGrow
<1>7. \A s \in 1..Len(session') : KeepsUp(r, row, s)
  <2> SUFFICES ASSUME NEW s \in 1..Len(session') PROVE KeepsUp(r, row, s)
    OBVIOUS
  <2>2. s \in 1..Len(session)
    BY <1>1
  <2>3. /\ session[s].pw > 0 /\ user[session[s].user].pw > 0
        /\ session[s].alive => Current(s) \/ Strays(tangled, session[s].user)
    BY <2>2 DEF AccessInv, SessionsInv
  <2>4. session'[s] = session[s]
    BY <1>1
  <2> QED BY <1>3, <1>4h, <2>2, <2>3, <2>4 DEF KeepsUp, Current
<1>8. RowSound(row, <<"resend", w>> \in tangled')
  BY <1>1, <1>2, <1>3, <1>4, <1>4h DEF RowSound
<1>9. SendsOrTakes(r, row)
  <2>1. row.invite <= MaxLinks["invite"]
    BY <1>2, <1>2a, <1>3
  <2> QED BY <1>1, <1>3, <2>1 DEF SendsOrTakes
<1>10. row.invite <= sent'["invite"] /\ row.reset <= sent'["reset"] /\ row.pw >= user[w].pw
  BY <1>2, <1>2a, <1>3
<1> QED BY <1>1, <1>2, <1>3, <1>6, <1>7, <1>8, <1>9, <1>10, <1>2a, WriteKeeps DEF Op

LEMMA IssueKeeps ==
  ASSUME AccessAssumption, AccessInv, NEW r \in Request, Issue(r)
  PROVE  AccessInv'
<1> DEFINE q == request[r]
           w == q.user
           row == [user[w] EXCEPT !.reset = sent["reset"] + 1]
<1>1. /\ q.op = "issue" /\ Free(w) /\ Sends("reset") /\ Commits(r, row)
      /\ UNCHANGED <<session, attempt, left, spent>>
  BY DEF Issue, Number
<1>2. /\ Known(r) /\ w \in User /\ q.seen \in Row /\ user[w] \in Row
      /\ user[w].role # "none" /\ RowSound(user[w], <<"resend", w>> \in tangled)
      /\ session \in Seq(SessionRow) /\ Len(session) \in Nat /\ sent \in [Kind -> Nat]
      /\ \A k \in Kind : sent[k] <= MaxLinks[k]
      /\ attempt \in [User -> Seq({"wrong", "locked"})]
      /\ sent["invite"] \in Nat /\ sent["reset"] \in Nat
      /\ user[w].invite <= sent["invite"] /\ user[w].reset <= sent["reset"]
  <2>1. w \in User
    BY <1>1, KnownToRequest
  <2>2. user[w].invite <= sent["invite"] /\ user[w].reset <= sent["reset"]
    BY <2>1 DEF AccessInv, AccessTyped, TypeOK
  <2> QED BY <1>1, <2>2, KnownToRequest
<1>2a. /\ sent["reset"] < MaxLinks["reset"] /\ sent'["reset"] = sent["reset"] + 1
       /\ sent'["invite"] = sent["invite"] /\ sent' \in [Kind -> Nat]
       /\ \A k \in Kind : sent[k] <= sent'[k] /\ sent'[k] <= MaxLinks[k]
       /\ MaxLinks["reset"] \in Nat
  <2>1. MaxLinks \in [Kind -> Nat]
    BY DEF AccessAssumption
  <2> QED BY <1>1, <1>2, <2>1 DEF Sends, Kind
<1>3. /\ row \in Row /\ row.role = user[w].role /\ row.active = user[w].active
      /\ row.accepted = user[w].accepted /\ row.pw = user[w].pw /\ row.pw \in Nat
      /\ row.reset = sent["reset"] + 1 /\ row.invite = user[w].invite
  <2>1. user[w].pw \in Nat
    BY <1>2, FieldsOfRows
  <2> DEFINE n == sent["reset"] + 1
             old == user[w]
  <2>3. n \in 0..MaxLinks["reset"] /\ old \in Row
    BY <1>2, <1>2a
  <2> HIDE DEF n, old
  <2>4. [old EXCEPT !.reset = n] \in Row
    BY <2>3 DEF Row
  <2>5. /\ [old EXCEPT !.reset = n].role = old.role
        /\ [old EXCEPT !.reset = n].active = old.active
        /\ [old EXCEPT !.reset = n].accepted = old.accepted
        /\ [old EXCEPT !.reset = n].pw = old.pw
        /\ [old EXCEPT !.reset = n].invite = old.invite
        /\ [old EXCEPT !.reset = n].reset = n
    BY <2>3 DEF Row
  <2> QED BY <2>1, <2>4, <2>5 DEF n, old
<1>4. user[w].accepted
  BY <1>1, <1>2 DEF Known
<1>4h. /\ tangled \subseteq tangled' /\ \A u : Strays(tangled, u) => Strays(tangled', u)
       /\ q.op \in {"login", "accept", "resend"} =>
            q.seen = user[w] \/ <<q.op, w>> \in tangled'
  BY <1>1, CommitTangles DEF Op
<1> HIDE DEF row
<1>6. SessionsGrow
  BY <1>1, <1>2 DEF SessionsGrow
<1>7. \A s \in 1..Len(session') : KeepsUp(r, row, s)
  <2> SUFFICES ASSUME NEW s \in 1..Len(session') PROVE KeepsUp(r, row, s)
    OBVIOUS
  <2>2. s \in 1..Len(session)
    BY <1>1
  <2>3. /\ session[s].pw > 0 /\ user[session[s].user].pw > 0
        /\ session[s].alive => Current(s) \/ Strays(tangled, session[s].user)
    BY <2>2 DEF AccessInv, SessionsInv
  <2>4. session'[s] = session[s]
    BY <1>1
  <2> QED BY <1>3, <1>4h, <2>2, <2>3, <2>4 DEF KeepsUp, Current
<1>8. RowSound(row, <<"resend", w>> \in tangled')
  BY <1>2, <1>3, <1>4, <1>4h DEF RowSound
<1>9. SendsOrTakes(r, row)
  <2>1. row.reset <= MaxLinks["reset"]
    BY <1>2, <1>2a, <1>3
  <2> QED BY <1>1, <1>3, <2>1 DEF SendsOrTakes
<1>10. row.invite <= sent'["invite"] /\ row.reset <= sent'["reset"] /\ row.pw >= user[w].pw
  BY <1>2, <1>2a, <1>3
<1> QED BY <1>1, <1>2, <1>3, <1>6, <1>7, <1>8, <1>9, <1>10, <1>2a, WriteKeeps DEF Op

LEMMA EditedRow ==
  ASSUME NEW row \in Row, row.role # "none", NEW seen, NEW change
  PROVE  LET new == Edited(row, seen, change) IN
         /\ new \in Row /\ new.role # "none" /\ new.accepted = row.accepted
         /\ new.pw = row.pw /\ new.invite = row.invite /\ new.reset = row.reset
         /\ row.active /\ ~new.active => change = "disable" /\ seen.active
<1>1. CASE change = "disable" /\ seen.active
  BY <1>1 DEF Edited, Row
<1>2. CASE change = "enable" /\ ~seen.active
  BY <1>2 DEF Edited, Row
<1>3. CASE change = "demote" /\ seen.role = "admin"
  BY <1>3 DEF Edited, Row, Role
<1>4. CASE change = "promote" /\ seen.role = "manager"
  BY <1>4 DEF Edited, Row, Role
<1>5. CASE /\ ~(change = "disable" /\ seen.active) /\ ~(change = "enable" /\ ~seen.active)
           /\ ~(change = "demote" /\ seen.role = "admin")
           /\ ~(change = "promote" /\ seen.role = "manager")
  BY <1>5 DEF Edited
<1> QED BY <1>1, <1>2, <1>3, <1>4, <1>5

LEMMA EditKeeps ==
  ASSUME AccessAssumption, AccessInv, NEW r \in Request, Edit(r)
  PROVE  AccessInv'
<1> DEFINE q == request[r]
           w == q.user
           old == Edited(user[w], q.seen, q.change)
           row == IF Disables(q) THEN Cleared(old, q.seen) ELSE old
<1>1. /\ q.op = "edit" /\ Free(w) /\ Commits(r, row)
      /\ session' = IF Disables(q) THEN Revoked(w, 0) ELSE session
      /\ UNCHANGED <<attempt, sent, left, spent>>
  BY DEF Edit
<1>2. /\ Known(r) /\ w \in User /\ q.seen \in Row /\ user[w] \in Row
      /\ user[w].role # "none" /\ RowSound(user[w], <<"resend", w>> \in tangled)
      /\ session \in Seq(SessionRow) /\ Len(session) \in Nat /\ sent \in [Kind -> Nat]
      /\ \A k \in Kind : sent[k] <= MaxLinks[k]
      /\ attempt \in [User -> Seq({"wrong", "locked"})]
      /\ sent["invite"] \in Nat /\ sent["reset"] \in Nat
      /\ user[w].invite <= sent["invite"] /\ user[w].reset <= sent["reset"]
  <2>1. w \in User
    BY <1>1, KnownToRequest
  <2>2. user[w].invite <= sent["invite"] /\ user[w].reset <= sent["reset"]
    BY <2>1 DEF AccessInv, AccessTyped, TypeOK
  <2> QED BY <1>1, <2>2, KnownToRequest
<1>3. /\ row \in Row /\ row.role # "none" /\ row.accepted = user[w].accepted
      /\ row.pw = user[w].pw /\ row.invite = user[w].invite
      /\ row.reset \in {0, user[w].reset}
      /\ user[w].active /\ ~Disables(q) => row.active
  <2>1. /\ old \in Row /\ old.role # "none" /\ old.accepted = user[w].accepted
        /\ old.pw = user[w].pw /\ old.invite = user[w].invite /\ old.reset = user[w].reset
        /\ user[w].active /\ ~old.active => Disables(q)
    BY <1>2, EditedRow DEF Disables
  <2> HIDE DEF old
  <2>2. /\ Cleared(old, q.seen) \in Row /\ Cleared(old, q.seen).role = old.role
        /\ Cleared(old, q.seen).accepted = old.accepted
        /\ Cleared(old, q.seen).pw = old.pw /\ Cleared(old, q.seen).invite = old.invite
        /\ Cleared(old, q.seen).reset \in {0, old.reset}
    BY <1>2, <2>1, ClearedRow
  <2>3. CASE Disables(q)
    BY <2>1, <2>2, <2>3
  <2>4. CASE ~Disables(q)
    BY <2>1, <2>4
  <2> QED BY <2>3, <2>4
<1>4h. tangled \subseteq tangled' /\ \A u : Strays(tangled, u) => Strays(tangled', u)
  BY <1>1, CommitTangles DEF Op
<1> HIDE DEF row, old
<1>5. /\ session' \in Seq(SessionRow) /\ Len(session') = Len(session)
      /\ \A s \in 1..Len(session) :
           /\ session'[s].user = session[s].user
           /\ session'[s].pw = session[s].pw
           /\ session'[s].alive => session[s].alive /\ ~(Disables(q) /\ session[s].user = w)
  <2>1. /\ Revoked(w, 0) \in Seq(SessionRow) /\ Len(Revoked(w, 0)) = Len(session)
        /\ \A s \in 1..Len(session) :
             /\ Revoked(w, 0)[s].user = session[s].user
             /\ Revoked(w, 0)[s].pw = session[s].pw
             /\ Revoked(w, 0)[s].alive <=> session[s].alive /\ session[s].user # w
    <3>1. \A s \in 1..Len(session) : s # 0
      BY <1>2
    <3> QED BY <1>2, <3>1, RevokedSessions
  <2>2. CASE Disables(q)
    BY <1>1, <2>1, <2>2
  <2>3. CASE ~Disables(q)
    BY <1>1, <1>2, <2>3
  <2> QED BY <2>2, <2>3
<1>6. SessionsGrow
  <2>1. Len(session') <= Len(session) + 1 /\ Len(session) <= Len(session')
    BY <1>2, <1>5
  <2> QED BY <1>5, <2>1 DEF SessionsGrow
<1>7. \A s \in 1..Len(session') : KeepsUp(r, row, s)
  <2> SUFFICES ASSUME NEW s \in 1..Len(session') PROVE KeepsUp(r, row, s)
    OBVIOUS
  <2>2. s \in 1..Len(session)
    BY <1>5
  <2>3. /\ session[s].pw > 0 /\ user[session[s].user].pw > 0
        /\ session[s].alive => Current(s) \/ Strays(tangled, session[s].user)
    BY <2>2 DEF AccessInv, SessionsInv
  <2>4. /\ session'[s].user = session[s].user /\ session'[s].pw = session[s].pw
        /\ session'[s].alive => session[s].alive /\ ~(Disables(q) /\ session[s].user = w)
    BY <1>5, <2>2
  <2>5. session[s].user = w /\ session'[s].alive =>
          Strays(tangled', w) \/ (row.active /\ session[s].pw = row.pw)
    BY <1>3, <1>4h, <2>3, <2>4 DEF Current
  <2> QED BY <1>3, <2>2, <2>3, <2>4, <2>5 DEF KeepsUp
<1>8. RowSound(row, <<"resend", w>> \in tangled')
  BY <1>2, <1>3, <1>4h DEF RowSound
<1>9. SendsOrTakes(r, row)
  BY <1>1, <1>3 DEF SendsOrTakes
<1>10. row.invite <= sent'["invite"] /\ row.reset <= sent'["reset"] /\ row.pw >= user[w].pw
  <2>1. row.pw \in Nat
    BY <1>3, FieldsOfRows
  <2> QED BY <1>1, <1>2, <1>3, <2>1
<1>11. \A k \in Kind : sent[k] <= sent'[k] /\ sent'[k] <= MaxLinks[k]
  BY <1>1, <1>2
<1> QED BY <1>1, <1>2, <1>3, <1>6, <1>7, <1>8, <1>9, <1>10, <1>11, WriteKeeps DEF Op
-----------------------------------------------------------------------------
LEMMA WrongPasswordKeeps ==
  ASSUME AccessAssumption, AccessInv, NEW r \in Request, WrongPassword(r)
  PROVE  AccessInv'
<1> DEFINE w == request[r].user
<1>1. /\ request[r].op = "wrong" /\ Failed(w, "wrong")
      /\ request' = [request EXCEPT ![r] = Idle]
      /\ UNCHANGED <<user, session, sent, left, spent, tangled>>
  BY DEF WrongPassword
<1>2. /\ AccessTyped /\ w \in User /\ r \in Busy
      /\ request \in [Request -> RequestRow]
      /\ attempt \in [User -> Seq({"wrong", "locked"})]
  BY <1>1, KnownToRequest, TypesOfAccess DEF AccessInv, Busy
<1>3. Idle \in RequestRow /\ Idle.op = "none"
  <2>1. MaxRequests \in Nat
    BY DEF AccessAssumption
  <2> QED BY <2>1, RowsOfPeople DEF RequestRow, Idle, Op, Change, AccessAssumption
<1>4. /\ request' \in [Request -> RequestRow] /\ request'[r] = Idle
      /\ \A o \in Request \ {r} : request'[o] = request[o]
  BY <1>1, <1>2, <1>3
<1>5. /\ attempt' = [attempt EXCEPT ![w] = Append(attempt[w], "wrong")]
      /\ attempt' \in [User -> Seq({"wrong", "locked"})]
  <2>1. attempt' = [attempt EXCEPT ![w] = Append(attempt[w], "wrong")]
    BY <1>1 DEF Failed
  <2>2. Append(attempt[w], "wrong") \in Seq({"wrong", "locked"})
    BY <1>2
  <2> QED BY <1>2, <2>1, <2>2
<1>6. Busy' = Busy \ {r}
  BY <1>3, <1>4 DEF Busy
<1>7. BudgetInv'
  <2>1. Cardinality(Busy') = Cardinality(Busy) - 1 /\ Cardinality(Busy) \in Nat
    BY <1>2, <1>6, BusyIsFinite, FS_RemoveElement
  <2>2. Len(session) + left + Cardinality(Busy) <= MaxRequests
    BY DEF AccessInv, BudgetInv
  <2>3. Len(session) \in Nat /\ left \in Nat /\ MaxRequests \in Nat
    BY <1>2, TypesOfAccess
  <2> QED BY <1>1, <2>1, <2>2, <2>3 DEF BudgetInv
<1>8. RequestsInv'
  <2>1. ASSUME NEW o \in Busy' PROVE Known(o)'
    <3>1. o \in Busy /\ o # r /\ Known(o) /\ request'[o] = request[o]
      BY <1>4, <1>6, <2>1 DEF AccessInv, RequestsInv, Busy
    <3> QED BY <1>1, <3>1 DEF Known, Ruler
  <2>2. ASSUME NEW o \in Busy', NEW q \in Busy', o # q,
               request'[o].op = "reset", request'[q].op = "reset"
        PROVE  request'[o].user # request'[q].user
    <3>1. o \in Busy /\ q \in Busy /\ request'[o] = request[o] /\ request'[q] = request[q]
      BY <1>4, <1>6, <2>2 DEF Busy
    <3> QED BY <2>2, <3>1 DEF AccessInv, RequestsInv
  <2> HIDE DEF Known
  <2> QED BY <2>1, <2>2 DEF RequestsInv
<1>9. TriesInv'
  <2> SUFFICES ASSUME NEW u \in User
               PROVE  Cardinality(Wrong(attempt'[u])) + Cardinality(Trying(u)')
                        < MaxAttempts + Cardinality(Request)
    BY DEF TriesInv
  <2>1. /\ Cardinality(Wrong(attempt[u])) \in Nat /\ Cardinality(Trying(u)) \in Nat
        /\ Cardinality(Wrong(attempt[u])) + Cardinality(Trying(u))
             < MaxAttempts + Cardinality(Request)
    BY <1>2, BusyIsFinite, WrongIsFinite DEF AccessInv, TriesInv
  <2>2. CASE u = w
    <3>1. Trying(u)' = Trying(u) \ {r} /\ r \in Trying(u)
      BY <1>1, <1>3, <1>4, <2>2 DEF Trying
    <3>2. Cardinality(Trying(u)') = Cardinality(Trying(u)) - 1
      BY <3>1, BusyIsFinite, FS_RemoveElement
    <3>3. attempt'[u] = Append(attempt[u], "wrong")
      BY <1>2, <1>5, <2>2
    <3>4. Cardinality(Wrong(attempt'[u])) = Cardinality(Wrong(attempt[u])) + 1
      BY <1>2, <3>3, WrongOfAppend
    <3> QED BY <2>1, <3>2, <3>4
  <2>3. CASE u # w
    <3>1. Trying(u)' = Trying(u)
      BY <1>1, <1>3, <1>4, <2>3 DEF Trying
    <3>2. attempt'[u] = attempt[u]
      BY <1>2, <1>5, <2>3
    <3> QED BY <2>1, <3>1, <3>2
  <2> QED BY <2>2, <2>3
<1>10. RowsInv' /\ LinksInv' /\ SessionsInv' /\ SomebodyRules'
  BY <1>1 DEF AccessInv, RowsInv, LinksInv, LinksWorkOnce, Once, SessionsInv, Current,
              SomebodyRules
<1>11. AccessTyped'
  BY <1>1, <1>2, <1>4, <1>5 DEF AccessTyped, TypeOK, RequestRow
<1> QED BY <1>7, <1>8, <1>9, <1>10, <1>11 DEF AccessInv

\* Attempts that are turned away or forgotten.
LEMMA AttemptsKeep ==
  ASSUME AccessAssumption, AccessInv, NEW u \in User, TurnedAway(u) \/ Forget(u)
  PROVE  AccessInv'
<1>1. AccessTyped /\ attempt \in [User -> Seq({"wrong", "locked"})]
      /\ UNCHANGED <<user, session, request, sent, left, spent, tangled>>
  BY DEF AccessInv, AccessTyped, TypeOK, TurnedAway, Forget
<1>2. /\ attempt' \in [User -> Seq({"wrong", "locked"})]
      /\ \A v \in User : Cardinality(Wrong(attempt'[v])) <= Cardinality(Wrong(attempt[v]))
  <2>1. \A v \in User : Cardinality(Wrong(attempt[v])) \in Nat
    BY <1>1, WrongIsFinite
  <2>2. CASE TurnedAway(u)
    <3>1. attempt' = [attempt EXCEPT ![u] = Append(attempt[u], "locked")]
      BY <2>2 DEF TurnedAway, Failed
    <3>2. Append(attempt[u], "locked") \in Seq({"wrong", "locked"})
      BY <1>1
    <3>3. Cardinality(Wrong(Append(attempt[u], "locked"))) = Cardinality(Wrong(attempt[u]))
      BY <1>1, WrongOfAppend
    <3> QED BY <1>1, <2>1, <3>1, <3>2, <3>3
  <2>3. CASE Forget(u)
    <3>1. attempt[u] # <<>> /\ attempt' = [attempt EXCEPT ![u] = Tail(attempt[u])]
      BY <2>3 DEF Forget
    <3>2. Tail(attempt[u]) \in Seq({"wrong", "locked"})
      BY <1>1, <3>1
    <3>3. Cardinality(Wrong(Tail(attempt[u]))) <= Cardinality(Wrong(attempt[u]))
      BY <1>1, <3>1, WrongOfTail
    <3> QED BY <1>1, <2>1, <3>1, <3>2, <3>3
  <2> QED BY <2>2, <2>3
<1>3. TriesInv'
  <2> SUFFICES ASSUME NEW v \in User
               PROVE  Cardinality(Wrong(attempt'[v])) + Cardinality(Trying(v)')
                        < MaxAttempts + Cardinality(Request)
    BY DEF TriesInv
  <2>1. Trying(v)' = Trying(v)
    BY <1>1 DEF Trying
  <2>2. /\ Cardinality(Wrong(attempt[v])) \in Nat /\ Cardinality(Wrong(attempt'[v])) \in Nat
        /\ Cardinality(Trying(v)) \in Nat /\ Cardinality(Request) \in Nat
        /\ MaxAttempts \in Nat
    BY <1>1, <1>2, BusyIsFinite, WrongIsFinite DEF AccessAssumption
  <2>3. Cardinality(Wrong(attempt[v])) + Cardinality(Trying(v))
          < MaxAttempts + Cardinality(Request)
    BY DEF AccessInv, TriesInv
  <2> QED BY <1>2, <2>1, <2>2, <2>3
<1>4. AccessTyped'
  BY <1>1, <1>2 DEF AccessTyped, TypeOK
<1>5. RequestsInv' /\ BudgetInv'
  BY <1>1 DEF AccessInv, RequestsInv, BudgetInv, Busy, Known, Ruler
<1>6. RowsInv' /\ LinksInv' /\ SessionsInv' /\ SomebodyRules'
  BY <1>1 DEF AccessInv, RowsInv, LinksInv, LinksWorkOnce, Once, SessionsInv, Current,
              SomebodyRules
<1> QED BY <1>3, <1>4, <1>5, <1>6 DEF AccessInv

\* A session that ends, and the socket that hangs on one.
LEMMA SessionKeeps ==
  ASSUME AccessAssumption, AccessInv, NEW s \in 1..Len(session),
         Logout(s) \/ Connect(s) \/ Revalidate(s)
  PROVE  AccessInv'
<1>1. UNCHANGED <<user, attempt, request, sent, left, spent, tangled>>
  BY DEF Logout, Connect, Revalidate
<1>2. AccessTyped /\ session \in Seq(SessionRow) /\ Len(session) \in Nat
      /\ session[s] \in SessionRow
  BY TypesOfAccess DEF AccessInv
<1>3. PICK row \in SessionRow :
        /\ session' = [session EXCEPT ![s] = row]
        /\ row.user = session[s].user /\ row.pw = session[s].pw
        /\ row.alive => session[s].alive
  <2>1. ASSUME NEW b \in BOOLEAN
        PROVE  /\ [session[s] EXCEPT !.socket = b] \in SessionRow
               /\ [session[s] EXCEPT !.socket = b].user = session[s].user
               /\ [session[s] EXCEPT !.socket = b].pw = session[s].pw
               /\ [session[s] EXCEPT !.socket = b].alive = session[s].alive
    BY <1>2 DEF SessionRow
  <2>2. /\ [session[s] EXCEPT !.alive = FALSE] \in SessionRow
        /\ [session[s] EXCEPT !.alive = FALSE].user = session[s].user
        /\ [session[s] EXCEPT !.alive = FALSE].pw = session[s].pw
        /\ ~[session[s] EXCEPT !.alive = FALSE].alive
    BY <1>2 DEF SessionRow
  <2>3. CASE Logout(s)
    <3>1. session' = [session EXCEPT ![s] = [session[s] EXCEPT !.alive = FALSE]]
      BY <1>2, <2>3 DEF Logout
    <3> QED BY <2>2, <3>1
  <2>4. CASE Connect(s)
    <3>1. session' = [session EXCEPT ![s] = [session[s] EXCEPT !.socket = TRUE]]
      BY <1>2, <2>4 DEF Connect
    <3> QED BY <2>1, <3>1
  <2>5. CASE Revalidate(s)
    <3>1. session' = [session EXCEPT ![s] = [session[s] EXCEPT !.socket = FALSE]]
      BY <1>2, <2>5 DEF Revalidate
    <3> QED BY <2>1, <3>1
  <2> QED BY <2>3, <2>4, <2>5
<1>4. /\ session' \in Seq(SessionRow) /\ Len(session') = Len(session)
      /\ \A i \in 1..Len(session) :
           /\ session'[i].user = session[i].user /\ session'[i].pw = session[i].pw
           /\ session'[i].alive => session[i].alive
  BY <1>2, <1>3
<1>5. AccessTyped'
  BY <1>1, <1>2, <1>4 DEF AccessTyped, TypeOK, SessionRow
<1>6. SessionsInv'
  BY <1>1, <1>4 DEF AccessInv, SessionsInv, Current, Strays
<1>7. RequestsInv'
  <2>1. ASSUME NEW o \in Busy PROVE Known(o)'
    <3>1. Known(o)
      BY DEF AccessInv, RequestsInv
    <3> QED BY <1>1, <1>4, <3>1 DEF Known, Ruler
  <2>2. Busy' = Busy
    BY <1>1 DEF Busy
  <2> HIDE DEF Known
  <2> QED BY <1>1, <2>1, <2>2 DEF AccessInv, RequestsInv
<1>8. BudgetInv' /\ TriesInv'
  <2>1. Busy' = Busy /\ \A u \in User : Trying(u)' = Trying(u)
    BY <1>1 DEF Busy, Trying
  <2> QED BY <1>1, <1>4, <2>1 DEF AccessInv, BudgetInv, TriesInv
<1>9. RowsInv' /\ LinksInv' /\ SomebodyRules'
  BY <1>1 DEF AccessInv, RowsInv, LinksInv, LinksWorkOnce, Once, SomebodyRules
<1> QED BY <1>5, <1>6, <1>7, <1>8, <1>9 DEF AccessInv

LEMMA CreateKeeps ==
  ASSUME AccessAssumption, AccessInv, NEW s \in 1..Len(session), NEW u \in User,
         NEW role \in Role, Create(s, u, role)
  PROVE  AccessInv'
<1> DEFINE n == sent["invite"] + 1
           row == [Nobody EXCEPT !.role = role, !.invite = n]
<1>1. /\ user[u].role = "none" /\ Sends("invite")
      /\ user' = [user EXCEPT ![u] = row]
      /\ UNCHANGED <<session, attempt, request, left, spent, tangled>>
  BY DEF Create, Number
<1>2. /\ AccessTyped /\ user \in [User -> Row] /\ session \in Seq(SessionRow)
      /\ Len(session) \in Nat /\ request \in [Request -> RequestRow]
      /\ sent["invite"] \in Nat /\ sent["reset"] \in Nat
      /\ MaxLinks["invite"] \in Nat
  BY TypesOfAccess DEF AccessInv
<1>3. /\ sent \in [Kind -> Nat] /\ \A k \in Kind : sent[k] <= MaxLinks[k]
  BY <1>2 DEF AccessTyped, TypeOK
<1>4. /\ n <= MaxLinks["invite"] /\ sent'["invite"] = n /\ n \in Nat
      /\ sent'["reset"] = sent["reset"] /\ sent' \in [Kind -> Nat]
      /\ \A k \in Kind : sent[k] <= sent'[k] /\ sent'[k] <= MaxLinks[k]
  <2>1. MaxLinks \in [Kind -> Nat]
    BY DEF AccessAssumption
  <2> QED BY <1>1, <1>2, <1>3, <2>1 DEF Sends, Kind
<1>5. user[u] = Nobody /\ role # "none"
  BY <1>1 DEF AccessInv, RowsInv, Role
<1> HIDE DEF n
<1>6. /\ row \in Row /\ row.role # "none" /\ ~row.accepted /\ row.active
      /\ row.pw = 0 /\ row.reset = 0 /\ row.invite = n
  <2>1. n \in 0..MaxLinks["invite"]
    BY <1>2, <1>4
  <2>2. row \in Row
    BY <2>1, RowsOfPeople DEF Row
  <2>3. /\ row.role = role /\ row.accepted = Nobody.accepted /\ row.active = Nobody.active
        /\ row.pw = Nobody.pw /\ row.reset = Nobody.reset /\ row.invite = n
    BY RowsOfPeople DEF Row
  <2> QED BY <1>5, <2>2, <2>3, RowsOfPeople
<1> HIDE DEF row
<1>7. /\ user' \in [User -> Row] /\ user'[u] = row
      /\ \A v \in User \ {u} : user'[v] = user[v]
  BY <1>1, <1>2, <1>6
<1>8. LinksInv'
  <2>1. row.invite = sent["invite"] + 1 /\ row.invite <= MaxLinks["invite"]
    BY <1>4, <1>6 DEF n
  <2>2. \A k \in Kind : sent[k] <= sent'[k]
    BY <1>4
  <2>3. spent' = spent /\ tangled' = tangled /\ row.reset \in {0, user[u].reset}
    BY <1>1, <1>6
  <2>4. LinksInv /\ (Once' => Once)
    BY <1>2, <2>3 DEF AccessInv, Once
  <2> QED BY <1>2, <1>4, <1>6, <1>7, <2>1, <2>2, <2>3, <2>4, LinksKeep
<1>9. RowsInv'
  <2>1. ASSUME NEW v \in User
        PROVE  /\ user'[v].role = "none" => user'[v] = Nobody
               /\ RowSound(user'[v], <<"resend", v>> \in tangled)
    <3>1. CASE v = u
      BY <1>6, <1>7, <3>1 DEF RowSound
    <3>2. CASE v # u
      BY <1>7, <3>2 DEF AccessInv, RowsInv
    <3> QED BY <3>1, <3>2
  <2>2. Nobody' = Nobody
    BY DEF Nobody
  <2> QED BY <1>1, <2>1, <2>2 DEF RowsInv, RowSound
<1>10. SessionsInv'
  <2>1. ASSUME NEW i \in 1..Len(session)
        PROVE  user'[session[i].user] = user[session[i].user]
    <3>1. session[i] \in SessionRow
      BY <1>2
    <3>2. session[i].user \in User
      BY <3>1 DEF SessionRow
    <3>3. user[session[i].user].pw > 0
      BY DEF AccessInv, SessionsInv
    <3>4. session[i].user # u
      BY <1>5, <3>3, RowsOfPeople
    <3> QED BY <1>7, <3>2, <3>4
  <2> QED BY <1>1, <2>1 DEF AccessInv, SessionsInv, Current, Strays
<1>11. RequestsInv'
  <2>1. ASSUME NEW o \in Busy PROVE Known(o)'
    <3>1. Known(o) /\ o \in Request
      BY DEF AccessInv, RequestsInv, Busy
    <3>2. request[o].user \in User /\ request[o].seen \in Row
      BY <1>2, <3>1 DEF RequestRow
    <3>3. request[o].user # u
      BY <1>1, <3>1 DEF Known
    <3>4. user'[request[o].user] = user[request[o].user]
      BY <1>7, <3>2, <3>3
    <3>5. request[o].seen.invite <= sent'["invite"]
      <4>1. request[o].seen.invite \in Nat /\ request[o].seen.invite <= sent["invite"]
        BY <3>1, <3>2, FieldsOfRows DEF Known
      <4> QED BY <1>2, <1>4, <4>1 DEF n
    <3> QED BY <1>1, <3>1, <3>4, <3>5 DEF Known
  <2>2. Busy' = Busy
    BY <1>1 DEF Busy
  <2> HIDE DEF Known
  <2> QED BY <1>1, <2>1, <2>2 DEF AccessInv, RequestsInv
<1>12. BudgetInv' /\ TriesInv'
  <2>1. Busy' = Busy /\ \A v \in User : Trying(v)' = Trying(v)
    BY <1>1 DEF Busy, Trying
  <2> QED BY <1>1, <2>1 DEF AccessInv, BudgetInv, TriesInv
<1>13. SomebodyRules'
  <2> SUFFICES ASSUME ~ \E v \in User : <<"edit", v>> \in tangled
               PROVE  \E v \in User : Ruler(v)'
    BY <1>1 DEF SomebodyRules, Ruler
  <2>1. PICK v \in User : user[v].role = "admin" /\ user[v].active /\ user[v].pw > 0
    BY DEF AccessInv, SomebodyRules
  <2>2. v # u
    BY <1>1, <2>1
  <2> QED BY <1>7, <2>1, <2>2 DEF Ruler
<1>14. AccessTyped'
  <2>1. /\ \A v \in User : user'[v].invite <= sent'["invite"] /\ user'[v].reset <= sent'["reset"]
    <3>1. ASSUME NEW v \in User
          PROVE  user'[v].invite <= sent'["invite"] /\ user'[v].reset <= sent'["reset"]
      <4>1. CASE v = u
        <5>1. row.invite = n /\ row.reset = 0
          BY <1>6
        <5> QED BY <1>2, <1>4, <1>7, <4>1, <5>1
      <4>2. CASE v # u
        <5>1. /\ user[v].invite <= sent["invite"] /\ user[v].reset <= sent["reset"]
              /\ user'[v] = user[v] /\ user[v] \in Row
          BY <1>2, <1>7, <4>2 DEF AccessTyped, TypeOK
        <5>2. user[v].invite \in Nat
          BY <5>1, FieldsOfRows
        <5>3. user[v].invite <= n
          BY <1>2, <5>1, <5>2 DEF n
        <5> QED BY <1>4, <5>1, <5>3
      <4> QED BY <4>1, <4>2
    <3> QED BY <3>1
  <2> QED BY <1>1, <1>2, <1>4, <1>7, <2>1 DEF AccessTyped, TypeOK
<1> QED BY <1>8, <1>9, <1>10, <1>11, <1>12, <1>13, <1>14 DEF AccessInv

-----------------------------------------------------------------------------
LEMMA AccessStep ==
  ASSUME AccessAssumption, AccessInv, [Next]_vars
  PROVE  AccessInv'
<1>1. ASSUME NEW r \in Request, Ask(r) PROVE AccessInv'
  BY <1>1, AskKeeps
<1>2. ASSUME NEW r \in Request, Answer(r) PROVE AccessInv'
  BY <1>2, LoginKeeps, WrongPasswordKeeps, AcceptKeeps, ResetKeeps, PasswordKeeps,
     EditKeeps, ResendKeeps, IssueKeeps DEF Answer
<1>3. ASSUME NEW u \in User, TurnedAway(u) \/ Forget(u) PROVE AccessInv'
  BY <1>3, AttemptsKeep
<1>4. ASSUME NEW s \in 1..Len(session), Logout(s) \/ Connect(s) \/ Revalidate(s)
      PROVE  AccessInv'
  BY <1>4, SessionKeeps
<1>5. ASSUME NEW s \in 1..Len(session), NEW u \in User, NEW role \in Role,
             Create(s, u, role)
      PROVE  AccessInv'
  BY <1>5, CreateKeeps
<1>6. CASE UNCHANGED vars
  <2>1. UNCHANGED <<user, session, attempt, request, sent, left, spent, tangled>>
    BY <1>6 DEF vars
  <2>2. AccessTyped' /\ RowsInv' /\ LinksInv' /\ SessionsInv'
    BY <2>1 DEF AccessInv, AccessTyped, TypeOK, RowsInv, LinksInv, LinksWorkOnce, Once,
                SessionsInv, Current, Strays
  <2>3. RequestsInv' /\ SomebodyRules'
    BY <2>1 DEF AccessInv, RequestsInv, Busy, Known, Ruler, SomebodyRules
  <2>4. BudgetInv' /\ TriesInv'
    BY <2>1 DEF AccessInv, BudgetInv, TriesInv, Busy, Trying
  <2> QED BY <2>2, <2>3, <2>4 DEF AccessInv
<1> QED BY <1>1, <1>2, <1>3, <1>4, <1>5, <1>6 DEF Next

LEMMA AccessInvHolds == Spec => []AccessInv
<1>1. Init => AccessInv
  BY AccessAssumption, AccessStart
<1>2. AccessInv /\ [Next]_vars => AccessInv'
  BY AccessAssumption, AccessStep
<1> QED BY <1>1, <1>2, PTL DEF Spec

(* Whatever logins, invitations, resets, changes of passwords and of rows  *)
(* interleave, for any number of people, requests, links and attempts: a   *)
(* link for a new password works once (`complete_password_reset`); so does *)
(* an invitation, unless an acceptance was overtaken (`accept_invite`);    *)
(* nobody has two ways in but who was invited again while he entered       *)
(* (`resend_invite`); somebody who rules is left, unless an administrator  *)
(* committed an edit after he had lost his rights (`update_user`); wrong   *)
(* passwords are refused after the limit, give or take the requests under  *)
(* way at a time (`login`).                                                *)
THEOREM TheWaysInHold == Spec => []WaysInHold
<1>1. AccessInv => WaysInHold
  <2> SUFFICES ASSUME AccessInv PROVE WaysInHold
    OBVIOUS
  <2>1. TypeOK /\ LinksWorkOnce /\ SomebodyRules
    BY DEF AccessInv, AccessTyped, LinksInv
  <2>2. OneWayIn
    BY DEF AccessInv, RowsInv, RowSound, OneWayIn
  <2>3. LockoutHolds
    <3> SUFFICES ASSUME NEW u \in User
                 PROVE  Cardinality(Wrong(attempt[u])) < MaxAttempts + Cardinality(Request)
      BY DEF LockoutHolds, Wrong
    <3>1. Cardinality(Wrong(attempt[u])) + Cardinality(Trying(u))
            < MaxAttempts + Cardinality(Request)
      BY DEF AccessInv, TriesInv
    <3>2. attempt[u] \in Seq({"wrong", "locked"})
      BY <2>1 DEF TypeOK
    <3>3. /\ Cardinality(Wrong(attempt[u])) \in Nat /\ Cardinality(Trying(u)) \in Nat
          /\ Cardinality(Request) \in Nat /\ MaxAttempts \in Nat
      BY <3>2, AccessAssumption, BusyIsFinite, WrongIsFinite DEF AccessAssumption
    <3> QED BY <3>1, <3>3
  <2> QED BY <2>1, <2>2, <2>3 DEF WaysInHold
<1> QED BY <1>1, AccessInvHolds, PTL

(* A session that still works belongs to somebody who is active and was    *)
(* begun, or renewed, under the password the row has now (`update_me`,     *)
(* `complete_password_reset` and `update_user` revoke the others), however *)
(* many requests are under way: only who entered or was invited again by a *)
(* request that another write of his row had overtaken may have others.    *)
THEOREM SessionsStayCurrent == Spec => []SessionsAreCurrent
<1>1. AccessInv => SessionsAreCurrent
  BY DEF AccessInv, SessionsInv, SessionsAreCurrent, Strays
<1> QED BY <1>1, AccessInvHolds, PTL
=============================================================================

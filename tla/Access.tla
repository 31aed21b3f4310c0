------------------------------- MODULE Access -------------------------------
(***************************************************************************)
(* Who gets into the CRM (services/auth_service.py, user_service.py,       *)
(* password_reset.py, core/deps.py, api/v1/ws.py): invitations, passwords, *)
(* one-time links for a new password, sessions, the lockout after wrong    *)
(* passwords, and administrators who switch people off and change roles.   *)
(*                                                                         *)
(* A request is two steps: it reads what it decides on; then, after it has *)
(* hashed a password or just waited its turn, it writes and commits.  Only *)
(* the use of a link for a new password locks the row it has read.         *)
(*                                                                         *)
(* A link or a session that expires is one that is not used any more.      *)
(***************************************************************************)
EXTENDS Naturals, Sequences, FiniteSets

\* What a link is for: to enter first, or to set a new password.
Kind == {"invite", "reset"}

CONSTANTS
  User, Founder,  \* people; the one create-admin makes
  Request,        \* requests that may be under way together
  MaxAttempts,    \* login_max_attempts
  MaxRequests,    \* bound: requests ever made, which bounds sessions and passwords
  MaxLinks,       \* bound: how many links of each kind are ever sent
  MaxAttemptsKept \* bound: failed attempts of one person in the window

ASSUME AccessAssumption ==
  /\ Founder \in User
  /\ Request # {} /\ IsFiniteSet(Request)
  /\ MaxAttempts \in Nat \ {0}
  /\ MaxRequests \in Nat /\ MaxLinks \in [Kind -> Nat] /\ MaxAttemptsKept \in Nat

VARIABLES
  user,      \* the rows of users
  session,   \* auth_sessions, and whether a browser listens with one
  attempt,   \* failed entries of login_attempts within login_lockout_minutes
  request,   \* requests under way
  sent,      \* links sent so far
  left,      \* bound: requests still to come
  spent,     \* history: how often each link was used
  tangled    \* history: who was written by a request of this kind that was overtaken

vars == <<user, session, attempt, request, sent, left, spent, tangled>>

Role == {"admin", "manager"}
Change == {"disable", "enable", "demote", "promote"}

\* pw counts the passwords the person has had; a link is 0 or its number.
Row == [role : Role \cup {"none"}, active : BOOLEAN, accepted : BOOLEAN, pw : Nat,
        invite : 0..MaxLinks["invite"], reset : 0..MaxLinks["reset"]]
Nobody == [role |-> "none", active |-> TRUE, accepted |-> FALSE, pw |-> 0,
           invite |-> 0, reset |-> 0]
Idle == [op |-> "none", user |-> Founder, by |-> 0, change |-> "enable",
         seen |-> Nobody]
Op == {"none", "login", "wrong", "accept", "reset", "password", "edit", "resend", "issue"}

\* An administrator who has accepted the invitation, or was made by create-admin.
Boss == [Nobody EXCEPT !.role = "admin", !.accepted = TRUE, !.pw = 1]

Init ==
  /\ \E staff \in SUBSET (User \ {Founder}) :
       user = [u \in User |-> IF u \in staff \cup {Founder} THEN Boss ELSE Nobody]
  /\ session = <<>>
  /\ attempt = [u \in User |-> <<>>]
  /\ request = [r \in Request |-> Idle]
  /\ sent = [k \in Kind |-> 0]
  /\ left = MaxRequests
  /\ spent = [k \in Kind |-> [n \in 1..MaxLinks[k] |-> 0]]
  /\ tangled = {}

\* Nobody else holds the row of u.
Free(u) == \A r \in Request : ~(request[r].op = "reset" /\ request[r].user = u)

\* get_current_user: the session lives and its owner may work.
Alive(s) == session[s].alive /\ user[session[s].user].active
Rules(s) == Alive(s) /\ user[session[s].user].role = "admin"

\* Request r has read the row of u.
Opens(r, op, u, by, change) ==
  /\ request[r] = Idle
  /\ user[u].role # "none"
  /\ request' = [request EXCEPT ![r] = [op |-> op, user |-> u, by |-> by, change |-> change,
                                        seen |-> user[u]]]
  /\ left > 0 /\ left' = left - 1
  /\ UNCHANGED <<user, session, attempt, sent, spent, tangled>>

\* What request r has decided on changed meanwhile: the row that was read of
\* the person who enters or is invited again, or the rights of who edits.
Overtaken(r) ==
  LET q == request[r] IN
  \/ q.op \in {"login", "accept", "resend"} /\ q.seen # user[q.user]
  \/ q.op = "edit" /\ ~Rules(q.by)

\* Request r commits, the row of its user becomes row.
Commits(r, row) ==
  LET q == request[r] IN
  /\ user' = [user EXCEPT ![q.user] = row]
  /\ request' = [request EXCEPT ![r] = Idle]
  /\ tangled' = IF Overtaken(r) THEN tangled \cup {<<q.op, q.user>>} ELSE tangled

\* password_reset.clear_token: only a link that was seen is taken away.
Cleared(row, seen) == IF seen.reset = 0 THEN row ELSE [row EXCEPT !.reset = 0]

\* Sessions of u are revoked, but for the one that asks.
Revoked(u, by) == [s \in 1..Len(session) |->
  IF session[s].user = u /\ s # by THEN [session[s] EXCEPT !.alive = FALSE] ELSE session[s]]

\* A new session of u, who entered the password number pw; the browser listens.
Fresh(u, pw) == [user |-> u, alive |-> TRUE, pw |-> pw, socket |-> TRUE]

-----------------------------------------------------------------------------
(* Passwords.                                                              *)

\* Mutant: the door closes one attempt too late.
LockedLate(u) == Len(attempt[u]) > MaxAttempts
\* _is_locked_out
Locked(u) == Len(attempt[u]) >= MaxAttempts

\* A failed attempt of u of this kind.
Failed(u, kind) ==
  /\ Len(attempt[u]) < MaxAttemptsKept
  /\ attempt' = [attempt EXCEPT ![u] = Append(@, kind)]

(* _authenticate: the right or a wrong password is entered.  Attempts that *)
(* are turned away count too.                                              *)
LoginRead(r, u) ==
  /\ ~Locked(u)
  /\ \/ user[u].pw > 0 /\ user[u].active /\ Opens(r, "login", u, 0, "enable")
     \/ Opens(r, "wrong", u, 0, "enable")

TurnedAway(u) ==
  /\ Locked(u)
  /\ Failed(u, "locked")
  /\ UNCHANGED <<user, session, request, sent, left, spent, tangled>>

(* login: who knows his password needs no link for a new one.              *)
Login(r) ==
  LET q == request[r] IN
  /\ q.op = "login" /\ Free(q.user)
  /\ Commits(r, Cleared(user[q.user], q.seen))
  /\ session' = Append(session, Fresh(q.user, q.seen.pw))
  /\ UNCHANGED <<attempt, sent, left, spent>>

WrongPassword(r) ==
  LET q == request[r] IN
  /\ q.op = "wrong" /\ Free(q.user)
  /\ Failed(q.user, "wrong")
  /\ request' = [request EXCEPT ![r] = Idle]
  /\ UNCHANGED <<user, session, sent, left, spent, tangled>>

(* The oldest attempt leaves the window.                                   *)
Forget(u) ==
  /\ attempt[u] # <<>>
  /\ attempt' = [attempt EXCEPT ![u] = Tail(@)]
  /\ UNCHANGED <<user, session, request, sent, left, spent, tangled>>

(* update_me: a new password for the one who knows the current one; his    *)
(* other sessions end.                                                     *)
PasswordRead(r, s) == Alive(s) /\ Opens(r, "password", session[s].user, s, "enable")

Password(r) ==
  LET q == request[r]  new == user[q.user].pw + 1 IN
  /\ q.op = "password" /\ Free(q.user)
  /\ Commits(r, [Cleared(user[q.user], q.seen) EXCEPT !.pw = new])
  /\ session' = [Revoked(q.user, q.by) EXCEPT ![q.by].pw = new]
  /\ UNCHANGED <<attempt, sent, left, spent>>

Logout(s) ==
  /\ session[s].alive
  /\ session' = [session EXCEPT ![s].alive = FALSE]
  /\ UNCHANGED <<user, attempt, request, sent, left, spent, tangled>>

-----------------------------------------------------------------------------
(* Links.                                                                  *)

\* The next link of a kind.
Number(k) == sent[k] + 1
Sends(k) == sent[k] < MaxLinks[k] /\ sent' = [sent EXCEPT ![k] = @ + 1]
Spends(k, n) == spent' = [spent EXCEPT ![k][n] = @ + 1]

(* create_user: an administrator invites a person.                         *)
Create(s, u, role) ==
  /\ Rules(s) /\ user[u].role = "none"
  /\ Sends("invite")
  /\ user' = [user EXCEPT ![u] = [Nobody EXCEPT !.role = role, !.invite = Number("invite")]]
  /\ UNCHANGED <<session, attempt, request, left, spent, tangled>>

(* resend_invite: the earlier invitation and a link stop working.          *)
ResendRead(r, s, u) == Rules(s) /\ ~user[u].accepted /\ Opens(r, "resend", u, s, "enable")

Resend(r) ==
  LET q == request[r] IN
  /\ q.op = "resend" /\ Free(q.user) /\ Sends("invite")
  /\ Commits(r, [Cleared(user[q.user], q.seen) EXCEPT !.invite = Number("invite")])
  /\ UNCHANGED <<session, attempt, left, spent>>

(* accept_invite                                                           *)
AcceptRead(r, u) ==
  user[u].invite # 0 /\ user[u].active /\ Opens(r, "accept", u, 0, "enable")

Accept(r) ==
  LET q == request[r]  new == user[q.user].pw + 1 IN
  /\ q.op = "accept" /\ Free(q.user)
  /\ Commits(r, [user[q.user] EXCEPT !.pw = new, !.accepted = TRUE, !.invite = 0])
  /\ session' = Append(session, Fresh(q.user, new))
  /\ Spends("invite", q.seen.invite)
  /\ UNCHANGED <<attempt, sent, left>>

\* check_can_issue: not for oneself, and the person has accepted the invitation.
Issuable(s, u) == user[u].active /\ session[s].user # u /\ user[u].accepted

(* issue_password_reset: a link for a new password, in place of an earlier one. *)
IssueRead(r, s, u) == Rules(s) /\ Issuable(s, u) /\ Opens(r, "issue", u, s, "enable")

Issue(r) ==
  LET q == request[r] IN
  /\ q.op = "issue" /\ Free(q.user) /\ Sends("reset")
  /\ Commits(r, [user[q.user] EXCEPT !.reset = Number("reset")])
  /\ UNCHANGED <<session, attempt, left, spent>>

(* complete_password_reset: the row is locked, so of two tabs the second   *)
(* finds no link; all sessions end and wrong passwords are forgotten.      *)
ResetRead(r, u) ==
  /\ user[u].reset # 0 /\ user[u].active /\ Free(u)
  /\ Opens(r, "reset", u, 0, "enable")

Reset(r) ==
  LET q == request[r]  new == user[q.user].pw + 1 IN
  /\ q.op = "reset"
  /\ Commits(r, [user[q.user] EXCEPT !.pw = new, !.reset = 0])
  /\ session' = Append(Revoked(q.user, 0), Fresh(q.user, new))
  /\ attempt' = [attempt EXCEPT ![q.user] = <<>>]
  /\ Spends("reset", q.seen.reset)
  /\ UNCHANGED <<sent, left>>

-----------------------------------------------------------------------------
(* Administrators.                                                         *)

\* update_user: nobody switches himself off or takes his own role away.
ChangeOk(s, u, change) == session[s].user # u

EditRead(r, s, u, change) ==
  /\ Rules(s) /\ ChangeOk(s, u, change)
  /\ Opens(r, "edit", u, s, change)

\* Only what differs from what was read is written.
Edited(row, seen, change) ==
  CASE change = "disable" /\ seen.active            -> [row EXCEPT !.active = FALSE]
    [] change = "enable" /\ ~seen.active            -> [row EXCEPT !.active = TRUE]
    [] change = "demote" /\ seen.role = "admin"     -> [row EXCEPT !.role = "manager"]
    [] change = "promote" /\ seen.role = "manager"  -> [row EXCEPT !.role = "admin"]
    [] OTHER -> row

\* Mutant: who is switched off keeps the sessions.
DisablesNever(q) == FALSE
\* Who is switched off loses sessions and link.
Disables(q) == q.change = "disable" /\ q.seen.active

Edit(r) ==
  LET q == request[r]  row == Edited(user[q.user], q.seen, q.change) IN
  /\ q.op = "edit" /\ Free(q.user)
  /\ Commits(r, IF Disables(q) THEN Cleared(row, q.seen) ELSE row)
  /\ session' = IF Disables(q) THEN Revoked(q.user, 0) ELSE session
  /\ UNCHANGED <<attempt, sent, left, spent>>

-----------------------------------------------------------------------------
(* Live updates.                                                           *)

Connect(s) ==
  /\ Alive(s) /\ ~session[s].socket
  /\ session' = [session EXCEPT ![s].socket = TRUE]
  /\ UNCHANGED <<user, attempt, request, sent, left, spent, tangled>>

\* Mutant: only a session that was revoked closes its socket.
Ended(s) == ~session[s].alive
\* _session_alive, asked at every ping and every 30 seconds.
Dead(s) == ~Alive(s)

Revalidate(s) ==
  /\ session[s].socket /\ Dead(s)
  /\ session' = [session EXCEPT ![s].socket = FALSE]
  /\ UNCHANGED <<user, attempt, request, sent, left, spent, tangled>>

-----------------------------------------------------------------------------
Ask(r) ==
  \/ \E u \in User : LoginRead(r, u) \/ AcceptRead(r, u) \/ ResetRead(r, u)
  \/ \E s \in 1..Len(session) :
       \/ PasswordRead(r, s)
       \/ \E u \in User :
            \/ ResendRead(r, s, u)
            \/ IssueRead(r, s, u)
            \/ \E change \in Change : EditRead(r, s, u, change)

Answer(r) ==
  Login(r) \/ WrongPassword(r) \/ Accept(r) \/ Reset(r) \/ Password(r) \/ Edit(r)
  \/ Resend(r) \/ Issue(r)

Next ==
  \/ \E r \in Request : Ask(r) \/ Answer(r)
  \/ \E u \in User : TurnedAway(u) \/ Forget(u)
  \/ \E s \in 1..Len(session) : Logout(s) \/ Connect(s) \/ Revalidate(s)
  \/ \E s \in 1..Len(session), u \in User, role \in Role : Create(s, u, role)

Spec == Init /\ [][Next]_vars

(* A socket waits for a message 30 seconds at most.                        *)
FairSpec == Spec /\ \A s \in 1..MaxRequests : WF_vars(s <= Len(session) /\ Revalidate(s))

-----------------------------------------------------------------------------
(* Properties.                                                             *)

TypeOK ==
  /\ user \in [User -> Row]
  /\ session \in Seq([user : User, alive : BOOLEAN, pw : Nat, socket : BOOLEAN])
  /\ Len(session) <= MaxRequests
  /\ attempt \in [User -> Seq({"wrong", "locked"})]
  /\ request \in [Request -> [op : Op, user : User, by : 0..MaxRequests, change : Change,
                              seen : Row]]
  /\ sent \in [Kind -> Nat]
  /\ left \in 0..MaxRequests
  /\ \A k \in Kind : sent[k] <= MaxLinks[k] /\ spent[k] \in [1..MaxLinks[k] -> Nat]
  /\ tangled \subseteq Op \X User
  /\ \A u \in User : user[u].invite <= sent["invite"] /\ user[u].reset <= sent["reset"]

(* A link for a new password works once, however many tabs it is opened    *)
(* in, and an invitation works once, unless an acceptance was overtaken by *)
(* another write of its row: accept_invite reads the row without a lock.   *)
LinksWorkOnce ==
  \A k \in Kind : \A n \in 1..MaxLinks[k] :
    spent[k][n] <= 1 \/ (k = "invite" /\ \E u \in User : <<"accept", u>> \in tangled)

(* Nobody has two ways to set a password at the same time: an invitation   *)
(* is for who has never entered, a link for who has.  The exception is a   *)
(* person whose invitation was sent again while he accepted the first one: *)
(* resend_invite writes the new one into the row it has not read again.    *)
OneWayIn ==
  \A u \in User : user[u].invite = 0 \/ user[u].reset = 0 \/ <<"resend", u>> \in tangled

\* The owner of session s may work and it was begun with his present password.
Current(s) == LET row == user[session[s].user] IN row.active /\ session[s].pw = row.pw

(* A session lives only while its owner may work, and only if it was       *)
(* opened, or renewed, with the present password, whatever requests change *)
(* passwords, roles and rows at the same time: with the one exception of a *)
(* person who entered, or was invited again, by a request that another one *)
(* overtook.  (What that exception is, SessionsEnd shows.)                 *)
SessionsAreCurrent ==
  \A s \in 1..Len(session) : session[s].alive =>
    Current(s) \/ \E op \in {"login", "accept", "resend"} : <<op, session[s].user>> \in tangled

(* As the data model has it (docs/02-data-model.md): with a new password,  *)
(* and when somebody is switched off, every session of his ends.  A login  *)
(* that has checked the old password and commits after that opens one.     *)
SessionsEnd == \A s \in 1..Len(session) : session[s].alive => Current(s)

(* There always is an administrator who can log in, unless an edit was     *)
(* written for an administrator who by then ruled no more: update_user     *)
(* forbids an administrator to touch himself, and two can switch off each  *)
(* other at the same time.                                                 *)
SomebodyRules ==
  \/ \E u \in User : user[u].role = "admin" /\ user[u].active /\ user[u].pw > 0
  \/ \E u \in User : <<"edit", u>> \in tangled

(* In the window of the lockout no more wrong passwords are tried than     *)
(* allowed, but for those tried at the very same time.                     *)
LockoutHolds ==
  \A u \in User :
    Cardinality({i \in 1..Len(attempt[u]) : attempt[u][i] = "wrong"})
      < MaxAttempts + Cardinality(Request)

(* A browser does not listen for ever with a session that is no more valid *)
(* (a socket that is an orphan: api/v1/ws.py closes it).                   *)
Orphan(s) == s \in 1..Len(session) /\ session[s].socket /\ ~Alive(s)
SocketsEnd == \A s \in 1..MaxRequests : Orphan(s) ~> ~Orphan(s)

(* The ways in are as the links, the roles and the lockout say             *)
(* (accept_invite, complete_password_reset, update_user, login), whoever   *)
(* uses them at the same time, but for the overtaken acceptances, repeated *)
(* invitations and edits that the parts name.                              *)
WaysInHold == TypeOK /\ LinksWorkOnce /\ OneWayIn /\ LockoutHolds /\ SomebodyRules

=============================================================================

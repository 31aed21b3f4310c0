-------------------------------- MODULE Login --------------------------------
(***************************************************************************)
(* Signing one Telegram account in and out, in the gateway process that    *)
(* holds it: by a code, by a QR picture, with the cloud password as the    *)
(* second step, re-connecting an account that already works, reconnecting  *)
(* from the saved session, reporting a dead session, and deleting the      *)
(* account.                                                                *)
(*                                                                         *)
(* Every command of the bus is a task of its own (command_bus._serve_once) *)
(* and the scan of a QR picture is waited for by one more task, so all of  *)
(* them interleave at each await.  A client object is a number; its key is *)
(* the session (authorisation key) it speaks with, and a client built      *)
(* without a saved session makes a session of its own.                     *)
(***************************************************************************)
EXTENDS Integers, FiniteSets

CONSTANTS
  Task,          \* command handlers that run at once
  MaxClients,    \* bound: client objects built
  MaxCommands,   \* bound: commands and sends
  MaxTroubles    \* bound: restarts, revocations by the owner, failed log outs

ASSUME LoginBounds ==
  /\ Task \cap (0..MaxClients) = {}
  /\ MaxClients \in Nat \ {0}
  /\ MaxCommands \in Nat
  /\ MaxTroubles \in Nat

VARIABLES
  account,  \* the row of the account in the database
  client,   \* client objects of the process: connected or not, and the session
  pass,     \* what Telegram knows of each session
  working,  \* _clients: the client the account works through, 0 if none
  login,    \* _logins: the client a code was asked with
  qr,       \* _qr: the client of the QR attempt
  attempt,  \* where the QR attempt of a client stands, and whose it must be
  worker,   \* tasks: command handlers, and one waiting for each QR picture
  lock,     \* who holds the row of the account
  alarms,   \* notifications since the account last left the state "error"
  commands, troubles,
  story     \* history: what went out of turn

loginVars == <<account, client, pass, working, login, qr, attempt, worker, lock,
               alarms, commands, troubles, story>>
memory == <<client, pass, working, login, qr, attempt>>

Client == 1..MaxClients
Person == {"own", "other"}
Status == {"pending", "connected", "error", "disconnected"}
LoginOp == {"send_code", "confirm", "qr_start", "qr_password", "logout", "disconnect", "use"}
Worker == Task \cup Client

AccountRow == [status : Status, session : 0..MaxClients, user : Person \cup {"none"}, gone : BOOLEAN]
NoRow == [status |-> "pending", session |-> 0, user |-> "none", gone |-> FALSE]
NoWork == [op |-> "none", at |-> "idle", client |-> 0, seen |-> NoRow, who |-> "none"]
NoAttempt == [state |-> "none", wanted |-> "none"]

LoginTypeOK ==
  /\ account \in AccountRow
  /\ client \in [Client -> [open : BOOLEAN, key : 0..MaxClients]]
  /\ pass \in [Client -> Person \cup {"none", "revoked"}]
  /\ {working, login, qr} \subseteq 0..MaxClients
  /\ attempt \in [Client -> [state : {"none", "waiting", "password", "done", "error"},
                             wanted : Person \cup {"none"}]]
  /\ worker \in [Worker -> [op : LoginOp \cup {"none", "scan"},
                            at : {"idle", "go", "asked", "signing", "me", "swap", "load", "save",
                                  "reply", "connect", "wait", "write", "delete", "report", "tell"},
                            client : 0..MaxClients, seen : AccountRow, who : Person \cup {"none"}]]
  /\ lock \in Worker \cup {0}
  /\ \A w \in Worker : worker[w].at = "tell" => lock = w
  /\ alarms \in Nat
  /\ commands \in 0..MaxCommands /\ troubles \in 0..MaxTroubles
  /\ story \subseteq {"tangled", "crash", "network", "late", "stray"}

(* A new account, or one that works.                                       *)
LoginInit ==
  /\ \/ /\ account = NoRow
        /\ client = [c \in Client |-> [open |-> FALSE, key |-> 0]]
        /\ pass = [k \in Client |-> "none"]
        /\ working = 0
     \/ /\ account = [status |-> "connected", session |-> 1, user |-> "own", gone |-> FALSE]
        /\ client = [c \in Client |-> [open |-> c = 1, key |-> IF c = 1 THEN 1 ELSE 0]]
        /\ pass = [k \in Client |-> IF k = 1 THEN "own" ELSE "none"]
        /\ working = 1
  /\ login = 0 /\ qr = 0
  /\ attempt = [c \in Client |-> NoAttempt]
  /\ worker = [w \in Worker |-> NoWork]
  /\ lock = 0 /\ alarms = 0
  /\ commands = MaxCommands /\ troubles = MaxTroubles
  /\ story = {}

Open(c) == c # 0 /\ client[c].open
Alive(k) == k # 0 /\ pass[k] \in Person
Built(c) == client[c].key # 0
\* The client that would be built next.
NextFree(c) == ~Built(c) /\ \A d \in 1..(c - 1) : Built(d)
\* A client that is built to speak with session k.
WithClient(c, k) == [client EXCEPT ![c] = [open |-> TRUE, key |-> k]]
\* The clients of C are disconnected.
Closed(C) == [c \in Client |-> IF c \in C THEN [client[c] EXCEPT !.open = FALSE] ELSE client[c]]

AwaitsScan(w) == w \in Client /\ worker[w].at = "wait"
Occupied(w) == worker[w] # NoWork /\ ~AwaitsScan(w)
AllDone == \A w \in Worker : ~Occupied(w)
\* A QR attempt a person can still complete.
Pending(c) == attempt[c].state \in {"waiting", "password"} /\ Open(c)
\* A command that leaves no QR attempt behind, or goes on with it.
MindsQr(op) == op \in {"qr_start", "qr_password", "logout", "disconnect", "use"}

To(w, at) == worker' = [worker EXCEPT ![w].at = at]
Ends(w) == worker' = [worker EXCEPT ![w] = NoWork]
\* The row changes and rings notifications are written in the same transaction.
RowIs(r, rings) ==
  /\ account' = r
  /\ alarms' = IF r.status = "error" THEN alarms + rings ELSE 0
\* An UPDATE waits for who holds the row.
RowFree == lock = 0

-----------------------------------------------------------------------------
(* Commands.                                                               *)

\* _account, for every command: the row is read once, when the task begins.
Command(t, op) ==
  /\ worker[t] = NoWork /\ commands > 0 /\ ~account.gone
  /\ op = "use" => account.session # 0
  /\ worker' = [worker EXCEPT ![t] = [NoWork EXCEPT !.op = op, !.at = "go", !.seen = account]]
  /\ commands' = commands - 1
  /\ story' = IF AllDone /\ (MindsQr(op) \/ \A c \in Client : ~Pending(c))
              THEN story ELSE story \cup {"tangled"}
  /\ UNCHANGED <<account, memory, lock, alarms, troubles>>

Does(t, op, at) == t \in Task /\ worker[t].op = op /\ worker[t].at = at
\* The handler raises: nothing it knows of is changed.
Raises(w) == Ends(w) /\ UNCHANGED <<account, memory, lock, alarms, commands, troubles, story>>

(* send_code: a code asked again goes through the client it was asked      *)
(* with; the answer is awaited.                                            *)
SendCode(t) ==
  /\ Does(t, "send_code", "go")
  /\ \/ /\ Open(login)
        /\ worker' = [worker EXCEPT ![t].at = "asked", ![t].client = login]
        /\ UNCHANGED <<client, login>>
     \/ /\ ~Open(login)
        /\ login' = 0
        /\ \E c \in Client :
             /\ NextFree(c)
             /\ client' = WithClient(c, c)
             /\ worker' = [worker EXCEPT ![t].at = "asked", ![t].client = c]
  /\ UNCHANGED <<account, pass, working, qr, attempt, lock, alarms, commands, troubles, story>>

CodeSent(t) ==
  /\ Does(t, "send_code", "asked")
  /\ login' = worker[t].client
  /\ Ends(t)
  /\ UNCHANGED <<account, client, pass, working, qr, attempt, lock, alarms, commands, troubles, story>>

\* Too many requests, a banned or unknown number, refused keys.
CodeRefused(t) ==
  /\ Does(t, "send_code", "asked")
  /\ client' = Closed({worker[t].client})
  /\ login' = 0
  /\ Ends(t)
  /\ UNCHANGED <<account, pass, working, qr, attempt, lock, alarms, commands, troubles, story>>

(* No way is left to deliver a code: the connection stays as it is, and    *)
(* one that was just made is remembered nowhere.                           *)
CodeUnavailable(t) ==
  /\ Does(t, "send_code", "asked")
  /\ story' = IF worker[t].client = login THEN story ELSE story \cup {"stray"}
  /\ Ends(t)
  /\ UNCHANGED <<account, memory, lock, alarms, commands, troubles>>

(* confirm_code up to the answer to sign_in: who is at the phone.          *)
Confirm(t) ==
  /\ Does(t, "confirm", "go")
  /\ \/ ~Open(login) /\ Raises(t)
     \/ /\ Open(login)
        /\ worker' = [worker EXCEPT ![t].at = "signing", ![t].client = login]
        /\ UNCHANGED <<account, memory, lock, alarms, commands, troubles, story>>

(* qr_password up to the answer to sign_in.                                *)
QrPassword(t) ==
  /\ Does(t, "qr_password", "go")
  /\ \/ ~Open(qr) /\ Raises(t)
     \/ /\ Open(qr)
        /\ worker' = [worker EXCEPT ![t].at = "signing", ![t].client = qr]
        /\ UNCHANGED <<account, memory, lock, alarms, commands, troubles, story>>

\* Telegram lets person p in; a password is taken only after a scan.
SignIn(t, p) ==
  /\ t \in Task /\ worker[t].at = "signing"
  /\ LET c == worker[t].client IN
     /\ client[c].open
     /\ worker[t].op = "qr_password" => attempt[c].state = "password"
     /\ pass[c] = "none"
     /\ pass' = [pass EXCEPT ![c] = p]
  /\ To(t, "me")
  /\ UNCHANGED <<account, client, working, login, qr, attempt, lock, alarms, commands, troubles, story>>

\* A wrong or expired code, a password that is asked for, a lost connection.
SignInFails(t) == t \in Task /\ worker[t].at = "signing" /\ Raises(t)

-----------------------------------------------------------------------------
(* The QR picture.                                                         *)

\* _qr_drop: the clients it disconnects, and the task it cancels.
Forsaken == IF qr # 0 /\ attempt[qr].state # "done" THEN {qr} ELSE {}
Cancelled(w) == w = qr

(* qr_start: the last attempt is dropped first.                            *)
QrStart(t) ==
  /\ Does(t, "qr_start", "go")
  /\ client' = Closed(Forsaken)
  /\ qr' = 0
  /\ worker' = [w \in Worker |-> IF w = t THEN [worker[t] EXCEPT !.at = "connect"]
                                 ELSE IF Cancelled(w) THEN NoWork ELSE worker[w]]
  /\ UNCHANGED <<account, pass, working, login, attempt, lock, alarms, commands, troubles, story>>

QrShown(t) ==
  /\ Does(t, "qr_start", "connect")
  /\ \E c \in Client :
       /\ NextFree(c)
       /\ client' = WithClient(c, c)
       /\ qr' = c
       /\ attempt' = [attempt EXCEPT ![c] = [state |-> "waiting", wanted |-> worker[t].seen.user]]
       /\ worker' = [worker EXCEPT ![t] = NoWork,
                                   ![c] = [NoWork EXCEPT !.op = "scan", !.at = "wait", !.client = c]]
  /\ UNCHANGED <<account, pass, working, login, lock, alarms, commands, troubles, story>>

QrFails(t) == Does(t, "qr_start", "connect") /\ Raises(t)

(* _qr_wait: person p holds his phone to the picture.                      *)
Scan(c, p) ==
  /\ worker[c].at = "wait" /\ client[c].open
  /\ story' = IF \E w \in Worker : Occupied(w) THEN story \cup {"tangled"} ELSE story
  /\ \/ pass' = [pass EXCEPT ![c] = p] /\ To(c, "me") /\ UNCHANGED attempt
     \/ attempt' = [attempt EXCEPT ![c].state = "password"] /\ Ends(c) /\ UNCHANGED pass
  /\ UNCHANGED <<account, client, working, login, qr, lock, alarms, commands, troubles>>

QrTimesOut(c) ==
  /\ worker[c].at = "wait"
  /\ attempt' = [attempt EXCEPT ![c].state = "error"]
  /\ client' = Closed({c})
  /\ Ends(c)
  /\ UNCHANGED <<account, pass, working, login, qr, lock, alarms, commands, troubles, story>>

-----------------------------------------------------------------------------
(* The end of every way in: the client becomes the one the account works   *)
(* through.                                                                *)

\* _ensure_same_user
SameUser(w) ==
  LET c == worker[w].client
      wanted == IF worker[w].op = "confirm" THEN worker[w].seen.user ELSE attempt[c].wanted
  IN wanted \in {"none", pass[c]}

\* Mutant: the old client is left connected.
NoneOld(c) == {}
\* The client that worked before c.
OldClient(c) == IF Open(working) /\ working # c THEN {working} ELSE {}

\* A code is used up, whoever entered it.
CodeUsed(w) == login' = IF worker[w].op = "confirm" THEN 0 ELSE login
AtMe(w) == worker[w].at = "me"

(* get_me cannot be asked: the connection was closed or the session        *)
(* revoked in the meantime.                                                *)
MeFails(w) ==
  /\ AtMe(w)
  /\ LET c == worker[w].client IN
     /\ ~client[c].open \/ ~Alive(c)
     /\ attempt' = IF w = c THEN [attempt EXCEPT ![c].state = "error"] ELSE attempt
     /\ client' = IF w = c THEN Closed({c}) ELSE client
  /\ Ends(w)
  /\ UNCHANGED <<account, pass, working, login, qr, lock, alarms, commands, troubles, story>>

\* Mutant: a stranger is turned away, his session stays.
StaysSigned(c) == pass
\* The session of client c is revoked in Telegram.
Revoked(c) == [pass EXCEPT ![client[c].key] = "revoked"]

(* Another person has signed in: the new session is revoked on the spot.   *)
Stranger(w) ==
  /\ AtMe(w) /\ ~SameUser(w)
  /\ LET c == worker[w].client IN
     /\ client[c].open /\ Alive(c)
     /\ client' = Closed({c})
     /\ attempt' = IF w = c THEN [attempt EXCEPT ![c].state = "error"] ELSE attempt
     /\ \/ pass' = Revoked(c) /\ UNCHANGED <<troubles, story>>
        \/ /\ troubles > 0 /\ troubles' = troubles - 1
           /\ story' = story \cup {"network"}
           /\ UNCHANGED pass
  /\ CodeUsed(w)
  /\ Ends(w)
  /\ UNCHANGED <<account, working, qr, lock, alarms, commands>>

\* What is left to do once the client works: the row is written.
AfterSwap(w) == IF worker[w].op = "confirm" THEN "save" ELSE "load"
\* The client of w works from now on.
GoesToWork(w, who) ==
  /\ working' = worker[w].client
  /\ attempt' = IF worker[w].op = "confirm" THEN attempt
                ELSE [attempt EXCEPT ![worker[w].client].state = "done"]
  /\ worker' = [worker EXCEPT ![w].at = AfterSwap(w), ![w].who = who]

(* The right person: the client that worked before is disconnected, which  *)
(* is awaited.                                                             *)
Welcome(w) ==
  /\ AtMe(w) /\ SameUser(w)
  /\ LET c == worker[w].client IN
     /\ client[c].open /\ Alive(c)
     /\ client' = Closed(OldClient(c))
     /\ IF OldClient(c) = {} THEN GoesToWork(w, pass[c])
        ELSE /\ worker' = [worker EXCEPT ![w].at = "swap", ![w].who = pass[c]]
             /\ UNCHANGED <<working, attempt>>
  /\ CodeUsed(w)
  /\ UNCHANGED <<account, pass, qr, lock, alarms, commands, troubles, story>>

Swap(w) ==
  /\ worker[w].at = "swap"
  /\ GoesToWork(w, worker[w].who)
  /\ UNCHANGED <<account, client, pass, login, qr, lock, alarms, commands, troubles, story>>

-----------------------------------------------------------------------------
(* The row of the account.                                                 *)

\* The ORM writes the columns that differ from what was read.
WrittenOver(seen, new) == [f \in DOMAIN account |-> IF new[f] = seen[f] THEN account[f] ELSE new[f]]

(* write_qr_session reads the row again; a deleted account takes nothing.  *)
Load(w) ==
  /\ worker[w].at = "load"
  /\ IF account.gone THEN Ends(w)
     ELSE worker' = [worker EXCEPT ![w].at = "save", ![w].seen = account]
  /\ UNCHANGED <<account, memory, lock, alarms, commands, troubles, story>>

\* What a way in writes.
Saves(w) == [worker[w].seen EXCEPT !.status = "connected", !.user = worker[w].who,
                                   !.session = client[worker[w].client].key]

Save(w) ==
  /\ worker[w].at = "save" /\ RowFree
  /\ RowIs(WrittenOver(worker[w].seen, Saves(w)), 0)
  /\ IF worker[w].op = "confirm" THEN To(w, "reply") ELSE Ends(w)
  /\ UNCHANGED <<memory, lock, commands, troubles, story>>

(* account_service.confirm_code: the answer reaches the API, which writes  *)
(* the same once more, or has given up waiting.                            *)
Reply(w) ==
  /\ worker[w].at = "reply" /\ RowFree
  /\ \/ RowIs([account EXCEPT !.status = "connected", !.user = worker[w].who], 0) /\ UNCHANGED story
     \/ story' = story \cup {"late"} /\ UNCHANGED <<account, alarms>>
  /\ Ends(w)
  /\ UNCHANGED <<memory, lock, commands, troubles>>

-----------------------------------------------------------------------------
(* Working through the account: a send, or the start of its session.       *)

\* Nobody else is connecting the account (the lock of _connected).
NoneConnects == \A t \in Task : ~(worker[t].op = "use" /\ worker[t].at = "connect")

UseWorking(t) ==
  /\ Does(t, "use", "go") /\ Open(working)
  /\ IF Alive(client[working].key) THEN Ends(t) ELSE To(t, "report")
  /\ UNCHANGED <<account, memory, lock, alarms, commands, troubles, story>>

\* _connected: the saved session is opened, as it was read.
UseSaved(t) ==
  /\ Does(t, "use", "go") /\ ~Open(working) /\ NoneConnects
  /\ \E c \in Client :
       /\ NextFree(c)
       /\ client' = WithClient(c, worker[t].seen.session)
       /\ worker' = [worker EXCEPT ![t].at = "connect", ![t].client = c]
  /\ UNCHANGED <<account, pass, working, login, qr, attempt, lock, alarms, commands, troubles, story>>

UseOpened(t) ==
  /\ Does(t, "use", "connect")
  /\ LET c == worker[t].client IN
     IF Alive(client[c].key)
     THEN working' = c /\ Ends(t) /\ UNCHANGED client
     ELSE client' = Closed({c}) /\ To(t, "report") /\ UNCHANGED working
  /\ UNCHANGED <<account, pass, login, qr, attempt, lock, alarms, commands, troubles, story>>

\* write_status reads the row under its lock.
CanLock(t) == lock = 0
Report(t) ==
  /\ Does(t, "use", "report") /\ CanLock(t)
  /\ IF account.gone THEN Ends(t) /\ UNCHANGED lock
     ELSE /\ lock' = t
          /\ worker' = [worker EXCEPT ![t].at = "tell", ![t].seen = account]
  /\ UNCHANGED <<account, memory, alarms, commands, troubles, story>>

\* entered_error: one notification for each time the link is lost.
Tell(t) ==
  /\ Does(t, "use", "tell")
  /\ RowIs([account EXCEPT !.status = "error"], IF worker[t].seen.status # "error" THEN 1 ELSE 0)
  /\ lock' = 0
  /\ Ends(t)
  /\ UNCHANGED <<memory, commands, troubles, story>>

-----------------------------------------------------------------------------
(* Signing out, and what happens to the process.                           *)

\* provider.stop disconnects these.
Stops == ({working, login} \ {0}) \cup Forsaken

(* provider.stop, for disconnect and, after LogOut, for logout.            *)
Stop(t) ==
  /\ t \in Task /\ worker[t].op \in {"disconnect", "logout"} /\ worker[t].at = "go"
  /\ client' = Closed(Stops)
  /\ pass' = IF worker[t].op = "logout" /\ Open(working) THEN Revoked(working) ELSE pass
  /\ working' = 0 /\ login' = 0 /\ qr' = 0
  /\ worker' = [w \in Worker |->
       IF w = t THEN IF worker[t].op = "logout" THEN [worker[t] EXCEPT !.at = "write"] ELSE NoWork
       ELSE IF Cancelled(w) THEN NoWork ELSE worker[w]]
  /\ UNCHANGED <<account, attempt, lock, alarms, commands, troubles, story>>

LoggedOut(t) ==
  /\ Does(t, "logout", "write") /\ RowFree
  /\ RowIs(WrittenOver(worker[t].seen, [worker[t].seen EXCEPT !.session = 0, !.status = "pending"]), 0)
  /\ To(t, "delete")
  /\ UNCHANGED <<memory, lock, commands, troubles, story>>

(* delete_account: with the answer to logout, or without it (the gateway   *)
(* does not answer in time; what it still does goes on).                   *)
Delete(t) ==
  /\ ~account.gone /\ RowFree
  /\ RowIs([account EXCEPT !.gone = TRUE, !.status = "disconnected"], 0)
  /\ \/ Does(t, "logout", "delete") /\ Ends(t) /\ UNCHANGED story
     \/ worker[t] = NoWork /\ UNCHANGED worker /\ story' = story \cup {"late"}
  /\ UNCHANGED <<memory, lock, commands, troubles>>

(* The gateway dies and starts again.                                      *)
Crash ==
  /\ troubles > 0 /\ troubles' = troubles - 1
  /\ client' = Closed(Client)
  /\ working' = 0 /\ login' = 0 /\ qr' = 0
  /\ attempt' = [c \in Client |-> NoAttempt]
  /\ worker' = [w \in Worker |-> NoWork]
  /\ lock' = 0
  /\ story' = IF AllDone THEN story ELSE story \cup {"crash"}
  /\ UNCHANGED <<account, pass, alarms, commands>>

(* The owner ends a session from his phone.                                *)
OwnerRevokes(k) ==
  /\ troubles > 0 /\ troubles' = troubles - 1
  /\ Alive(k)
  /\ pass' = [pass EXCEPT ![k] = "revoked"]
  /\ UNCHANGED <<account, client, working, login, qr, attempt, worker, lock, alarms, commands, story>>

LoginNext ==
  \/ \E t \in Task :
       \/ \E op \in LoginOp : Command(t, op)
       \/ SendCode(t) \/ CodeSent(t) \/ CodeRefused(t) \/ CodeUnavailable(t)
       \/ Confirm(t) \/ QrPassword(t) \/ SignInFails(t)
       \/ \E p \in Person : SignIn(t, p)
       \/ QrStart(t) \/ QrShown(t) \/ QrFails(t)
       \/ UseWorking(t) \/ UseSaved(t) \/ UseOpened(t) \/ Report(t) \/ Tell(t)
       \/ Stop(t) \/ LoggedOut(t) \/ Delete(t)
  \/ \E c \in Client : QrTimesOut(c) \/ OwnerRevokes(c) \/ \E p \in Person : Scan(c, p)
  \/ \E w \in Worker :
       \/ MeFails(w) \/ Stranger(w) \/ Welcome(w) \/ Swap(w)
       \/ Load(w) \/ Save(w) \/ Reply(w)
  \/ Crash

LoginSpec == LoginInit /\ [][LoginNext]_loginVars

-----------------------------------------------------------------------------
(* Properties.                                                             *)

\* Whatever was signed in has been so in turn.
InTurn == AllDone /\ story = {}

(* Signing in again never leaves two sessions of the account at work: the  *)
(* client that worked before is disconnected (mtproto_provider.py:585-592).*)
OneWorkingClient ==
  InTurn => Cardinality({c \in Client : client[c].open /\ Alive(client[c].key)}) <= 1

(* What the account works through is what a restart would open: the saved  *)
(* session is the session of the working client.                           *)
SavedIsWorking ==
  InTurn /\ account.status = "connected" /\ Open(working) => client[working].key = account.session

(* Nobody else's session is left signed in: _ensure_same_user revokes it   *)
(* ("a stranger's session must not hang", mtproto_provider.py:604-611).    *)
NoStrangerStays == InTurn => \A k \in Client : Alive(k) => pass[k] = account.user

(* Losing the link is told exactly once for every time it is lost, however *)
(* many tasks notice it at once (handlers.write_status, D-37).             *)
ToldOncePerLoss == alarms = IF account.status = "error" THEN 1 ELSE 0

(* A deleted account holds no connection: not the one it worked through,   *)
(* not one a code or a QR picture was asked with.                          *)
GoneIsSilent == InTurn /\ account.gone => \A c \in Client : ~client[c].open

(* One session works, it is the saved one, its loss is told once, and a    *)
(* deleted account has none (confirm_code, _qr_finish, write_status,       *)
(* stop).                                                                  *)
OneSessionAtWork ==
  LoginTypeOK /\ OneWorkingClient /\ SavedIsWorking /\ ToldOncePerLoss /\ GoneIsSilent

(* "Signing in again is signing in to THE SAME Telegram account":          *)
(* mtproto_provider.py:604.  Not so when a QR picture was asked before the *)
(* first sign in by code.                                                  *)
StaysTheSame == [][account.user # "none" => account.user' = account.user]_loginVars

(* "Otherwise the owner goes on seeing a session nobody closed":           *)
(* account_service.py:686-690.  Not so for the sessions that earlier sign  *)
(* ins have replaced: they are disconnected, never logged out.             *)
DeletedIsLoggedOut == InTurn /\ account.gone => \A k \in Client : ~Alive(k)
=============================================================================

----------------------------- MODULE LoginProofs -----------------------------
(***************************************************************************)
(* Theorems about signing in and out, for any number of handlers, clients, *)
(* commands and troubles.                                                  *)
(*                                                                         *)
(* The properties speak of an account that was signed in and out in turn   *)
(* and that nobody is working on; a handler at work breaks each of them on *)
(* its way.  The invariant therefore says, as long as everything has gone  *)
(* in turn, that there is one worker whose turn it is, and what is so for  *)
(* the place that worker has come to (TurnOf, Stage); what holds however   *)
(* handlers interleave is LoginRows.                                       *)
(***************************************************************************)
EXTENDS Login, FiniteSetTheorems, TLAPS

Doing == LoginOp \cup {"none", "scan"}
Place == {"idle", "go", "asked", "signing", "me", "swap", "load", "save",
          "reply", "connect", "wait", "write", "delete", "report", "tell"}
Who == Person \cup {"none"}
WorkerRow == [op : Doing, at : Place, client : 0..MaxClients, seen : AccountRow, who : Who]
ClientRow == [open : BOOLEAN, key : 0..MaxClients]
AttemptRow == [state : {"none", "waiting", "password", "done", "error"}, wanted : Who]

\* Who can be where, with what: however handlers interleave.
Handled(w, x) ==
  /\ x.at = "idle" => x = NoWork
  /\ x.at = "wait" => w \in Client /\ x.op = "scan" /\ x.client = w
  /\ x.at \notin {"idle", "wait", "me", "swap", "load", "save"} => w \in Task
  /\ x.at \in {"asked", "signing", "me", "swap", "load", "save"} => x.client \in Client
  /\ x.at = "go" => x.op \in LoginOp /\ x.client = 0 /\ (x.op = "use" => x.seen.session # 0)
  /\ x.at = "asked" => x.op = "send_code"
  /\ x.at = "signing" => x.op \in {"confirm", "qr_password"}
  /\ x.at \in {"me", "swap", "load", "save"} =>
       IF w \in Task THEN x.op \in {"confirm", "qr_password"} ELSE x.op = "scan"
  /\ x.at \in {"me", "swap", "load", "save"} /\ w \in Client => x.client = w
  /\ x.at \in {"swap", "load", "save", "reply"} => x.who \in Person
  /\ x.at = "load" => x.op # "confirm"
  /\ x.at = "reply" => x.op = "confirm"
  /\ x.at = "connect" => \/ x.op = "qr_start" /\ x.client = 0
                         \/ x.op = "use" /\ x.client \in Client
  /\ x.at \in {"write", "delete"} => x.op = "logout"
  /\ x.at \in {"report", "tell"} => x.op = "use"

\* A row that is locked stays what it was when it was read.
RowIsLocked ==
  lock # 0 => lock \in Task /\ worker[lock].at = "tell" /\ worker[lock].seen.status = account.status

ClientsAreBuilt == \A c \in Client : client[c].open \/ pass[c] \in Person => Built(c)

LoginRows ==
  /\ LoginTypeOK
  /\ \A w \in Worker : Handled(w, worker[w])
  /\ RowIsLocked /\ ClientsAreBuilt /\ ToldOncePerLoss

-----------------------------------------------------------------------------
Connected(c, k) == client[c].open /\ client[c].key = k
NoQr == \A c \in Client : ~Pending(c)

\* The picture of the account, and the client a code was asked with.
ScanIsAwaited ==
  \A c \in Client : worker[c].at = "wait" =>
    qr = c /\ Connected(c, c) /\ attempt[c].state = "waiting" /\ pass[c] = "none"
AttemptIsOurs ==
  \A c \in Client : Pending(c) => qr = c /\ client[c].key = c /\ attempt[c].wanted = account.user
QrWorks == Open(qr) /\ attempt[qr].state = "done" => qr = working
AskedForCode == login # 0 => client[login].key = login
\* What is remembered was built.
NamedAreBuilt ==
  /\ working # 0 => Built(working)
  /\ qr # 0 => client[qr].key = qr
  /\ \A c \in Client : attempt[c].state \in {"waiting", "password"} => Built(c)
  /\ \A k \in Client : pass[k] # "none" => Built(k)

\* Nobody but w is at work.
Rest(w) == \A v \in Worker \ {w} : worker[v].at \in {"idle", "wait"}
\* w has client c in hand, at one of these places.
Holds(w, c, places) == worker[w].at \in places /\ worker[w].client = c

\* What is connected, what Telegram knows, and what is saved: w explains the rest.
OpenForSomething(w) ==
  \A c \in Client : client[c].open =>
    c \in {working, login, qr} \/ Holds(w, c, {"asked", "swap", "connect"})
OneAlive(w) ==
  \A c \in Client : client[c].open /\ Alive(client[c].key) =>
    c = working \/ Holds(w, c, {"me", "swap", "connect"})
SavedIsKept(w) ==
  /\ account.session # 0 => pass[account.session] # "none"
  /\ Open(working) => client[working].key = account.session \/ worker[w].at \in {"load", "save"}
AllOurs(w) ==
  \A k \in Client : Alive(k) =>
    pass[k] = account.user \/ Holds(w, k, {"me", "swap", "load", "save"})
GoneAtRest(w) ==
  account.gone => worker[w].at \in {"idle", "wait"} /\ \A c \in Client : ~client[c].open

\* Who has entered, on the way to the row.
Entered(x) == pass[x.client] \in {x.who, "revoked"} /\ account.user \in {"none", x.who}

\* Where a handler stands that nobody interferes with.
Stage(x) ==
  LET c == x.client IN
  /\ x.at \in {"go", "write"} => x.seen = account
  /\ x.at = "go" /\ ~MindsQr(x.op) => NoQr
  /\ x.at = "asked" => Connected(c, c) /\ login \in {0, c} /\ NoQr
  /\ x.at \in {"signing", "me"} /\ x.op = "confirm" => login = c
  /\ x.at \in {"signing", "me", "swap", "save"} /\ x.op = "confirm" => x.seen = account /\ NoQr
  /\ x.at \in {"signing", "me", "swap"} => client[c].key = c /\ (x.op # "confirm" => qr = c)
  /\ x.at \in {"me", "swap"} => client[c].open
  /\ x.at = "me" /\ x.op # "confirm" => Pending(c)
  /\ x.at \in {"me", "swap"} /\ x.op = "qr_password" => attempt[c].state = "password"
  /\ x.at \in {"swap", "load", "save"} => Entered(x)
  /\ x.at = "swap" => ~Open(working)
  /\ x.at \in {"load", "save"} => working = c /\ client[c].key = c /\ NoQr
  /\ x.at = "save" => x.seen = account
  /\ x.at = "reply" => account.user = x.who
  /\ x.at = "connect" /\ x.op = "use" =>
       Connected(c, account.session) /\ x.seen = account /\ ~Open(working) /\ qr # c
  /\ x.at = "connect" /\ x.op = "qr_start" => qr = 0 /\ x.seen = account
  /\ x.at \in {"write", "delete"} => /\ \A d \in Client : ~client[d].open
                                     /\ working = 0 /\ login = 0 /\ qr = 0

TurnOf(w) ==
  /\ ScanIsAwaited /\ AttemptIsOurs /\ QrWorks /\ AskedForCode /\ NamedAreBuilt
  /\ Rest(w)
  /\ OpenForSomething(w) /\ OneAlive(w) /\ SavedIsKept(w) /\ AllOurs(w) /\ GoneAtRest(w)
  /\ Stage(worker[w])

LoginInv == LoginRows /\ (story = {} => \E w \in Worker : TurnOf(w))

-----------------------------------------------------------------------------
\* What a worker becomes, the others staying where they are.
MovesTo(w, o, a, c, s, p) ==
  /\ worker' \in [Worker -> WorkerRow]
  /\ worker'[w] = [op |-> o, at |-> a, client |-> c, seen |-> s, who |-> p]
  /\ worker'[w].op = o /\ worker'[w].at = a /\ worker'[w].client = c
  /\ worker'[w].seen = s /\ worker'[w].who = p
  /\ \A v \in Worker \ {w} : worker'[v] = worker[v]

LEMMA Numbers ==
  /\ MaxClients \in Nat /\ MaxClients # 0 /\ 0 \notin Client /\ 0 \notin Worker
  /\ Task \cap Client = {} /\ Client \subseteq 0..MaxClients /\ 0 \in 0..MaxClients
  /\ \A c \in 0..MaxClients : c # 0 => c \in Client
  /\ MaxCommands \in Nat /\ MaxTroubles \in Nat
BY LoginBounds DEF Client, Worker

LEMMA RowsOfLogin ==
  /\ \A x \in WorkerRow :
       /\ x.op \in Doing /\ x.at \in Place /\ x.client \in 0..MaxClients
       /\ x.seen \in AccountRow /\ x.who \in Who
       /\ x = [op |-> x.op, at |-> x.at, client |-> x.client, seen |-> x.seen, who |-> x.who]
  /\ \A o \in Doing, a \in Place, c \in 0..MaxClients, s \in AccountRow, p \in Who :
       [op |-> o, at |-> a, client |-> c, seen |-> s, who |-> p] \in WorkerRow
  /\ \A r \in AccountRow : r.status \in Status /\ r.session \in 0..MaxClients /\ r.user \in Who
                    /\ r.gone \in BOOLEAN
  /\ NoRow \in AccountRow
  /\ NoWork \in WorkerRow /\ NoWork.at = "idle"
  /\ NoWork = [op |-> "none", at |-> "idle", client |-> 0, seen |-> NoRow, who |-> "none"]
  /\ NoAttempt \in AttemptRow /\ NoAttempt.state = "none"
<1>1. NoRow \in AccountRow
  BY Numbers DEF NoRow, AccountRow, Status
<1>2. NoWork \in WorkerRow
  BY <1>1, Numbers DEF NoWork, WorkerRow, Doing, Place, Who
<1> QED BY <1>1, <1>2 DEF WorkerRow, AccountRow, Who, NoWork, NoAttempt, AttemptRow

LEMMA TypesOfLogin ==
  LoginTypeOK <=>
    /\ account \in AccountRow /\ client \in [Client -> ClientRow]
    /\ pass \in [Client -> Person \cup {"none", "revoked"}]
    /\ {working, login, qr} \subseteq 0..MaxClients
    /\ attempt \in [Client -> AttemptRow] /\ worker \in [Worker -> WorkerRow]
    /\ lock \in Worker \cup {0}
    /\ \A w \in Worker : worker[w].at = "tell" => lock = w
    /\ alarms \in Nat
    /\ commands \in 0..MaxCommands /\ troubles \in 0..MaxTroubles
    /\ story \subseteq {"tangled", "crash", "network", "late", "stray"}
BY DEF LoginTypeOK, ClientRow, AttemptRow, WorkerRow, Who, Doing, Place

LEMMA RowTurns ==
  ASSUME NEW x \in WorkerRow, NEW a, NEW c, NEW s, NEW p
  PROVE  /\ [x EXCEPT !.at = a, !.client = c]
              = [op |-> x.op, at |-> a, client |-> c, seen |-> x.seen, who |-> x.who]
         /\ [x EXCEPT !.at = a, !.seen = s]
              = [op |-> x.op, at |-> a, client |-> x.client, seen |-> s, who |-> x.who]
         /\ [x EXCEPT !.at = a, !.who = p]
              = [op |-> x.op, at |-> a, client |-> x.client, seen |-> x.seen, who |-> p]
<1> DEFINE y == [x EXCEPT !.at = a]
<1>1. y = [op |-> x.op, at |-> a, client |-> x.client, seen |-> x.seen, who |-> x.who]
  BY DEF WorkerRow
<1> HIDE DEF y
<1>2. [y EXCEPT !.client = c]
        = [op |-> x.op, at |-> a, client |-> c, seen |-> x.seen, who |-> x.who]
  BY <1>1
<1>3. [y EXCEPT !.seen = s]
        = [op |-> x.op, at |-> a, client |-> x.client, seen |-> s, who |-> x.who]
  BY <1>1
<1>4. [y EXCEPT !.who = p]
        = [op |-> x.op, at |-> a, client |-> x.client, seen |-> x.seen, who |-> p]
  BY <1>1
<1> QED BY <1>2, <1>3, <1>4 DEF y

LEMMA Moves ==
  ASSUME LoginRows, NEW w \in Worker
  PROVE  LET x == worker[w] IN
         /\ x \in WorkerRow
         /\ \A a \in Place :
              worker' = [worker EXCEPT ![w].at = a]
                => MovesTo(w, x.op, a, x.client, x.seen, x.who)
         /\ \A a \in Place, c \in 0..MaxClients :
              worker' = [worker EXCEPT ![w].at = a, ![w].client = c]
                => MovesTo(w, x.op, a, c, x.seen, x.who)
         /\ \A a \in Place, s \in AccountRow :
              worker' = [worker EXCEPT ![w].at = a, ![w].seen = s]
                => MovesTo(w, x.op, a, x.client, s, x.who)
         /\ \A a \in Place, p \in Who :
              worker' = [worker EXCEPT ![w].at = a, ![w].who = p]
                => MovesTo(w, x.op, a, x.client, x.seen, p)
         /\ Ends(w) => MovesTo(w, "none", "idle", 0, NoRow, "none")
<1>1. worker \in [Worker -> WorkerRow]
  BY TypesOfLogin DEF LoginRows
<1> DEFINE x == worker[w]
<1>2. x \in WorkerRow
  BY <1>1
<1>3. ASSUME NEW y \in WorkerRow, worker' = [worker EXCEPT ![w] = y]
      PROVE  MovesTo(w, y.op, y.at, y.client, y.seen, y.who)
  <2>1. y = [op |-> y.op, at |-> y.at, client |-> y.client, seen |-> y.seen, who |-> y.who]
    BY RowsOfLogin
  <2>2. worker' \in [Worker -> WorkerRow] /\ worker'[w] = y
        /\ \A v \in Worker \ {w} : worker'[v] = worker[v]
    BY <1>1, <1>3
  <2> QED BY <2>1, <2>2 DEF MovesTo
<1>4. ASSUME NEW a \in Place, worker' = [worker EXCEPT ![w].at = a]
      PROVE  MovesTo(w, x.op, a, x.client, x.seen, x.who)
  <2> DEFINE y == [op |-> x.op, at |-> a, client |-> x.client, seen |-> x.seen, who |-> x.who]
  <2>1. y = [x EXCEPT !.at = a]
    BY <1>2 DEF WorkerRow
  <2>2. y \in WorkerRow
    BY <1>2, RowsOfLogin
  <2> QED BY <1>3, <1>4, <2>1, <2>2
<1>5. ASSUME NEW a \in Place, NEW c \in 0..MaxClients,
             worker' = [worker EXCEPT ![w].at = a, ![w].client = c]
      PROVE  MovesTo(w, x.op, a, c, x.seen, x.who)
  <2> DEFINE y == [op |-> x.op, at |-> a, client |-> c, seen |-> x.seen, who |-> x.who]
  <2>1. y = [x EXCEPT !.at = a, !.client = c]
    <3> DEFINE z == [x EXCEPT !.at = a]
    <3>1. z = [op |-> x.op, at |-> a, client |-> x.client, seen |-> x.seen, who |-> x.who]
      BY <1>2 DEF WorkerRow
    <3> HIDE DEF z
    <3>2. [z EXCEPT !.client = c] = y
      BY <3>1
    <3> QED BY <3>2 DEF z
  <2>2. y \in WorkerRow
    BY <1>2, RowsOfLogin
  <2>3. worker' = [worker EXCEPT ![w] = y]
    BY <1>1, <1>5, <2>1
  <2> QED BY <1>3, <2>2, <2>3
<1>6. ASSUME NEW a \in Place, NEW s \in AccountRow,
             worker' = [worker EXCEPT ![w].at = a, ![w].seen = s]
      PROVE  MovesTo(w, x.op, a, x.client, s, x.who)
  <2> DEFINE y == [op |-> x.op, at |-> a, client |-> x.client, seen |-> s, who |-> x.who]
  <2>1. y = [x EXCEPT !.at = a, !.seen = s]
    BY <1>2, RowTurns
  <2>2. y \in WorkerRow
    BY <1>2, RowsOfLogin
  <2>3. worker' = [worker EXCEPT ![w] = y]
    BY <1>1, <1>6, <2>1
  <2> QED BY <1>3, <2>2, <2>3
<1>7. ASSUME NEW a \in Place, NEW p \in Who,
             worker' = [worker EXCEPT ![w].at = a, ![w].who = p]
      PROVE  MovesTo(w, x.op, a, x.client, x.seen, p)
  <2> DEFINE y == [op |-> x.op, at |-> a, client |-> x.client, seen |-> x.seen, who |-> p]
  <2>1. y = [x EXCEPT !.at = a, !.who = p]
    BY <1>2, RowTurns
  <2>2. y \in WorkerRow
    BY <1>2, RowsOfLogin
  <2>3. worker' = [worker EXCEPT ![w] = y]
    BY <1>1, <1>7, <2>1
  <2> QED BY <1>3, <2>2, <2>3
<1>8. Ends(w) => MovesTo(w, "none", "idle", 0, NoRow, "none")
  BY <1>3, RowsOfLogin DEF Ends, NoWork
<1> QED BY <1>2, <1>4, <1>5, <1>6, <1>7, <1>8

\* What becomes of the clients, of an attempt and of the sessions.
Closes(C) ==
  /\ client' \in [Client -> ClientRow]
  /\ \A c \in Client : /\ client'[c].key = client[c].key
                       /\ client'[c].open => client[c].open /\ c \notin C
                       /\ client[c].open => client'[c].open \/ c \in C
Builds(c, k) ==
  /\ client' \in [Client -> ClientRow]
  /\ client'[c].open /\ client'[c].key = k
  /\ \A d \in Client \ {c} : client'[d] = client[d]
TurnsTo(c, state) ==
  /\ attempt' \in [Client -> AttemptRow]
  /\ attempt'[c].state = state /\ attempt'[c].wanted = attempt[c].wanted
  /\ \A d \in Client \ {c} : attempt'[d] = attempt[d]
Becomes(k, p) ==
  /\ pass' \in [Client -> Person \cup {"none", "revoked"}]
  /\ k \in Client => pass'[k] = p
  /\ \A j \in Client \ {k} : pass'[j] = pass[j]

LEMMA Changes ==
  ASSUME LoginRows
  PROVE  /\ \A C : client' = Closed(C) => Closes(C)
         /\ \A c \in Client, k \in 0..MaxClients : client' = WithClient(c, k) => Builds(c, k)
         /\ \A c \in Client, s \in {"waiting", "password", "done", "error"} :
              attempt' = [attempt EXCEPT ![c].state = s] => TurnsTo(c, s)
         /\ \A k, p : pass' = [pass EXCEPT ![k] = p] /\ p \in Person \cup {"revoked"}
                        => Becomes(k, p)
<1>1. /\ client \in [Client -> ClientRow] /\ attempt \in [Client -> AttemptRow]
      /\ pass \in [Client -> Person \cup {"none", "revoked"}]
  BY TypesOfLogin DEF LoginRows
<1>2. ASSUME NEW C, client' = Closed(C) PROVE Closes(C)
  BY <1>1, <1>2 DEF Closed, Closes, ClientRow
<1>3. ASSUME NEW c \in Client, NEW k \in 0..MaxClients, client' = WithClient(c, k)
      PROVE  Builds(c, k)
  BY <1>1, <1>3 DEF WithClient, Builds, ClientRow
<1>4. ASSUME NEW c \in Client, NEW s \in {"waiting", "password", "done", "error"},
             attempt' = [attempt EXCEPT ![c].state = s]
      PROVE  TurnsTo(c, s)
  BY <1>1, <1>4 DEF TurnsTo, AttemptRow
<1>5. ASSUME NEW k, NEW p \in Person \cup {"revoked"}, pass' = [pass EXCEPT ![k] = p]
      PROVE  Becomes(k, p)
  BY <1>1, <1>5 DEF Becomes
<1> QED BY <1>2, <1>3, <1>4, <1>5

LEMMA TypesHold ==
  ASSUME LoginRows
  PROVE  /\ account \in AccountRow /\ client \in [Client -> ClientRow]
         /\ pass \in [Client -> Person \cup {"none", "revoked"}]
         /\ {working, login, qr} \subseteq 0..MaxClients
         /\ attempt \in [Client -> AttemptRow] /\ worker \in [Worker -> WorkerRow]
         /\ commands \in 0..MaxCommands /\ troubles \in 0..MaxTroubles
         /\ story \subseteq {"tangled", "crash", "network", "late", "stray"}
         /\ \A w \in Worker : Handled(w, worker[w]) /\ worker[w] \in WorkerRow
         /\ ClientsAreBuilt
BY TypesOfLogin DEF LoginRows

\* What is written to the row.
LEMMA WrittenRow ==
  ASSUME NEW seen \in AccountRow, NEW new \in AccountRow, account \in AccountRow
  PROVE  LET r == WrittenOver(seen, new) IN
         /\ r \in AccountRow
         /\ r.status = IF new.status = seen.status THEN account.status ELSE new.status
         /\ r.session = IF new.session = seen.session THEN account.session ELSE new.session
         /\ r.user = IF new.user = seen.user THEN account.user ELSE new.user
         /\ r.gone = IF new.gone = seen.gone THEN account.gone ELSE new.gone
<1> DEFINE r == WrittenOver(seen, new)
<1>1. DOMAIN account = {"status", "session", "user", "gone"}
  BY DEF AccountRow
<1>2. /\ r.status = IF new.status = seen.status THEN account.status ELSE new.status
      /\ r.session = IF new.session = seen.session THEN account.session ELSE new.session
      /\ r.user = IF new.user = seen.user THEN account.user ELSE new.user
      /\ r.gone = IF new.gone = seen.gone THEN account.gone ELSE new.gone
  BY <1>1 DEF WrittenOver
<1>3. r = [status |-> r.status, session |-> r.session, user |-> r.user, gone |-> r.gone]
  BY <1>1 DEF WrittenOver
<1> HIDE DEF r
<1>4. /\ r.status \in Status /\ r.session \in 0..MaxClients
      /\ r.user \in Person \cup {"none"} /\ r.gone \in BOOLEAN
  BY <1>2 DEF AccountRow
<1>5. r \in AccountRow
  BY <1>3, <1>4 DEF AccountRow
<1> QED BY <1>2, <1>5 DEF r

LEMMA SavedRow ==
  ASSUME LoginRows, NEW w \in Worker, worker[w].client \in Client, worker[w].who \in Person
  PROVE  LET r == Saves(w) IN
         /\ r \in AccountRow /\ r.status = "connected" /\ r.user = worker[w].who
         /\ r.session = client[worker[w].client].key /\ r.gone = worker[w].seen.gone
<1>1. worker[w].seen \in AccountRow /\ client[worker[w].client].key \in 0..MaxClients
  BY TypesHold, RowsOfLogin DEF ClientRow
<1>2. worker[w].who \in Person \cup {"none"} /\ "connected" \in Status
  BY DEF Status
<1> QED BY <1>1, <1>2 DEF Saves, AccountRow

LEMMA LoggedOutRow ==
  ASSUME NEW r \in AccountRow
  PROVE  LET s == [r EXCEPT !.session = 0, !.status = "pending"] IN
         s \in AccountRow /\ s.status = "pending" /\ s.user = r.user /\ s.gone = r.gone /\ s.session = 0
BY Numbers DEF AccountRow, Status

LEMMA ReplyRow ==
  ASSUME NEW r \in AccountRow, NEW p \in Person
  PROVE  LET s == [r EXCEPT !.status = "connected", !.user = p] IN
         /\ s \in AccountRow /\ s.status = "connected" /\ s.user = p
         /\ s.session = r.session /\ s.gone = r.gone
BY DEF AccountRow, Status

LEMMA DeletedRow ==
  ASSUME NEW r \in AccountRow
  PROVE  LET s == [r EXCEPT !.gone = TRUE, !.status = "disconnected"] IN
         /\ s \in AccountRow /\ s.status = "disconnected" /\ s.user = r.user
         /\ s.session = r.session /\ s.gone
BY DEF AccountRow, Status

LEMMA ErrorRow ==
  ASSUME NEW r \in AccountRow
  PROVE  LET s == [r EXCEPT !.status = "error"] IN
         /\ s \in AccountRow /\ s.status = "error" /\ s.user = r.user
         /\ s.session = r.session /\ s.gone = r.gone
BY DEF AccountRow, Status

\* What a step that does not lock the row has to show.
LEMMA RowsFollow ==
  ASSUME LoginRows,
         worker' \in [Worker -> WorkerRow],
         \A w \in Worker : worker'[w] = worker[w]
                           \/ /\ worker[w].at # "tell" /\ worker'[w].at # "tell"
                              /\ Handled(w, worker'[w]),
         account' \in AccountRow, client' \in [Client -> ClientRow],
         pass' \in [Client -> Person \cup {"none", "revoked"}],
         {working', login', qr'} \subseteq 0..MaxClients,
         attempt' \in [Client -> AttemptRow],
         commands' \in 0..MaxCommands, troubles' \in 0..MaxTroubles,
         story' \subseteq {"tangled", "crash", "network", "late", "stray"},
         lock' = lock, lock = 0 \/ account'.status = account.status,
         \/ alarms' = alarms /\ account'.status = account.status
         \/ alarms' = IF account'.status = "error" THEN 1 ELSE 0,
         ClientsAreBuilt'
  PROVE  LoginRows'
<1>1. \A w \in Worker : Handled(w, worker'[w])
  BY DEF LoginRows
<1>2. \A w \in Worker : worker'[w].at = "tell" => worker'[w] = worker[w]
  OBVIOUS
<1>3. ToldOncePerLoss' /\ alarms' \in Nat
  BY TypesOfLogin DEF LoginRows, ToldOncePerLoss
<1>4. lock \in Worker \cup {0} /\ \A w \in Worker : worker[w].at = "tell" => lock = w
  BY TypesOfLogin DEF LoginRows
<1>5. LoginTypeOK'
  BY <1>2, <1>3, <1>4, TypesOfLogin
     DEF LoginTypeOK, ClientRow, AttemptRow, WorkerRow, Who, Doing, Place
<1>6. RowIsLocked'
  <2> SUFFICES ASSUME lock # 0
               PROVE  /\ lock \in Task /\ worker'[lock].at = "tell"
                      /\ worker'[lock].seen.status = account'.status
    BY DEF RowIsLocked
  <2>1. lock \in Task /\ worker[lock].at = "tell" /\ worker[lock].seen.status = account.status
    BY DEF LoginRows, RowIsLocked
  <2>2. worker'[lock] = worker[lock]
    BY <2>1 DEF Worker
  <2> QED BY <2>1, <2>2
<1>7. \A w \in Worker : Handled(w, worker[w])'
  BY <1>1 DEF Handled
<1> QED BY <1>3, <1>5, <1>6, <1>7 DEF LoginRows

\* Whoever is at work is the one whose turn it is.
LEMMA TurnOfWorker ==
  ASSUME NEW u \in Worker, TurnOf(u), NEW w \in Worker,
         \/ worker[w].at \notin {"idle", "wait"}
         \/ \A v \in Worker : worker[v].at \in {"idle", "wait"}
  PROVE  TurnOf(w)
<1>1. CASE u = w
  BY <1>1
<1>2. CASE u # w
  <2>1. \A v \in Worker : worker[v].at \in {"idle", "wait"}
    BY <1>2 DEF TurnOf, Rest
  <2> QED BY <2>1 DEF TurnOf, Rest, OpenForSomething, OneAlive, SavedIsKept, AllOurs,
                      GoneAtRest, Holds, Stage
<1> QED BY <1>1, <1>2

LEMMA RestFollows ==
  ASSUME NEW w \in Worker, Rest(w), NEW o, NEW a, NEW c, NEW s, NEW p, MovesTo(w, o, a, c, s, p)
  PROVE  Rest(w)'
BY DEF Rest, MovesTo

LEMMA TurnGoesOn ==
  ASSUME LoginInv, NEW w \in Worker, worker[w].at \notin {"idle", "wait"}, story = {}
  PROVE  TurnOf(w)
BY TurnOfWorker DEF LoginInv

LEMMA NobodyIsBusy ==
  ASSUME LoginInv, \A w \in Worker : ~Occupied(w), story = {}, NEW v \in Worker
  PROVE  TurnOf(v)
<1>1. \A w \in Worker : worker[w].at \in {"idle", "wait"}
  BY RowsOfLogin DEF Occupied, AwaitsScan
<1> QED BY <1>1, TurnOfWorker DEF LoginInv

-----------------------------------------------------------------------------
(* How a command begins, and a code that is asked for.                     *)

LEMMA LoginStart == LoginInit => LoginInv
<1> SUFFICES ASSUME LoginInit PROVE LoginInv
  OBVIOUS
<1>1. /\ worker = [w \in Worker |-> NoWork] /\ attempt = [c \in Client |-> NoAttempt]
      /\ login = 0 /\ qr = 0 /\ lock = 0 /\ alarms = 0 /\ story = {}
      /\ commands = MaxCommands /\ troubles = MaxTroubles
  BY DEF LoginInit
<1>2. /\ account \in AccountRow /\ account.status # "error" /\ account.user \in Who /\ ~account.gone
      /\ client \in [Client -> ClientRow]
      /\ pass \in [Client -> Person \cup {"none", "revoked"}]
      /\ working \in {0, 1} /\ account.session = working /\ 1 \in Client
      /\ \A c \in Client : /\ client[c].open <=> c = working
                           /\ client[c].key = IF c = working THEN 1 ELSE 0
                           /\ pass[c] = IF c = working THEN account.user ELSE "none"
      /\ working = 1 => account.user = "own"
  <2>1. 1 \in Client /\ 1 \in 0..MaxClients /\ 0 \in 0..MaxClients
    BY LoginBounds DEF Client
  <2>2. CASE /\ account = NoRow /\ client = [c \in Client |-> [open |-> FALSE, key |-> 0]]
             /\ pass = [k \in Client |-> "none"] /\ working = 0
    BY <2>1, <2>2, RowsOfLogin, Numbers DEF NoRow, ClientRow
  <2>3. CASE /\ account = [status |-> "connected", session |-> 1, user |-> "own", gone |-> FALSE]
             /\ client = [c \in Client |-> [open |-> c = 1, key |-> IF c = 1 THEN 1 ELSE 0]]
             /\ pass = [k \in Client |-> IF k = 1 THEN "own" ELSE "none"]
             /\ working = 1
    <3>1. account \in AccountRow
      BY <2>1, <2>3 DEF AccountRow, Status, Person
    <3> QED BY <2>1, <2>3, <3>1 DEF ClientRow, Person, Who
  <2> QED BY <2>2, <2>3 DEF LoginInit
<1>3. \A w \in Worker : worker[w] = NoWork /\ worker[w].at = "idle"
  BY <1>1, RowsOfLogin
<1>4. LoginTypeOK
  <2>1. worker \in [Worker -> WorkerRow] /\ attempt \in [Client -> AttemptRow]
    BY <1>1, RowsOfLogin
  <2>2. working \in 0..MaxClients /\ commands \in 0..MaxCommands /\ troubles \in 0..MaxTroubles
    BY <1>1, <1>2, Numbers
  <2> QED BY <1>1, <1>2, <1>3, <2>1, <2>2, TypesOfLogin, Numbers
<1>5. LoginRows
  <2>1. \A w \in Worker : Handled(w, worker[w])
    BY <1>3 DEF Handled
  <2>2. RowIsLocked /\ ToldOncePerLoss
    BY <1>1, <1>2 DEF RowIsLocked, ToldOncePerLoss
  <2>3. ClientsAreBuilt
    BY <1>2, Numbers DEF ClientsAreBuilt, Built, Person
  <2> QED BY <1>4, <2>1, <2>2, <2>3 DEF LoginRows
<1>6. ASSUME NEW w \in Worker PROVE TurnOf(w)
  <2>1. \A c \in Client : ~Pending(c)
    BY <1>1 DEF Pending, NoAttempt
  <2>2. ScanIsAwaited /\ AttemptIsOurs /\ QrWorks /\ AskedForCode
    BY <1>1, <1>3, <2>1, Numbers DEF ScanIsAwaited, AttemptIsOurs, QrWorks, AskedForCode, Open,
       Worker
  <2>3. NamedAreBuilt
    BY <1>1, <1>2 DEF NamedAreBuilt, Built, NoAttempt
  <2>4. Rest(w)
    BY <1>3 DEF Rest
  <2>5. OpenForSomething(w) /\ OneAlive(w)
    BY <1>2 DEF OpenForSomething, OneAlive
  <2>6. SavedIsKept(w)
    BY <1>2 DEF SavedIsKept, Open
  <2>7. AllOurs(w)
    BY <1>2 DEF AllOurs, Alive, Person
  <2>8. GoneAtRest(w)
    BY <1>2 DEF GoneAtRest
  <2>9. Stage(worker[w])
    BY <1>3 DEF Stage
  <2> QED BY <2>2, <2>3, <2>4, <2>5, <2>6, <2>7, <2>8, <2>9 DEF TurnOf
<1>7. \E w \in Worker : TurnOf(w)
  BY <1>2, <1>6 DEF Worker
<1> QED BY <1>5, <1>7 DEF LoginInv

\* A command begins: the row is read as it is.
LEMMA CommandKeeps ==
  ASSUME LoginInv, NEW t \in Task, NEW op \in LoginOp, Command(t, op)
  PROVE  LoginInv'
<1> DEFINE x == worker[t]
<1>1. /\ LoginRows /\ t \in Worker /\ x \in WorkerRow /\ Handled(t, x)
      /\ x.at = "idle"
  BY TypesHold, RowsOfLogin, Numbers DEF LoginInv, Command, NoQr, Handled, Worker, NoWork, Open
<1>2. MovesTo(t, op, "go", 0, account, "none")
  <2>1. [NoWork EXCEPT !.op = op, !.at = "go", !.seen = account]
          = [op |-> op, at |-> "go", client |-> 0, seen |-> account, who |-> "none"]
    <3> DEFINE a == [NoWork EXCEPT !.op = op]
    <3>1. a = [op |-> op, at |-> "idle", client |-> 0, seen |-> NoRow, who |-> "none"]
      BY DEF NoWork
    <3> HIDE DEF a
    <3> DEFINE b == [a EXCEPT !.at = "go"]
    <3>2. b = [op |-> op, at |-> "go", client |-> 0, seen |-> NoRow, who |-> "none"]
      BY <3>1
    <3> HIDE DEF b
    <3>3. [b EXCEPT !.seen = account]
            = [op |-> op, at |-> "go", client |-> 0, seen |-> account, who |-> "none"]
      BY <3>2
    <3> QED BY <3>3 DEF a, b
  <2> DEFINE y == [op |-> op, at |-> "go", client |-> 0, seen |-> account, who |-> "none"]
  <2>2. op \in Doing /\ "go" \in Place /\ "none" \in Who
    BY DEF Doing, Place, Who
  <2>3. y \in WorkerRow
    BY <1>1, <2>2, TypesHold, RowsOfLogin, Numbers
  <2>4. y.op = op /\ y.at = "go" /\ y.client = 0 /\ y.seen = account /\ y.who = "none"
    OBVIOUS
  <2>5. worker' = [worker EXCEPT ![t] = y]
    BY <2>1 DEF Command
  <2>6. worker \in [Worker -> WorkerRow]
    BY <1>1, TypesHold
  <2> HIDE DEF y
  <2>7. /\ worker' \in [Worker -> WorkerRow] /\ worker'[t] = y
        /\ \A v \in Worker \ {t} : worker'[v] = worker[v]
    BY <1>1, <2>3, <2>5, <2>6
  <2> QED BY <2>4, <2>7 DEF MovesTo, y
<1>3. /\ commands' \in 0..MaxCommands
      /\ story' \subseteq {"tangled", "crash", "network", "late", "stray"}
      /\ op = "use" => account.session # 0
      /\ ~account.gone
      /\ story' = {} => story = {} /\ AllDone /\ (MindsQr(op) \/ NoQr)
      /\ UNCHANGED <<account, client, pass, working, login, qr, attempt, lock, alarms, troubles>>
  <2>1. commands' \in 0..MaxCommands
    BY <1>1, TypesHold, Numbers DEF Command
  <2>2. story' \subseteq {"tangled", "crash", "network", "late", "stray"}
    BY <1>1, TypesHold DEF Command
  <2>3. /\ op = "use" => account.session # 0
        /\ ~account.gone
        /\ UNCHANGED <<account, client, pass, working, login, qr, attempt, lock, alarms, troubles>>
    BY DEF Command, memory
  <2>4. story' = {} => story = {} /\ AllDone /\ (MindsQr(op) \/ NoQr)
    BY DEF Command, NoQr
  <2> QED BY <2>1, <2>2, <2>3, <2>4
<1> HIDE DEF x
<1>4. LoginRows'
  <2>1. Handled(t, worker'[t]) /\ x.at # "tell" /\ worker'[t].at # "tell"
    BY <1>1, <1>2, <1>3, TypesHold DEF Handled, MovesTo, NoWork, LoginOp
  <2>2. ClientsAreBuilt'
    BY <1>1, <1>2, <1>3, TypesHold, Numbers DEF ClientsAreBuilt, Built
  <2>3. \A v \in Worker : worker'[v] = worker[v]
           \/ (worker[v].at # "tell" /\ worker'[v].at # "tell" /\ Handled(v, worker'[v]))
    BY <1>2, <2>1 DEF MovesTo, x
  <2> QED BY <1>1, <1>2, <1>3, <2>2, <2>3, RowsFollow, TypesHold, Numbers DEF MovesTo
<1>5. ASSUME story' = {} PROVE TurnOf(t)'
  <2>1. TurnOf(t)
    BY <1>1, <1>3, <1>5, NobodyIsBusy DEF x, AllDone
  <2>2. Rest(t)'
    BY <1>1, <1>2, <2>1, RestFollows DEF TurnOf
  <2>3. ScanIsAwaited'
    BY <1>1, <1>2, <1>3, <1>5, <2>1 DEF TurnOf, ScanIsAwaited, Connected, MovesTo, Worker, x
  <2>4. AttemptIsOurs'
    BY <1>1, <1>2, <1>3, <1>5, <2>1 DEF TurnOf, AttemptIsOurs, Pending, Open, MovesTo, x
  <2>5. QrWorks'
    BY <1>1, <1>2, <1>3, <1>5, <2>1 DEF TurnOf, QrWorks, Open, x
  <2>6. AskedForCode'
    BY <1>1, <1>2, <1>3, <1>5, <2>1 DEF TurnOf, AskedForCode, x
  <2>7. NamedAreBuilt'
    BY <1>1, <1>2, <1>3, <1>5, <2>1 DEF TurnOf, NamedAreBuilt, Built, x
  <2>8. OpenForSomething(t)'
    BY <1>1, <1>2, <1>3, <1>5, <2>1 DEF TurnOf, OpenForSomething, Holds, MovesTo, x
  <2>9. OneAlive(t)'
    BY <1>1, <1>2, <1>3, <1>5, <2>1 DEF TurnOf, OneAlive, Alive, Holds, MovesTo, x
  <2>10. SavedIsKept(t)'
    BY <1>1, <1>2, <1>3, <1>5, <2>1 DEF TurnOf, SavedIsKept, Open, MovesTo, x
  <2>11. AllOurs(t)'
    BY <1>1, <1>2, <1>3, <1>5, <2>1 DEF TurnOf, AllOurs, Alive, Holds, MovesTo, x
  <2>12. GoneAtRest(t)'
    BY <1>1, <1>2, <1>3, <1>5, <2>1 DEF TurnOf, GoneAtRest, MovesTo, x
  <2>13. Stage(worker[t])'
    BY <1>2, <1>3, <1>5 DEF TurnOf, Stage, MovesTo, NoQr, Pending, Open
  <2> QED BY <2>2, <2>3, <2>4, <2>5, <2>6, <2>7, <2>8, <2>9, <2>10, <2>11, <2>12, <2>13 DEF TurnOf
<1> QED BY <1>4, <1>5, <1>1 DEF LoginInv

\* A code is asked again, through the client it was asked with.
LEMMA SendCodeAgainKeeps ==
  ASSUME LoginInv, NEW t \in Task, SendCode(t), Open(login)
  PROVE  LoginInv'
<1> DEFINE x == worker[t]
<1>1. /\ LoginRows /\ t \in Worker /\ x \in WorkerRow /\ Handled(t, x)
      /\ x.at = "go" /\ x.op = "send_code" /\ login \in Client /\ client[login].open
  BY TypesHold, RowsOfLogin, Numbers DEF LoginInv, SendCode, Does, Handled, Worker, NoWork, Open
<1>2. MovesTo(t, x.op, "asked", login, x.seen, x.who)
  BY <1>1, Moves, RowsOfLogin, TypesHold, Numbers DEF SendCode, Does, Place, Doing, Who, Raises
<1>3. UNCHANGED <<account, client, pass, working, login, qr, attempt, lock, alarms, commands, troubles,
                     story>>
  BY <1>1, TypesHold DEF SendCode, Does
<1> HIDE DEF x
<1>4. LoginRows'
  <2>1. Handled(t, worker'[t]) /\ x.at # "tell" /\ worker'[t].at # "tell"
    BY <1>1, <1>2, <1>3, TypesHold DEF Handled, MovesTo, NoWork, LoginOp
  <2>2. ClientsAreBuilt'
    BY <1>1, <1>2, <1>3, TypesHold, Numbers DEF ClientsAreBuilt, Built
  <2>3. \A v \in Worker : worker'[v] = worker[v]
           \/ (worker[v].at # "tell" /\ worker'[v].at # "tell" /\ Handled(v, worker'[v]))
    BY <1>2, <2>1 DEF MovesTo, x
  <2> QED BY <1>1, <1>2, <1>3, <2>2, <2>3, RowsFollow, TypesHold, Numbers DEF MovesTo
<1>5. ASSUME story' = {} PROVE TurnOf(t)'
  <2>1. TurnOf(t)
    BY <1>1, <1>3, <1>5, TurnGoesOn DEF x, AllDone
  <2>2. Rest(t)'
    BY <1>1, <1>2, <2>1, RestFollows DEF TurnOf
  <2>3. ScanIsAwaited'
    BY <1>1, <1>2, <1>3, <1>5, <2>1 DEF TurnOf, ScanIsAwaited, Connected, MovesTo, Worker, x
  <2>4. AttemptIsOurs'
    BY <1>1, <1>2, <1>3, <1>5, <2>1 DEF TurnOf, AttemptIsOurs, Pending, Open, MovesTo, x
  <2>5. QrWorks'
    BY <1>1, <1>2, <1>3, <1>5, <2>1 DEF TurnOf, QrWorks, Open, x
  <2>6. AskedForCode'
    BY <1>1, <1>2, <1>3, <1>5, <2>1 DEF TurnOf, AskedForCode, x
  <2>7. NamedAreBuilt'
    BY <1>1, <1>2, <1>3, <1>5, <2>1 DEF TurnOf, NamedAreBuilt, Built, x
  <2>8. OpenForSomething(t)'
    BY <1>1, <1>2, <1>3, <1>5, <2>1 DEF TurnOf, OpenForSomething, Holds, MovesTo, x
  <2>9. OneAlive(t)'
    BY <1>1, <1>2, <1>3, <1>5, <2>1 DEF TurnOf, OneAlive, Alive, Holds, MovesTo, x
  <2>10. SavedIsKept(t)'
    BY <1>1, <1>2, <1>3, <1>5, <2>1 DEF TurnOf, SavedIsKept, Open, MovesTo, x
  <2>11. AllOurs(t)'
    BY <1>1, <1>2, <1>3, <1>5, <2>1 DEF TurnOf, AllOurs, Alive, Holds, MovesTo, x
  <2>12. GoneAtRest(t)'
    BY <1>1, <1>2, <1>3, <1>5, <2>1 DEF TurnOf, GoneAtRest, MovesTo, x
  <2>13. Stage(worker[t])'
    <3>1. NoQr /\ client[login].key = login
      <4>1. NoQr
        BY <1>1, <1>2, <1>3, <1>5, <2>1 DEF TurnOf, Stage, MindsQr, x
      <4>2. client[login].key = login
        BY <1>1, <1>2, <1>3, <1>5, <2>1, Numbers DEF TurnOf, AskedForCode
      <4> QED BY <4>1, <4>2
    <3>2. NoQr'
      BY <1>1, <1>2, <1>3, <3>1 DEF NoQr, Pending, Open
    <3>3. Connected(worker[t].client, worker[t].client)'
      BY <1>1, <1>2, <1>3, <3>1 DEF Connected, MovesTo
    <3> QED BY <1>1, <1>2, <1>3, <3>2, <3>3 DEF Stage, MovesTo
  <2> QED BY <2>2, <2>3, <2>4, <2>5, <2>6, <2>7, <2>8, <2>9, <2>10, <2>11, <2>12, <2>13 DEF TurnOf
<1> QED BY <1>4, <1>5, <1>1 DEF LoginInv

\* A code is asked for with a client just built, which is remembered nowhere yet.
LEMMA SendCodeAnewKeeps ==
  ASSUME LoginInv, NEW t \in Task, SendCode(t), ~Open(login)
  PROVE  LoginInv'
<1> DEFINE x == worker[t]
<1>1. /\ LoginRows /\ t \in Worker /\ x \in WorkerRow /\ Handled(t, x)
      /\ x.at = "go" /\ x.op = "send_code"
  BY TypesHold, RowsOfLogin, Numbers DEF LoginInv, SendCode, Does, Handled, Worker, NoWork, Open
<1>2. PICK k \in Client :
             /\ NextFree(k) /\ client' = WithClient(k, k)
             /\ worker' = [worker EXCEPT ![t].at = "asked", ![t].client = k]
  BY DEF SendCode, Does
<1>3. MovesTo(t, x.op, "asked", k, x.seen, x.who)
  BY <1>1, <1>2, Moves, RowsOfLogin, TypesHold, Numbers DEF SendCode, Does, Place, Doing, Who,
     Raises
<1>4. /\ login' = 0
      /\ UNCHANGED <<account, pass, working, qr, attempt, lock, alarms, commands, troubles, story>>
  BY <1>1, <1>2, TypesHold DEF SendCode, Does
<1>5. k \in Client
  OBVIOUS
<1>6. Builds(k, k)
  BY <1>1, <1>2, <1>4, Changes, Numbers
<1>7. client[k].key = 0 /\ ~client[k].open /\ pass[k] \notin Person
  BY <1>1, <1>2, TypesHold DEF NextFree, Built, ClientsAreBuilt
<1> HIDE DEF x
<1>8. LoginRows'
  <2>1. Handled(t, worker'[t]) /\ x.at # "tell" /\ worker'[t].at # "tell"
    BY <1>1, <1>3, <1>4, <1>5, <1>6, <1>7, TypesHold DEF Handled, MovesTo, NoWork, LoginOp
  <2>2. ClientsAreBuilt'
    BY <1>1, <1>3, <1>4, <1>5, <1>6, <1>7, TypesHold, Numbers DEF ClientsAreBuilt, Built, Builds
  <2>3. \A v \in Worker : worker'[v] = worker[v]
           \/ (worker[v].at # "tell" /\ worker'[v].at # "tell" /\ Handled(v, worker'[v]))
    BY <1>3, <2>1 DEF MovesTo, x
  <2> QED BY <1>1, <1>3, <1>4, <1>5, <1>6, <1>7, <2>2, <2>3, RowsFollow, TypesHold, Numbers
             DEF MovesTo, Builds
<1>9. ASSUME story' = {} PROVE TurnOf(t)'
  <2>1. TurnOf(t)
    BY <1>1, <1>2, <1>4, <1>9, TurnGoesOn DEF x, AllDone
  <2>2. Rest(t)'
    BY <1>1, <1>3, <2>1, RestFollows DEF TurnOf
  <2>3. ScanIsAwaited'
    BY <1>1, <1>3, <1>4, <1>5, <1>6, <1>7, <1>9, <2>1 DEF TurnOf, ScanIsAwaited, Connected,
       MovesTo, Worker, x, Builds
  <2>4. AttemptIsOurs'
    <3>1. attempt[k].state \notin {"waiting", "password"} /\ qr # k /\ working # k
      BY <1>1, <1>3, <1>4, <1>5, <1>6, <1>7, <1>9, <2>1, Numbers DEF TurnOf, NamedAreBuilt, Built
    <3>2. \A d \in Client : Pending(d)' => d # k /\ Pending(d)
      BY <1>1, <1>3, <1>4, <1>5, <1>6, <1>7, <3>1 DEF Pending, Open, Builds
    <3> QED BY <1>1, <1>3, <1>4, <1>5, <1>6, <1>7, <1>9, <2>1, <3>2 DEF TurnOf, AttemptIsOurs,
               Builds
  <2>5. QrWorks'
    <3>1. attempt[k].state \notin {"waiting", "password"} /\ qr # k /\ working # k
      BY <1>1, <1>3, <1>4, <1>5, <1>6, <1>7, <1>9, <2>1, Numbers DEF TurnOf, NamedAreBuilt, Built
    <3>2. Open(qr)' => Open(qr)
      BY <1>1, <1>3, <1>4, <1>5, <1>6, <1>7, <3>1, TypesHold, Numbers DEF Open, Builds
    <3> QED BY <1>1, <1>3, <1>4, <1>5, <1>6, <1>7, <1>9, <2>1, <3>2 DEF TurnOf, QrWorks, Open
  <2>6. AskedForCode'
    BY <1>1, <1>3, <1>4, <1>5, <1>6, <1>7, <1>9, <2>1 DEF TurnOf, AskedForCode, x, Builds
  <2>7. NamedAreBuilt'
    BY <1>1, <1>3, <1>4, <1>5, <1>6, <1>7, <1>9, <2>1, Numbers, TypesHold DEF TurnOf,
       NamedAreBuilt, Built, Stage, Connected, NoQr, Pending, Open, Entered, x, Builds
  <2>8. OpenForSomething(t)'
    BY <1>1, <1>3, <1>4, <1>5, <1>6, <1>7, <1>9, <2>1, Numbers, TypesHold DEF TurnOf,
       OpenForSomething, Holds, MovesTo, Stage, Connected, NoQr, Pending, Open, Entered, x,
       Builds
  <2>9. OneAlive(t)'
    BY <1>1, <1>3, <1>4, <1>5, <1>6, <1>7, <1>9, <2>1 DEF TurnOf, OneAlive, Alive, Holds,
       MovesTo, x, Builds
  <2>10. SavedIsKept(t)'
    <3>1. attempt[k].state \notin {"waiting", "password"} /\ qr # k /\ working # k
      BY <1>1, <1>3, <1>4, <1>5, <1>6, <1>7, <1>9, <2>1, Numbers DEF TurnOf, NamedAreBuilt, Built
    <3>2. /\ Open(working)' => Open(working)
          /\ working # 0 => client'[working] = client[working]
      BY <1>1, <1>3, <1>4, <1>5, <1>6, <1>7, <3>1, TypesHold, Numbers DEF Open, Builds
    <3> QED BY <1>1, <1>3, <1>4, <1>5, <1>6, <1>7, <1>9, <2>1, <3>2 DEF TurnOf, SavedIsKept,
               Open, MovesTo, x
  <2>11. AllOurs(t)'
    BY <1>1, <1>3, <1>4, <1>5, <1>6, <1>7, <1>9, <2>1 DEF TurnOf, AllOurs, Alive, Holds,
       MovesTo, x, Builds
  <2>12. GoneAtRest(t)'
    BY <1>1, <1>3, <1>4, <1>5, <1>6, <1>7, <1>9, <2>1 DEF TurnOf, GoneAtRest, MovesTo, x, Builds
  <2>13. Stage(worker[t])'
    <3>1. attempt[k].state \notin {"waiting", "password"} /\ qr # k /\ working # k
      BY <1>1, <1>3, <1>4, <1>5, <1>6, <1>7, <1>9, <2>1, Numbers DEF TurnOf, NamedAreBuilt, Built
    <3>2. NoQr
      BY <1>1, <1>3, <1>4, <1>5, <1>6, <1>7, <1>9, <2>1 DEF TurnOf, Stage, MindsQr, x
    <3>3. NoQr'
      BY <1>1, <1>3, <1>4, <1>5, <1>6, <1>7, <3>1, <3>2 DEF NoQr, Pending, Open, Builds
    <3>4. Connected(worker[t].client, worker[t].client)'
      BY <1>1, <1>3, <1>4, <1>5, <1>6, <1>7 DEF Connected, MovesTo, Builds
    <3> QED BY <1>1, <1>3, <1>4, <1>5, <1>6, <1>7, <3>3, <3>4 DEF Stage, MovesTo
  <2> QED BY <2>2, <2>3, <2>4, <2>5, <2>6, <2>7, <2>8, <2>9, <2>10, <2>11, <2>12, <2>13 DEF TurnOf
<1> QED BY <1>8, <1>9, <1>1 DEF LoginInv

\* The code is on its way: its client is remembered.
LEMMA CodeSentKeeps ==
  ASSUME LoginInv, NEW t \in Task, CodeSent(t)
  PROVE  LoginInv'
<1> DEFINE x == worker[t]
<1>1. /\ LoginRows /\ t \in Worker /\ x \in WorkerRow /\ Handled(t, x)
      /\ x.at = "asked" /\ x.client \in Client
  BY TypesHold, RowsOfLogin, Numbers DEF LoginInv, CodeSent, Does, Handled, Worker, NoWork, Open
<1>2. MovesTo(t, "none", "idle", 0, NoRow, "none")
  BY <1>1, Moves, RowsOfLogin, TypesHold, Numbers DEF CodeSent, Does, Place, Doing, Who, Raises
<1>3. /\ login' = x.client
      /\ UNCHANGED <<account, client, pass, working, qr, attempt, lock, alarms, commands, troubles,
                     story>>
  BY <1>1, TypesHold DEF CodeSent, Does
<1> HIDE DEF x
<1>4. LoginRows'
  <2>1. Handled(t, worker'[t]) /\ x.at # "tell" /\ worker'[t].at # "tell"
    BY <1>1, <1>2, <1>3, TypesHold DEF Handled, MovesTo, NoWork, LoginOp
  <2>2. ClientsAreBuilt'
    BY <1>1, <1>2, <1>3, TypesHold, Numbers DEF ClientsAreBuilt, Built
  <2>3. \A v \in Worker : worker'[v] = worker[v]
           \/ (worker[v].at # "tell" /\ worker'[v].at # "tell" /\ Handled(v, worker'[v]))
    BY <1>2, <2>1 DEF MovesTo, x
  <2> QED BY <1>1, <1>2, <1>3, <2>2, <2>3, RowsFollow, TypesHold, Numbers DEF MovesTo
<1>5. ASSUME story' = {} PROVE TurnOf(t)'
  <2>1. TurnOf(t)
    BY <1>1, <1>3, <1>5, TurnGoesOn DEF x, AllDone
  <2>2. Rest(t)'
    BY <1>1, <1>2, <2>1, RestFollows DEF TurnOf
  <2>3. ScanIsAwaited'
    BY <1>1, <1>2, <1>3, <1>5, <2>1 DEF TurnOf, ScanIsAwaited, Connected, MovesTo, Worker, x
  <2>4. AttemptIsOurs'
    BY <1>1, <1>2, <1>3, <1>5, <2>1 DEF TurnOf, AttemptIsOurs, Pending, Open, MovesTo, x
  <2>5. QrWorks'
    BY <1>1, <1>2, <1>3, <1>5, <2>1 DEF TurnOf, QrWorks, Open, x
  <2>6. AskedForCode'
    BY <1>1, <1>3, <2>1 DEF TurnOf, AskedForCode, Stage, Connected, x
  <2>7. NamedAreBuilt'
    BY <1>1, <1>2, <1>3, <1>5, <2>1 DEF TurnOf, NamedAreBuilt, Built, x
  <2>8. OpenForSomething(t)'
    BY <1>1, <1>2, <1>3, <1>5, <2>1, Numbers DEF TurnOf, OpenForSomething, Holds, MovesTo,
       Stage, Connected, x
  <2>9. OneAlive(t)'
    BY <1>1, <1>2, <1>3, <1>5, <2>1 DEF TurnOf, OneAlive, Alive, Holds, MovesTo, x
  <2>10. SavedIsKept(t)'
    BY <1>1, <1>2, <1>3, <1>5, <2>1 DEF TurnOf, SavedIsKept, Open, MovesTo, x
  <2>11. AllOurs(t)'
    BY <1>1, <1>2, <1>3, <1>5, <2>1 DEF TurnOf, AllOurs, Alive, Holds, MovesTo, x
  <2>12. GoneAtRest(t)'
    BY <1>1, <1>2, <1>3, <1>5, <2>1 DEF TurnOf, GoneAtRest, MovesTo, x
  <2>13. Stage(worker[t])'
    BY <1>1, <1>2, <1>3, <1>5, <2>1 DEF TurnOf, Stage, MovesTo, x
  <2> QED BY <2>2, <2>3, <2>4, <2>5, <2>6, <2>7, <2>8, <2>9, <2>10, <2>11, <2>12, <2>13 DEF TurnOf
<1> QED BY <1>4, <1>5, <1>1 DEF LoginInv

\* No code is sent: its client is closed.
LEMMA CodeRefusedKeeps ==
  ASSUME LoginInv, NEW t \in Task, CodeRefused(t)
  PROVE  LoginInv'
<1> DEFINE x == worker[t]
<1>1. /\ LoginRows /\ t \in Worker /\ x \in WorkerRow /\ Handled(t, x)
      /\ x.at = "asked" /\ x.client \in Client
  BY TypesHold, RowsOfLogin, Numbers DEF LoginInv, CodeRefused, Does, Handled, Worker, NoWork, Open
<1>2. MovesTo(t, "none", "idle", 0, NoRow, "none")
  BY <1>1, Moves, RowsOfLogin, TypesHold, Numbers DEF CodeRefused, Does, Place, Doing, Who, Raises
<1>3. /\ login' = 0
      /\ UNCHANGED <<account, pass, working, qr, attempt, lock, alarms, commands, troubles, story>>
  BY <1>1, TypesHold DEF CodeRefused, Does
<1>4. client' = Closed({x.client})
  BY <1>1, TypesHold DEF CodeRefused, Does
<1>5. Closes({x.client})
  BY <1>1, <1>3, <1>4, Changes, Numbers
<1> HIDE DEF x
<1>6. LoginRows'
  <2>1. Handled(t, worker'[t]) /\ x.at # "tell" /\ worker'[t].at # "tell"
    BY <1>1, <1>2, <1>3, <1>5, TypesHold DEF Handled, MovesTo, NoWork, LoginOp
  <2>2. ClientsAreBuilt'
    BY <1>1, <1>2, <1>3, <1>5, TypesHold, Numbers DEF ClientsAreBuilt, Built, Closes
  <2>3. \A v \in Worker : worker'[v] = worker[v]
           \/ (worker[v].at # "tell" /\ worker'[v].at # "tell" /\ Handled(v, worker'[v]))
    BY <1>2, <2>1 DEF MovesTo, x
  <2> QED BY <1>1, <1>2, <1>3, <1>5, <2>2, <2>3, RowsFollow, TypesHold, Numbers DEF MovesTo,
             Closes
<1>7. ASSUME story' = {} PROVE TurnOf(t)'
  <2>1. TurnOf(t)
    BY <1>1, <1>3, <1>4, <1>7, TurnGoesOn DEF x, AllDone
  <2>2. Rest(t)'
    BY <1>1, <1>2, <2>1, RestFollows DEF TurnOf
  <2>3. ScanIsAwaited'
    BY <1>1, <1>2, <2>1, Numbers DEF TurnOf, ScanIsAwaited, Connected, MovesTo, Worker, Stage,
       NoQr, Pending, Open, x
  <2>4. AttemptIsOurs'
    BY <1>1, <1>2, <1>3, <1>5, <1>7, <2>1 DEF TurnOf, AttemptIsOurs, Pending, Open, MovesTo, x,
       Closes
  <2>5. QrWorks'
    BY <1>1, <1>3, <1>5, <2>1, Numbers, TypesHold DEF TurnOf, QrWorks, Open, Closes
  <2>6. AskedForCode'
    BY <1>1, <1>2, <1>3, <1>5, <1>7, <2>1 DEF TurnOf, AskedForCode, x, Closes
  <2>7. NamedAreBuilt'
    BY <1>1, <1>3, <1>5, <2>1, Numbers, TypesHold DEF TurnOf, NamedAreBuilt, Built, Closes
  <2>8. OpenForSomething(t)'
    BY <1>1, <1>3, <1>5, <2>1 DEF TurnOf, OpenForSomething, Holds, Stage, x, Closes
  <2>9. OneAlive(t)'
    BY <1>1, <1>2, <1>3, <1>5, <1>7, <2>1 DEF TurnOf, OneAlive, Alive, Holds, MovesTo, x, Closes
  <2>10. SavedIsKept(t)'
    BY <1>1, <1>3, <1>5, <2>1, Numbers, TypesHold DEF TurnOf, SavedIsKept, Open, x, Closes
  <2>11. AllOurs(t)'
    BY <1>1, <1>2, <1>3, <1>5, <1>7, <2>1 DEF TurnOf, AllOurs, Alive, Holds, MovesTo, x, Closes
  <2>12. GoneAtRest(t)'
    BY <1>1, <1>2, <1>3, <1>5, <1>7, <2>1 DEF TurnOf, GoneAtRest, MovesTo, x, Closes
  <2>13. Stage(worker[t])'
    BY <1>1, <1>2, <1>3, <1>5, <1>7, <2>1 DEF TurnOf, Stage, MovesTo, x, Closes
  <2> QED BY <2>2, <2>3, <2>4, <2>5, <2>6, <2>7, <2>8, <2>9, <2>10, <2>11, <2>12, <2>13 DEF TurnOf
<1> QED BY <1>6, <1>7, <1>1 DEF LoginInv

\* No way is left to send a code: a client that is remembered stays.
LEMMA CodeUnavailableKeeps ==
  ASSUME LoginInv, NEW t \in Task, CodeUnavailable(t)
  PROVE  LoginInv'
<1> DEFINE x == worker[t]
<1>1. /\ LoginRows /\ t \in Worker /\ x \in WorkerRow /\ Handled(t, x)
      /\ x.at = "asked" /\ x.client \in Client
  BY TypesHold, RowsOfLogin, Numbers DEF LoginInv, CodeUnavailable, Does, memory, Handled,
     Worker, NoWork, Open
<1>2. MovesTo(t, "none", "idle", 0, NoRow, "none")
  BY <1>1, Moves, RowsOfLogin, TypesHold, Numbers DEF CodeUnavailable, Does, memory, Place,
     Doing, Who, Raises
<1>3. /\ story' = {} => story = {} /\ x.client = login
      /\ story' \subseteq {"tangled", "crash", "network", "late", "stray"}
      /\ UNCHANGED <<account, client, pass, working, login, qr, attempt, lock, alarms, commands,
                     troubles>>
  BY <1>1, TypesHold DEF CodeUnavailable, Does, memory
<1> HIDE DEF x
<1>4. LoginRows'
  <2>1. Handled(t, worker'[t]) /\ x.at # "tell" /\ worker'[t].at # "tell"
    BY <1>1, <1>2, <1>3, TypesHold DEF Handled, MovesTo, NoWork, LoginOp
  <2>2. ClientsAreBuilt'
    BY <1>1, <1>2, <1>3, TypesHold, Numbers DEF ClientsAreBuilt, Built
  <2>3. \A v \in Worker : worker'[v] = worker[v]
           \/ (worker[v].at # "tell" /\ worker'[v].at # "tell" /\ Handled(v, worker'[v]))
    BY <1>2, <2>1 DEF MovesTo, x
  <2> QED BY <1>1, <1>2, <1>3, <2>2, <2>3, RowsFollow, TypesHold, Numbers DEF MovesTo
<1>5. ASSUME story' = {} PROVE TurnOf(t)'
  <2>1. TurnOf(t)
    BY <1>1, <1>3, <1>5, TurnGoesOn DEF x, AllDone
  <2>2. Rest(t)'
    BY <1>1, <1>2, <2>1, RestFollows DEF TurnOf
  <2>3. ScanIsAwaited'
    BY <1>1, <1>2, <1>3, <1>5, <2>1 DEF TurnOf, ScanIsAwaited, Connected, MovesTo, Worker, x
  <2>4. AttemptIsOurs'
    BY <1>1, <1>2, <1>3, <1>5, <2>1 DEF TurnOf, AttemptIsOurs, Pending, Open, MovesTo, x
  <2>5. QrWorks'
    BY <1>1, <1>2, <1>3, <1>5, <2>1 DEF TurnOf, QrWorks, Open, x
  <2>6. AskedForCode'
    BY <1>1, <1>2, <1>3, <1>5, <2>1 DEF TurnOf, AskedForCode, x
  <2>7. NamedAreBuilt'
    BY <1>1, <1>2, <1>3, <1>5, <2>1 DEF TurnOf, NamedAreBuilt, Built, x
  <2>8. OpenForSomething(t)'
    BY <1>1, <1>2, <1>3, <1>5, <2>1 DEF TurnOf, OpenForSomething, Holds, MovesTo, x
  <2>9. OneAlive(t)'
    BY <1>1, <1>2, <1>3, <1>5, <2>1 DEF TurnOf, OneAlive, Alive, Holds, MovesTo, x
  <2>10. SavedIsKept(t)'
    BY <1>1, <1>2, <1>3, <1>5, <2>1 DEF TurnOf, SavedIsKept, Open, MovesTo, x
  <2>11. AllOurs(t)'
    BY <1>1, <1>2, <1>3, <1>5, <2>1 DEF TurnOf, AllOurs, Alive, Holds, MovesTo, x
  <2>12. GoneAtRest(t)'
    BY <1>1, <1>2, <1>3, <1>5, <2>1 DEF TurnOf, GoneAtRest, MovesTo, x
  <2>13. Stage(worker[t])'
    BY <1>1, <1>2, <1>3, <1>5, <2>1 DEF TurnOf, Stage, MovesTo, x
  <2> QED BY <2>2, <2>3, <2>4, <2>5, <2>6, <2>7, <2>8, <2>9, <2>10, <2>11, <2>12, <2>13 DEF TurnOf
<1> QED BY <1>4, <1>5, <1>1 DEF LoginInv

-----------------------------------------------------------------------------
(* A code, a password or a picture, up to the answer of Telegram.          *)

\* The code is entered with the client it was asked with.
LEMMA EntersCodeKeeps ==
  ASSUME LoginInv, NEW t \in Task, Confirm(t), ~Raises(t)
  PROVE  LoginInv'
<1> DEFINE x == worker[t]
<1>1. /\ LoginRows /\ t \in Worker /\ x \in WorkerRow /\ Handled(t, x)
      /\ x.at = "go" /\ x.op = "confirm" /\ login \in Client
  BY TypesHold, RowsOfLogin, Numbers DEF LoginInv, Confirm, Does, Open, memory, Handled, Worker,
     NoWork, Open
<1>2. MovesTo(t, x.op, "signing", login, x.seen, x.who)
  BY <1>1, Moves, RowsOfLogin, TypesHold, Numbers DEF Confirm, Does, Open, memory, Place, Doing,
     Who, Raises
<1>3. /\ client[login].open
      /\ UNCHANGED <<account, client, pass, working, login, qr, attempt, lock, alarms, commands,
                     troubles, story>>
  BY <1>1, TypesHold DEF Confirm, Does, Open, memory
<1> HIDE DEF x
<1>4. LoginRows'
  <2>1. Handled(t, worker'[t]) /\ x.at # "tell" /\ worker'[t].at # "tell"
    BY <1>1, <1>2, <1>3, TypesHold DEF Handled, MovesTo, NoWork, LoginOp
  <2>2. ClientsAreBuilt'
    BY <1>1, <1>2, <1>3, TypesHold, Numbers DEF ClientsAreBuilt, Built
  <2>3. \A v \in Worker : worker'[v] = worker[v]
           \/ (worker[v].at # "tell" /\ worker'[v].at # "tell" /\ Handled(v, worker'[v]))
    BY <1>2, <2>1 DEF MovesTo, x
  <2> QED BY <1>1, <1>2, <1>3, <2>2, <2>3, RowsFollow, TypesHold, Numbers DEF MovesTo
<1>5. ASSUME story' = {} PROVE TurnOf(t)'
  <2>1. TurnOf(t)
    BY <1>1, <1>3, <1>5, TurnGoesOn DEF x, AllDone
  <2>2. Rest(t)'
    BY <1>1, <1>2, <2>1, RestFollows DEF TurnOf
  <2>3. ScanIsAwaited'
    BY <1>1, <1>2, <1>3, <1>5, <2>1 DEF TurnOf, ScanIsAwaited, Connected, MovesTo, Worker, x
  <2>4. AttemptIsOurs'
    BY <1>1, <1>2, <1>3, <1>5, <2>1 DEF TurnOf, AttemptIsOurs, Pending, Open, MovesTo, x
  <2>5. QrWorks'
    BY <1>1, <1>2, <1>3, <1>5, <2>1 DEF TurnOf, QrWorks, Open, x
  <2>6. AskedForCode'
    BY <1>1, <1>2, <1>3, <1>5, <2>1 DEF TurnOf, AskedForCode, x
  <2>7. NamedAreBuilt'
    BY <1>1, <1>2, <1>3, <1>5, <2>1 DEF TurnOf, NamedAreBuilt, Built, x
  <2>8. OpenForSomething(t)'
    BY <1>1, <1>2, <1>3, <1>5, <2>1 DEF TurnOf, OpenForSomething, Holds, MovesTo, x
  <2>9. OneAlive(t)'
    BY <1>1, <1>2, <1>3, <1>5, <2>1 DEF TurnOf, OneAlive, Alive, Holds, MovesTo, x
  <2>10. SavedIsKept(t)'
    BY <1>1, <1>2, <1>3, <1>5, <2>1 DEF TurnOf, SavedIsKept, Open, MovesTo, x
  <2>11. AllOurs(t)'
    BY <1>1, <1>2, <1>3, <1>5, <2>1 DEF TurnOf, AllOurs, Alive, Holds, MovesTo, x
  <2>12. GoneAtRest(t)'
    BY <1>1, <1>2, <1>3, <1>5, <2>1 DEF TurnOf, GoneAtRest, MovesTo, x
  <2>13. Stage(worker[t])'
    <3>1. NoQr /\ client[login].key = login /\ x.seen = account
      BY <1>1, <1>2, <1>3, <1>5, <2>1, Numbers DEF TurnOf, Stage, MindsQr, AskedForCode, x
    <3>2. NoQr'
      BY <1>1, <1>2, <1>3, <3>1 DEF NoQr, Pending, Open
    <3> QED BY <1>1, <1>2, <1>3, <3>1, <3>2 DEF Stage, MovesTo
  <2> QED BY <2>2, <2>3, <2>4, <2>5, <2>6, <2>7, <2>8, <2>9, <2>10, <2>11, <2>12, <2>13 DEF TurnOf
<1> QED BY <1>4, <1>5, <1>1 DEF LoginInv

\* The password is entered with the client of the picture.
LEMMA EntersPasswordKeeps ==
  ASSUME LoginInv, NEW t \in Task, QrPassword(t), ~Raises(t)
  PROVE  LoginInv'
<1> DEFINE x == worker[t]
<1>1. /\ LoginRows /\ t \in Worker /\ x \in WorkerRow /\ Handled(t, x)
      /\ x.at = "go" /\ x.op = "qr_password" /\ qr \in Client
  BY TypesHold, RowsOfLogin, Numbers DEF LoginInv, QrPassword, Does, Open, memory, Handled,
     Worker, NoWork, Open
<1>2. MovesTo(t, x.op, "signing", qr, x.seen, x.who)
  BY <1>1, Moves, RowsOfLogin, TypesHold, Numbers DEF QrPassword, Does, Open, memory, Place,
     Doing, Who, Raises
<1>3. /\ client[qr].open
      /\ UNCHANGED <<account, client, pass, working, login, qr, attempt, lock, alarms, commands,
                     troubles, story>>
  BY <1>1, TypesHold DEF QrPassword, Does, Open, memory
<1> HIDE DEF x
<1>4. LoginRows'
  <2>1. Handled(t, worker'[t]) /\ x.at # "tell" /\ worker'[t].at # "tell"
    BY <1>1, <1>2, <1>3, TypesHold DEF Handled, MovesTo, NoWork, LoginOp
  <2>2. ClientsAreBuilt'
    BY <1>1, <1>2, <1>3, TypesHold, Numbers DEF ClientsAreBuilt, Built
  <2>3. \A v \in Worker : worker'[v] = worker[v]
           \/ (worker[v].at # "tell" /\ worker'[v].at # "tell" /\ Handled(v, worker'[v]))
    BY <1>2, <2>1 DEF MovesTo, x
  <2> QED BY <1>1, <1>2, <1>3, <2>2, <2>3, RowsFollow, TypesHold, Numbers DEF MovesTo
<1>5. ASSUME story' = {} PROVE TurnOf(t)'
  <2>1. TurnOf(t)
    BY <1>1, <1>3, <1>5, TurnGoesOn DEF x, AllDone
  <2>2. Rest(t)'
    BY <1>1, <1>2, <2>1, RestFollows DEF TurnOf
  <2>3. ScanIsAwaited'
    BY <1>1, <1>2, <1>3, <1>5, <2>1 DEF TurnOf, ScanIsAwaited, Connected, MovesTo, Worker, x
  <2>4. AttemptIsOurs'
    BY <1>1, <1>2, <1>3, <1>5, <2>1 DEF TurnOf, AttemptIsOurs, Pending, Open, MovesTo, x
  <2>5. QrWorks'
    BY <1>1, <1>2, <1>3, <1>5, <2>1 DEF TurnOf, QrWorks, Open, x
  <2>6. AskedForCode'
    BY <1>1, <1>2, <1>3, <1>5, <2>1 DEF TurnOf, AskedForCode, x
  <2>7. NamedAreBuilt'
    BY <1>1, <1>2, <1>3, <1>5, <2>1 DEF TurnOf, NamedAreBuilt, Built, x
  <2>8. OpenForSomething(t)'
    BY <1>1, <1>2, <1>3, <1>5, <2>1 DEF TurnOf, OpenForSomething, Holds, MovesTo, x
  <2>9. OneAlive(t)'
    BY <1>1, <1>2, <1>3, <1>5, <2>1 DEF TurnOf, OneAlive, Alive, Holds, MovesTo, x
  <2>10. SavedIsKept(t)'
    BY <1>1, <1>2, <1>3, <1>5, <2>1 DEF TurnOf, SavedIsKept, Open, MovesTo, x
  <2>11. AllOurs(t)'
    BY <1>1, <1>2, <1>3, <1>5, <2>1 DEF TurnOf, AllOurs, Alive, Holds, MovesTo, x
  <2>12. GoneAtRest(t)'
    BY <1>1, <1>2, <1>3, <1>5, <2>1 DEF TurnOf, GoneAtRest, MovesTo, x
  <2>13. Stage(worker[t])'
    <3>1. client[qr].key = qr
      BY <1>1, <1>2, <1>3, <1>5, <2>1, Numbers DEF TurnOf, NamedAreBuilt
    <3> QED BY <1>1, <1>2, <1>3, <3>1 DEF Stage, MovesTo
  <2> QED BY <2>2, <2>3, <2>4, <2>5, <2>6, <2>7, <2>8, <2>9, <2>10, <2>11, <2>12, <2>13 DEF TurnOf
<1> QED BY <1>4, <1>5, <1>1 DEF LoginInv

\* A handler raises before it has done anything.
LEMMA RaisesKeeps ==
  ASSUME LoginInv, NEW t \in Task, Raises(t), worker[t].at \in {"go", "signing"} \/ Does(t,
                 "qr_start", "connect")
  PROVE  LoginInv'
<1> DEFINE x == worker[t]
<1>1. /\ LoginRows /\ t \in Worker /\ x \in WorkerRow /\ Handled(t, x)
      /\ (x.at \in {"go", "signing"} \/ (x.at = "connect" /\ x.op = "qr_start"))
  BY TypesHold, RowsOfLogin, Numbers DEF LoginInv, Raises, Does, memory, Handled, Worker, NoWork,
     Open
<1>2. MovesTo(t, "none", "idle", 0, NoRow, "none")
  BY <1>1, Moves, RowsOfLogin, TypesHold, Numbers DEF Raises, Does, memory, Place, Doing, Who,
     Raises
<1>3. UNCHANGED <<account, client, pass, working, login, qr, attempt, lock, alarms, commands, troubles,
                     story>>
  BY <1>1, TypesHold DEF Raises, Does, memory
<1> HIDE DEF x
<1>4. LoginRows'
  <2>1. Handled(t, worker'[t]) /\ x.at # "tell" /\ worker'[t].at # "tell"
    BY <1>1, <1>2, <1>3, TypesHold DEF Handled, MovesTo, NoWork, LoginOp
  <2>2. ClientsAreBuilt'
    BY <1>1, <1>2, <1>3, TypesHold, Numbers DEF ClientsAreBuilt, Built
  <2>3. \A v \in Worker : worker'[v] = worker[v]
           \/ (worker[v].at # "tell" /\ worker'[v].at # "tell" /\ Handled(v, worker'[v]))
    BY <1>2, <2>1 DEF MovesTo, x
  <2> QED BY <1>1, <1>2, <1>3, <2>2, <2>3, RowsFollow, TypesHold, Numbers DEF MovesTo
<1>5. ASSUME story' = {} PROVE TurnOf(t)'
  <2>1. TurnOf(t)
    BY <1>1, <1>3, <1>5, TurnGoesOn DEF x, AllDone
  <2>2. Rest(t)'
    BY <1>1, <1>2, <2>1, RestFollows DEF TurnOf
  <2>3. ScanIsAwaited'
    BY <1>1, <1>2, <1>3, <1>5, <2>1 DEF TurnOf, ScanIsAwaited, Connected, MovesTo, Worker, x
  <2>4. AttemptIsOurs'
    BY <1>1, <1>2, <1>3, <1>5, <2>1 DEF TurnOf, AttemptIsOurs, Pending, Open, MovesTo, x
  <2>5. QrWorks'
    BY <1>1, <1>2, <1>3, <1>5, <2>1 DEF TurnOf, QrWorks, Open, x
  <2>6. AskedForCode'
    BY <1>1, <1>2, <1>3, <1>5, <2>1 DEF TurnOf, AskedForCode, x
  <2>7. NamedAreBuilt'
    BY <1>1, <1>2, <1>3, <1>5, <2>1 DEF TurnOf, NamedAreBuilt, Built, x
  <2>8. OpenForSomething(t)'
    BY <1>1, <1>2, <1>3, <1>5, <2>1, Numbers, TypesHold DEF TurnOf, OpenForSomething, Holds,
       MovesTo, Stage, Connected, NoQr, Pending, Open, Entered, Handled, Alive, MindsQr,
       AttemptIsOurs, ScanIsAwaited, Worker, x
  <2>9. OneAlive(t)'
    BY <1>1, <1>2, <1>3, <1>5, <2>1, Numbers, TypesHold DEF TurnOf, OneAlive, Alive, Holds,
       MovesTo, Stage, Connected, NoQr, Pending, Open, Entered, Handled, MindsQr, AttemptIsOurs,
       ScanIsAwaited, Worker, x
  <2>10. SavedIsKept(t)'
    BY <1>1, <1>2, <1>3, <1>5, <2>1 DEF TurnOf, SavedIsKept, Open, MovesTo, x
  <2>11. AllOurs(t)'
    BY <1>1, <1>2, <1>3, <1>5, <2>1 DEF TurnOf, AllOurs, Alive, Holds, MovesTo, x
  <2>12. GoneAtRest(t)'
    BY <1>1, <1>2, <1>3, <1>5, <2>1 DEF TurnOf, GoneAtRest, MovesTo, x
  <2>13. Stage(worker[t])'
    BY <1>1, <1>2, <1>3, <1>5, <2>1 DEF TurnOf, Stage, MovesTo, x
  <2> QED BY <2>2, <2>3, <2>4, <2>5, <2>6, <2>7, <2>8, <2>9, <2>10, <2>11, <2>12, <2>13 DEF TurnOf
<1> QED BY <1>4, <1>5, <1>1 DEF LoginInv

\* Telegram lets somebody in: nobody knows yet whom.
LEMMA SignInKeeps ==
  ASSUME LoginInv, NEW t \in Task, NEW p \in Person, SignIn(t, p)
  PROVE  LoginInv'
<1> DEFINE x == worker[t]
<1>1. /\ LoginRows /\ t \in Worker /\ x \in WorkerRow /\ Handled(t, x)
      /\ x.at = "signing" /\ x.op \in {"confirm", "qr_password"} /\ x.client \in Client
  BY TypesHold, RowsOfLogin, Numbers DEF LoginInv, SignIn, To, Handled, Worker, NoWork, Open
<1>2. MovesTo(t, x.op, "me", x.client, x.seen, x.who)
  BY <1>1, Moves, RowsOfLogin, TypesHold, Numbers DEF SignIn, To, Place, Doing, Who, Raises
<1>3. /\ client[x.client].open
      /\ x.op = "qr_password" => attempt[x.client].state = "password"
      /\ pass[x.client] = "none"
      /\ UNCHANGED <<account, client, working, login, qr, attempt, lock, alarms, commands, troubles,
                     story>>
  BY <1>1, TypesHold DEF SignIn, To
<1>4. pass' = [pass EXCEPT ![x.client] = p]
  BY <1>1, TypesHold DEF SignIn, To
<1>5. Becomes(x.client, p)
  BY <1>1, <1>3, <1>4, Changes, Numbers
<1> HIDE DEF x
<1>6. LoginRows'
  <2>1. Handled(t, worker'[t]) /\ x.at # "tell" /\ worker'[t].at # "tell"
    BY <1>1, <1>2, <1>3, <1>5, TypesHold, Numbers DEF Handled, MovesTo, LoginOp
  <2>2. ClientsAreBuilt'
    BY <1>1, <1>2, <1>3, <1>5, TypesHold, Numbers DEF ClientsAreBuilt, Built, Becomes
  <2>3. \A v \in Worker : worker'[v] = worker[v]
           \/ (worker[v].at # "tell" /\ worker'[v].at # "tell" /\ Handled(v, worker'[v]))
    BY <1>2, <2>1 DEF MovesTo, x
  <2> QED BY <1>1, <1>2, <1>3, <1>5, <2>2, <2>3, RowsFollow, TypesHold, Numbers DEF MovesTo,
             Becomes
<1>7. ASSUME story' = {} PROVE TurnOf(t)'
  <2>1. TurnOf(t)
    BY <1>1, <1>3, <1>4, <1>7, TurnGoesOn DEF x, AllDone
  <2>2. Rest(t)'
    BY <1>1, <1>2, <2>1, RestFollows DEF TurnOf
  <2>3. ScanIsAwaited'
    BY <1>1, <1>2, <1>3, <1>5, <1>7, <2>1, Numbers, TypesHold DEF TurnOf, ScanIsAwaited,
       Connected, MovesTo, Worker, Stage, NoQr, Pending, Open, Entered, Handled, Holds, Alive,
       MindsQr, AttemptIsOurs, x, Becomes
  <2>4. AttemptIsOurs'
    BY <1>1, <1>2, <1>3, <1>5, <1>7, <2>1 DEF TurnOf, AttemptIsOurs, Pending, Open, MovesTo, x,
       Becomes
  <2>5. QrWorks'
    BY <1>1, <1>2, <1>3, <1>5, <1>7, <2>1 DEF TurnOf, QrWorks, Open, x, Becomes
  <2>6. AskedForCode'
    BY <1>1, <1>2, <1>3, <1>5, <1>7, <2>1 DEF TurnOf, AskedForCode, x, Becomes
  <2>7. NamedAreBuilt'
    BY <1>1, <1>2, <1>3, <1>5, <1>7, <2>1, Numbers DEF TurnOf, NamedAreBuilt, Built, Stage,
       Connected, x, Becomes
  <2>8. OpenForSomething(t)'
    BY <1>1, <1>2, <1>3, <1>5, <1>7, <2>1 DEF TurnOf, OpenForSomething, Holds, MovesTo, x, Becomes
  <2>9. OneAlive(t)'
    <3>1. ASSUME NEW d \in Client, client[d].open, Alive(client[d].key)', d # working
          PROVE  d = x.client
      <4>1. CASE client[d].key = x.client
        <5>1. d \in {login, qr}
          BY <1>1, <1>2, <1>3, <1>5, <1>7, <2>1, <3>1 DEF TurnOf, OpenForSomething, Holds, x
        <5>2. client[d].key = d
          BY <1>1, <1>2, <1>3, <1>5, <1>7, <2>1, <3>1, <5>1, Numbers DEF TurnOf, AskedForCode,
             NamedAreBuilt
        <5> QED BY <4>1, <5>2
      <4>2. CASE client[d].key # x.client
        <5>1. Alive(client[d].key)
          <6>1. client[d].key \in 0..MaxClients
            BY <1>1, TypesHold DEF ClientRow
          <6> QED BY <1>1, <1>2, <1>3, <1>5, <3>1, <4>2, <6>1, Numbers DEF Alive, Becomes
        <5> QED BY <1>1, <1>2, <1>3, <1>5, <1>7, <2>1, <3>1, <5>1 DEF TurnOf, OneAlive, Holds, x
      <4> QED BY <4>1, <4>2
    <3> QED BY <1>1, <1>2, <1>3, <1>5, <3>1 DEF OneAlive, Holds, MovesTo
  <2>10. SavedIsKept(t)'
    <3>1. \A k \in Client : pass[k] # "none" => pass'[k] # "none"
      BY <1>1, <1>2, <1>3, <1>5 DEF Becomes, Person
    <3>2. account.session \in 0..MaxClients
      BY <1>1, TypesHold, RowsOfLogin
    <3> QED BY <1>1, <1>2, <1>3, <1>5, <1>7, <2>1, <3>1, <3>2, Numbers DEF TurnOf, SavedIsKept,
               Open, x
  <2>11. AllOurs(t)'
    BY <1>1, <1>2, <1>3, <1>5, <1>7, <2>1 DEF TurnOf, AllOurs, Alive, Holds, MovesTo, x, Becomes
  <2>12. GoneAtRest(t)'
    BY <1>1, <1>2, <1>3, <1>5, <1>7, <2>1 DEF TurnOf, GoneAtRest, MovesTo, x, Becomes
  <2>13. Stage(worker[t])'
    BY <1>1, <1>2, <1>3, <1>5, <1>7, <2>1, Numbers, TypesHold DEF TurnOf, Stage, MovesTo,
       Connected, NoQr, Pending, Open, Entered, x, Becomes
  <2> QED BY <2>2, <2>3, <2>4, <2>5, <2>6, <2>7, <2>8, <2>9, <2>10, <2>11, <2>12, <2>13 DEF TurnOf
<1> QED BY <1>6, <1>7, <1>1 DEF LoginInv

\* The task that waits for the picture of the account is cancelled: the others
\* stay where they are.
LEMMA CancelKeeps ==
  ASSUME LoginRows, NEW t \in Task, NEW y \in WorkerRow,
         worker' = [w \in Worker |-> IF w = t THEN y ELSE IF Cancelled(w) THEN NoWork ELSE
           worker[w]]
  PROVE  /\ worker' \in [Worker -> WorkerRow] /\ t \in Worker /\ worker'[t] = y
         /\ \A v \in Worker \ {t} : \/ worker'[v] = worker[v] /\ v # qr
                                    \/ v = qr /\ v \in Client /\ worker[v].at # "tell"
                                       /\ worker'[v] = NoWork /\ worker'[v].at = "idle"
                                       /\ Handled(v, worker'[v])
<1>1. worker \in [Worker -> WorkerRow] /\ t \in Worker /\ NoWork \in WorkerRow /\ NoWork.at = "idle"
  BY TypesHold, RowsOfLogin DEF Worker
<1>2. worker' \in [Worker -> WorkerRow] /\ worker'[t] = y
  BY <1>1
<1>3. ASSUME NEW v \in Worker \ {t}, v # qr PROVE worker'[v] = worker[v]
  BY <1>3 DEF Cancelled
<1>4. ASSUME NEW v \in Worker \ {t}, v = qr
      PROVE  /\ v \in Client /\ worker[v].at # "tell"
             /\ worker'[v] = NoWork /\ worker'[v].at = "idle" /\ Handled(v, worker'[v])
  <2>1. v \in Client
    BY <1>4, TypesHold, Numbers
  <2>2. worker'[v] = NoWork
    BY <1>4 DEF Cancelled
  <2>3. worker[v].at # "tell"
    BY <2>1, <1>4, TypesHold, Numbers DEF Handled
  <2> QED BY <1>1, <2>1, <2>2, <2>3 DEF Handled
<1> QED BY <1>1, <1>2, <1>3, <1>4

\* In turn nobody but t is at work, and after that nobody waits.
LEMMA CancelledInTurn ==
  ASSUME NEW t \in Worker, TurnOf(t), LoginRows, t \notin Client,
         \A v \in Worker \ {t} : \/ worker'[v] = worker[v] /\ v # qr
                                 \/ worker'[v].at = "idle"
  PROVE  \A v \in Worker \ {t} : worker'[v].at = "idle"
<1>1. SUFFICES ASSUME NEW v \in Worker \ {t}, worker'[v] = worker[v], v # qr
               PROVE  worker[v].at = "idle"
  OBVIOUS
<1>2. worker[v].at \in {"idle", "wait"}
  BY DEF TurnOf, Rest
<1>3. worker[v].at # "wait"
  <2>1. worker[v].at = "wait" => v \in Client
    BY TypesHold DEF Handled
  <2> QED BY <1>1, <2>1 DEF TurnOf, ScanIsAwaited
<1> QED BY <1>2, <1>3

LEMMA QrStartKeeps == ASSUME LoginInv, NEW t \in Task, QrStart(t) PROVE LoginInv'
<1> DEFINE y == [worker[t] EXCEPT !.at = "connect"]
<1>1. /\ LoginRows /\ t \in Worker /\ t \notin Client /\ qr' = 0
      /\ worker[t].at = "go" /\ worker[t].op = "qr_start" /\ worker[t].client = 0
      /\ worker[t] \in WorkerRow
      /\ UNCHANGED <<account, pass, working, login, attempt, lock, alarms, commands, troubles, story>>
  BY TypesHold, Numbers DEF LoginInv, QrStart, Does, Worker, Handled
<1>2. /\ y = [op |-> "qr_start", at |-> "connect", client |-> 0, seen |-> worker[t].seen,
              who |-> worker[t].who]
      /\ y \in WorkerRow
  <2>1. y = [op |-> "qr_start", at |-> "connect", client |-> 0, seen |-> worker[t].seen,
             who |-> worker[t].who]
    BY <1>1 DEF WorkerRow
  <2>2. "qr_start" \in Doing /\ "connect" \in Place
    BY DEF Doing, LoginOp, Place
  <2> HIDE DEF y
  <2> QED BY <1>1, <2>1, <2>2, RowsOfLogin, Numbers
<1>3. y.op = "qr_start" /\ y.at = "connect" /\ y.client = 0 /\ y.seen = worker[t].seen
  BY <1>2
<1>4. worker' = [w \in Worker |-> IF w = t THEN y ELSE IF Cancelled(w) THEN NoWork ELSE worker[w]]
  BY DEF QrStart
<1> HIDE DEF y
<1>5. /\ worker' \in [Worker -> WorkerRow] /\ worker'[t] = y
      /\ \A v \in Worker \ {t} : \/ worker'[v] = worker[v] /\ v # qr
                                 \/ v = qr /\ v \in Client /\ worker[v].at # "tell"
                                    /\ worker'[v] = NoWork /\ worker'[v].at = "idle"
                                    /\ Handled(v, worker'[v])
  BY <1>1, <1>2, <1>4, CancelKeeps
<1>6. Closes(Forsaken)
  BY <1>1, Changes DEF QrStart
<1>7. LoginRows'
  <2>1. Handled(t, worker'[t]) /\ worker[t].at # "tell" /\ worker'[t].at # "tell"
    BY <1>1, <1>3, <1>5 DEF Handled
  <2>2. ClientsAreBuilt'
    BY <1>1, <1>6, TypesHold DEF ClientsAreBuilt, Built, Closes
  <2>3. \A v \in Worker : worker'[v] = worker[v]
           \/ (worker[v].at # "tell" /\ worker'[v].at # "tell" /\ Handled(v, worker'[v]))
    BY <1>5, <2>1
  <2> QED BY <1>1, <1>5, <1>6, <2>2, <2>3, RowsFollow, TypesHold, Numbers DEF Closes
<1>8. ASSUME story' = {} PROVE TurnOf(t)'
  <2>1. TurnOf(t)
    BY <1>1, <1>8, TurnGoesOn
  <2>2. \A v \in Worker \ {t} : worker'[v].at = "idle"
    BY <1>1, <1>5, <2>1, CancelledInTurn
  <2>3. /\ \A c \in Client : client'[c].key = client[c].key
        /\ \A c \in Client : client'[c].open => client[c].open /\ c \notin Forsaken
        /\ {working, login, qr} \subseteq 0..MaxClients
    BY <1>1, <1>6, TypesHold DEF Closes
  <2>4. \A c \in Client : ~Pending(c)'
    <3>1. \A c \in Client : Pending(c)' => Pending(c) /\ c \notin Forsaken
      BY <1>1, <2>3 DEF Pending, Open
    <3>2. \A c \in Client : Pending(c) => c = qr /\ c \in Forsaken
      BY <2>1, Numbers DEF TurnOf, AttemptIsOurs, Forsaken, Pending
    <3> QED BY <3>1, <3>2
  <2>5. ScanIsAwaited' /\ AttemptIsOurs' /\ QrWorks'
    BY <1>1, <2>2, <2>4 DEF ScanIsAwaited, AttemptIsOurs, QrWorks, Open, Worker
  <2>6. AskedForCode' /\ NamedAreBuilt'
    BY <1>1, <2>1, <2>3, Numbers DEF TurnOf, AskedForCode, NamedAreBuilt, Built
  <2>7. Rest(t)'
    BY <2>2 DEF Rest
  <2>8. OpenForSomething(t)'
    <3>1. ASSUME NEW c \in Client, client'[c].open PROVE c \in {working, login}
      <4>1. c \in {working, login, qr} /\ c \notin Forsaken /\ client[c].open
        BY <1>1, <2>1, <2>3, <3>1 DEF TurnOf, OpenForSomething, Holds
      <4>2. CASE c = qr
        BY <2>1, <4>1, <4>2, Numbers DEF TurnOf, QrWorks, Open, Forsaken
      <4> QED BY <4>1, <4>2
    <3> QED BY <1>1, <3>1 DEF OpenForSomething
  <2>9. OneAlive(t)'
    BY <1>1, <2>1, <2>3 DEF TurnOf, OneAlive, Holds, Alive
  <2>10. SavedIsKept(t)'
    BY <1>1, <2>1, <2>3, Numbers DEF TurnOf, SavedIsKept, Open
  <2>11. AllOurs(t)' /\ GoneAtRest(t)'
    BY <1>1, <2>1, <2>3 DEF TurnOf, AllOurs, GoneAtRest, Holds, Alive
  <2>12. Stage(worker[t])'
    <3>1. worker[t].seen = account
      BY <1>1, <2>1 DEF TurnOf, Stage
    <3> QED BY <1>1, <1>3, <1>5, <3>1 DEF Stage
  <2> QED BY <2>5, <2>6, <2>7, <2>8, <2>9, <2>10, <2>11, <2>12 DEF TurnOf
<1> QED BY <1>1, <1>7, <1>8 DEF LoginInv

\* A new picture: its client is waited for by a task of its own.
LEMMA QrShownKeeps == ASSUME LoginInv, NEW t \in Task, QrShown(t) PROVE LoginInv'
<1>1. /\ LoginRows /\ t \in Worker /\ t \notin Client
      /\ worker[t].at = "connect" /\ worker[t].op = "qr_start" /\ worker[t].client = 0
      /\ UNCHANGED <<account, pass, working, login, lock, alarms, commands, troubles, story>>
  <2>1. /\ LoginRows /\ t \in Worker /\ t \notin Client
        /\ worker[t].at = "connect" /\ worker[t].op = "qr_start"
        /\ UNCHANGED <<account, pass, working, login, lock, alarms, commands, troubles, story>>
    BY Numbers DEF LoginInv, QrShown, Does, Worker
  <2> QED BY <2>1, TypesHold DEF Handled
<1> DEFINE z(c) == [NoWork EXCEPT !.op = "scan", !.at = "wait", !.client = c]
<1>2. PICK c \in Client :
         /\ NextFree(c) /\ client' = WithClient(c, c) /\ qr' = c
         /\ attempt' = [attempt EXCEPT ![c] = [state |-> "waiting",
                        wanted |-> worker[t].seen.user]]
         /\ worker' = [worker EXCEPT ![t] = NoWork, ![c] = z(c)]
  BY DEF QrShown
<1>3. /\ z(c) \in WorkerRow /\ z(c).at = "wait" /\ z(c).op = "scan" /\ z(c).client = c
  <2>1. z(c) = [op |-> "scan", at |-> "wait", client |-> c, seen |-> NoRow, who |-> "none"]
    <3> DEFINE a == [NoWork EXCEPT !.op = "scan"]
    <3>1. a = [op |-> "scan", at |-> "idle", client |-> 0, seen |-> NoRow, who |-> "none"]
      BY DEF NoWork
    <3> HIDE DEF a
    <3> DEFINE b == [a EXCEPT !.at = "wait"]
    <3>2. b = [op |-> "scan", at |-> "wait", client |-> 0, seen |-> NoRow, who |-> "none"]
      BY <3>1
    <3> HIDE DEF b
    <3>3. [b EXCEPT !.client = c]
            = [op |-> "scan", at |-> "wait", client |-> c, seen |-> NoRow, who |-> "none"]
      BY <3>2
    <3> QED BY <3>3 DEF a, b
  <2>2. "scan" \in Doing /\ "wait" \in Place /\ c \in 0..MaxClients /\ "none" \in Who
    BY Numbers DEF Doing, Place, Who
  <2> HIDE DEF z
  <2> QED BY <2>1, <2>2, RowsOfLogin
<1> HIDE DEF z
<1>4. /\ worker' \in [Worker -> WorkerRow] /\ c \in Worker /\ c # t
      /\ worker'[t] = NoWork /\ worker'[t].at = "idle"
      /\ worker'[c] = z(c)
      /\ \A v \in Worker \ {t, c} : worker'[v] = worker[v]
  <2>1. worker \in [Worker -> WorkerRow] /\ c \in Worker /\ c # t
    BY <1>1, TypesHold DEF Worker
  <2> QED BY <1>1, <1>2, <1>3, <2>1, RowsOfLogin
<1>5. Builds(c, c)
  BY <1>1, <1>2, Changes, Numbers
<1>6. /\ client[c].key = 0 /\ ~client[c].open /\ pass[c] \notin Person
      /\ \A d \in 1..(c - 1) : Built(d)
  BY <1>1, <1>2, TypesHold DEF NextFree, Built, ClientsAreBuilt
<1>7. /\ client' \in [Client -> ClientRow] /\ client'[c].open /\ client'[c].key = c
      /\ \A d \in Client \ {c} : client'[d] = client[d]
  BY <1>5 DEF Builds
<1>8. /\ attempt' \in [Client -> AttemptRow]
      /\ attempt'[c].state = "waiting" /\ attempt'[c].wanted = worker[t].seen.user
      /\ \A d \in Client \ {c} : attempt'[d] = attempt[d]
  <2>1. worker[t].seen.user \in Who /\ attempt \in [Client -> AttemptRow]
    BY <1>1, TypesHold, RowsOfLogin
  <2>2. [state |-> "waiting", wanted |-> worker[t].seen.user] \in AttemptRow
    BY <2>1 DEF AttemptRow
  <2> QED BY <1>2, <2>1, <2>2
<1>9. LoginRows'
  <2>1. Handled(t, worker'[t]) /\ Handled(c, worker'[c])
    BY <1>3, <1>4 DEF Handled
  <2>2. ClientsAreBuilt'
    BY <1>1, <1>6, <1>7, TypesHold, Numbers DEF ClientsAreBuilt, Built
  <2>3. worker[t].at # "tell" /\ worker[c].at # "tell"
    BY <1>1, TypesHold, Numbers DEF Handled, Worker
  <2>4. \A v \in Worker : worker'[v] = worker[v]
           \/ (worker[v].at # "tell" /\ worker'[v].at # "tell" /\ Handled(v, worker'[v]))
    BY <1>3, <1>4, <2>1, <2>3
  <2>5. {working', login', qr'} \subseteq 0..MaxClients
    BY <1>1, <1>2, TypesHold, Numbers
  <2> QED BY <1>1, <1>4, <1>7, <1>8, <2>2, <2>4, <2>5, RowsFollow, TypesHold
<1>10. ASSUME story' = {} PROVE TurnOf(t)'
  <2>1. TurnOf(t)
    BY <1>1, <1>10, TurnGoesOn
  <2>2. qr = 0 /\ worker[t].seen = account
    BY <1>1, <2>1 DEF TurnOf, Stage
  <2>3. pass[c] = "none" /\ c # working /\ c # login
    BY <1>6, <2>1, Numbers DEF TurnOf, NamedAreBuilt, AskedForCode, Built
  <2>4. \A d \in Client : ~Pending(d)
    BY <2>1, <2>2, Numbers DEF TurnOf, AttemptIsOurs
  <2>5. ScanIsAwaited'
    <3>1. \A d \in Client \ {c} : worker'[d].at # "wait"
      BY <1>1, <1>4, <2>1, <2>2, Numbers DEF TurnOf, ScanIsAwaited, Worker
    <3> QED BY <1>1, <1>2, <1>7, <1>8, <2>3, <3>1 DEF ScanIsAwaited, Connected
  <2>6. AttemptIsOurs'
    <3>1. \A d \in Client \ {c} : ~Pending(d)'
      BY <1>7, <1>8, <2>4 DEF Pending, Open
    <3> QED BY <1>1, <1>2, <1>7, <1>8, <2>2, <3>1 DEF AttemptIsOurs
  <2>7. QrWorks'
    BY <1>2, <1>8 DEF QrWorks
  <2>8. AskedForCode' /\ NamedAreBuilt'
    <3>1. {working, login} \subseteq 0..MaxClients
      BY <1>1, TypesHold
    <3> QED BY <1>1, <1>2, <1>7, <1>8, <2>1, <2>3, <3>1, Numbers
            DEF TurnOf, AskedForCode, NamedAreBuilt, Built
  <2>9. Rest(t)'
    BY <1>3, <1>4, <2>1 DEF TurnOf, Rest
  <2>10. OpenForSomething(t)'
    BY <1>1, <1>2, <1>7, <2>1, <2>2, Numbers DEF TurnOf, OpenForSomething, Holds
  <2>11. OneAlive(t)'
    <3>1. ~Alive(client[c].key)'
      BY <1>1, <1>7, <2>3 DEF Alive, Person
    <3> QED BY <1>1, <1>7, <2>1, <3>1, Numbers DEF TurnOf, OneAlive, Holds, Alive
  <2>12. SavedIsKept(t)'
    <3>1. working \in 0..MaxClients
      BY <1>1, TypesHold
    <3> QED BY <1>1, <1>7, <2>1, <2>3, <3>1, Numbers DEF TurnOf, SavedIsKept, Open
  <2>13. AllOurs(t)' /\ GoneAtRest(t)'
    BY <1>1, <1>4, <2>1 DEF TurnOf, AllOurs, GoneAtRest, Holds, Alive
  <2>14. Stage(worker[t])'
    BY <1>4 DEF Stage
  <2> QED BY <2>5, <2>6, <2>7, <2>8, <2>9, <2>10, <2>11, <2>12, <2>13, <2>14 DEF TurnOf
<1> QED BY <1>1, <1>9, <1>10 DEF LoginInv

\* The picture is scanned.
LEMMA ScannedKeeps ==
  ASSUME LoginInv, NEW c \in Client, NEW p \in Person, Scan(c, p), To(c, "me"),
                 UNCHANGED attempt, pass' = [pass EXCEPT ![c] = p]
  PROVE  LoginInv'
<1> DEFINE x == worker[c]
<1>1. /\ LoginRows /\ c \in Worker /\ x \in WorkerRow /\ Handled(c, x)
      /\ x.at = "wait" /\ x.op = "scan" /\ x.client = c /\ c \in Worker
  BY TypesHold, RowsOfLogin, Numbers DEF LoginInv, Scan, To, Handled, Worker, NoWork, Open
<1>2. MovesTo(c, x.op, "me", c, x.seen, x.who)
  <2>1. MovesTo(c, x.op, "me", x.client, x.seen, x.who)
    BY <1>1, Moves DEF To, Place
  <2> QED BY <1>1, <2>1
<1>3. /\ client[c].open
      /\ story' = {} => story = {} /\ \A v \in Worker : ~Occupied(v)
      /\ story' \subseteq {"tangled", "crash", "network", "late", "stray"}
      /\ UNCHANGED <<account, client, working, login, qr, attempt, lock, alarms, commands, troubles>>
  BY <1>1, TypesHold DEF Scan, To
<1>4. Becomes(c, p)
  BY <1>1, <1>3, Changes, Numbers
<1> HIDE DEF x
<1>5. LoginRows'
  <2>1. Handled(c, worker'[c]) /\ x.at # "tell" /\ worker'[c].at # "tell"
    BY <1>1, <1>2, <1>3, <1>4, TypesHold, Numbers DEF Handled, MovesTo, LoginOp
  <2>2. ClientsAreBuilt'
    BY <1>1, <1>2, <1>3, <1>4, TypesHold, Numbers DEF ClientsAreBuilt, Built, Becomes
  <2>3. \A v \in Worker : worker'[v] = worker[v]
           \/ (worker[v].at # "tell" /\ worker'[v].at # "tell" /\ Handled(v, worker'[v]))
    BY <1>2, <2>1 DEF MovesTo, x
  <2> QED BY <1>1, <1>2, <1>3, <1>4, <2>2, <2>3, RowsFollow, TypesHold, Numbers DEF MovesTo,
             Becomes
<1>6. ASSUME story' = {} PROVE TurnOf(c)'
  <2>1. TurnOf(c)
    BY <1>1, <1>3, <1>6, NobodyIsBusy DEF x, AllDone
  <2>2. Rest(c)'
    BY <1>1, <1>2, <2>1, RestFollows DEF TurnOf
  <2>3. ScanIsAwaited'
    BY <1>1, <1>2, <1>3, <1>4, <1>6, <2>1 DEF TurnOf, ScanIsAwaited, Connected, MovesTo, Worker,
       x, Becomes
  <2>4. AttemptIsOurs'
    BY <1>1, <1>2, <1>3, <1>4, <1>6, <2>1 DEF TurnOf, AttemptIsOurs, Pending, Open, MovesTo, x,
       Becomes
  <2>5. QrWorks'
    BY <1>1, <1>2, <1>3, <1>4, <1>6, <2>1 DEF TurnOf, QrWorks, Open, x, Becomes
  <2>6. AskedForCode'
    BY <1>1, <1>2, <1>3, <1>4, <1>6, <2>1 DEF TurnOf, AskedForCode, x, Becomes
  <2>7. NamedAreBuilt'
    BY <1>1, <1>2, <1>3, <1>4, <1>6, <2>1, Numbers, TypesHold DEF TurnOf, NamedAreBuilt, Built,
       Stage, Connected, NoQr, Pending, Open, Entered, Handled, Holds, Alive, MindsQr,
       AttemptIsOurs, ScanIsAwaited, Worker, x, Becomes
  <2>8. OpenForSomething(c)'
    BY <1>1, <1>2, <1>3, <1>4, <1>6, <2>1 DEF TurnOf, OpenForSomething, Holds, MovesTo, x, Becomes
  <2>9. OneAlive(c)'
    <3>1. ASSUME NEW d \in Client, client[d].open, Alive(client[d].key)', d # working
          PROVE  d = c
      <4>1. CASE client[d].key = c
        <5>1. d \in {login, qr}
          BY <1>1, <1>2, <1>3, <1>4, <1>6, <2>1, <3>1 DEF TurnOf, OpenForSomething, Holds, x
        <5>2. client[d].key = d
          BY <1>1, <1>2, <1>3, <1>4, <1>6, <2>1, <3>1, <5>1, Numbers DEF TurnOf, AskedForCode,
             NamedAreBuilt
        <5> QED BY <4>1, <5>2
      <4>2. CASE client[d].key # c
        <5>1. Alive(client[d].key)
          <6>1. client[d].key \in 0..MaxClients
            BY <1>1, TypesHold DEF ClientRow
          <6> QED BY <1>1, <1>2, <1>3, <1>4, <3>1, <4>2, <6>1, Numbers DEF Alive, Becomes
        <5> QED BY <1>1, <1>2, <1>3, <1>4, <1>6, <2>1, <3>1, <5>1 DEF TurnOf, OneAlive, Holds, x
      <4> QED BY <4>1, <4>2
    <3> QED BY <1>1, <1>2, <1>3, <1>4, <3>1 DEF OneAlive, Holds, MovesTo
  <2>10. SavedIsKept(c)'
    BY <1>1, <1>2, <1>3, <1>4, <1>6, <2>1, Numbers, TypesHold DEF TurnOf, SavedIsKept, Open,
       MovesTo, Stage, Connected, NoQr, Pending, Entered, Handled, Holds, Alive, MindsQr,
       AttemptIsOurs, ScanIsAwaited, Worker, x, Becomes
  <2>11. AllOurs(c)'
    BY <1>1, <1>2, <1>3, <1>4, <1>6, <2>1 DEF TurnOf, AllOurs, Alive, Holds, MovesTo, x, Becomes
  <2>12. GoneAtRest(c)'
    BY <1>1, <1>2, <1>3, <1>4, <1>6, <2>1 DEF TurnOf, GoneAtRest, MovesTo, x, Becomes
  <2>13. Stage(worker[c])'
    BY <1>1, <1>2, <1>3, <1>4, <1>6, <2>1, Numbers, TypesHold DEF TurnOf, Stage, MovesTo,
       Connected, NoQr, Pending, Open, Entered, Handled, Holds, Alive, MindsQr, AttemptIsOurs,
       ScanIsAwaited, Worker, x, Becomes
  <2> QED BY <2>2, <2>3, <2>4, <2>5, <2>6, <2>7, <2>8, <2>9, <2>10, <2>11, <2>12, <2>13 DEF TurnOf
<1> QED BY <1>5, <1>6, <1>1 DEF LoginInv

\* The picture is scanned, and the password is asked for.
LEMMA AskedPasswordKeeps ==
  ASSUME LoginInv, NEW c \in Client, NEW p \in Person, Scan(c, p), Ends(c), UNCHANGED pass,
                 attempt' = [attempt EXCEPT ![c].state = "password"]
  PROVE  LoginInv'
<1> DEFINE x == worker[c]
<1>1. /\ LoginRows /\ c \in Worker /\ x \in WorkerRow /\ Handled(c, x)
      /\ x.at = "wait" /\ x.op = "scan" /\ x.client = c /\ c \in Worker
  BY TypesHold, RowsOfLogin, Numbers DEF LoginInv, Scan, Handled, Worker, NoWork, Open
<1>2. MovesTo(c, "none", "idle", 0, NoRow, "none")
  BY <1>1, Moves, RowsOfLogin, TypesHold, Numbers DEF Scan, Place, Doing, Who, Raises
<1>3. /\ client[c].open
      /\ story' = {} => story = {} /\ \A v \in Worker : ~Occupied(v)
      /\ story' \subseteq {"tangled", "crash", "network", "late", "stray"}
      /\ UNCHANGED <<account, client, pass, working, login, qr, lock, alarms, commands, troubles>>
  BY <1>1, TypesHold DEF Scan
<1>4. TurnsTo(c, "password")
  BY <1>1, <1>3, Changes, Numbers
<1> HIDE DEF x
<1>5. LoginRows'
  <2>1. Handled(c, worker'[c]) /\ x.at # "tell" /\ worker'[c].at # "tell"
    BY <1>1, <1>2, <1>3, <1>4, TypesHold DEF Handled, MovesTo, NoWork, LoginOp
  <2>2. ClientsAreBuilt'
    BY <1>1, <1>2, <1>3, <1>4, TypesHold, Numbers DEF ClientsAreBuilt, Built, TurnsTo
  <2>3. \A v \in Worker : worker'[v] = worker[v]
           \/ (worker[v].at # "tell" /\ worker'[v].at # "tell" /\ Handled(v, worker'[v]))
    BY <1>2, <2>1 DEF MovesTo, x
  <2> QED BY <1>1, <1>2, <1>3, <1>4, <2>2, <2>3, RowsFollow, TypesHold, Numbers DEF MovesTo,
             TurnsTo
<1>6. ASSUME story' = {} PROVE TurnOf(c)'
  <2>1. TurnOf(c)
    BY <1>1, <1>3, <1>6, NobodyIsBusy DEF x, AllDone
  <2>2. Rest(c)'
    BY <1>1, <1>2, <2>1, RestFollows DEF TurnOf
  <2>3. ScanIsAwaited'
    BY <1>1, <1>2, <1>3, <1>4, <1>6, <2>1 DEF TurnOf, ScanIsAwaited, Connected, MovesTo, Worker,
       x, TurnsTo
  <2>4. AttemptIsOurs'
    BY <1>1, <1>3, <2>1 DEF TurnOf, AttemptIsOurs, Pending, Open, ScanIsAwaited, x
  <2>5. QrWorks'
    BY <1>1, <1>2, <1>3, <1>4, <1>6, <2>1 DEF TurnOf, QrWorks, Open, x, TurnsTo
  <2>6. AskedForCode'
    BY <1>1, <1>2, <1>3, <1>4, <1>6, <2>1 DEF TurnOf, AskedForCode, x, TurnsTo
  <2>7. NamedAreBuilt'
    BY <1>1, <1>3, <2>1 DEF TurnOf, NamedAreBuilt, Built, ScanIsAwaited, x
  <2>8. OpenForSomething(c)'
    BY <1>1, <1>2, <1>3, <1>4, <1>6, <2>1 DEF TurnOf, OpenForSomething, Holds, MovesTo, x, TurnsTo
  <2>9. OneAlive(c)'
    BY <1>1, <1>2, <1>3, <1>4, <1>6, <2>1 DEF TurnOf, OneAlive, Alive, Holds, MovesTo, x, TurnsTo
  <2>10. SavedIsKept(c)'
    BY <1>1, <1>2, <1>3, <1>4, <1>6, <2>1 DEF TurnOf, SavedIsKept, Open, MovesTo, x, TurnsTo
  <2>11. AllOurs(c)'
    BY <1>1, <1>2, <1>3, <1>4, <1>6, <2>1 DEF TurnOf, AllOurs, Alive, Holds, MovesTo, x, TurnsTo
  <2>12. GoneAtRest(c)'
    BY <1>1, <1>2, <1>3, <1>4, <1>6, <2>1 DEF TurnOf, GoneAtRest, MovesTo, x, TurnsTo
  <2>13. Stage(worker[c])'
    BY <1>1, <1>2, <1>3, <1>4, <1>6, <2>1 DEF TurnOf, Stage, MovesTo, x, TurnsTo
  <2> QED BY <2>2, <2>3, <2>4, <2>5, <2>6, <2>7, <2>8, <2>9, <2>10, <2>11, <2>12, <2>13 DEF TurnOf
<1> QED BY <1>5, <1>6, <1>1 DEF LoginInv

\* A picture that nobody scanned is given up, whoever is at work.
LEMMA QrTimesOutKeeps == ASSUME LoginInv, NEW c \in Client, QrTimesOut(c) PROVE LoginInv'
<1>1. /\ LoginRows /\ c \in Worker /\ worker[c].at = "wait"
      /\ UNCHANGED <<account, pass, working, login, qr, lock, alarms, commands, troubles, story>>
  BY DEF LoginInv, QrTimesOut, Worker
<1>2. MovesTo(c, "none", "idle", 0, NoRow, "none")
  BY <1>1, Moves DEF QrTimesOut
<1>3. Closes({c}) /\ TurnsTo(c, "error")
  BY <1>1, Changes DEF QrTimesOut
<1>4. /\ worker'[c] = NoWork /\ worker'[c].at = "idle"
      /\ \A v \in Worker \ {c} : worker'[v] = worker[v]
  BY <1>2, RowsOfLogin DEF MovesTo
<1>5. /\ ~client'[c].open /\ attempt'[c].state = "error"
      /\ \A d \in Client : client'[d].key = client[d].key
      /\ \A d \in Client : client'[d].open <=> client[d].open /\ d # c
      /\ \A d \in Client \ {c} : attempt'[d] = attempt[d]
  BY <1>3 DEF Closes, TurnsTo
<1>6. LoginRows'
  <2>1. ClientsAreBuilt'
    BY <1>1, <1>5, TypesHold DEF ClientsAreBuilt, Built
  <2>2. Handled(c, worker'[c])
    BY <1>4 DEF Handled
  <2> QED BY <1>1, <1>2, <1>3, <1>4, <2>1, <2>2, RowsFollow, TypesHold
          DEF Closes, TurnsTo, MovesTo
<1>7. ASSUME NEW w \in Worker, TurnOf(w) PROVE TurnOf(w)'
  <2>1. /\ qr = c /\ client[c].key = c /\ client[c].open /\ attempt[c].state = "waiting"
        /\ Pending(c) /\ c # 0
    BY <1>1, <1>7, Numbers DEF TurnOf, ScanIsAwaited, Connected, Pending, Open
  <2>2. \A d \in Client : ~Pending(d)'
    <3>1. \A d \in Client : Pending(d)' => Pending(d) /\ d # c
      BY <1>5 DEF Pending, Open
    <3> QED BY <1>7, <2>1, <3>1 DEF TurnOf, AttemptIsOurs
  <2>3. ScanIsAwaited'
    BY <1>4, <1>7, <2>1 DEF TurnOf, ScanIsAwaited, Worker
  <2>4. AttemptIsOurs' /\ QrWorks'
    BY <1>1, <1>5, <2>1, <2>2 DEF AttemptIsOurs, QrWorks, Open
  <2>5. AskedForCode' /\ NamedAreBuilt'
    <3>1. {working, login, qr} \subseteq 0..MaxClients
      BY <1>1, TypesHold
    <3> QED BY <1>1, <1>5, <1>7, <3>1, Numbers DEF TurnOf, AskedForCode, NamedAreBuilt, Built
  <2>6. Rest(w)'
    BY <1>4, <1>7 DEF TurnOf, Rest
  <2>7. \A d \in Client, P \in {{"asked", "swap", "connect"}, {"me", "swap", "connect"},
                                {"me", "swap", "load", "save"}} :
          Holds(w, d, P) => Holds(w, d, P)'
    BY <1>1, <1>4 DEF Holds
  <2>8. OpenForSomething(w)'
    BY <1>1, <1>5, <1>7, <2>7 DEF TurnOf, OpenForSomething
  <2>9. OneAlive(w)'
    BY <1>1, <1>5, <1>7, <2>7 DEF TurnOf, OneAlive, Alive
  <2>10. SavedIsKept(w)'
    <3>1. working \in 0..MaxClients
      BY <1>1, TypesHold
    <3>2. worker[w].at \in {"load", "save"} => worker'[w].at \in {"load", "save"}
      BY <1>1, <1>4
    <3>3. Open(working)' => Open(working) /\ client'[working].key = client[working].key
      BY <1>1, <1>5, <3>1, Numbers DEF Open
    <3> QED BY <1>1, <1>7, <3>2, <3>3 DEF TurnOf, SavedIsKept
  <2>11. AllOurs(w)'
    BY <1>1, <1>7, <2>7 DEF TurnOf, AllOurs, Alive
  <2>12. GoneAtRest(w)'
    BY <1>1, <1>4, <1>5, <1>7 DEF TurnOf, GoneAtRest
  <2>13. Stage(worker[w])'
    <3>1. CASE w = c
      BY <1>4, <3>1 DEF Stage
    <3>2. CASE w # c
      <4>1. Stage(worker[w]) /\ Handled(w, worker[w]) /\ worker'[w] = worker[w]
        BY <1>1, <1>4, <1>7, <3>2, TypesHold DEF TurnOf
      <4>2. worker[w].at \notin {"asked", "load", "save", "write", "delete"}
        BY <2>1, <4>1 DEF Stage, NoQr
      <4>3. worker[w].at \in {"me", "swap"} => worker[w].client # c
        <5>1. CASE w \in Task
          BY <2>1, <4>1, <5>1 DEF Stage, NoQr, Handled
        <5>2. CASE w \in Client
          BY <3>2, <4>1, <5>2 DEF Handled
        <5> QED BY <5>1, <5>2 DEF Worker
      <4>4. worker[w].at \in {"me", "swap"} => worker[w].op = "confirm"
        BY <2>1, <4>1, <4>3 DEF Stage
      <4>5. worker[w].at \in {"signing", "me", "swap"} => worker[w].client \in Client
        BY <4>1 DEF Handled
      <4>6. NoQr'
        BY <2>2 DEF NoQr
      <4>7. ~Open(working) => ~Open(working)'
        <5>1. working \in 0..MaxClients
          BY <1>1, TypesHold
        <5> QED BY <1>1, <1>5, <5>1, Numbers DEF Open
      <4>8. worker[w].at = "connect" /\ worker[w].op = "use" =>
              /\ Connected(worker[w].client, account.session)'
              /\ worker[w].client \in Client
        BY <1>1, <1>5, <2>1, <4>1 DEF Stage, Handled, Connected
      <4>9. worker[w].at = "me" => NoQr
        BY <4>1, <4>4 DEF Stage
      <4>10. worker[w].at \notin {"me", "swap"}
        BY <2>1, <4>1, <4>4 DEF Stage, NoQr
      <4> HIDE DEF Connected, NoQr, Open, MindsQr
      <4> QED BY <1>1, <1>5, <4>1, <4>2, <4>5, <4>6, <4>8, <4>10, <4>7 DEF Stage
    <3> QED BY <3>1, <3>2
  <2> QED BY <2>3, <2>4, <2>5, <2>6, <2>8, <2>9, <2>10, <2>11, <2>12, <2>13 DEF TurnOf
<1> QED BY <1>1, <1>6, <1>7 DEF LoginInv

-----------------------------------------------------------------------------
(* Who has signed in: a stranger is turned away.                           *)

\* A command cannot ask who has signed in.
LEMMA MeFailsKeeps ==
  ASSUME LoginInv, NEW w \in Task, MeFails(w)
  PROVE  LoginInv'
<1> DEFINE x == worker[w]
<1>1. /\ LoginRows /\ w \in Worker /\ x \in WorkerRow /\ Handled(w, x)
      /\ x.at = "me" /\ x.client \in Client /\ x.client # w /\ x.op \in {"confirm", "qr_password"}
  BY TypesHold, RowsOfLogin, Numbers DEF LoginInv, MeFails, AtMe, Handled, Worker, NoWork, Open
<1>2. MovesTo(w, "none", "idle", 0, NoRow, "none")
  BY <1>1, Moves, RowsOfLogin, TypesHold, Numbers DEF MeFails, AtMe, Place, Doing, Who, Raises
<1>3. /\ ~client[x.client].open \/ ~Alive(x.client)
      /\ UNCHANGED <<account, client, pass, working, login, qr, attempt, lock, alarms, commands,
                     troubles, story>>
  BY <1>1, TypesHold DEF MeFails, AtMe
<1> HIDE DEF x
<1>4. LoginRows'
  <2>1. Handled(w, worker'[w]) /\ x.at # "tell" /\ worker'[w].at # "tell"
    BY <1>1, <1>2, <1>3, TypesHold DEF Handled, MovesTo, NoWork, LoginOp
  <2>2. ClientsAreBuilt'
    BY <1>1, <1>2, <1>3, TypesHold, Numbers DEF ClientsAreBuilt, Built
  <2>3. \A v \in Worker : worker'[v] = worker[v]
           \/ (worker[v].at # "tell" /\ worker'[v].at # "tell" /\ Handled(v, worker'[v]))
    BY <1>2, <2>1 DEF MovesTo, x
  <2> QED BY <1>1, <1>2, <1>3, <2>2, <2>3, RowsFollow, TypesHold, Numbers DEF MovesTo
<1>5. ASSUME story' = {} PROVE TurnOf(w)'
  <2>1. TurnOf(w)
    BY <1>1, <1>3, <1>5, TurnGoesOn DEF x, AllDone
  <2>2. Rest(w)'
    BY <1>1, <1>2, <2>1, RestFollows DEF TurnOf
  <2>3. ScanIsAwaited'
    BY <1>1, <1>2, <1>3, <1>5, <2>1 DEF TurnOf, ScanIsAwaited, Connected, MovesTo, Worker, x
  <2>4. AttemptIsOurs'
    BY <1>1, <1>2, <1>3, <1>5, <2>1 DEF TurnOf, AttemptIsOurs, Pending, Open, MovesTo, x
  <2>5. QrWorks'
    BY <1>1, <1>2, <1>3, <1>5, <2>1 DEF TurnOf, QrWorks, Open, x
  <2>6. AskedForCode'
    BY <1>1, <1>2, <1>3, <1>5, <2>1 DEF TurnOf, AskedForCode, x
  <2>7. NamedAreBuilt'
    BY <1>1, <1>2, <1>3, <1>5, <2>1 DEF TurnOf, NamedAreBuilt, Built, x
  <2>8. OpenForSomething(w)'
    BY <1>1, <1>2, <1>3, <1>5, <2>1 DEF TurnOf, OpenForSomething, Holds, MovesTo, x
  <2>9. OneAlive(w)'
    BY <1>1, <1>2, <1>3, <1>5, <2>1, Numbers DEF TurnOf, OneAlive, Alive, Holds, MovesTo, Stage,
       Connected, x
  <2>10. SavedIsKept(w)'
    BY <1>1, <1>2, <1>3, <1>5, <2>1 DEF TurnOf, SavedIsKept, Open, MovesTo, x
  <2>11. AllOurs(w)'
    BY <1>1, <1>2, <1>3, <1>5, <2>1, Numbers DEF TurnOf, AllOurs, Alive, Holds, MovesTo, Stage,
       Connected, x
  <2>12. GoneAtRest(w)'
    BY <1>1, <1>2, <1>3, <1>5, <2>1 DEF TurnOf, GoneAtRest, MovesTo, x
  <2>13. Stage(worker[w])'
    BY <1>1, <1>2, <1>3, <1>5, <2>1 DEF TurnOf, Stage, MovesTo, x
  <2> QED BY <2>2, <2>3, <2>4, <2>5, <2>6, <2>7, <2>8, <2>9, <2>10, <2>11, <2>12, <2>13 DEF TurnOf
<1> QED BY <1>4, <1>5, <1>1 DEF LoginInv

\* The wait for a scan cannot ask who has signed in.
LEMMA MeOfScanFailsKeeps ==
  ASSUME LoginInv, NEW c \in Client, MeFails(c)
  PROVE  LoginInv'
<1> DEFINE x == worker[c]
<1>1. /\ LoginRows /\ c \in Worker /\ x \in WorkerRow /\ Handled(c, x)
      /\ x.at = "me" /\ x.client = c /\ x.op = "scan" /\ c \in Worker
  BY TypesHold, RowsOfLogin, Numbers DEF LoginInv, MeFails, AtMe, Handled, Worker, NoWork, Open
<1>2. MovesTo(c, "none", "idle", 0, NoRow, "none")
  BY <1>1, Moves, RowsOfLogin, TypesHold, Numbers DEF MeFails, AtMe, Place, Doing, Who, Raises
<1>3. /\ ~client[c].open \/ ~Alive(c)
      /\ UNCHANGED <<account, pass, working, login, qr, lock, alarms, commands, troubles, story>>
  BY <1>1, TypesHold DEF MeFails, AtMe
<1>4. /\ client' = Closed({c})
      /\ attempt' = [attempt EXCEPT ![c].state = "error"]
  BY <1>1, TypesHold DEF MeFails, AtMe
<1>5. Closes({c})
  BY <1>1, <1>3, <1>4, Changes, Numbers
<1>6. TurnsTo(c, "error")
  BY <1>1, <1>3, <1>4, Changes, Numbers
<1> HIDE DEF x
<1>7. LoginRows'
  <2>1. Handled(c, worker'[c]) /\ x.at # "tell" /\ worker'[c].at # "tell"
    BY <1>1, <1>2, <1>3, <1>5, <1>6, TypesHold DEF Handled, MovesTo, NoWork, LoginOp
  <2>2. ClientsAreBuilt'
    BY <1>1, <1>2, <1>3, <1>5, <1>6, TypesHold, Numbers DEF ClientsAreBuilt, Built, Closes,
       TurnsTo
  <2>3. \A v \in Worker : worker'[v] = worker[v]
           \/ (worker[v].at # "tell" /\ worker'[v].at # "tell" /\ Handled(v, worker'[v]))
    BY <1>2, <2>1 DEF MovesTo, x
  <2> QED BY <1>1, <1>2, <1>3, <1>5, <1>6, <2>2, <2>3, RowsFollow, TypesHold, Numbers
             DEF MovesTo, Closes, TurnsTo
<1>8. ASSUME story' = {} PROVE TurnOf(c)'
  <2>1. TurnOf(c)
    BY <1>1, <1>3, <1>4, <1>8, TurnGoesOn DEF x, AllDone
  <2>2. Rest(c)'
    BY <1>1, <1>2, <2>1, RestFollows DEF TurnOf
  <2>3. ScanIsAwaited'
    BY <1>1, <1>2, <1>3, <1>5, <1>6, <1>8, <2>1 DEF TurnOf, ScanIsAwaited, Connected, MovesTo,
       Worker, x, Closes, TurnsTo
  <2>4. AttemptIsOurs'
    BY <1>1, <1>2, <1>3, <1>5, <1>6, <1>8, <2>1 DEF TurnOf, AttemptIsOurs, Pending, Open,
       MovesTo, x, Closes, TurnsTo
  <2>5. QrWorks'
    BY <1>1, <1>2, <1>3, <1>5, <1>6, <1>8, <2>1, Numbers DEF TurnOf, QrWorks, Open, Stage,
       Connected, x, Closes, TurnsTo
  <2>6. AskedForCode'
    BY <1>1, <1>3, <1>5, <2>1, Numbers, TypesHold DEF TurnOf, AskedForCode, Closes
  <2>7. NamedAreBuilt'
    BY <1>1, <1>3, <1>5, <1>6, <2>1, Numbers, TypesHold DEF TurnOf, NamedAreBuilt, Built,
       Closes, TurnsTo
  <2>8. OpenForSomething(c)'
    BY <1>1, <1>2, <1>3, <1>5, <1>6, <1>8, <2>1 DEF TurnOf, OpenForSomething, Holds, MovesTo, x,
       Closes, TurnsTo
  <2>9. OneAlive(c)'
    BY <1>1, <1>2, <1>3, <1>5, <1>6, <1>8, <2>1 DEF TurnOf, OneAlive, Alive, Holds, MovesTo, x,
       Closes, TurnsTo
  <2>10. SavedIsKept(c)'
    BY <1>1, <1>2, <1>3, <1>5, <1>6, <1>8, <2>1, Numbers, TypesHold DEF TurnOf, SavedIsKept,
       Open, MovesTo, Stage, Connected, NoQr, Pending, Entered, x, Closes, TurnsTo
  <2>11. AllOurs(c)'
    BY <1>1, <1>2, <1>3, <1>5, <1>6, <1>8, <2>1, Numbers DEF TurnOf, AllOurs, Alive, Holds,
       MovesTo, Stage, Connected, x, Closes, TurnsTo
  <2>12. GoneAtRest(c)'
    BY <1>1, <1>2, <1>3, <1>5, <1>6, <1>8, <2>1 DEF TurnOf, GoneAtRest, MovesTo, x, Closes,
       TurnsTo
  <2>13. Stage(worker[c])'
    BY <1>1, <1>2, <1>3, <1>5, <1>6, <1>8, <2>1 DEF TurnOf, Stage, MovesTo, x, Closes, TurnsTo
  <2> QED BY <2>2, <2>3, <2>4, <2>5, <2>6, <2>7, <2>8, <2>9, <2>10, <2>11, <2>12, <2>13 DEF TurnOf
<1> QED BY <1>7, <1>8, <1>1 DEF LoginInv

\* A stranger has signed in by a command.
LEMMA StrangerKeeps ==
  ASSUME LoginInv, NEW w \in Task, Stranger(w)
  PROVE  LoginInv'
<1> DEFINE x == worker[w]
<1>1. /\ LoginRows /\ w \in Worker /\ x \in WorkerRow /\ Handled(w, x)
      /\ x.at = "me" /\ x.client \in Client /\ x.client # w /\ x.op \in {"confirm", "qr_password"}
  BY TypesHold, RowsOfLogin, Numbers DEF LoginInv, Stranger, AtMe, CodeUsed, Revoked, Handled,
     Worker, NoWork, Open
<1>2. MovesTo(w, "none", "idle", 0, NoRow, "none")
  BY <1>1, Moves, RowsOfLogin, TypesHold, Numbers DEF Stranger, AtMe, CodeUsed, Revoked, Place,
     Doing, Who, Raises
<1>3. /\ client[x.client].open
      /\ Alive(x.client)
      /\ troubles' \in 0..MaxTroubles
      /\ story' \subseteq {"tangled", "crash", "network", "late", "stray"}
      /\ story' = {} => story = {} /\ pass' = [pass EXCEPT ![client[x.client].key] = "revoked"]
      /\ login' = IF x.op = "confirm" THEN 0 ELSE login
      /\ UNCHANGED <<account, working, qr, attempt, lock, alarms, commands>>
  <2>1. troubles' \in 0..MaxTroubles
    BY <1>1, TypesHold, Numbers DEF Stranger
  <2>2. story' \subseteq {"tangled", "crash", "network", "late", "stray"}
    BY <1>1, TypesHold DEF Stranger
  <2>3. story' = {} => story = {} /\ pass' = [pass EXCEPT ![client[x.client].key] = "revoked"]
    BY <1>1 DEF Stranger, Revoked
  <2> QED BY <1>1, <2>1, <2>2, <2>3 DEF Stranger, CodeUsed
<1>4. /\ client' = Closed({x.client})
      /\ pass' = pass \/ pass' = [pass EXCEPT ![client[x.client].key] = "revoked"]
  BY <1>1, TypesHold DEF Stranger, AtMe, CodeUsed, Revoked
<1>5. Closes({x.client})
  BY <1>1, <1>3, <1>4, Changes, Numbers
<1>6. pass' = pass \/ Becomes(client[x.client].key, "revoked")
  BY <1>1, <1>3, <1>4, Changes, Numbers
<1>7. story' = {} => Becomes(client[x.client].key, "revoked")
  BY <1>1, <1>3, <1>4, Changes, Numbers
<1> HIDE DEF x
<1>8. LoginRows'
  <2>1. Handled(w, worker'[w]) /\ x.at # "tell" /\ worker'[w].at # "tell"
    BY <1>1, <1>2, <1>3, <1>5, <1>6, <1>7, TypesHold DEF Handled, MovesTo, NoWork, LoginOp
  <2>2. ClientsAreBuilt'
    <3>1. \A d \in Client : pass'[d] \in Person => pass[d] \in Person
      BY <1>1, <1>2, <1>3, <1>5, <1>6, <1>7 DEF Becomes, Person
    <3> QED BY <1>1, <1>2, <1>3, <1>5, <1>6, <1>7, <3>1, TypesHold DEF ClientsAreBuilt, Built,
               Closes
  <2>3. \A v \in Worker : worker'[v] = worker[v]
           \/ (worker[v].at # "tell" /\ worker'[v].at # "tell" /\ Handled(v, worker'[v]))
    BY <1>2, <2>1 DEF MovesTo, x
  <2> QED BY <1>1, <1>2, <1>3, <1>5, <1>6, <1>7, <2>2, <2>3, RowsFollow, TypesHold, Numbers
             DEF MovesTo, Closes, Becomes
<1>9. ASSUME story' = {} PROVE TurnOf(w)'
  <2>1. TurnOf(w)
    BY <1>1, <1>3, <1>4, <1>9, TurnGoesOn DEF x, AllDone
  <2>2. Rest(w)'
    BY <1>1, <1>2, <2>1, RestFollows DEF TurnOf
  <2>3. ScanIsAwaited'
    BY <1>1, <1>2, <1>3, <1>5, <1>6, <1>7, <1>9, <2>1, Numbers, TypesHold DEF TurnOf,
       ScanIsAwaited, Connected, MovesTo, Worker, Stage, NoQr, Pending, Open, Entered, x,
       Closes, Becomes
  <2>4. AttemptIsOurs'
    BY <1>1, <1>2, <1>3, <1>5, <1>6, <1>7, <1>9, <2>1 DEF TurnOf, AttemptIsOurs, Pending, Open,
       MovesTo, x, Closes, Becomes
  <2>5. QrWorks'
    BY <1>1, <1>2, <1>3, <1>5, <1>6, <1>7, <1>9, <2>1, Numbers, TypesHold DEF TurnOf, QrWorks,
       Open, Stage, Connected, NoQr, Pending, Entered, x, Closes, Becomes
  <2>6. AskedForCode'
    BY <1>1, <1>2, <1>3, <1>5, <1>6, <1>7, <1>9, <2>1, Numbers, TypesHold DEF TurnOf,
       AskedForCode, Stage, Connected, NoQr, Pending, Open, Entered, x, Closes, Becomes
  <2>7. NamedAreBuilt'
    BY <1>1, <1>2, <1>3, <1>5, <1>6, <1>7, <1>9, <2>1, Numbers, TypesHold DEF TurnOf,
       NamedAreBuilt, Built, Stage, Connected, NoQr, Pending, Open, Entered, x, Closes, Becomes
  <2>8. OpenForSomething(w)'
    BY <1>1, <1>2, <1>3, <1>5, <1>6, <1>7, <1>9, <2>1, Numbers DEF TurnOf, OpenForSomething,
       Holds, MovesTo, Stage, Connected, x, Closes, Becomes
  <2>9. OneAlive(w)'
    <3>1. \A k \in 0..MaxClients : Alive(k)' => Alive(k)
      BY <1>1, <1>2, <1>3, <1>5, <1>6, <1>7, Numbers DEF Alive, Becomes, Person
    <3>2. \A d \in Client : client[d].key \in 0..MaxClients
      BY <1>1, TypesHold DEF ClientRow
    <3>3. ASSUME NEW d \in Client, client'[d].open, Alive(client[d].key)' PROVE d = working
      <4>1. client[d].open /\ Alive(client[d].key) /\ d # x.client
        BY <1>1, <1>2, <1>3, <1>5, <1>6, <1>7, <3>1, <3>2, <3>3 DEF Closes, Alive
      <4> QED BY <1>1, <1>2, <1>3, <1>5, <1>6, <1>7, <1>9, <2>1, <4>1 DEF TurnOf, OneAlive,
                 Holds, x
    <3> QED BY <1>1, <1>2, <1>3, <1>5, <1>6, <1>7, <3>3 DEF OneAlive
  <2>10. SavedIsKept(w)'
    <3>1. \A k \in Client : pass[k] # "none" => pass'[k] # "none"
      BY <1>1, <1>2, <1>3, <1>5, <1>6, <1>7 DEF Becomes
    <3>2. account.session \in 0..MaxClients
      BY <1>1, TypesHold, RowsOfLogin
    <3>3. Open(working)' => Open(working) /\ client'[working].key = client[working].key
      BY <1>1, <1>2, <1>3, <1>5, <1>6, <1>7, TypesHold, Numbers DEF Open, Closes
    <3> QED BY <1>1, <1>2, <1>3, <1>5, <1>6, <1>7, <1>9, <2>1, <3>1, <3>2, <3>3, Numbers
               DEF TurnOf, SavedIsKept, x
  <2>11. AllOurs(w)'
    <3>1. Becomes(client[x.client].key, "revoked") /\ client[x.client].key = x.client
      BY <1>1, <1>2, <1>3, <1>5, <1>6, <1>7, <1>9, <2>1 DEF TurnOf, Stage, x
    <3>2. \A k \in Client : Alive(k)' => Alive(k) /\ pass'[k] = pass[k] /\ k # x.client
      BY <1>1, <1>2, <1>3, <1>5, <1>6, <1>7, <3>1 DEF Alive, Becomes, Person
    <3> QED BY <1>1, <1>2, <1>3, <1>5, <1>6, <1>7, <1>9, <2>1, <3>2 DEF TurnOf, AllOurs, Holds, x
  <2>12. GoneAtRest(w)'
    BY <1>1, <1>2, <1>3, <1>5, <1>6, <1>7, <1>9, <2>1 DEF TurnOf, GoneAtRest, MovesTo, x,
       Closes, Becomes
  <2>13. Stage(worker[w])'
    BY <1>1, <1>2, <1>3, <1>5, <1>6, <1>7, <1>9, <2>1 DEF TurnOf, Stage, MovesTo, x, Closes,
       Becomes
  <2> QED BY <2>2, <2>3, <2>4, <2>5, <2>6, <2>7, <2>8, <2>9, <2>10, <2>11, <2>12, <2>13 DEF TurnOf
<1> QED BY <1>8, <1>9, <1>1 DEF LoginInv

\* A stranger has scanned the picture.
LEMMA StrangerScansKeeps ==
  ASSUME LoginInv, NEW c \in Client, Stranger(c)
  PROVE  LoginInv'
<1> DEFINE x == worker[c]
<1>1. /\ LoginRows /\ c \in Worker /\ x \in WorkerRow /\ Handled(c, x)
      /\ x.at = "me" /\ x.client = c /\ x.op = "scan" /\ c \in Worker
  BY TypesHold, RowsOfLogin, Numbers DEF LoginInv, Stranger, AtMe, CodeUsed, Revoked, Handled,
     Worker, NoWork, Open
<1>2. MovesTo(c, "none", "idle", 0, NoRow, "none")
  BY <1>1, Moves, RowsOfLogin, TypesHold, Numbers DEF Stranger, AtMe, CodeUsed, Revoked, Place,
     Doing, Who, Raises
<1>3. /\ client[x.client].open
      /\ Alive(x.client)
      /\ troubles' \in 0..MaxTroubles
      /\ story' \subseteq {"tangled", "crash", "network", "late", "stray"}
      /\ story' = {} => story = {} /\ pass' = [pass EXCEPT ![client[x.client].key] = "revoked"]
      /\ UNCHANGED <<account, working, login, qr, lock, alarms, commands>>
  <2>1. troubles' \in 0..MaxTroubles
    BY <1>1, TypesHold, Numbers DEF Stranger
  <2>2. story' \subseteq {"tangled", "crash", "network", "late", "stray"}
    BY <1>1, TypesHold DEF Stranger
  <2>3. story' = {} => story = {} /\ pass' = [pass EXCEPT ![client[x.client].key] = "revoked"]
    BY <1>1 DEF Stranger, Revoked
  <2> QED BY <1>1, <2>1, <2>2, <2>3 DEF Stranger, CodeUsed
<1>4. /\ client' = Closed({x.client})
      /\ pass' = pass \/ pass' = [pass EXCEPT ![client[x.client].key] = "revoked"]
      /\ attempt' = [attempt EXCEPT ![c].state = "error"]
  BY <1>1, TypesHold DEF Stranger, AtMe, CodeUsed, Revoked
<1>5. Closes({x.client})
  BY <1>1, <1>3, <1>4, Changes, Numbers
<1>6. pass' = pass \/ Becomes(client[x.client].key, "revoked")
  BY <1>1, <1>3, <1>4, Changes, Numbers
<1>7. story' = {} => Becomes(client[x.client].key, "revoked")
  BY <1>1, <1>3, <1>4, Changes, Numbers
<1>8. TurnsTo(c, "error")
  BY <1>1, <1>3, <1>4, Changes, Numbers
<1> HIDE DEF x
<1>9. LoginRows'
  <2>1. Handled(c, worker'[c]) /\ x.at # "tell" /\ worker'[c].at # "tell"
    BY <1>1, <1>2, <1>3, <1>5, <1>6, <1>7, <1>8, TypesHold DEF Handled, MovesTo, NoWork, LoginOp
  <2>2. ClientsAreBuilt'
    <3>1. \A d \in Client : pass'[d] \in Person => pass[d] \in Person
      BY <1>1, <1>2, <1>3, <1>5, <1>6, <1>7, <1>8 DEF Becomes, Person
    <3> QED BY <1>1, <1>2, <1>3, <1>5, <1>6, <1>7, <1>8, <3>1, TypesHold DEF ClientsAreBuilt,
               Built, Closes
  <2>3. \A v \in Worker : worker'[v] = worker[v]
           \/ (worker[v].at # "tell" /\ worker'[v].at # "tell" /\ Handled(v, worker'[v]))
    BY <1>2, <2>1 DEF MovesTo, x
  <2> QED BY <1>1, <1>2, <1>3, <1>5, <1>6, <1>7, <1>8, <2>2, <2>3, RowsFollow, TypesHold,
             Numbers DEF MovesTo, Closes, TurnsTo, Becomes
<1>10. ASSUME story' = {} PROVE TurnOf(c)'
  <2>1. TurnOf(c)
    BY <1>1, <1>3, <1>4, <1>10, TurnGoesOn DEF x, AllDone
  <2>2. Rest(c)'
    BY <1>1, <1>2, <2>1, RestFollows DEF TurnOf
  <2>3. ScanIsAwaited'
    BY <1>1, <1>2, <1>3, <1>5, <1>6, <1>7, <1>8, <1>10, <2>1, Numbers DEF TurnOf, ScanIsAwaited,
       Connected, MovesTo, Worker, Stage, Connected, x, Closes, TurnsTo, Becomes
  <2>4. AttemptIsOurs'
    BY <1>1, <1>2, <1>3, <1>5, <1>6, <1>7, <1>8, <1>10, <2>1 DEF TurnOf, AttemptIsOurs, Pending,
       Open, MovesTo, x, Closes, TurnsTo, Becomes
  <2>5. QrWorks'
    BY <1>1, <1>2, <1>3, <1>5, <1>6, <1>7, <1>8, <1>10, <2>1, Numbers DEF TurnOf, QrWorks, Open,
       Stage, Connected, x, Closes, TurnsTo, Becomes
  <2>6. AskedForCode'
    BY <1>1, <1>2, <1>3, <1>5, <1>6, <1>7, <1>8, <1>10, <2>1, Numbers, TypesHold DEF TurnOf,
       AskedForCode, Stage, Connected, NoQr, Pending, Open, Entered, x, Closes, TurnsTo, Becomes
  <2>7. NamedAreBuilt'
    BY <1>1, <1>2, <1>3, <1>5, <1>6, <1>7, <1>8, <1>10, <2>1, Numbers, TypesHold DEF TurnOf,
       NamedAreBuilt, Built, Stage, Connected, NoQr, Pending, Open, Entered, x, Closes, TurnsTo,
       Becomes
  <2>8. OpenForSomething(c)'
    BY <1>1, <1>2, <1>3, <1>5, <1>6, <1>7, <1>8, <1>10, <2>1 DEF TurnOf, OpenForSomething,
       Holds, MovesTo, x, Closes, TurnsTo, Becomes
  <2>9. OneAlive(c)'
    <3>1. \A k \in 0..MaxClients : Alive(k)' => Alive(k)
      BY <1>1, <1>2, <1>3, <1>5, <1>6, <1>7, <1>8, Numbers DEF Alive, Becomes, Person
    <3>2. \A d \in Client : client[d].key \in 0..MaxClients
      BY <1>1, TypesHold DEF ClientRow
    <3>3. ASSUME NEW d \in Client, client'[d].open, Alive(client[d].key)' PROVE d = working
      <4>1. client[d].open /\ Alive(client[d].key) /\ d # x.client
        BY <1>1, <1>2, <1>3, <1>5, <1>6, <1>7, <1>8, <3>1, <3>2, <3>3 DEF Closes, Alive
      <4> QED BY <1>1, <1>2, <1>3, <1>5, <1>6, <1>7, <1>8, <1>10, <2>1, <4>1 DEF TurnOf,
                 OneAlive, Holds, x
    <3> QED BY <1>1, <1>2, <1>3, <1>5, <1>6, <1>7, <1>8, <3>3 DEF OneAlive
  <2>10. SavedIsKept(c)'
    <3>1. \A k \in Client : pass[k] # "none" => pass'[k] # "none"
      BY <1>1, <1>2, <1>3, <1>5, <1>6, <1>7, <1>8 DEF Becomes
    <3>2. account.session \in 0..MaxClients
      BY <1>1, TypesHold, RowsOfLogin
    <3>3. Open(working)' => Open(working) /\ client'[working].key = client[working].key
      BY <1>1, <1>2, <1>3, <1>5, <1>6, <1>7, <1>8, TypesHold, Numbers DEF Open, Closes
    <3> QED BY <1>1, <1>2, <1>3, <1>5, <1>6, <1>7, <1>8, <1>10, <2>1, <3>1, <3>2, <3>3, Numbers
               DEF TurnOf, SavedIsKept, x
  <2>11. AllOurs(c)'
    <3>1. Becomes(client[x.client].key, "revoked") /\ client[x.client].key = x.client
      BY <1>1, <1>2, <1>3, <1>5, <1>6, <1>7, <1>8, <1>10, <2>1 DEF TurnOf, Stage, x
    <3>2. \A k \in Client : Alive(k)' => Alive(k) /\ pass'[k] = pass[k] /\ k # x.client
      BY <1>1, <1>2, <1>3, <1>5, <1>6, <1>7, <1>8, <3>1 DEF Alive, Becomes, Person
    <3> QED BY <1>1, <1>2, <1>3, <1>5, <1>6, <1>7, <1>8, <1>10, <2>1, <3>2 DEF TurnOf, AllOurs,
               Holds, x
  <2>12. GoneAtRest(c)'
    BY <1>1, <1>2, <1>3, <1>5, <1>6, <1>7, <1>8, <1>10, <2>1 DEF TurnOf, GoneAtRest, MovesTo, x,
       Closes, TurnsTo, Becomes
  <2>13. Stage(worker[c])'
    BY <1>1, <1>2, <1>3, <1>5, <1>6, <1>7, <1>8, <1>10, <2>1 DEF TurnOf, Stage, MovesTo, x,
       Closes, TurnsTo, Becomes
  <2> QED BY <2>2, <2>3, <2>4, <2>5, <2>6, <2>7, <2>8, <2>9, <2>10, <2>11, <2>12, <2>13 DEF TurnOf
<1> QED BY <1>9, <1>10, <1>1 DEF LoginInv

-----------------------------------------------------------------------------
(* The right person: his client works from now on.                         *)

\* The right person, by a code, and no other client to close.
LEMMA CodeWelcomeKeeps ==
  ASSUME LoginInv, NEW w \in Worker, Welcome(w), worker[w].op = "confirm",
                 ~Open(working) \/ working = worker[w].client
  PROVE  LoginInv'
<1> DEFINE x == worker[w]
<1>1. /\ LoginRows /\ w \in Worker /\ x \in WorkerRow /\ Handled(w, x)
      /\ x.at = "me" /\ x.client \in Client /\ x.op = "confirm"
  BY TypesHold, RowsOfLogin, Numbers DEF LoginInv, Welcome, AtMe, SameUser, OldClient, Open,
     GoesToWork, AfterSwap, CodeUsed, Alive, Handled, Worker, NoWork, Open
<1>2. MovesTo(w, x.op, "save", x.client, x.seen, pass[x.client])
  <2>1. OldClient(x.client) = {}
    BY DEF OldClient
  <2>2. worker' = [worker EXCEPT ![w].at = "save", ![w].who = pass[x.client]]
    BY <1>1, <2>1 DEF Welcome, GoesToWork, AfterSwap
  <2>3. pass[x.client] \in Who
    BY DEF Welcome, Alive, Who
  <2>4. "save" \in Place
    BY DEF Place
  <2> QED BY <1>1, <2>2, <2>3, <2>4, Moves
<1>3. /\ client[x.client].open
      /\ pass[x.client] \in Person
      /\ x.seen.user \in {"none", pass[x.client]}
      /\ login' = 0
      /\ working' = x.client
      /\ UNCHANGED <<account, pass, qr, attempt, lock, alarms, commands, troubles, story>>
  BY <1>1, TypesHold DEF Welcome, AtMe, SameUser, OldClient, Open, GoesToWork, AfterSwap, CodeUsed,
     Alive
<1>4. client' = Closed({})
  BY <1>1, TypesHold DEF Welcome, AtMe, SameUser, OldClient, Open, GoesToWork, AfterSwap, CodeUsed,
     Alive
<1>5. Closes({})
  BY <1>1, <1>3, <1>4, Changes, Numbers
<1> HIDE DEF x
<1>6. LoginRows'
  <2>1. Handled(w, worker'[w]) /\ x.at # "tell" /\ worker'[w].at # "tell"
    BY <1>1, <1>2, <1>3, <1>5, TypesHold DEF Handled, MovesTo, NoWork, LoginOp
  <2>2. ClientsAreBuilt'
    BY <1>1, <1>2, <1>3, <1>5, TypesHold, Numbers DEF ClientsAreBuilt, Built, Closes
  <2>3. \A v \in Worker : worker'[v] = worker[v]
           \/ (worker[v].at # "tell" /\ worker'[v].at # "tell" /\ Handled(v, worker'[v]))
    BY <1>2, <2>1 DEF MovesTo, x
  <2> QED BY <1>1, <1>2, <1>3, <1>5, <2>2, <2>3, RowsFollow, TypesHold, Numbers DEF MovesTo,
             Closes
<1>7. ASSUME story' = {} PROVE TurnOf(w)'
  <2>1. TurnOf(w)
    BY <1>1, <1>3, <1>4, <1>7, TurnGoesOn DEF x, AllDone
  <2>2. Rest(w)'
    BY <1>1, <1>2, <2>1, RestFollows DEF TurnOf
  <2>3. ScanIsAwaited'
    BY <1>1, <1>2, <1>3, <1>5, <1>7, <2>1 DEF TurnOf, ScanIsAwaited, Connected, MovesTo, Worker,
       x, Closes
  <2>4. AttemptIsOurs'
    BY <1>1, <1>2, <1>3, <1>5, <1>7, <2>1 DEF TurnOf, AttemptIsOurs, Pending, Open, MovesTo, x,
       Closes
  <2>5. QrWorks'
    BY <1>1, <1>3, <1>5, <2>1, Numbers, TypesHold DEF TurnOf, QrWorks, Open, x, Closes
  <2>6. AskedForCode'
    BY <1>1, <1>2, <1>3, <1>5, <1>7, <2>1 DEF TurnOf, AskedForCode, x, Closes
  <2>7. NamedAreBuilt'
    <3>1. client[x.client].key = x.client
      BY <1>1, <1>2, <1>3, <1>5, <1>7, <2>1 DEF TurnOf, Stage, x
    <3>2. /\ \A d \in Client : client'[d].key = client[d].key
          /\ working' = x.client /\ x.client \in Client
      BY <1>1, <1>2, <1>3, <1>5 DEF Closes
    <3> QED BY <1>1, <1>2, <1>3, <1>5, <1>7, <2>1, <3>1, <3>2, TypesHold, Numbers DEF TurnOf,
               NamedAreBuilt, Built
  <2>8. OpenForSomething(w)'
    BY <1>1, <1>3, <1>5, <2>1 DEF TurnOf, OpenForSomething, Holds, Stage, Open, x, Closes
  <2>9. OneAlive(w)'
    BY <1>3, <1>5, <2>1, Numbers DEF TurnOf, OneAlive, Alive, Holds, Open, x, Closes
  <2>10. SavedIsKept(w)'
    BY <1>1, <1>2, <1>3, <1>5, <1>7, <2>1 DEF TurnOf, SavedIsKept, Open, MovesTo, x, Closes
  <2>11. AllOurs(w)'
    BY <1>1, <1>2, <1>3, <1>5, <1>7, <2>1 DEF TurnOf, AllOurs, Alive, Holds, MovesTo, x, Closes
  <2>12. GoneAtRest(w)'
    BY <1>1, <1>2, <1>3, <1>5, <1>7, <2>1 DEF TurnOf, GoneAtRest, MovesTo, x, Closes
  <2>13. Stage(worker[w])'
    BY <1>1, <1>2, <1>3, <1>5, <2>1 DEF TurnOf, Stage, MovesTo, NoQr, Pending, Open, Entered, x,
       Closes
  <2> QED BY <2>2, <2>3, <2>4, <2>5, <2>6, <2>7, <2>8, <2>9, <2>10, <2>11, <2>12, <2>13 DEF TurnOf
<1> QED BY <1>6, <1>7, <1>1 DEF LoginInv

\* The right person, by a code: the client that worked is closed.
LEMMA CodeSwapsKeeps ==
  ASSUME LoginInv, NEW w \in Worker, Welcome(w), worker[w].op = "confirm", Open(working)
  /\ working # worker[w].client
  PROVE  LoginInv'
<1> DEFINE x == worker[w]
<1>1. /\ LoginRows /\ w \in Worker /\ x \in WorkerRow /\ Handled(w, x)
      /\ x.at = "me" /\ x.client \in Client /\ x.op = "confirm"
  BY TypesHold, RowsOfLogin, Numbers DEF LoginInv, Welcome, AtMe, SameUser, OldClient, Open,
     GoesToWork, AfterSwap, CodeUsed, Alive, Handled, Worker, NoWork, Open
<1>2. MovesTo(w, x.op, "swap", x.client, x.seen, pass[x.client])
  BY <1>1, Moves, RowsOfLogin, TypesHold, Numbers DEF Welcome, AtMe, SameUser, OldClient, Open,
     GoesToWork, AfterSwap, CodeUsed, Alive, Place, Doing, Who, Raises
<1>3. /\ client[x.client].open
      /\ pass[x.client] \in Person
      /\ x.seen.user \in {"none", pass[x.client]}
      /\ login' = 0
      /\ UNCHANGED <<account, pass, working, qr, attempt, lock, alarms, commands, troubles, story>>
  BY <1>1, TypesHold DEF Welcome, AtMe, SameUser, OldClient, Open, GoesToWork, AfterSwap, CodeUsed,
     Alive
<1>4. client' = Closed({working})
  BY <1>1, TypesHold DEF Welcome, AtMe, SameUser, OldClient, Open, GoesToWork, AfterSwap, CodeUsed,
     Alive
<1>5. Closes({working})
  BY <1>1, <1>3, <1>4, Changes, Numbers
<1> HIDE DEF x
<1>6. LoginRows'
  <2>1. Handled(w, worker'[w]) /\ x.at # "tell" /\ worker'[w].at # "tell"
    BY <1>1, <1>2, <1>3, <1>5, TypesHold DEF Handled, MovesTo, NoWork, LoginOp
  <2>2. ClientsAreBuilt'
    BY <1>1, <1>2, <1>3, <1>5, TypesHold, Numbers DEF ClientsAreBuilt, Built, Closes
  <2>3. \A v \in Worker : worker'[v] = worker[v]
           \/ (worker[v].at # "tell" /\ worker'[v].at # "tell" /\ Handled(v, worker'[v]))
    BY <1>2, <2>1 DEF MovesTo, x
  <2> QED BY <1>1, <1>2, <1>3, <1>5, <2>2, <2>3, RowsFollow, TypesHold, Numbers DEF MovesTo,
             Closes
<1>7. ASSUME story' = {} PROVE TurnOf(w)'
  <2>1. TurnOf(w)
    BY <1>1, <1>3, <1>4, <1>7, TurnGoesOn DEF x, AllDone
  <2>2. Rest(w)'
    BY <1>1, <1>2, <2>1, RestFollows DEF TurnOf
  <2>3. ScanIsAwaited'
    BY <1>1, <1>2, <1>3, <1>5, <2>1 DEF TurnOf, ScanIsAwaited, Connected, MovesTo, Worker,
       Stage, NoQr, Pending, x, Closes
  <2>4. AttemptIsOurs'
    BY <1>1, <1>2, <1>3, <1>5, <1>7, <2>1 DEF TurnOf, AttemptIsOurs, Pending, Open, MovesTo, x,
       Closes
  <2>5. QrWorks'
    BY <1>1, <1>3, <1>5, <2>1, Numbers, TypesHold DEF TurnOf, QrWorks, Open, Closes
  <2>6. AskedForCode'
    BY <1>1, <1>2, <1>3, <1>5, <1>7, <2>1 DEF TurnOf, AskedForCode, x, Closes
  <2>7. NamedAreBuilt'
    BY <1>1, <1>3, <1>5, <2>1, Numbers, TypesHold DEF TurnOf, NamedAreBuilt, Built, Closes
  <2>8. OpenForSomething(w)'
    BY <1>1, <1>2, <1>3, <1>5, <1>7, <2>1, Numbers DEF TurnOf, OpenForSomething, Holds, MovesTo,
       Stage, Connected, x, Closes
  <2>9. OneAlive(w)'
    BY <1>1, <1>2, <1>3, <1>5, <1>7, <2>1 DEF TurnOf, OneAlive, Alive, Holds, MovesTo, x, Closes
  <2>10. SavedIsKept(w)'
    BY <1>1, <1>3, <1>5, <2>1, Numbers, TypesHold DEF TurnOf, SavedIsKept, Open, Closes
  <2>11. AllOurs(w)'
    BY <1>1, <1>2, <1>3, <1>5, <1>7, <2>1 DEF TurnOf, AllOurs, Alive, Holds, MovesTo, x, Closes
  <2>12. GoneAtRest(w)'
    BY <1>1, <1>2, <1>3, <1>5, <1>7, <2>1 DEF TurnOf, GoneAtRest, MovesTo, x, Closes
  <2>13. Stage(worker[w])'
    BY <1>1, <1>2, <1>3, <1>5, <2>1, Numbers, TypesHold DEF TurnOf, Stage, MovesTo, NoQr,
       Pending, Open, Entered, x, Closes
  <2> QED BY <2>2, <2>3, <2>4, <2>5, <2>6, <2>7, <2>8, <2>9, <2>10, <2>11, <2>12, <2>13 DEF TurnOf
<1> QED BY <1>6, <1>7, <1>1 DEF LoginInv

\* The right person, by the picture, and no other client to close.
LEMMA QrWelcomeKeeps ==
  ASSUME LoginInv, NEW w \in Worker, Welcome(w), worker[w].op # "confirm",
                 ~Open(working) \/ working = worker[w].client
  PROVE  LoginInv'
<1> DEFINE x == worker[w]
<1>1. /\ LoginRows /\ w \in Worker /\ x \in WorkerRow /\ Handled(w, x)
      /\ x.at = "me" /\ x.client \in Client /\ x.op # "confirm"
  BY TypesHold, RowsOfLogin, Numbers DEF LoginInv, Welcome, AtMe, SameUser, OldClient, Open,
     GoesToWork, AfterSwap, CodeUsed, Alive, Handled, Worker, NoWork, Open
<1>2. MovesTo(w, x.op, "load", x.client, x.seen, pass[x.client])
  <2>1. OldClient(x.client) = {}
    BY DEF OldClient
  <2>2. worker' = [worker EXCEPT ![w].at = "load", ![w].who = pass[x.client]]
    BY <1>1, <2>1 DEF Welcome, GoesToWork, AfterSwap
  <2>3. pass[x.client] \in Who
    BY DEF Welcome, Alive, Who
  <2>4. "load" \in Place
    BY DEF Place
  <2> QED BY <1>1, <2>2, <2>3, <2>4, Moves
<1>3. /\ client[x.client].open
      /\ pass[x.client] \in Person
      /\ attempt[x.client].wanted \in {"none", pass[x.client]}
      /\ working' = x.client
      /\ UNCHANGED <<account, pass, login, qr, lock, alarms, commands, troubles, story>>
  BY <1>1, TypesHold DEF Welcome, AtMe, SameUser, OldClient, Open, GoesToWork, AfterSwap, CodeUsed,
     Alive
<1>4. /\ client' = Closed({})
      /\ attempt' = [attempt EXCEPT ![x.client].state = "done"]
  BY <1>1, TypesHold DEF Welcome, AtMe, SameUser, OldClient, Open, GoesToWork, AfterSwap, CodeUsed,
     Alive
<1>5. Closes({})
  BY <1>1, <1>3, <1>4, Changes, Numbers
<1>6. TurnsTo(x.client, "done")
  BY <1>1, <1>3, <1>4, Changes, Numbers
<1> HIDE DEF x
<1>7. LoginRows'
  <2>1. Handled(w, worker'[w]) /\ x.at # "tell" /\ worker'[w].at # "tell"
    BY <1>1, <1>2, <1>3, <1>5, <1>6, TypesHold DEF Handled, MovesTo, NoWork, LoginOp
  <2>2. ClientsAreBuilt'
    BY <1>1, <1>2, <1>3, <1>5, <1>6, TypesHold, Numbers DEF ClientsAreBuilt, Built, Closes,
       TurnsTo
  <2>3. \A v \in Worker : worker'[v] = worker[v]
           \/ (worker[v].at # "tell" /\ worker'[v].at # "tell" /\ Handled(v, worker'[v]))
    BY <1>2, <2>1 DEF MovesTo, x
  <2> QED BY <1>1, <1>2, <1>3, <1>5, <1>6, <2>2, <2>3, RowsFollow, TypesHold, Numbers
             DEF MovesTo, Closes, TurnsTo
<1>8. ASSUME story' = {} PROVE TurnOf(w)'
  <2>1. TurnOf(w)
    BY <1>1, <1>3, <1>4, <1>8, TurnGoesOn DEF x, AllDone
  <2>2. Rest(w)'
    BY <1>1, <1>2, <2>1, RestFollows DEF TurnOf
  <2>3. ScanIsAwaited'
    BY <1>1, <1>2, <1>3, <1>5, <1>6, <1>8, <2>1, Numbers, TypesHold DEF TurnOf, ScanIsAwaited,
       Connected, MovesTo, Worker, Stage, NoQr, Pending, Open, Entered, Handled, Holds, Alive,
       MindsQr, AttemptIsOurs, x, Closes, TurnsTo
  <2>4. AttemptIsOurs'
    BY <1>1, <1>2, <1>3, <1>5, <1>6, <1>8, <2>1 DEF TurnOf, AttemptIsOurs, Pending, Open,
       MovesTo, x, Closes, TurnsTo
  <2>5. QrWorks'
    BY <1>1, <1>2, <1>3, <1>5, <1>6, <1>8, <2>1, Numbers DEF TurnOf, QrWorks, Open, Stage,
       Connected, x, Closes, TurnsTo
  <2>6. AskedForCode'
    BY <1>1, <1>2, <1>3, <1>5, <1>6, <1>8, <2>1, Numbers, TypesHold DEF TurnOf, AskedForCode,
       Stage, Connected, NoQr, Pending, Open, Entered, x, Closes, TurnsTo
  <2>7. NamedAreBuilt'
    BY <1>1, <1>2, <1>3, <1>5, <1>6, <1>8, <2>1, Numbers DEF TurnOf, NamedAreBuilt, Built,
       Stage, Connected, x, Closes, TurnsTo
  <2>8. OpenForSomething(w)'
    BY <1>1, <1>2, <1>3, <1>5, <1>6, <1>8, <2>1, Numbers, TypesHold DEF TurnOf,
       OpenForSomething, Holds, MovesTo, Stage, Connected, NoQr, Pending, Open, Entered, x,
       Closes, TurnsTo
  <2>9. OneAlive(w)'
    BY <1>1, <1>2, <1>3, <1>5, <1>6, <1>8, <2>1, Numbers, TypesHold DEF TurnOf, OneAlive, Alive,
       Holds, MovesTo, Stage, Connected, NoQr, Pending, Open, Entered, x, Closes, TurnsTo
  <2>10. SavedIsKept(w)'
    BY <1>1, <1>2, <1>3, <1>5, <1>6, <1>8, <2>1 DEF TurnOf, SavedIsKept, Open, MovesTo, x,
       Closes, TurnsTo
  <2>11. AllOurs(w)'
    BY <1>1, <1>2, <1>3, <1>5, <1>6, <1>8, <2>1 DEF TurnOf, AllOurs, Alive, Holds, MovesTo, x,
       Closes, TurnsTo
  <2>12. GoneAtRest(w)'
    BY <1>1, <1>2, <1>3, <1>5, <1>6, <1>8, <2>1 DEF TurnOf, GoneAtRest, MovesTo, x, Closes,
       TurnsTo
  <2>13. Stage(worker[w])'
    <3>1. client[x.client].key = x.client /\ qr = x.client /\ Pending(x.client)
      BY <1>1, <1>2, <1>3, <1>5, <1>6, <1>8, <2>1 DEF TurnOf, Stage, x
    <3>2. attempt[x.client].wanted = account.user
      BY <1>1, <1>2, <1>3, <1>5, <1>6, <1>8, <2>1, <3>1 DEF TurnOf, AttemptIsOurs
    <3>3. NoQr'
      <4>1. ASSUME NEW d \in Client, Pending(d)' PROVE d # x.client /\ Pending(d)
        BY <1>1, <1>2, <1>3, <1>5, <1>6, <4>1 DEF Pending, Open, Closes, TurnsTo
      <4> QED BY <1>1, <1>2, <1>3, <1>5, <1>6, <1>8, <2>1, <3>1, <4>1 DEF TurnOf, AttemptIsOurs,
                 NoQr
    <3>4. Entered(worker[w])'
      BY <1>1, <1>2, <1>3, <1>5, <1>6, <3>2 DEF Entered, MovesTo
    <3>5. client'[x.client].key = x.client
      BY <1>1, <1>2, <1>3, <1>5, <1>6, <3>1 DEF Closes
    <3> QED BY <1>1, <1>2, <1>3, <1>5, <1>6, <3>3, <3>4, <3>5 DEF Stage, MovesTo
  <2> QED BY <2>2, <2>3, <2>4, <2>5, <2>6, <2>7, <2>8, <2>9, <2>10, <2>11, <2>12, <2>13 DEF TurnOf
<1> QED BY <1>7, <1>8, <1>1 DEF LoginInv

\* The right person, by the picture: the client that worked is closed.
LEMMA QrSwapsKeeps ==
  ASSUME LoginInv, NEW w \in Worker, Welcome(w), worker[w].op # "confirm", Open(working)
  /\ working # worker[w].client
  PROVE  LoginInv'
<1> DEFINE x == worker[w]
<1>1. /\ LoginRows /\ w \in Worker /\ x \in WorkerRow /\ Handled(w, x)
      /\ x.at = "me" /\ x.client \in Client /\ x.op # "confirm"
  BY TypesHold, RowsOfLogin, Numbers DEF LoginInv, Welcome, AtMe, SameUser, OldClient, Open,
     GoesToWork, AfterSwap, CodeUsed, Alive, Handled, Worker, NoWork, Open
<1>2. MovesTo(w, x.op, "swap", x.client, x.seen, pass[x.client])
  BY <1>1, Moves, RowsOfLogin, TypesHold, Numbers DEF Welcome, AtMe, SameUser, OldClient, Open,
     GoesToWork, AfterSwap, CodeUsed, Alive, Place, Doing, Who, Raises
<1>3. /\ client[x.client].open
      /\ pass[x.client] \in Person
      /\ attempt[x.client].wanted \in {"none", pass[x.client]}
      /\ UNCHANGED <<account, pass, working, login, qr, attempt, lock, alarms, commands, troubles, story>>
  BY <1>1, TypesHold DEF Welcome, AtMe, SameUser, OldClient, Open, GoesToWork, AfterSwap, CodeUsed,
     Alive
<1>4. client' = Closed({working})
  BY <1>1, TypesHold DEF Welcome, AtMe, SameUser, OldClient, Open, GoesToWork, AfterSwap, CodeUsed,
     Alive
<1>5. Closes({working})
  BY <1>1, <1>3, <1>4, Changes, Numbers
<1> HIDE DEF x
<1>6. LoginRows'
  <2>1. Handled(w, worker'[w]) /\ x.at # "tell" /\ worker'[w].at # "tell"
    BY <1>1, <1>2, <1>3, <1>5, TypesHold DEF Handled, MovesTo, NoWork, LoginOp
  <2>2. ClientsAreBuilt'
    BY <1>1, <1>2, <1>3, <1>5, TypesHold, Numbers DEF ClientsAreBuilt, Built, Closes
  <2>3. \A v \in Worker : worker'[v] = worker[v]
           \/ (worker[v].at # "tell" /\ worker'[v].at # "tell" /\ Handled(v, worker'[v]))
    BY <1>2, <2>1 DEF MovesTo, x
  <2> QED BY <1>1, <1>2, <1>3, <1>5, <2>2, <2>3, RowsFollow, TypesHold, Numbers DEF MovesTo,
             Closes
<1>7. ASSUME story' = {} PROVE TurnOf(w)'
  <2>1. TurnOf(w)
    BY <1>1, <1>3, <1>4, <1>7, TurnGoesOn DEF x, AllDone
  <2>2. Rest(w)'
    BY <1>1, <1>2, <2>1, RestFollows DEF TurnOf
  <2>3. ScanIsAwaited'
    BY <1>1, <1>2, <1>3, <1>5, <1>7, <2>1, Numbers DEF TurnOf, ScanIsAwaited, Connected,
       MovesTo, Worker, Stage, Connected, x, Closes
  <2>4. AttemptIsOurs'
    BY <1>1, <1>2, <1>3, <1>5, <1>7, <2>1 DEF TurnOf, AttemptIsOurs, Pending, Open, MovesTo, x,
       Closes
  <2>5. QrWorks'
    BY <1>1, <1>2, <1>3, <1>5, <1>7, <2>1, Numbers DEF TurnOf, QrWorks, Open, Stage, Connected,
       x, Closes
  <2>6. AskedForCode'
    BY <1>1, <1>2, <1>3, <1>5, <1>7, <2>1, Numbers, TypesHold DEF TurnOf, AskedForCode, Stage,
       Connected, NoQr, Pending, Open, Entered, x, Closes
  <2>7. NamedAreBuilt'
    BY <1>1, <1>3, <1>5, <2>1, Numbers, TypesHold DEF TurnOf, NamedAreBuilt, Built, Closes
  <2>8. OpenForSomething(w)'
    BY <1>1, <1>2, <1>3, <1>5, <1>7, <2>1 DEF TurnOf, OpenForSomething, Holds, MovesTo, x, Closes
  <2>9. OneAlive(w)'
    BY <1>1, <1>2, <1>3, <1>5, <1>7, <2>1 DEF TurnOf, OneAlive, Alive, Holds, MovesTo, x, Closes
  <2>10. SavedIsKept(w)'
    BY <1>1, <1>2, <1>3, <1>5, <1>7, <2>1, Numbers, TypesHold DEF TurnOf, SavedIsKept, Open,
       MovesTo, Stage, Connected, NoQr, Pending, Entered, x, Closes
  <2>11. AllOurs(w)'
    BY <1>1, <1>2, <1>3, <1>5, <1>7, <2>1 DEF TurnOf, AllOurs, Alive, Holds, MovesTo, x, Closes
  <2>12. GoneAtRest(w)'
    BY <1>1, <1>2, <1>3, <1>5, <1>7, <2>1 DEF TurnOf, GoneAtRest, MovesTo, x, Closes
  <2>13. Stage(worker[w])'
    BY <1>1, <1>2, <1>3, <1>5, <1>7, <2>1, Numbers, TypesHold DEF TurnOf, Stage, MovesTo,
       Connected, NoQr, Pending, Open, Entered, Handled, Holds, Alive, MindsQr, AttemptIsOurs,
       ScanIsAwaited, Worker, x, Closes
  <2> QED BY <2>2, <2>3, <2>4, <2>5, <2>6, <2>7, <2>8, <2>9, <2>10, <2>11, <2>12, <2>13 DEF TurnOf
<1> QED BY <1>6, <1>7, <1>1 DEF LoginInv

\* The client of a code works.
LEMMA SwappedCodeKeeps ==
  ASSUME LoginInv, NEW w \in Worker, Swap(w), worker[w].op = "confirm"
  PROVE  LoginInv'
<1> DEFINE x == worker[w]
<1>1. /\ LoginRows /\ w \in Worker /\ x \in WorkerRow /\ Handled(w, x)
      /\ x.at = "swap" /\ x.client \in Client /\ x.op = "confirm" /\ x.who \in Person
  BY TypesHold, RowsOfLogin, Numbers DEF LoginInv, Swap, GoesToWork, AfterSwap, Handled, Worker,
     NoWork, Open
<1>2. MovesTo(w, x.op, "save", x.client, x.seen, x.who)
  BY <1>1, Moves, RowsOfLogin, TypesHold, Numbers DEF Swap, GoesToWork, AfterSwap, Place, Doing, Who,
     Raises
<1>3. /\ working' = x.client
      /\ UNCHANGED <<account, client, pass, login, qr, attempt, lock, alarms, commands, troubles, story>>
  BY <1>1, TypesHold DEF Swap, GoesToWork, AfterSwap
<1> HIDE DEF x
<1>4. LoginRows'
  <2>1. Handled(w, worker'[w]) /\ x.at # "tell" /\ worker'[w].at # "tell"
    BY <1>1, <1>2, <1>3, TypesHold DEF Handled, MovesTo, NoWork, LoginOp
  <2>2. ClientsAreBuilt'
    BY <1>1, <1>2, <1>3, TypesHold, Numbers DEF ClientsAreBuilt, Built
  <2>3. \A v \in Worker : worker'[v] = worker[v]
           \/ (worker[v].at # "tell" /\ worker'[v].at # "tell" /\ Handled(v, worker'[v]))
    BY <1>2, <2>1 DEF MovesTo, x
  <2> QED BY <1>1, <1>2, <1>3, <2>2, <2>3, RowsFollow, TypesHold, Numbers DEF MovesTo
<1>5. ASSUME story' = {} PROVE TurnOf(w)'
  <2>1. TurnOf(w)
    BY <1>1, <1>3, <1>5, TurnGoesOn DEF x, AllDone
  <2>2. Rest(w)'
    BY <1>1, <1>2, <2>1, RestFollows DEF TurnOf
  <2>3. ScanIsAwaited'
    BY <1>1, <1>2, <1>3, <1>5, <2>1 DEF TurnOf, ScanIsAwaited, Connected, MovesTo, Worker, x
  <2>4. AttemptIsOurs'
    BY <1>1, <1>2, <1>3, <1>5, <2>1 DEF TurnOf, AttemptIsOurs, Pending, Open, MovesTo, x
  <2>5. QrWorks'
    BY <1>1, <1>2, <1>3, <1>5, <2>1, Numbers DEF TurnOf, QrWorks, Open, Stage, Connected, x
  <2>6. AskedForCode'
    BY <1>1, <1>2, <1>3, <1>5, <2>1 DEF TurnOf, AskedForCode, x
  <2>7. NamedAreBuilt'
    BY <1>1, <1>2, <1>3, <1>5, <2>1, Numbers DEF TurnOf, NamedAreBuilt, Built, Stage, Connected, x
  <2>8. OpenForSomething(w)'
    BY <1>1, <1>2, <1>3, <1>5, <2>1, Numbers, TypesHold DEF TurnOf, OpenForSomething, Holds,
       MovesTo, Stage, Connected, NoQr, Pending, Open, Entered, x
  <2>9. OneAlive(w)'
    BY <1>1, <1>2, <1>3, <1>5, <2>1, Numbers, TypesHold DEF TurnOf, OneAlive, Alive, Holds,
       MovesTo, Stage, Connected, NoQr, Pending, Open, Entered, x
  <2>10. SavedIsKept(w)'
    BY <1>1, <1>2, <1>3, <1>5, <2>1 DEF TurnOf, SavedIsKept, Open, MovesTo, x
  <2>11. AllOurs(w)'
    BY <1>1, <1>2, <1>3, <1>5, <2>1 DEF TurnOf, AllOurs, Alive, Holds, MovesTo, x
  <2>12. GoneAtRest(w)'
    BY <1>1, <1>2, <1>3, <1>5, <2>1 DEF TurnOf, GoneAtRest, MovesTo, x
  <2>13. Stage(worker[w])'
    BY <1>1, <1>2, <1>3, <1>5, <2>1, Numbers, TypesHold DEF TurnOf, Stage, MovesTo, Connected,
       NoQr, Pending, Open, Entered, x
  <2> QED BY <2>2, <2>3, <2>4, <2>5, <2>6, <2>7, <2>8, <2>9, <2>10, <2>11, <2>12, <2>13 DEF TurnOf
<1> QED BY <1>4, <1>5, <1>1 DEF LoginInv

\* The client of the picture works.
LEMMA SwappedQrKeeps ==
  ASSUME LoginInv, NEW w \in Worker, Swap(w), worker[w].op # "confirm"
  PROVE  LoginInv'
<1> DEFINE x == worker[w]
<1>1. /\ LoginRows /\ w \in Worker /\ x \in WorkerRow /\ Handled(w, x)
      /\ x.at = "swap" /\ x.client \in Client /\ x.op # "confirm" /\ x.who \in Person
  BY TypesHold, RowsOfLogin, Numbers DEF LoginInv, Swap, GoesToWork, AfterSwap, Handled, Worker,
     NoWork, Open
<1>2. MovesTo(w, x.op, "load", x.client, x.seen, x.who)
  BY <1>1, Moves, RowsOfLogin, TypesHold, Numbers DEF Swap, GoesToWork, AfterSwap, Place, Doing, Who,
     Raises
<1>3. /\ working' = x.client
      /\ UNCHANGED <<account, client, pass, login, qr, lock, alarms, commands, troubles, story>>
  BY <1>1, TypesHold DEF Swap, GoesToWork, AfterSwap
<1>4. attempt' = [attempt EXCEPT ![x.client].state = "done"]
  BY <1>1, TypesHold DEF Swap, GoesToWork, AfterSwap
<1>5. TurnsTo(x.client, "done")
  BY <1>1, <1>3, <1>4, Changes, Numbers
<1> HIDE DEF x
<1>6. LoginRows'
  <2>1. Handled(w, worker'[w]) /\ x.at # "tell" /\ worker'[w].at # "tell"
    BY <1>1, <1>2, <1>3, <1>5, TypesHold DEF Handled, MovesTo, NoWork, LoginOp
  <2>2. ClientsAreBuilt'
    BY <1>1, <1>2, <1>3, <1>5, TypesHold, Numbers DEF ClientsAreBuilt, Built, TurnsTo
  <2>3. \A v \in Worker : worker'[v] = worker[v]
           \/ (worker[v].at # "tell" /\ worker'[v].at # "tell" /\ Handled(v, worker'[v]))
    BY <1>2, <2>1 DEF MovesTo, x
  <2> QED BY <1>1, <1>2, <1>3, <1>5, <2>2, <2>3, RowsFollow, TypesHold, Numbers DEF MovesTo,
             TurnsTo
<1>7. ASSUME story' = {} PROVE TurnOf(w)'
  <2>1. TurnOf(w)
    BY <1>1, <1>3, <1>4, <1>7, TurnGoesOn DEF x, AllDone
  <2>2. Rest(w)'
    BY <1>1, <1>2, <2>1, RestFollows DEF TurnOf
  <2>3. ScanIsAwaited'
    BY <1>1, <1>2, <1>3, <1>5, <1>7, <2>1, Numbers, TypesHold DEF TurnOf, ScanIsAwaited,
       Connected, MovesTo, Worker, Stage, NoQr, Pending, Open, Entered, Handled, Holds, Alive,
       MindsQr, AttemptIsOurs, x, TurnsTo
  <2>4. AttemptIsOurs'
    BY <1>1, <1>2, <1>3, <1>5, <1>7, <2>1 DEF TurnOf, AttemptIsOurs, Pending, Open, MovesTo, x,
       TurnsTo
  <2>5. QrWorks'
    BY <1>1, <1>2, <1>3, <1>5, <1>7, <2>1, Numbers DEF TurnOf, QrWorks, Open, Stage, Connected,
       x, TurnsTo
  <2>6. AskedForCode'
    BY <1>1, <1>2, <1>3, <1>5, <1>7, <2>1 DEF TurnOf, AskedForCode, x, TurnsTo
  <2>7. NamedAreBuilt'
    BY <1>1, <1>2, <1>3, <1>5, <1>7, <2>1, Numbers DEF TurnOf, NamedAreBuilt, Built, Stage,
       Connected, x, TurnsTo
  <2>8. OpenForSomething(w)'
    BY <1>1, <1>2, <1>3, <1>5, <1>7, <2>1, Numbers, TypesHold DEF TurnOf, OpenForSomething,
       Holds, MovesTo, Stage, Connected, NoQr, Pending, Open, Entered, x, TurnsTo
  <2>9. OneAlive(w)'
    BY <1>1, <1>2, <1>3, <1>5, <1>7, <2>1, Numbers, TypesHold DEF TurnOf, OneAlive, Alive,
       Holds, MovesTo, Stage, Connected, NoQr, Pending, Open, Entered, x, TurnsTo
  <2>10. SavedIsKept(w)'
    BY <1>1, <1>2, <1>3, <1>5, <1>7, <2>1 DEF TurnOf, SavedIsKept, Open, MovesTo, x, TurnsTo
  <2>11. AllOurs(w)'
    BY <1>1, <1>2, <1>3, <1>5, <1>7, <2>1 DEF TurnOf, AllOurs, Alive, Holds, MovesTo, x, TurnsTo
  <2>12. GoneAtRest(w)'
    BY <1>1, <1>2, <1>3, <1>5, <1>7, <2>1 DEF TurnOf, GoneAtRest, MovesTo, x, TurnsTo
  <2>13. Stage(worker[w])'
    BY <1>1, <1>2, <1>3, <1>5, <1>7, <2>1, Numbers, TypesHold DEF TurnOf, Stage, MovesTo,
       Connected, NoQr, Pending, Open, Entered, Handled, Holds, Alive, MindsQr, AttemptIsOurs,
       ScanIsAwaited, Worker, x, TurnsTo
  <2> QED BY <2>2, <2>3, <2>4, <2>5, <2>6, <2>7, <2>8, <2>9, <2>10, <2>11, <2>12, <2>13 DEF TurnOf
<1> QED BY <1>6, <1>7, <1>1 DEF LoginInv

-----------------------------------------------------------------------------
(* The row of the account.                                                 *)

\* The row is read once more after a picture.
LEMMA LoadKeeps ==
  ASSUME LoginInv, NEW w \in Worker, Load(w), ~account.gone
  PROVE  LoginInv'
<1> DEFINE x == worker[w]
<1>1. /\ LoginRows /\ w \in Worker /\ x \in WorkerRow /\ Handled(w, x)
      /\ x.at = "load" /\ x.client \in Client /\ x.op # "confirm" /\ x.who \in Person
  BY TypesHold, RowsOfLogin, Numbers DEF LoginInv, Load, memory, Handled, Worker, NoWork, Open
<1>2. MovesTo(w, x.op, "save", x.client, account, x.who)
  BY <1>1, Moves, RowsOfLogin, TypesHold, Numbers DEF Load, memory, Place, Doing, Who, Raises
<1>3. UNCHANGED <<account, client, pass, working, login, qr, attempt, lock, alarms, commands, troubles,
                     story>>
  BY <1>1, TypesHold DEF Load, memory
<1> HIDE DEF x
<1>4. LoginRows'
  <2>1. Handled(w, worker'[w]) /\ x.at # "tell" /\ worker'[w].at # "tell"
    BY <1>1, <1>2, <1>3, TypesHold DEF Handled, MovesTo, NoWork, LoginOp
  <2>2. ClientsAreBuilt'
    BY <1>1, <1>2, <1>3, TypesHold, Numbers DEF ClientsAreBuilt, Built
  <2>3. \A v \in Worker : worker'[v] = worker[v]
           \/ (worker[v].at # "tell" /\ worker'[v].at # "tell" /\ Handled(v, worker'[v]))
    BY <1>2, <2>1 DEF MovesTo, x
  <2> QED BY <1>1, <1>2, <1>3, <2>2, <2>3, RowsFollow, TypesHold, Numbers DEF MovesTo
<1>5. ASSUME story' = {} PROVE TurnOf(w)'
  <2>1. TurnOf(w)
    BY <1>1, <1>3, <1>5, TurnGoesOn DEF x, AllDone
  <2>2. Rest(w)'
    BY <1>1, <1>2, <2>1, RestFollows DEF TurnOf
  <2>3. ScanIsAwaited'
    BY <1>1, <1>2, <1>3, <1>5, <2>1 DEF TurnOf, ScanIsAwaited, Connected, MovesTo, Worker, x
  <2>4. AttemptIsOurs'
    BY <1>1, <1>2, <1>3, <1>5, <2>1 DEF TurnOf, AttemptIsOurs, Pending, Open, MovesTo, x
  <2>5. QrWorks'
    BY <1>1, <1>2, <1>3, <1>5, <2>1 DEF TurnOf, QrWorks, Open, x
  <2>6. AskedForCode'
    BY <1>1, <1>2, <1>3, <1>5, <2>1 DEF TurnOf, AskedForCode, x
  <2>7. NamedAreBuilt'
    BY <1>1, <1>2, <1>3, <1>5, <2>1 DEF TurnOf, NamedAreBuilt, Built, x
  <2>8. OpenForSomething(w)'
    BY <1>1, <1>2, <1>3, <1>5, <2>1 DEF TurnOf, OpenForSomething, Holds, MovesTo, x
  <2>9. OneAlive(w)'
    BY <1>1, <1>2, <1>3, <1>5, <2>1 DEF TurnOf, OneAlive, Alive, Holds, MovesTo, x
  <2>10. SavedIsKept(w)'
    BY <1>1, <1>2, <1>3, <1>5, <2>1 DEF TurnOf, SavedIsKept, Open, MovesTo, x
  <2>11. AllOurs(w)'
    BY <1>1, <1>2, <1>3, <1>5, <2>1 DEF TurnOf, AllOurs, Alive, Holds, MovesTo, x
  <2>12. GoneAtRest(w)'
    BY <1>1, <1>2, <1>3, <1>5, <2>1 DEF TurnOf, GoneAtRest, MovesTo, x
  <2>13. Stage(worker[w])'
    BY <1>1, <1>2, <1>3, <2>1 DEF TurnOf, Stage, MovesTo, NoQr, Pending, Open, Entered, x
  <2> QED BY <2>2, <2>3, <2>4, <2>5, <2>6, <2>7, <2>8, <2>9, <2>10, <2>11, <2>12, <2>13 DEF TurnOf
<1> QED BY <1>4, <1>5, <1>1 DEF LoginInv

\* The account was deleted meanwhile: never in turn.
LEMMA LoadGoneKeeps ==
  ASSUME LoginInv, NEW w \in Worker, Load(w), account.gone
  PROVE  LoginInv'
<1> DEFINE x == worker[w]
<1>1. /\ LoginRows /\ w \in Worker /\ x \in WorkerRow /\ Handled(w, x)
      /\ x.at = "load" /\ x.client \in Client /\ x.op # "confirm" /\ x.who \in Person
  BY TypesHold, RowsOfLogin, Numbers DEF LoginInv, Load, memory, Handled, Worker, NoWork, Open
<1>2. MovesTo(w, "none", "idle", 0, NoRow, "none")
  BY <1>1, Moves, RowsOfLogin, TypesHold, Numbers DEF Load, memory, Place, Doing, Who, Raises
<1>3. /\ account.gone
      /\ UNCHANGED <<account, client, pass, working, login, qr, attempt, lock, alarms, commands,
                     troubles, story>>
  BY <1>1, TypesHold DEF Load, memory
<1> HIDE DEF x
<1>4. LoginRows'
  <2>1. Handled(w, worker'[w]) /\ x.at # "tell" /\ worker'[w].at # "tell"
    BY <1>1, <1>2, <1>3, TypesHold DEF Handled, MovesTo, NoWork, LoginOp
  <2>2. ClientsAreBuilt'
    BY <1>1, <1>2, <1>3, TypesHold, Numbers DEF ClientsAreBuilt, Built
  <2>3. \A v \in Worker : worker'[v] = worker[v]
           \/ (worker[v].at # "tell" /\ worker'[v].at # "tell" /\ Handled(v, worker'[v]))
    BY <1>2, <2>1 DEF MovesTo, x
  <2> QED BY <1>1, <1>2, <1>3, <2>2, <2>3, RowsFollow, TypesHold, Numbers DEF MovesTo
<1>5. ASSUME story' = {} PROVE TurnOf(w)'
  <2>1. TurnOf(w)
    BY <1>1, <1>3, <1>5, TurnGoesOn DEF x, AllDone
  <2> QED BY <1>1, <1>3, <2>1 DEF TurnOf, GoneAtRest, x
<1> QED BY <1>4, <1>5, <1>1 DEF LoginInv

\* The session of a code is saved.
LEMMA SaveCodeKeeps ==
  ASSUME LoginInv, NEW w \in Worker, Save(w), worker[w].op = "confirm"
  PROVE  LoginInv'
<1> DEFINE x == worker[w]
<1>1. /\ LoginRows /\ w \in Worker /\ x \in WorkerRow /\ Handled(w, x)
      /\ x.at = "save" /\ x.client \in Client /\ x.op = "confirm" /\ x.who \in Person
      /\ w \in Task
  BY TypesHold, RowsOfLogin, Numbers DEF LoginInv, Save, RowFree, RowIs, memory, To, Handled,
     Worker, NoWork, Open
<1>2. MovesTo(w, x.op, "reply", x.client, x.seen, x.who)
  BY <1>1, Moves, RowsOfLogin, TypesHold, Numbers DEF Save, RowFree, RowIs, memory, To, Place,
     Doing, Who, Raises
<1>3. /\ lock = 0
      /\ UNCHANGED <<client, pass, working, login, qr, attempt, lock, commands, troubles, story>>
  BY <1>1, TypesHold DEF Save, RowFree, RowIs, memory, To
<1>4. /\ account' = WrittenOver(x.seen, Saves(w))
      /\ alarms' = IF account'.status = "error" THEN alarms + 0 ELSE 0
  BY <1>1, TypesHold DEF Save, RowFree, RowIs, memory, To
<1>5. account' \in AccountRow /\ account'.status \in {account.status, "connected"}
  BY <1>1, <1>2, <1>3, <1>4, TypesHold, RowsOfLogin, Numbers, WrittenRow, SavedRow
     DEF LoginRows, ToldOncePerLoss, Status, Person
<1>6. alarms' = IF account'.status = "error" THEN 1 ELSE 0
  BY <1>1, <1>2, <1>3, <1>5, <1>4, TypesHold, RowsOfLogin, Numbers, WrittenRow, SavedRow
     DEF LoginRows, ToldOncePerLoss, Status, Person
<1>7. x.seen = account => account'.user = x.who /\ account'.session = client[x.client].key
      /\ account'.gone = account.gone
  BY <1>1, <1>2, <1>3, <1>5, <1>6, <1>4, TypesHold, RowsOfLogin, Numbers, WrittenRow, SavedRow
     DEF LoginRows, ToldOncePerLoss, Status, Person
<1> HIDE DEF x
<1>8. LoginRows'
  <2>1. Handled(w, worker'[w]) /\ x.at # "tell" /\ worker'[w].at # "tell"
    BY <1>1, <1>2, <1>3, <1>5, <1>6, <1>7, TypesHold DEF Handled, MovesTo, NoWork, LoginOp
  <2>2. ClientsAreBuilt'
    BY <1>1, <1>2, <1>3, <1>5, <1>6, <1>7, TypesHold, Numbers DEF ClientsAreBuilt, Built
  <2>3. \A v \in Worker : worker'[v] = worker[v]
           \/ (worker[v].at # "tell" /\ worker'[v].at # "tell" /\ Handled(v, worker'[v]))
    BY <1>2, <2>1 DEF MovesTo, x
  <2> QED BY <1>1, <1>2, <1>3, <1>5, <1>6, <1>7, <2>2, <2>3, RowsFollow, TypesHold, Numbers
             DEF MovesTo
<1>9. ASSUME story' = {} PROVE TurnOf(w)'
  <2>1. TurnOf(w)
    BY <1>1, <1>3, <1>4, <1>9, TurnGoesOn DEF x, AllDone
  <2>2. Rest(w)'
    BY <1>1, <1>2, <2>1, RestFollows DEF TurnOf
  <2>3. ScanIsAwaited'
    BY <1>1, <1>2, <1>3, <1>5, <1>6, <1>7, <1>9, <2>1 DEF TurnOf, ScanIsAwaited, Connected,
       MovesTo, Worker, x
  <2>4. AttemptIsOurs'
    BY <1>1, <1>2, <1>3, <1>5, <1>6, <1>7, <1>9, <2>1, Numbers, TypesHold DEF TurnOf,
       AttemptIsOurs, Pending, Open, MovesTo, Stage, Connected, NoQr, Entered, x
  <2>5. QrWorks'
    BY <1>1, <1>2, <1>3, <1>5, <1>6, <1>7, <1>9, <2>1 DEF TurnOf, QrWorks, Open, x
  <2>6. AskedForCode'
    BY <1>1, <1>2, <1>3, <1>5, <1>6, <1>7, <1>9, <2>1 DEF TurnOf, AskedForCode, x
  <2>7. NamedAreBuilt'
    BY <1>1, <1>2, <1>3, <1>5, <1>6, <1>7, <1>9, <2>1 DEF TurnOf, NamedAreBuilt, Built, x
  <2>8. OpenForSomething(w)'
    BY <1>1, <1>2, <1>3, <1>5, <1>6, <1>7, <1>9, <2>1 DEF TurnOf, OpenForSomething, Holds,
       MovesTo, x
  <2>9. OneAlive(w)'
    BY <1>1, <1>2, <1>3, <1>5, <1>6, <1>7, <1>9, <2>1 DEF TurnOf, OneAlive, Alive, Holds,
       MovesTo, x
  <2>10. SavedIsKept(w)'
    <3>1. /\ x.seen = account /\ working = x.client /\ client[x.client].key = x.client
          /\ pass[x.client] \in {x.who, "revoked"} /\ account.user \in {"none", x.who}
      BY <1>1, <1>2, <1>3, <1>5, <1>6, <1>7, <1>9, <2>1 DEF TurnOf, Stage, Entered, x
    <3>2. account'.user = x.who /\ account'.session = x.client
      BY <1>1, <1>2, <1>3, <1>5, <1>6, <1>7, <3>1
    <3>3. x.who # "none"
      BY <1>1 DEF Person
    <3> QED BY <1>1, <1>2, <1>3, <1>5, <1>6, <1>7, <3>1, <3>2, <3>3 DEF SavedIsKept
  <2>11. AllOurs(w)'
    <3>1. /\ x.seen = account /\ working = x.client /\ client[x.client].key = x.client
          /\ pass[x.client] \in {x.who, "revoked"} /\ account.user \in {"none", x.who}
      BY <1>1, <1>2, <1>3, <1>5, <1>6, <1>7, <1>9, <2>1 DEF TurnOf, Stage, Entered, x
    <3>2. account'.user = x.who /\ account'.session = x.client
      BY <1>1, <1>2, <1>3, <1>5, <1>6, <1>7, <3>1
    <3>3. ASSUME NEW k \in Client, Alive(k)' PROVE pass'[k] = x.who
      <4>1. Alive(k) /\ pass'[k] = pass[k] /\ pass[k] \in Person
        BY <1>1, <1>2, <1>3, <1>5, <1>6, <1>7, <3>3 DEF Alive
      <4>2. pass[k] \notin {"none", "revoked"}
        BY <4>1 DEF Person
      <4>3. pass[k] = account.user \/ k = x.client
        BY <1>1, <1>2, <1>3, <1>5, <1>6, <1>7, <1>9, <2>1, <4>1 DEF TurnOf, AllOurs, Holds, x
      <4> QED BY <3>1, <4>1, <4>2, <4>3
    <3> QED BY <3>2, <3>3 DEF AllOurs
  <2>12. GoneAtRest(w)'
    BY <1>1, <1>2, <1>3, <1>5, <1>6, <1>7, <1>9, <2>1, Numbers DEF TurnOf, GoneAtRest, MovesTo,
       Stage, Connected, x
  <2>13. Stage(worker[w])'
    BY <1>1, <1>2, <1>3, <1>5, <1>6, <1>7, <1>9, <2>1 DEF TurnOf, Stage, MovesTo, x
  <2> QED BY <2>2, <2>3, <2>4, <2>5, <2>6, <2>7, <2>8, <2>9, <2>10, <2>11, <2>12, <2>13 DEF TurnOf
<1> QED BY <1>8, <1>9, <1>1 DEF LoginInv

\* The session of a picture is saved.
LEMMA SaveQrKeeps ==
  ASSUME LoginInv, NEW w \in Worker, Save(w), worker[w].op # "confirm"
  PROVE  LoginInv'
<1> DEFINE x == worker[w]
<1>1. /\ LoginRows /\ w \in Worker /\ x \in WorkerRow /\ Handled(w, x)
      /\ x.at = "save" /\ x.client \in Client /\ x.op # "confirm" /\ x.who \in Person
  BY TypesHold, RowsOfLogin, Numbers DEF LoginInv, Save, RowFree, RowIs, memory, Handled,
     Worker, NoWork, Open
<1>2. MovesTo(w, "none", "idle", 0, NoRow, "none")
  BY <1>1, Moves, RowsOfLogin, TypesHold, Numbers DEF Save, RowFree, RowIs, memory, Place,
     Doing, Who, Raises
<1>3. /\ lock = 0
      /\ UNCHANGED <<client, pass, working, login, qr, attempt, lock, commands, troubles, story>>
  BY <1>1, TypesHold DEF Save, RowFree, RowIs, memory
<1>4. /\ account' = WrittenOver(x.seen, Saves(w))
      /\ alarms' = IF account'.status = "error" THEN alarms + 0 ELSE 0
  BY <1>1, TypesHold DEF Save, RowFree, RowIs, memory
<1>5. account' \in AccountRow /\ account'.status \in {account.status, "connected"}
  BY <1>1, <1>2, <1>3, <1>4, TypesHold, RowsOfLogin, Numbers, WrittenRow, SavedRow
     DEF LoginRows, ToldOncePerLoss, Status, Person
<1>6. alarms' = IF account'.status = "error" THEN 1 ELSE 0
  BY <1>1, <1>2, <1>3, <1>5, <1>4, TypesHold, RowsOfLogin, Numbers, WrittenRow, SavedRow
     DEF LoginRows, ToldOncePerLoss, Status, Person
<1>7. x.seen = account => account'.user = x.who /\ account'.session = client[x.client].key
      /\ account'.gone = account.gone
  BY <1>1, <1>2, <1>3, <1>5, <1>6, <1>4, TypesHold, RowsOfLogin, Numbers, WrittenRow, SavedRow
     DEF LoginRows, ToldOncePerLoss, Status, Person
<1> HIDE DEF x
<1>8. LoginRows'
  <2>1. Handled(w, worker'[w]) /\ x.at # "tell" /\ worker'[w].at # "tell"
    BY <1>1, <1>2, <1>3, <1>5, <1>6, <1>7, TypesHold DEF Handled, MovesTo, NoWork, LoginOp
  <2>2. ClientsAreBuilt'
    BY <1>1, <1>2, <1>3, <1>5, <1>6, <1>7, TypesHold, Numbers DEF ClientsAreBuilt, Built
  <2>3. \A v \in Worker : worker'[v] = worker[v]
           \/ (worker[v].at # "tell" /\ worker'[v].at # "tell" /\ Handled(v, worker'[v]))
    BY <1>2, <2>1 DEF MovesTo, x
  <2> QED BY <1>1, <1>2, <1>3, <1>5, <1>6, <1>7, <2>2, <2>3, RowsFollow, TypesHold, Numbers
             DEF MovesTo
<1>9. ASSUME story' = {} PROVE TurnOf(w)'
  <2>1. TurnOf(w)
    BY <1>1, <1>3, <1>4, <1>9, TurnGoesOn DEF x, AllDone
  <2>2. Rest(w)'
    BY <1>1, <1>2, <2>1, RestFollows DEF TurnOf
  <2>3. ScanIsAwaited'
    BY <1>1, <1>2, <1>3, <1>5, <1>6, <1>7, <1>9, <2>1 DEF TurnOf, ScanIsAwaited, Connected,
       MovesTo, Worker, x
  <2>4. AttemptIsOurs'
    BY <1>1, <1>2, <1>3, <1>5, <1>6, <1>7, <1>9, <2>1, Numbers, TypesHold DEF TurnOf,
       AttemptIsOurs, Pending, Open, MovesTo, Stage, Connected, NoQr, Entered, x
  <2>5. QrWorks'
    BY <1>1, <1>2, <1>3, <1>5, <1>6, <1>7, <1>9, <2>1 DEF TurnOf, QrWorks, Open, x
  <2>6. AskedForCode'
    BY <1>1, <1>2, <1>3, <1>5, <1>6, <1>7, <1>9, <2>1 DEF TurnOf, AskedForCode, x
  <2>7. NamedAreBuilt'
    BY <1>1, <1>2, <1>3, <1>5, <1>6, <1>7, <1>9, <2>1 DEF TurnOf, NamedAreBuilt, Built, x
  <2>8. OpenForSomething(w)'
    BY <1>1, <1>2, <1>3, <1>5, <1>6, <1>7, <1>9, <2>1 DEF TurnOf, OpenForSomething, Holds,
       MovesTo, x
  <2>9. OneAlive(w)'
    BY <1>1, <1>2, <1>3, <1>5, <1>6, <1>7, <1>9, <2>1 DEF TurnOf, OneAlive, Alive, Holds,
       MovesTo, x
  <2>10. SavedIsKept(w)'
    <3>1. /\ x.seen = account /\ working = x.client /\ client[x.client].key = x.client
          /\ pass[x.client] \in {x.who, "revoked"} /\ account.user \in {"none", x.who}
      BY <1>1, <1>2, <1>3, <1>5, <1>6, <1>7, <1>9, <2>1 DEF TurnOf, Stage, Entered, x
    <3>2. account'.user = x.who /\ account'.session = x.client
      BY <1>1, <1>2, <1>3, <1>5, <1>6, <1>7, <3>1
    <3>3. x.who # "none"
      BY <1>1 DEF Person
    <3> QED BY <1>1, <1>2, <1>3, <1>5, <1>6, <1>7, <3>1, <3>2, <3>3 DEF SavedIsKept
  <2>11. AllOurs(w)'
    <3>1. /\ x.seen = account /\ working = x.client /\ client[x.client].key = x.client
          /\ pass[x.client] \in {x.who, "revoked"} /\ account.user \in {"none", x.who}
      BY <1>1, <1>2, <1>3, <1>5, <1>6, <1>7, <1>9, <2>1 DEF TurnOf, Stage, Entered, x
    <3>2. account'.user = x.who /\ account'.session = x.client
      BY <1>1, <1>2, <1>3, <1>5, <1>6, <1>7, <3>1
    <3>3. ASSUME NEW k \in Client, Alive(k)' PROVE pass'[k] = x.who
      <4>1. Alive(k) /\ pass'[k] = pass[k] /\ pass[k] \in Person
        BY <1>1, <1>2, <1>3, <1>5, <1>6, <1>7, <3>3 DEF Alive
      <4>2. pass[k] \notin {"none", "revoked"}
        BY <4>1 DEF Person
      <4>3. pass[k] = account.user \/ k = x.client
        BY <1>1, <1>2, <1>3, <1>5, <1>6, <1>7, <1>9, <2>1, <4>1 DEF TurnOf, AllOurs, Holds, x
      <4> QED BY <3>1, <4>1, <4>2, <4>3
    <3> QED BY <3>2, <3>3 DEF AllOurs
  <2>12. GoneAtRest(w)'
    BY <1>1, <1>2, <1>3, <1>5, <1>6, <1>7, <1>9, <2>1, Numbers DEF TurnOf, GoneAtRest, MovesTo,
       Stage, Connected, x
  <2>13. Stage(worker[w])'
    BY <1>1, <1>2, <1>3, <1>5, <1>6, <1>7, <1>9, <2>1 DEF TurnOf, Stage, MovesTo, x
  <2> QED BY <2>2, <2>3, <2>4, <2>5, <2>6, <2>7, <2>8, <2>9, <2>10, <2>11, <2>12, <2>13 DEF TurnOf
<1> QED BY <1>8, <1>9, <1>1 DEF LoginInv

\* The API writes what it was answered.
LEMMA ReplyKeeps ==
  ASSUME LoginInv, NEW w \in Worker, Reply(w), RowIs([account EXCEPT !.status = "connected",
                 !.user = worker[w].who], 0), UNCHANGED story
  PROVE  LoginInv'
<1> DEFINE x == worker[w]
<1>1. /\ LoginRows /\ w \in Worker /\ x \in WorkerRow /\ Handled(w, x)
      /\ x.at = "reply" /\ x.who \in Person
  BY TypesHold, RowsOfLogin, Numbers DEF LoginInv, Reply, RowFree, RowIs, memory, Handled,
     Worker, NoWork, Open
<1>2. MovesTo(w, "none", "idle", 0, NoRow, "none")
  BY <1>1, Moves, RowsOfLogin, TypesHold, Numbers DEF Reply, RowFree, RowIs, memory, Place,
     Doing, Who, Raises
<1>3. /\ lock = 0
      /\ UNCHANGED <<client, pass, working, login, qr, attempt, lock, commands, troubles, story>>
  BY <1>1, TypesHold DEF Reply, RowFree, RowIs, memory
<1>4. /\ account' = [account EXCEPT !.status = "connected", !.user = x.who]
      /\ alarms' = IF account'.status = "error" THEN alarms + 0 ELSE 0
  BY DEF RowIs
<1>5. account' \in AccountRow /\ account'.status = "connected" /\ account'.user = x.who
      /\ account'.session = account.session /\ account'.gone = account.gone
  <2>1. account \in AccountRow /\ x.who \in Person
    BY <1>1, TypesHold
  <2> DEFINE s == [account EXCEPT !.status = "connected", !.user = x.who]
  <2>2. /\ s \in AccountRow /\ s.status = "connected" /\ s.user = x.who
        /\ s.session = account.session /\ s.gone = account.gone
    BY <2>1, ReplyRow
  <2>3. account' = s
    BY <1>1, <1>4
  <2> HIDE DEF s
  <2> QED BY <2>2, <2>3
<1>6. alarms' = 0
  BY <1>1, <1>2, <1>3, <1>5, <1>4, TypesHold, RowsOfLogin, Numbers, ReplyRow DEF LoginRows,
     ToldOncePerLoss, Status, Person
<1> HIDE DEF x
<1>7. LoginRows'
  <2>1. Handled(w, worker'[w]) /\ x.at # "tell" /\ worker'[w].at # "tell"
    BY <1>1, <1>2, <1>3, <1>5, <1>6, TypesHold DEF Handled, MovesTo, NoWork, LoginOp
  <2>2. ClientsAreBuilt'
    BY <1>1, <1>2, <1>3, <1>5, <1>6, TypesHold, Numbers DEF ClientsAreBuilt, Built
  <2>3. \A v \in Worker : worker'[v] = worker[v]
           \/ (worker[v].at # "tell" /\ worker'[v].at # "tell" /\ Handled(v, worker'[v]))
    BY <1>2, <2>1 DEF MovesTo, x
  <2> QED BY <1>1, <1>2, <1>3, <1>5, <1>6, <2>2, <2>3, RowsFollow, TypesHold, Numbers DEF MovesTo
<1>8. ASSUME story' = {} PROVE TurnOf(w)'
  <2>1. TurnOf(w)
    BY <1>1, <1>3, <1>4, <1>8, TurnGoesOn DEF x, AllDone
  <2>2. Rest(w)'
    BY <1>1, <1>2, <2>1, RestFollows DEF TurnOf
  <2>3. ScanIsAwaited'
    BY <1>1, <1>2, <1>3, <1>5, <1>6, <1>8, <2>1 DEF TurnOf, ScanIsAwaited, Connected, MovesTo,
       Worker, x
  <2>4. AttemptIsOurs'
    BY <1>1, <1>2, <1>3, <1>5, <1>6, <1>8, <2>1, Numbers DEF TurnOf, AttemptIsOurs, Pending,
       Open, MovesTo, Stage, Connected, x
  <2>5. QrWorks'
    BY <1>1, <1>2, <1>3, <1>5, <1>6, <1>8, <2>1 DEF TurnOf, QrWorks, Open, x
  <2>6. AskedForCode'
    BY <1>1, <1>2, <1>3, <1>5, <1>6, <1>8, <2>1 DEF TurnOf, AskedForCode, x
  <2>7. NamedAreBuilt'
    BY <1>1, <1>2, <1>3, <1>5, <1>6, <1>8, <2>1 DEF TurnOf, NamedAreBuilt, Built, x
  <2>8. OpenForSomething(w)'
    BY <1>1, <1>2, <1>3, <1>5, <1>6, <1>8, <2>1 DEF TurnOf, OpenForSomething, Holds, MovesTo, x
  <2>9. OneAlive(w)'
    BY <1>1, <1>2, <1>3, <1>5, <1>6, <1>8, <2>1 DEF TurnOf, OneAlive, Alive, Holds, MovesTo, x
  <2>10. SavedIsKept(w)'
    BY <1>1, <1>2, <1>3, <1>5, <1>6, <1>8, <2>1 DEF TurnOf, SavedIsKept, Open, MovesTo, x
  <2>11. AllOurs(w)'
    BY <1>1, <1>2, <1>3, <1>5, <1>6, <1>8, <2>1, Numbers DEF TurnOf, AllOurs, Alive, Holds,
       MovesTo, Stage, Connected, x
  <2>12. GoneAtRest(w)'
    BY <1>1, <1>2, <1>3, <1>5, <1>6, <1>8, <2>1 DEF TurnOf, GoneAtRest, MovesTo, x
  <2>13. Stage(worker[w])'
    BY <1>1, <1>2, <1>3, <1>5, <1>6, <1>8, <2>1 DEF TurnOf, Stage, MovesTo, x
  <2> QED BY <2>2, <2>3, <2>4, <2>5, <2>6, <2>7, <2>8, <2>9, <2>10, <2>11, <2>12, <2>13 DEF TurnOf
<1> QED BY <1>7, <1>8, <1>1 DEF LoginInv

\* The API has given up waiting: out of turn.
LEMMA ReplyLateKeeps ==
  ASSUME LoginInv, NEW w \in Worker, Reply(w), story' = story \cup {"late"}, UNCHANGED <<account,
                 alarms>>
  PROVE  LoginInv'
<1> DEFINE x == worker[w]
<1>1. /\ LoginRows /\ w \in Worker /\ x \in WorkerRow /\ Handled(w, x)
      /\ x.at = "reply"
  BY TypesHold, RowsOfLogin, Numbers DEF LoginInv, Reply, RowFree, memory, Handled, Worker,
     NoWork, Open
<1>2. MovesTo(w, "none", "idle", 0, NoRow, "none")
  BY <1>1, Moves, RowsOfLogin, TypesHold, Numbers DEF Reply, RowFree, memory, Place, Doing, Who,
     Raises
<1>3. /\ lock = 0
      /\ story' \subseteq {"tangled", "crash", "network", "late", "stray"}
      /\ UNCHANGED <<account, client, pass, working, login, qr, attempt, lock, alarms, commands,
                     troubles>>
  BY <1>1, TypesHold DEF Reply, RowFree, memory
<1> HIDE DEF x
<1>4. LoginRows'
  <2>1. Handled(w, worker'[w]) /\ x.at # "tell" /\ worker'[w].at # "tell"
    BY <1>1, <1>2, <1>3, TypesHold DEF Handled, MovesTo, NoWork, LoginOp
  <2>2. ClientsAreBuilt'
    BY <1>1, <1>2, <1>3, TypesHold, Numbers DEF ClientsAreBuilt, Built
  <2>3. \A v \in Worker : worker'[v] = worker[v]
           \/ (worker[v].at # "tell" /\ worker'[v].at # "tell" /\ Handled(v, worker'[v]))
    BY <1>2, <2>1 DEF MovesTo, x
  <2> QED BY <1>1, <1>2, <1>3, <2>2, <2>3, RowsFollow, TypesHold, Numbers DEF MovesTo
<1>5. story' # {}
  OBVIOUS
<1> QED BY <1>4, <1>5 DEF LoginInv

-----------------------------------------------------------------------------
(* Working through the account, and the report of a dead session.          *)

\* The working client is used.
LEMMA UseWorksKeeps ==
  ASSUME LoginInv, NEW t \in Task, UseWorking(t), Alive(client[working].key)
  PROVE  LoginInv'
<1> DEFINE x == worker[t]
<1>1. /\ LoginRows /\ t \in Worker /\ x \in WorkerRow /\ Handled(t, x)
      /\ x.at = "go" /\ x.op = "use"
  BY TypesHold, RowsOfLogin, Numbers DEF LoginInv, UseWorking, Does, memory, Handled, Worker,
     NoWork, Open
<1>2. MovesTo(t, "none", "idle", 0, NoRow, "none")
  BY <1>1, Moves, RowsOfLogin, TypesHold, Numbers DEF UseWorking, Does, memory, Place, Doing,
     Who, Raises
<1>3. UNCHANGED <<account, client, pass, working, login, qr, attempt, lock, alarms, commands, troubles,
                     story>>
  BY <1>1, TypesHold DEF UseWorking, Does, memory
<1> HIDE DEF x
<1>4. LoginRows'
  <2>1. Handled(t, worker'[t]) /\ x.at # "tell" /\ worker'[t].at # "tell"
    BY <1>1, <1>2, <1>3, TypesHold DEF Handled, MovesTo, NoWork, LoginOp
  <2>2. ClientsAreBuilt'
    BY <1>1, <1>2, <1>3, TypesHold, Numbers DEF ClientsAreBuilt, Built
  <2>3. \A v \in Worker : worker'[v] = worker[v]
           \/ (worker[v].at # "tell" /\ worker'[v].at # "tell" /\ Handled(v, worker'[v]))
    BY <1>2, <2>1 DEF MovesTo, x
  <2> QED BY <1>1, <1>2, <1>3, <2>2, <2>3, RowsFollow, TypesHold, Numbers DEF MovesTo
<1>5. ASSUME story' = {} PROVE TurnOf(t)'
  <2>1. TurnOf(t)
    BY <1>1, <1>3, <1>5, TurnGoesOn DEF x, AllDone
  <2>2. Rest(t)'
    BY <1>1, <1>2, <2>1, RestFollows DEF TurnOf
  <2>3. ScanIsAwaited'
    BY <1>1, <1>2, <1>3, <1>5, <2>1 DEF TurnOf, ScanIsAwaited, Connected, MovesTo, Worker, x
  <2>4. AttemptIsOurs'
    BY <1>1, <1>2, <1>3, <1>5, <2>1 DEF TurnOf, AttemptIsOurs, Pending, Open, MovesTo, x
  <2>5. QrWorks'
    BY <1>1, <1>2, <1>3, <1>5, <2>1 DEF TurnOf, QrWorks, Open, x
  <2>6. AskedForCode'
    BY <1>1, <1>2, <1>3, <1>5, <2>1 DEF TurnOf, AskedForCode, x
  <2>7. NamedAreBuilt'
    BY <1>1, <1>2, <1>3, <1>5, <2>1 DEF TurnOf, NamedAreBuilt, Built, x
  <2>8. OpenForSomething(t)'
    BY <1>1, <1>2, <1>3, <1>5, <2>1 DEF TurnOf, OpenForSomething, Holds, MovesTo, x
  <2>9. OneAlive(t)'
    BY <1>1, <1>2, <1>3, <1>5, <2>1 DEF TurnOf, OneAlive, Alive, Holds, MovesTo, x
  <2>10. SavedIsKept(t)'
    BY <1>1, <1>2, <1>3, <1>5, <2>1 DEF TurnOf, SavedIsKept, Open, MovesTo, x
  <2>11. AllOurs(t)'
    BY <1>1, <1>2, <1>3, <1>5, <2>1 DEF TurnOf, AllOurs, Alive, Holds, MovesTo, x
  <2>12. GoneAtRest(t)'
    BY <1>1, <1>2, <1>3, <1>5, <2>1 DEF TurnOf, GoneAtRest, MovesTo, x
  <2>13. Stage(worker[t])'
    BY <1>1, <1>2, <1>3, <1>5, <2>1 DEF TurnOf, Stage, MovesTo, x
  <2> QED BY <2>2, <2>3, <2>4, <2>5, <2>6, <2>7, <2>8, <2>9, <2>10, <2>11, <2>12, <2>13 DEF TurnOf
<1> QED BY <1>4, <1>5, <1>1 DEF LoginInv

\* The session of the working client is dead.
LEMMA UseDeadKeeps ==
  ASSUME LoginInv, NEW t \in Task, UseWorking(t), ~Alive(client[working].key)
  PROVE  LoginInv'
<1> DEFINE x == worker[t]
<1>1. /\ LoginRows /\ t \in Worker /\ x \in WorkerRow /\ Handled(t, x)
      /\ x.at = "go" /\ x.op = "use"
  BY TypesHold, RowsOfLogin, Numbers DEF LoginInv, UseWorking, Does, To, memory, Handled,
     Worker, NoWork, Open
<1>2. MovesTo(t, x.op, "report", x.client, x.seen, x.who)
  BY <1>1, Moves, RowsOfLogin, TypesHold, Numbers DEF UseWorking, Does, To, memory, Place,
     Doing, Who, Raises
<1>3. UNCHANGED <<account, client, pass, working, login, qr, attempt, lock, alarms, commands, troubles,
                     story>>
  BY <1>1, TypesHold DEF UseWorking, Does, To, memory
<1> HIDE DEF x
<1>4. LoginRows'
  <2>1. Handled(t, worker'[t]) /\ x.at # "tell" /\ worker'[t].at # "tell"
    BY <1>1, <1>2, <1>3, TypesHold DEF Handled, MovesTo, NoWork, LoginOp
  <2>2. ClientsAreBuilt'
    BY <1>1, <1>2, <1>3, TypesHold, Numbers DEF ClientsAreBuilt, Built
  <2>3. \A v \in Worker : worker'[v] = worker[v]
           \/ (worker[v].at # "tell" /\ worker'[v].at # "tell" /\ Handled(v, worker'[v]))
    BY <1>2, <2>1 DEF MovesTo, x
  <2> QED BY <1>1, <1>2, <1>3, <2>2, <2>3, RowsFollow, TypesHold, Numbers DEF MovesTo
<1>5. ASSUME story' = {} PROVE TurnOf(t)'
  <2>1. TurnOf(t)
    BY <1>1, <1>3, <1>5, TurnGoesOn DEF x, AllDone
  <2>2. Rest(t)'
    BY <1>1, <1>2, <2>1, RestFollows DEF TurnOf
  <2>3. ScanIsAwaited'
    BY <1>1, <1>2, <1>3, <1>5, <2>1 DEF TurnOf, ScanIsAwaited, Connected, MovesTo, Worker, x
  <2>4. AttemptIsOurs'
    BY <1>1, <1>2, <1>3, <1>5, <2>1 DEF TurnOf, AttemptIsOurs, Pending, Open, MovesTo, x
  <2>5. QrWorks'
    BY <1>1, <1>2, <1>3, <1>5, <2>1 DEF TurnOf, QrWorks, Open, x
  <2>6. AskedForCode'
    BY <1>1, <1>2, <1>3, <1>5, <2>1 DEF TurnOf, AskedForCode, x
  <2>7. NamedAreBuilt'
    BY <1>1, <1>2, <1>3, <1>5, <2>1 DEF TurnOf, NamedAreBuilt, Built, x
  <2>8. OpenForSomething(t)'
    BY <1>1, <1>2, <1>3, <1>5, <2>1 DEF TurnOf, OpenForSomething, Holds, MovesTo, x
  <2>9. OneAlive(t)'
    BY <1>1, <1>2, <1>3, <1>5, <2>1 DEF TurnOf, OneAlive, Alive, Holds, MovesTo, x
  <2>10. SavedIsKept(t)'
    BY <1>1, <1>2, <1>3, <1>5, <2>1 DEF TurnOf, SavedIsKept, Open, MovesTo, x
  <2>11. AllOurs(t)'
    BY <1>1, <1>2, <1>3, <1>5, <2>1 DEF TurnOf, AllOurs, Alive, Holds, MovesTo, x
  <2>12. GoneAtRest(t)'
    BY <1>1, <1>2, <1>3, <1>5, <2>1 DEF TurnOf, GoneAtRest, MovesTo, x
  <2>13. Stage(worker[t])'
    BY <1>1, <1>2, <1>3, <1>5, <2>1 DEF TurnOf, Stage, MovesTo, x
  <2> QED BY <2>2, <2>3, <2>4, <2>5, <2>6, <2>7, <2>8, <2>9, <2>10, <2>11, <2>12, <2>13 DEF TurnOf
<1> QED BY <1>4, <1>5, <1>1 DEF LoginInv

\* The saved session is opened by a client just built.
LEMMA UseSavedKeeps ==
  ASSUME LoginInv, NEW t \in Task, UseSaved(t)
  PROVE  LoginInv'
<1> DEFINE x == worker[t]
<1>1. /\ LoginRows /\ t \in Worker /\ x \in WorkerRow /\ Handled(t, x)
      /\ x.at = "go" /\ x.op = "use" /\ x.seen.session \in 0..MaxClients /\ x.seen.session # 0
  BY TypesHold, RowsOfLogin, Numbers DEF LoginInv, UseSaved, Does, Handled, Worker, NoWork, Open
<1>2. PICK k \in Client :
             /\ NextFree(k) /\ client' = WithClient(k, worker[t].seen.session)
             /\ worker' = [worker EXCEPT ![t].at = "connect", ![t].client = k]
  BY DEF UseSaved, Does
<1>3. MovesTo(t, x.op, "connect", k, x.seen, x.who)
  BY <1>1, <1>2, Moves, RowsOfLogin, TypesHold, Numbers DEF UseSaved, Does, Place, Doing, Who,
     Raises
<1>4. /\ ~Open(working)
      /\ UNCHANGED <<account, pass, working, login, qr, attempt, lock, alarms, commands, troubles, story>>
  BY <1>1, <1>2, TypesHold DEF UseSaved, Does
<1>5. k \in Client
  OBVIOUS
<1>6. Builds(k, x.seen.session)
  BY <1>1, <1>2, <1>4, Changes, Numbers
<1>7. client[k].key = 0 /\ ~client[k].open /\ pass[k] \notin Person
  BY <1>1, <1>2, TypesHold DEF NextFree, Built, ClientsAreBuilt
<1> HIDE DEF x
<1>8. LoginRows'
  <2>1. Handled(t, worker'[t]) /\ x.at # "tell" /\ worker'[t].at # "tell"
    BY <1>1, <1>3, <1>4, <1>5, <1>6, <1>7, TypesHold DEF Handled, MovesTo, NoWork, LoginOp
  <2>2. ClientsAreBuilt'
    BY <1>1, <1>3, <1>4, <1>5, <1>6, <1>7, TypesHold, Numbers DEF ClientsAreBuilt, Built, Builds
  <2>3. \A v \in Worker : worker'[v] = worker[v]
           \/ (worker[v].at # "tell" /\ worker'[v].at # "tell" /\ Handled(v, worker'[v]))
    BY <1>3, <2>1 DEF MovesTo, x
  <2> QED BY <1>1, <1>3, <1>4, <1>5, <1>6, <1>7, <2>2, <2>3, RowsFollow, TypesHold, Numbers
             DEF MovesTo, Builds
<1>9. ASSUME story' = {} PROVE TurnOf(t)'
  <2>1. TurnOf(t)
    BY <1>1, <1>2, <1>4, <1>9, TurnGoesOn DEF x, AllDone
  <2>2. Rest(t)'
    BY <1>1, <1>3, <2>1, RestFollows DEF TurnOf
  <2>3. ScanIsAwaited'
    BY <1>1, <1>3, <1>4, <1>5, <1>6, <1>7, <1>9, <2>1 DEF TurnOf, ScanIsAwaited, Connected,
       MovesTo, Worker, x, Builds
  <2>4. AttemptIsOurs'
    <3>1. attempt[k].state \notin {"waiting", "password"} /\ qr # k /\ working # k
      BY <1>1, <1>3, <1>4, <1>5, <1>6, <1>7, <1>9, <2>1, Numbers DEF TurnOf, NamedAreBuilt, Built
    <3>2. \A d \in Client : Pending(d)' => d # k /\ Pending(d)
      BY <1>1, <1>3, <1>4, <1>5, <1>6, <1>7, <3>1 DEF Pending, Open, Builds
    <3> QED BY <1>1, <1>3, <1>4, <1>5, <1>6, <1>7, <1>9, <2>1, <3>2 DEF TurnOf, AttemptIsOurs,
               Builds
  <2>5. QrWorks'
    <3>1. attempt[k].state \notin {"waiting", "password"} /\ qr # k /\ working # k
      BY <1>1, <1>3, <1>4, <1>5, <1>6, <1>7, <1>9, <2>1, Numbers DEF TurnOf, NamedAreBuilt, Built
    <3>2. Open(qr)' => Open(qr)
      BY <1>1, <1>3, <1>4, <1>5, <1>6, <1>7, <3>1, TypesHold, Numbers DEF Open, Builds
    <3> QED BY <1>1, <1>3, <1>4, <1>5, <1>6, <1>7, <1>9, <2>1, <3>2 DEF TurnOf, QrWorks, Open
  <2>6. AskedForCode'
    BY <1>1, <1>3, <1>4, <1>5, <1>6, <1>7, <1>9, <2>1, Numbers, TypesHold DEF TurnOf,
       AskedForCode, Stage, Connected, NoQr, Pending, Open, Entered, x, Builds
  <2>7. NamedAreBuilt'
    BY <1>1, <1>3, <1>4, <1>5, <1>6, <1>7, <1>9, <2>1, Numbers, TypesHold DEF TurnOf,
       NamedAreBuilt, Built, Stage, Connected, NoQr, Pending, Open, Entered, x, Builds
  <2>8. OpenForSomething(t)'
    BY <1>1, <1>3, <1>4, <1>5, <1>6, <1>7, <1>9, <2>1 DEF TurnOf, OpenForSomething, Holds,
       MovesTo, x, Builds
  <2>9. OneAlive(t)'
    BY <1>1, <1>3, <1>4, <1>5, <1>6, <1>7, <1>9, <2>1 DEF TurnOf, OneAlive, Alive, Holds,
       MovesTo, x, Builds
  <2>10. SavedIsKept(t)'
    <3>1. attempt[k].state \notin {"waiting", "password"} /\ qr # k /\ working # k
      BY <1>1, <1>3, <1>4, <1>5, <1>6, <1>7, <1>9, <2>1, Numbers DEF TurnOf, NamedAreBuilt, Built
    <3>2. /\ Open(working)' => Open(working)
          /\ working # 0 => client'[working] = client[working]
      BY <1>1, <1>3, <1>4, <1>5, <1>6, <1>7, <3>1, TypesHold, Numbers DEF Open, Builds
    <3> QED BY <1>1, <1>3, <1>4, <1>5, <1>6, <1>7, <1>9, <2>1, <3>2 DEF TurnOf, SavedIsKept,
               Open, MovesTo, x
  <2>11. AllOurs(t)'
    BY <1>1, <1>3, <1>4, <1>5, <1>6, <1>7, <1>9, <2>1 DEF TurnOf, AllOurs, Alive, Holds,
       MovesTo, x, Builds
  <2>12. GoneAtRest(t)'
    BY <1>1, <1>3, <1>4, <1>5, <1>6, <1>7, <1>9, <2>1 DEF TurnOf, GoneAtRest, MovesTo, x, Builds
  <2>13. Stage(worker[t])'
    <3>1. attempt[k].state \notin {"waiting", "password"} /\ qr # k /\ working # k
      BY <1>1, <1>3, <1>4, <1>5, <1>6, <1>7, <1>9, <2>1, Numbers DEF TurnOf, NamedAreBuilt, Built
    <3>2. x.seen = account
      BY <1>1, <1>3, <1>4, <1>5, <1>6, <1>7, <1>9, <2>1 DEF TurnOf, Stage, x
    <3>3. ~Open(working)'
      BY <1>1, <1>3, <1>4, <1>5, <1>6, <1>7, <3>1, TypesHold, Numbers DEF Open, Builds
    <3>4. Connected(worker[t].client, account.session)'
      BY <1>1, <1>3, <1>4, <1>5, <1>6, <1>7, <3>2 DEF Connected, MovesTo, Builds
    <3> QED BY <1>1, <1>3, <1>4, <1>5, <1>6, <1>7, <3>1, <3>2, <3>3, <3>4 DEF Stage, MovesTo
  <2> QED BY <2>2, <2>3, <2>4, <2>5, <2>6, <2>7, <2>8, <2>9, <2>10, <2>11, <2>12, <2>13 DEF TurnOf
<1> QED BY <1>8, <1>9, <1>1 DEF LoginInv

\* The saved session works.
LEMMA UseOpenedKeeps ==
  ASSUME LoginInv, NEW t \in Task, UseOpened(t), Alive(client[worker[t].client].key)
  PROVE  LoginInv'
<1> DEFINE x == worker[t]
<1>1. /\ LoginRows /\ t \in Worker /\ x \in WorkerRow /\ Handled(t, x)
      /\ x.at = "connect" /\ x.op = "use" /\ x.client \in Client
  BY TypesHold, RowsOfLogin, Numbers DEF LoginInv, UseOpened, Does, Handled, Worker, NoWork, Open
<1>2. MovesTo(t, "none", "idle", 0, NoRow, "none")
  BY <1>1, Moves, RowsOfLogin, TypesHold, Numbers DEF UseOpened, Does, Place, Doing, Who, Raises
<1>3. /\ working' = x.client
      /\ Alive(client[x.client].key)
      /\ UNCHANGED <<account, client, pass, login, qr, attempt, lock, alarms, commands, troubles, story>>
  BY <1>1, TypesHold DEF UseOpened, Does
<1> HIDE DEF x
<1>4. LoginRows'
  <2>1. Handled(t, worker'[t]) /\ x.at # "tell" /\ worker'[t].at # "tell"
    BY <1>1, <1>2, <1>3, TypesHold DEF Handled, MovesTo, NoWork, LoginOp
  <2>2. ClientsAreBuilt'
    BY <1>1, <1>2, <1>3, TypesHold, Numbers DEF ClientsAreBuilt, Built
  <2>3. \A v \in Worker : worker'[v] = worker[v]
           \/ (worker[v].at # "tell" /\ worker'[v].at # "tell" /\ Handled(v, worker'[v]))
    BY <1>2, <2>1 DEF MovesTo, x
  <2> QED BY <1>1, <1>2, <1>3, <2>2, <2>3, RowsFollow, TypesHold, Numbers DEF MovesTo
<1>5. ASSUME story' = {} PROVE TurnOf(t)'
  <2>1. TurnOf(t)
    BY <1>1, <1>3, <1>5, TurnGoesOn DEF x, AllDone
  <2>2. Rest(t)'
    BY <1>1, <1>2, <2>1, RestFollows DEF TurnOf
  <2>3. ScanIsAwaited'
    BY <1>1, <1>2, <1>3, <1>5, <2>1 DEF TurnOf, ScanIsAwaited, Connected, MovesTo, Worker, x
  <2>4. AttemptIsOurs'
    BY <1>1, <1>2, <1>3, <1>5, <2>1 DEF TurnOf, AttemptIsOurs, Pending, Open, MovesTo, x
  <2>5. QrWorks'
    BY <1>1, <1>2, <1>3, <1>5, <2>1, Numbers DEF TurnOf, QrWorks, Open, Stage, Connected, x
  <2>6. AskedForCode'
    BY <1>1, <1>2, <1>3, <1>5, <2>1 DEF TurnOf, AskedForCode, x
  <2>7. NamedAreBuilt'
    BY <1>1, <1>2, <1>3, <1>5, <2>1, Numbers, TypesHold DEF TurnOf, NamedAreBuilt, Built, Stage,
       Connected, NoQr, Pending, Open, Entered, Handled, Holds, Alive, MindsQr, AttemptIsOurs,
       ScanIsAwaited, Worker, x
  <2>8. OpenForSomething(t)'
    BY <1>1, <1>2, <1>3, <1>5, <2>1, Numbers, TypesHold DEF TurnOf, OpenForSomething, Holds,
       MovesTo, Stage, Connected, NoQr, Pending, Open, Entered, x
  <2>9. OneAlive(t)'
    BY <1>1, <1>2, <1>3, <1>5, <2>1, Numbers, TypesHold DEF TurnOf, OneAlive, Alive, Holds,
       MovesTo, Stage, Connected, NoQr, Pending, Open, Entered, x
  <2>10. SavedIsKept(t)'
    BY <1>1, <1>2, <1>3, <1>5, <2>1, Numbers DEF TurnOf, SavedIsKept, Open, MovesTo, Stage,
       Connected, x
  <2>11. AllOurs(t)'
    BY <1>1, <1>2, <1>3, <1>5, <2>1 DEF TurnOf, AllOurs, Alive, Holds, MovesTo, x
  <2>12. GoneAtRest(t)'
    BY <1>1, <1>2, <1>3, <1>5, <2>1 DEF TurnOf, GoneAtRest, MovesTo, x
  <2>13. Stage(worker[t])'
    BY <1>1, <1>2, <1>3, <1>5, <2>1 DEF TurnOf, Stage, MovesTo, x
  <2> QED BY <2>2, <2>3, <2>4, <2>5, <2>6, <2>7, <2>8, <2>9, <2>10, <2>11, <2>12, <2>13 DEF TurnOf
<1> QED BY <1>4, <1>5, <1>1 DEF LoginInv

\* The saved session is dead.
LEMMA UseRefusedKeeps ==
  ASSUME LoginInv, NEW t \in Task, UseOpened(t), ~Alive(client[worker[t].client].key)
  PROVE  LoginInv'
<1> DEFINE x == worker[t]
<1>1. /\ LoginRows /\ t \in Worker /\ x \in WorkerRow /\ Handled(t, x)
      /\ x.at = "connect" /\ x.op = "use" /\ x.client \in Client
  BY TypesHold, RowsOfLogin, Numbers DEF LoginInv, UseOpened, Does, To, Handled, Worker, NoWork,
     Open
<1>2. MovesTo(t, x.op, "report", x.client, x.seen, x.who)
  BY <1>1, Moves, RowsOfLogin, TypesHold, Numbers DEF UseOpened, Does, To, Place, Doing, Who,
     Raises
<1>3. UNCHANGED <<account, pass, working, login, qr, attempt, lock, alarms, commands, troubles, story>>
  BY <1>1, TypesHold DEF UseOpened, Does, To
<1>4. client' = Closed({x.client})
  BY <1>1, TypesHold DEF UseOpened, Does, To
<1>5. Closes({x.client})
  BY <1>1, <1>3, <1>4, Changes, Numbers
<1> HIDE DEF x
<1>6. LoginRows'
  <2>1. Handled(t, worker'[t]) /\ x.at # "tell" /\ worker'[t].at # "tell"
    BY <1>1, <1>2, <1>3, <1>5, TypesHold DEF Handled, MovesTo, NoWork, LoginOp
  <2>2. ClientsAreBuilt'
    BY <1>1, <1>2, <1>3, <1>5, TypesHold, Numbers DEF ClientsAreBuilt, Built, Closes
  <2>3. \A v \in Worker : worker'[v] = worker[v]
           \/ (worker[v].at # "tell" /\ worker'[v].at # "tell" /\ Handled(v, worker'[v]))
    BY <1>2, <2>1 DEF MovesTo, x
  <2> QED BY <1>1, <1>2, <1>3, <1>5, <2>2, <2>3, RowsFollow, TypesHold, Numbers DEF MovesTo,
             Closes
<1>7. ASSUME story' = {} PROVE TurnOf(t)'
  <2>1. TurnOf(t)
    BY <1>1, <1>3, <1>4, <1>7, TurnGoesOn DEF x, AllDone
  <2>2. Rest(t)'
    BY <1>1, <1>2, <2>1, RestFollows DEF TurnOf
  <2>3. ScanIsAwaited'
    BY <1>1, <1>2, <1>3, <1>5, <1>7, <2>1, Numbers DEF TurnOf, ScanIsAwaited, Connected,
       MovesTo, Worker, Stage, Connected, x, Closes
  <2>4. AttemptIsOurs'
    BY <1>1, <1>2, <1>3, <1>5, <1>7, <2>1 DEF TurnOf, AttemptIsOurs, Pending, Open, MovesTo, x,
       Closes
  <2>5. QrWorks'
    BY <1>1, <1>2, <1>3, <1>5, <1>7, <2>1, Numbers, TypesHold DEF TurnOf, QrWorks, Open, Stage,
       Connected, NoQr, Pending, Entered, x, Closes
  <2>6. AskedForCode'
    BY <1>1, <1>2, <1>3, <1>5, <1>7, <2>1, Numbers, TypesHold DEF TurnOf, AskedForCode, Stage,
       Connected, NoQr, Pending, Open, Entered, x, Closes
  <2>7. NamedAreBuilt'
    BY <1>1, <1>2, <1>3, <1>5, <1>7, <2>1, Numbers, TypesHold DEF TurnOf, NamedAreBuilt, Built,
       Stage, Connected, NoQr, Pending, Open, Entered, x, Closes
  <2>8. OpenForSomething(t)'
    BY <1>1, <1>2, <1>3, <1>5, <1>7, <2>1 DEF TurnOf, OpenForSomething, Holds, MovesTo, x, Closes
  <2>9. OneAlive(t)'
    BY <1>1, <1>2, <1>3, <1>5, <1>7, <2>1 DEF TurnOf, OneAlive, Alive, Holds, MovesTo, x, Closes
  <2>10. SavedIsKept(t)'
    BY <1>1, <1>2, <1>3, <1>5, <1>7, <2>1, Numbers, TypesHold DEF TurnOf, SavedIsKept, Open,
       MovesTo, Stage, Connected, NoQr, Pending, Entered, x, Closes
  <2>11. AllOurs(t)'
    BY <1>1, <1>2, <1>3, <1>5, <1>7, <2>1 DEF TurnOf, AllOurs, Alive, Holds, MovesTo, x, Closes
  <2>12. GoneAtRest(t)'
    BY <1>1, <1>2, <1>3, <1>5, <1>7, <2>1 DEF TurnOf, GoneAtRest, MovesTo, x, Closes
  <2>13. Stage(worker[t])'
    BY <1>1, <1>2, <1>3, <1>5, <1>7, <2>1 DEF TurnOf, Stage, MovesTo, x, Closes
  <2> QED BY <2>2, <2>3, <2>4, <2>5, <2>6, <2>7, <2>8, <2>9, <2>10, <2>11, <2>12, <2>13 DEF TurnOf
<1> QED BY <1>6, <1>7, <1>1 DEF LoginInv

\* A task that found the session dead locks the row.
LEMMA ReportKeeps == ASSUME LoginInv, NEW t \in Task, Report(t), ~account.gone PROVE LoginInv'
<1>1. /\ LoginRows /\ t \in Worker /\ worker[t].at = "report" /\ worker[t].op = "use"
      /\ lock = 0 /\ lock' = t
      /\ UNCHANGED <<account, memory, alarms, commands, troubles, story>>
  BY DEF LoginInv, Report, Does, CanLock, Worker
<1>2. MovesTo(t, worker[t].op, "tell", worker[t].client, account, worker[t].who)
  <2>1. worker' = [worker EXCEPT ![t].at = "tell", ![t].seen = account] /\ account \in AccountRow
    BY <1>1, TypesHold DEF Report
  <2>2. "tell" \in Place
    BY DEF Place
  <2> QED BY <1>1, <2>1, <2>2, Moves
<1>3. /\ worker' \in [Worker -> WorkerRow]
      /\ worker'[t].at = "tell" /\ worker'[t].op = "use" /\ worker'[t].seen = account
      /\ \A v \in Worker \ {t} : worker'[v] = worker[v]
  BY <1>1, <1>2 DEF MovesTo
<1>4. LoginRows'
  <2>1. LoginTypeOK'
    <3>1. \A v \in Worker : worker[v].at # "tell"
      BY <1>1, TypesOfLogin, Numbers DEF LoginRows
    <3>2. \A v \in Worker : worker'[v].at = "tell" => lock' = v
      BY <1>1, <1>3, <3>1
    <3> QED BY <1>1, <1>3, <3>2, TypesOfLogin
            DEF LoginRows, memory, LoginTypeOK, ClientRow, AttemptRow, WorkerRow, Who, Doing, Place
  <2>2. \A v \in Worker : Handled(v, worker'[v])
    BY <1>1, <1>3, TypesHold DEF Handled
  <2>3. RowIsLocked'
    BY <1>1, <1>3 DEF RowIsLocked
  <2>4. ClientsAreBuilt' /\ ToldOncePerLoss'
    BY <1>1 DEF LoginRows, memory, ClientsAreBuilt, Built, ToldOncePerLoss
  <2>5. \A v \in Worker : Handled(v, worker[v])'
    BY <2>2 DEF Handled, NoWork, NoRow
  <2> QED BY <2>1, <2>3, <2>4, <2>5 DEF LoginRows
<1>5. ASSUME story' = {} PROVE TurnOf(t)'
  <2>1. TurnOf(t)
    BY <1>1, <1>5, TurnGoesOn
  <2>2. Rest(t)'
    BY <1>3, <2>1 DEF TurnOf, Rest
  <2>3. ScanIsAwaited' /\ AttemptIsOurs' /\ QrWorks' /\ AskedForCode' /\ NamedAreBuilt'
    BY <1>1, <1>3, <2>1
       DEF TurnOf, memory, ScanIsAwaited, AttemptIsOurs, QrWorks, AskedForCode, NamedAreBuilt,
           Connected, Pending, Open, Built, Worker
  <2>4. OpenForSomething(t)' /\ OneAlive(t)' /\ SavedIsKept(t)' /\ AllOurs(t)' /\ GoneAtRest(t)'
    BY <1>1, <1>3, <2>1 DEF TurnOf, memory, OpenForSomething, OneAlive, SavedIsKept, AllOurs,
       GoneAtRest, Holds, Alive, Open
  <2>5. Stage(worker[t])'
    BY <1>3 DEF Stage
  <2> QED BY <2>2, <2>3, <2>4, <2>5 DEF TurnOf
<1> QED BY <1>1, <1>4, <1>5 DEF LoginInv

\* A deleted account is reported on: never in turn.
LEMMA ReportGoneKeeps ==
  ASSUME LoginInv, NEW t \in Task, Report(t), account.gone
  PROVE  LoginInv'
<1> DEFINE x == worker[t]
<1>1. /\ LoginRows /\ t \in Worker /\ x \in WorkerRow /\ Handled(t, x)
      /\ x.at = "report" /\ x.op = "use"
  BY TypesHold, RowsOfLogin, Numbers DEF LoginInv, Report, Does, memory, Handled, Worker, NoWork,
     Open
<1>2. MovesTo(t, "none", "idle", 0, NoRow, "none")
  BY <1>1, Moves, RowsOfLogin, TypesHold, Numbers DEF Report, Does, memory, Place, Doing, Who,
     Raises
<1>3. /\ account.gone
      /\ UNCHANGED <<account, client, pass, working, login, qr, attempt, lock, alarms, commands,
                     troubles, story>>
  BY <1>1, TypesHold DEF Report, Does, memory
<1> HIDE DEF x
<1>4. LoginRows'
  <2>1. Handled(t, worker'[t]) /\ x.at # "tell" /\ worker'[t].at # "tell"
    BY <1>1, <1>2, <1>3, TypesHold DEF Handled, MovesTo, NoWork, LoginOp
  <2>2. ClientsAreBuilt'
    BY <1>1, <1>2, <1>3, TypesHold, Numbers DEF ClientsAreBuilt, Built
  <2>3. \A v \in Worker : worker'[v] = worker[v]
           \/ (worker[v].at # "tell" /\ worker'[v].at # "tell" /\ Handled(v, worker'[v]))
    BY <1>2, <2>1 DEF MovesTo, x
  <2> QED BY <1>1, <1>2, <1>3, <2>2, <2>3, RowsFollow, TypesHold, Numbers DEF MovesTo
<1>5. ASSUME story' = {} PROVE TurnOf(t)'
  <2>1. TurnOf(t)
    BY <1>1, <1>3, <1>5, TurnGoesOn DEF x, AllDone
  <2> QED BY <1>1, <1>3, <2>1 DEF TurnOf, GoneAtRest, x
<1> QED BY <1>4, <1>5, <1>1 DEF LoginInv

\* It writes the status and tells of it, if the row did not say so before.
LEMMA TellKeeps == ASSUME LoginInv, NEW t \in Task, Tell(t) PROVE LoginInv'
<1>1. /\ LoginRows /\ t \in Worker /\ worker[t].at = "tell"
      /\ lock = t /\ lock' = 0 /\ worker[t].seen.status = account.status
      /\ account' = [account EXCEPT !.status = "error"]
      /\ alarms' = IF account'.status = "error"
                   THEN alarms + (IF worker[t].seen.status # "error" THEN 1 ELSE 0) ELSE 0
      /\ UNCHANGED <<memory, commands, troubles, story>>
  <2>1. worker[t].at = "tell" /\ t \in Worker /\ LoginRows
    BY DEF LoginInv, Tell, Does, Worker
  <2>2. lock = t /\ t # 0
    BY <2>1, TypesOfLogin, Numbers DEF LoginRows
  <2> QED BY <2>1, <2>2 DEF LoginRows, RowIsLocked, Tell, RowIs
<1>2. /\ account' \in AccountRow /\ account'.status = "error" /\ account'.user = account.user
      /\ account'.session = account.session /\ account'.gone = account.gone
  BY <1>1, ErrorRow, TypesHold
<1>3. MovesTo(t, "none", "idle", 0, NoRow, "none")
  BY <1>1, Moves DEF Tell
<1>4. /\ worker' \in [Worker -> WorkerRow]
      /\ worker'[t] = NoWork /\ worker'[t].at = "idle"
      /\ \A v \in Worker \ {t} : worker'[v] = worker[v]
  BY <1>3, RowsOfLogin DEF MovesTo
<1>5. LoginRows'
  <2>1. alarms = IF account.status = "error" THEN 1 ELSE 0
    BY <1>1 DEF LoginRows, ToldOncePerLoss
  <2>2. alarms' = 1
    BY <1>1, <1>2, <2>1
  <2>3. LoginTypeOK'
    <3>1. \A v \in Worker : v # t => worker[v].at # "tell"
      BY <1>1, TypesOfLogin DEF LoginRows
    <3>2. \A v \in Worker : worker'[v].at # "tell"
      BY <1>4, <3>1
    <3> QED BY <1>1, <1>2, <1>4, <2>2, <3>2, TypesOfLogin
            DEF LoginRows, memory, LoginTypeOK, ClientRow, AttemptRow, WorkerRow, Who, Doing, Place
  <2>4. \A v \in Worker : Handled(v, worker'[v])
    BY <1>1, <1>4, TypesHold DEF Handled
  <2>5. \A v \in Worker : Handled(v, worker[v])'
    BY <2>4 DEF Handled, NoWork, NoRow
  <2>6. RowIsLocked' /\ ToldOncePerLoss'
    BY <1>1, <1>2, <2>2 DEF RowIsLocked, ToldOncePerLoss
  <2>7. ClientsAreBuilt'
    BY <1>1 DEF LoginRows, memory, ClientsAreBuilt, Built
  <2> QED BY <2>3, <2>5, <2>6, <2>7 DEF LoginRows
<1>6. ASSUME story' = {} PROVE TurnOf(t)'
  <2>1. TurnOf(t)
    BY <1>1, <1>6, TurnGoesOn
  <2>2. Rest(t)'
    BY <1>4, <2>1 DEF TurnOf, Rest
  <2>3. ScanIsAwaited' /\ QrWorks' /\ AskedForCode' /\ NamedAreBuilt'
    BY <1>1, <1>4, <2>1
       DEF TurnOf, memory, ScanIsAwaited, QrWorks, AskedForCode, NamedAreBuilt,
           Connected, Open, Built, Worker
  <2>4. AttemptIsOurs'
    BY <1>1, <1>2, <2>1 DEF TurnOf, memory, AttemptIsOurs, Pending, Open
  <2>5. OpenForSomething(t)' /\ OneAlive(t)'
    BY <1>1, <1>4, <2>1 DEF TurnOf, memory, OpenForSomething, OneAlive, Holds, Alive
  <2>6. SavedIsKept(t)' /\ AllOurs(t)' /\ GoneAtRest(t)'
    BY <1>1, <1>2, <1>4, <2>1 DEF TurnOf, memory, SavedIsKept, AllOurs, GoneAtRest, Holds,
       Alive, Open
  <2>7. Stage(worker[t])'
    BY <1>4 DEF Stage
  <2> QED BY <2>2, <2>3, <2>4, <2>5, <2>6, <2>7 DEF TurnOf
<1> QED BY <1>1, <1>5, <1>6 DEF LoginInv

-----------------------------------------------------------------------------
(* Signing out, and what happens to the process.                           *)

\* provider.stop leaves nothing connected.
LEMMA StopKeeps == ASSUME LoginInv, NEW t \in Task, Stop(t) PROVE LoginInv'
<1> DEFINE y == IF worker[t].op = "logout" THEN [worker[t] EXCEPT !.at = "write"] ELSE NoWork
<1>1. /\ LoginRows /\ t \in Worker /\ t \notin Client
      /\ working' = 0 /\ login' = 0 /\ qr' = 0
      /\ worker[t].at = "go" /\ worker[t].op \in {"disconnect", "logout"} /\ worker[t].client = 0
      /\ worker[t] \in WorkerRow
      /\ UNCHANGED <<account, attempt, lock, alarms, commands, troubles, story>>
  BY TypesHold, Numbers DEF LoginInv, Stop, Worker, Handled
<1>2. /\ y \in WorkerRow
      /\ \/ y = NoWork /\ y.at = "idle"
         \/ y.op = "logout" /\ y.at = "write" /\ y.seen = worker[t].seen
  <2>1. CASE worker[t].op = "logout"
    <3>1. y = [op |-> "logout", at |-> "write", client |-> 0, seen |-> worker[t].seen,
               who |-> worker[t].who]
      BY <1>1, <2>1 DEF WorkerRow
    <3>2. "logout" \in Doing /\ "write" \in Place
      BY DEF Doing, LoginOp, Place
    <3> HIDE DEF y
    <3> QED BY <1>1, <3>1, <3>2, RowsOfLogin, Numbers
  <2>2. CASE worker[t].op # "logout"
    BY <2>2, RowsOfLogin
  <2> QED BY <2>1, <2>2
<1>3. worker' = [w \in Worker |-> IF w = t THEN y ELSE IF Cancelled(w) THEN NoWork ELSE worker[w]]
  BY DEF Stop
<1> HIDE DEF y
<1>4. /\ worker' \in [Worker -> WorkerRow] /\ worker'[t] = y
      /\ \A v \in Worker \ {t} : \/ worker'[v] = worker[v] /\ v # qr
                                 \/ v = qr /\ v \in Client /\ worker[v].at # "tell"
                                    /\ worker'[v] = NoWork /\ worker'[v].at = "idle"
                                    /\ Handled(v, worker'[v])
  BY <1>1, <1>2, <1>3, CancelKeeps
<1>5. Closes(Stops)
  BY <1>1, Changes DEF Stop
<1>6. \/ pass' = pass
      \/ Open(working) /\ Becomes(client[working].key, "revoked")
  <2>1. pass' = pass \/ (Open(working)
        /\ pass' = [pass EXCEPT ![client[working].key] = "revoked"])
    BY DEF Stop, Revoked
  <2> QED BY <1>1, <2>1, Changes
<1>7. /\ pass' \in [Client -> Person \cup {"none", "revoked"}]
      /\ \A k \in Client : pass'[k] = pass[k]
                           \/ (pass'[k] = "revoked" /\ Open(working) /\ k = client[working].key)
  <2>0. pass \in [Client -> Person \cup {"none", "revoked"}]
    BY <1>1, TypesHold
  <2>1. CASE pass' = pass
    <3>1. \A k \in Client : pass'[k] = pass[k]
      BY <2>1
    <3>2. pass' \in [Client -> Person \cup {"none", "revoked"}]
      BY <2>0, <2>1
    <3> QED BY <3>1, <3>2
  <2>2. CASE Open(working) /\ Becomes(client[working].key, "revoked")
    <3> DEFINE j == client[working].key
    <3>1. /\ pass' \in [Client -> Person \cup {"none", "revoked"}]
          /\ j \in Client => pass'[j] = "revoked"
          /\ \A k \in Client \ {j} : pass'[k] = pass[k]
      BY <2>2 DEF Becomes
    <3> HIDE DEF j
    <3>2. \A k \in Client : pass'[k] = pass[k] \/ (pass'[k] = "revoked" /\ k = j)
      BY <3>1
    <3>3. Open(working) /\ j = client[working].key
      BY <2>2 DEF j
    <3>4. \A k \in Client : pass'[k] = pass[k]
             \/ (pass'[k] = "revoked" /\ Open(working) /\ k = client[working].key)
      BY <3>2, <3>3
    <3> QED BY <3>1, <3>4
  <2> QED BY <1>6, <2>1, <2>2
<1>8. LoginRows'
  <2>1. Handled(t, worker'[t]) /\ worker[t].at # "tell" /\ worker'[t].at # "tell"
    BY <1>1, <1>2, <1>4 DEF Handled
  <2>2. ClientsAreBuilt'
    BY <1>1, <1>5, <1>7, TypesHold DEF ClientsAreBuilt, Built, Closes, Person
  <2>3. \A v \in Worker : worker'[v] = worker[v]
           \/ (worker[v].at # "tell" /\ worker'[v].at # "tell" /\ Handled(v, worker'[v]))
    BY <1>4, <2>1
  <2> QED BY <1>1, <1>4, <1>5, <1>7, <2>2, <2>3, RowsFollow, TypesHold, Numbers DEF Closes
<1>9. ASSUME story' = {} PROVE TurnOf(t)'
  <2>1. TurnOf(t)
    BY <1>1, <1>9, TurnGoesOn
  <2>2. \A v \in Worker \ {t} : worker'[v].at = "idle"
    BY <1>1, <1>4, <2>1, CancelledInTurn
  <2>3. /\ \A c \in Client : client'[c].key = client[c].key
        /\ \A c \in Client : client'[c].open => client[c].open /\ c \notin Stops
    BY <1>1, <1>5 DEF Closes
  <2>4. \A c \in Client : ~client'[c].open
    <3>1. SUFFICES ASSUME NEW c \in Client, client'[c].open PROVE FALSE
      OBVIOUS
    <3>2. c \in {working, login, qr} /\ c # 0 /\ client[c].open
      BY <1>1, <2>1, <2>3, <3>1, Numbers DEF TurnOf, OpenForSomething, Holds
    <3>3. CASE c \in {working, login}
      BY <2>3, <3>1, <3>2, <3>3 DEF Stops
    <3>4. CASE c = qr
      BY <2>1, <2>3, <3>1, <3>2, <3>4 DEF TurnOf, QrWorks, Open, Stops, Forsaken
    <3> QED BY <3>2, <3>3, <3>4
  <2>5. ScanIsAwaited' /\ AttemptIsOurs' /\ QrWorks' /\ AskedForCode'
    BY <1>1, <2>2, <2>4, Numbers
       DEF ScanIsAwaited, AttemptIsOurs, QrWorks, AskedForCode, Pending, Open, Worker
  <2>6. \A k \in Client : pass'[k] # "none" => pass[k] # "none"
    <3>1. Open(working) => working \in Client /\ client[working].key = account.session
                           /\ (account.session # 0 => pass[account.session] # "none")
      BY <1>1, <2>1, TypesHold, Numbers DEF TurnOf, SavedIsKept, Open
    <3> QED BY <1>7, <3>1, Numbers
  <2>7. NamedAreBuilt'
    BY <1>1, <2>1, <2>3, <2>6 DEF TurnOf, NamedAreBuilt, Built
  <2>8. Rest(t)'
    BY <2>2 DEF Rest
  <2>9. OpenForSomething(t)' /\ OneAlive(t)'
    BY <2>4 DEF OpenForSomething, OneAlive
  <2>10. SavedIsKept(t)'
    <3>1. account.session # 0 => account.session \in Client
      BY <1>1, TypesHold, RowsOfLogin, Numbers
    <3> QED BY <1>1, <1>7, <2>1, <3>1 DEF TurnOf, SavedIsKept, Open
  <2>11. AllOurs(t)'
    BY <1>1, <1>7, <2>1 DEF TurnOf, AllOurs, Holds, Alive, Person
  <2>12. GoneAtRest(t)'
    BY <1>1, <2>1 DEF TurnOf, GoneAtRest
  <2>13. Stage(worker[t])'
    <3>1. worker[t].seen = account
      BY <1>1, <2>1 DEF TurnOf, Stage
    <3> QED BY <1>1, <1>2, <1>4, <2>4, <3>1 DEF Stage
  <2> QED BY <2>5, <2>7, <2>8, <2>9, <2>10, <2>11, <2>12, <2>13 DEF TurnOf
<1> QED BY <1>1, <1>8, <1>9 DEF LoginInv

\* The saved session is forgotten.
LEMMA LoggedOutKeeps ==
  ASSUME LoginInv, NEW t \in Task, LoggedOut(t)
  PROVE  LoginInv'
<1> DEFINE x == worker[t]
<1>1. /\ LoginRows /\ t \in Worker /\ x \in WorkerRow /\ Handled(t, x)
      /\ x.at = "write" /\ x.op = "logout"
  BY TypesHold, RowsOfLogin, Numbers DEF LoginInv, LoggedOut, Does, RowFree, RowIs, memory, To,
     Handled, Worker, NoWork, Open
<1>2. MovesTo(t, x.op, "delete", x.client, x.seen, x.who)
  BY <1>1, Moves, RowsOfLogin, TypesHold, Numbers DEF LoggedOut, Does, RowFree, RowIs, memory,
     To, Place, Doing, Who, Raises
<1>3. /\ lock = 0
      /\ UNCHANGED <<client, pass, working, login, qr, attempt, lock, commands, troubles, story>>
  BY <1>1, TypesHold DEF LoggedOut, Does, RowFree, RowIs, memory, To
<1>4. /\ account' = WrittenOver(x.seen, [x.seen EXCEPT !.session = 0, !.status = "pending"])
      /\ alarms' = IF account'.status = "error" THEN alarms + 0 ELSE 0
  BY <1>1, TypesHold DEF LoggedOut, Does, RowFree, RowIs, memory, To
<1>5. account' \in AccountRow /\ account'.status \in {account.status, "pending"}
  <2>1. account \in AccountRow /\ x.seen \in AccountRow
    BY <1>1, TypesHold, RowsOfLogin
  <2> DEFINE new == [x.seen EXCEPT !.session = 0, !.status = "pending"]
  <2>2. /\ new \in AccountRow /\ new.status = "pending" /\ new.user = x.seen.user
        /\ new.gone = x.seen.gone /\ new.session = 0
    BY <2>1, LoggedOutRow
  <2>3. account' = WrittenOver(x.seen, new)
    BY <1>1, <1>4
  <2> HIDE DEF new
  <2>4. /\ account' \in AccountRow
        /\ account'.status = IF new.status = x.seen.status THEN account.status ELSE new.status
        /\ account'.session = IF new.session = x.seen.session THEN account.session ELSE new.session
        /\ account'.user = IF new.user = x.seen.user THEN account.user ELSE new.user
        /\ account'.gone = IF new.gone = x.seen.gone THEN account.gone ELSE new.gone
    BY <2>1, <2>2, <2>3, WrittenRow
  <2> QED BY <2>2, <2>4
<1>6. alarms' = IF account'.status = "error" THEN 1 ELSE 0
  BY <1>1, <1>2, <1>3, <1>5, <1>4, TypesHold DEF LoginRows, ToldOncePerLoss
<1>7. account'.user = account.user /\ account'.gone = account.gone /\ account'.session \in {0, account.session}
  <2>1. account \in AccountRow /\ x.seen \in AccountRow
    BY <1>1, TypesHold, RowsOfLogin
  <2> DEFINE new == [x.seen EXCEPT !.session = 0, !.status = "pending"]
  <2>2. /\ new \in AccountRow /\ new.status = "pending" /\ new.user = x.seen.user
        /\ new.gone = x.seen.gone /\ new.session = 0
    BY <2>1, LoggedOutRow
  <2>3. account' = WrittenOver(x.seen, new)
    BY <1>1, <1>4
  <2> HIDE DEF new
  <2>4. /\ account' \in AccountRow
        /\ account'.status = IF new.status = x.seen.status THEN account.status ELSE new.status
        /\ account'.session = IF new.session = x.seen.session THEN account.session ELSE new.session
        /\ account'.user = IF new.user = x.seen.user THEN account.user ELSE new.user
        /\ account'.gone = IF new.gone = x.seen.gone THEN account.gone ELSE new.gone
    BY <2>1, <2>2, <2>3, WrittenRow
  <2> QED BY <2>2, <2>4
<1> HIDE DEF x
<1>8. LoginRows'
  <2>1. Handled(t, worker'[t]) /\ x.at # "tell" /\ worker'[t].at # "tell"
    BY <1>1, <1>2, <1>3, <1>5, <1>6, <1>7, TypesHold DEF Handled, MovesTo, NoWork, LoginOp
  <2>2. ClientsAreBuilt'
    BY <1>1, <1>2, <1>3, <1>5, <1>6, <1>7, TypesHold, Numbers DEF ClientsAreBuilt, Built
  <2>3. \A v \in Worker : worker'[v] = worker[v]
           \/ (worker[v].at # "tell" /\ worker'[v].at # "tell" /\ Handled(v, worker'[v]))
    BY <1>2, <2>1 DEF MovesTo, x
  <2> QED BY <1>1, <1>2, <1>3, <1>5, <1>6, <1>7, <2>2, <2>3, RowsFollow, TypesHold, Numbers
             DEF MovesTo
<1>9. ASSUME story' = {} PROVE TurnOf(t)'
  <2>1. TurnOf(t)
    BY <1>1, <1>3, <1>4, <1>9, TurnGoesOn DEF x, AllDone
  <2>2. Rest(t)'
    BY <1>1, <1>2, <2>1, RestFollows DEF TurnOf
  <2>3. ScanIsAwaited'
    BY <1>1, <1>2, <1>3, <1>5, <1>6, <1>7, <1>9, <2>1 DEF TurnOf, ScanIsAwaited, Connected,
       MovesTo, Worker, x
  <2>4. AttemptIsOurs'
    BY <1>1, <1>2, <1>3, <1>5, <1>6, <1>7, <1>9, <2>1 DEF TurnOf, AttemptIsOurs, Pending, Open,
       MovesTo, x
  <2>5. QrWorks'
    BY <1>1, <1>2, <1>3, <1>5, <1>6, <1>7, <1>9, <2>1 DEF TurnOf, QrWorks, Open, x
  <2>6. AskedForCode'
    BY <1>1, <1>2, <1>3, <1>5, <1>6, <1>7, <1>9, <2>1 DEF TurnOf, AskedForCode, x
  <2>7. NamedAreBuilt'
    BY <1>1, <1>2, <1>3, <1>5, <1>6, <1>7, <1>9, <2>1 DEF TurnOf, NamedAreBuilt, Built, x
  <2>8. OpenForSomething(t)'
    BY <1>1, <1>2, <1>3, <1>5, <1>6, <1>7, <1>9, <2>1 DEF TurnOf, OpenForSomething, Holds,
       MovesTo, x
  <2>9. OneAlive(t)'
    BY <1>1, <1>2, <1>3, <1>5, <1>6, <1>7, <1>9, <2>1 DEF TurnOf, OneAlive, Alive, Holds,
       MovesTo, x
  <2>10. SavedIsKept(t)'
    BY <1>1, <1>2, <1>3, <1>5, <1>6, <1>7, <1>9, <2>1, Numbers DEF TurnOf, SavedIsKept, Open,
       MovesTo, Stage, Connected, x
  <2>11. AllOurs(t)'
    BY <1>1, <1>2, <1>3, <1>5, <1>6, <1>7, <1>9, <2>1 DEF TurnOf, AllOurs, Alive, Holds,
       MovesTo, x
  <2>12. GoneAtRest(t)'
    BY <1>1, <1>2, <1>3, <1>5, <1>6, <1>7, <1>9, <2>1 DEF TurnOf, GoneAtRest, MovesTo, x
  <2>13. Stage(worker[t])'
    BY <1>1, <1>2, <1>3, <1>5, <1>6, <1>7, <1>9, <2>1 DEF TurnOf, Stage, MovesTo, x
  <2> QED BY <2>2, <2>3, <2>4, <2>5, <2>6, <2>7, <2>8, <2>9, <2>10, <2>11, <2>12, <2>13 DEF TurnOf
<1> QED BY <1>8, <1>9, <1>1 DEF LoginInv

\* The account is deleted after its session was closed.
LEMMA DeleteKeeps ==
  ASSUME LoginInv, NEW t \in Task, Delete(t), Does(t, "logout", "delete"), Ends(t),
                 UNCHANGED story
  PROVE  LoginInv'
<1> DEFINE x == worker[t]
<1>1. /\ LoginRows /\ t \in Worker /\ x \in WorkerRow /\ Handled(t, x)
      /\ x.at = "delete" /\ x.op = "logout"
  BY TypesHold, RowsOfLogin, Numbers DEF LoginInv, Delete, Does, RowFree, RowIs, memory,
     Handled, Worker, NoWork, Open
<1>2. MovesTo(t, "none", "idle", 0, NoRow, "none")
  BY <1>1, Moves, RowsOfLogin, TypesHold, Numbers DEF Delete, Does, RowFree, RowIs, memory,
     Place, Doing, Who, Raises
<1>3. /\ lock = 0
      /\ UNCHANGED <<client, pass, working, login, qr, attempt, lock, commands, troubles, story>>
  BY <1>1, TypesHold DEF Delete, Does, RowFree, RowIs, memory
<1>4. /\ account' = [account EXCEPT !.gone = TRUE, !.status = "disconnected"]
      /\ alarms' = IF account'.status = "error" THEN alarms + 0 ELSE 0
  BY <1>1, TypesHold DEF Delete, Does, RowFree, RowIs, memory
<1>5. account' \in AccountRow /\ account'.status = "disconnected" /\ account'.user = account.user
      /\ account'.session = account.session
  BY <1>1, <1>2, <1>3, <1>4, TypesHold, RowsOfLogin, Numbers, DeletedRow DEF LoginRows,
     ToldOncePerLoss, Status, Person
<1>6. alarms' = 0
  BY <1>1, <1>2, <1>3, <1>5, <1>4, TypesHold, RowsOfLogin, Numbers, DeletedRow DEF LoginRows,
     ToldOncePerLoss, Status, Person
<1> HIDE DEF x
<1>7. LoginRows'
  <2>1. Handled(t, worker'[t]) /\ x.at # "tell" /\ worker'[t].at # "tell"
    BY <1>1, <1>2, <1>3, <1>5, <1>6, TypesHold DEF Handled, MovesTo, NoWork, LoginOp
  <2>2. ClientsAreBuilt'
    BY <1>1, <1>2, <1>3, <1>5, <1>6, TypesHold, Numbers DEF ClientsAreBuilt, Built
  <2>3. \A v \in Worker : worker'[v] = worker[v]
           \/ (worker[v].at # "tell" /\ worker'[v].at # "tell" /\ Handled(v, worker'[v]))
    BY <1>2, <2>1 DEF MovesTo, x
  <2> QED BY <1>1, <1>2, <1>3, <1>5, <1>6, <2>2, <2>3, RowsFollow, TypesHold, Numbers DEF MovesTo
<1>8. ASSUME story' = {} PROVE TurnOf(t)'
  <2>1. TurnOf(t)
    BY <1>1, <1>3, <1>4, <1>8, TurnGoesOn DEF x, AllDone
  <2>2. Rest(t)'
    BY <1>1, <1>2, <2>1, RestFollows DEF TurnOf
  <2>3. ScanIsAwaited'
    BY <1>1, <1>2, <1>3, <1>5, <1>6, <1>8, <2>1 DEF TurnOf, ScanIsAwaited, Connected, MovesTo,
       Worker, x
  <2>4. AttemptIsOurs'
    BY <1>1, <1>2, <1>3, <1>5, <1>6, <1>8, <2>1 DEF TurnOf, AttemptIsOurs, Pending, Open,
       MovesTo, x
  <2>5. QrWorks'
    BY <1>1, <1>2, <1>3, <1>5, <1>6, <1>8, <2>1 DEF TurnOf, QrWorks, Open, x
  <2>6. AskedForCode'
    BY <1>1, <1>2, <1>3, <1>5, <1>6, <1>8, <2>1 DEF TurnOf, AskedForCode, x
  <2>7. NamedAreBuilt'
    BY <1>1, <1>2, <1>3, <1>5, <1>6, <1>8, <2>1 DEF TurnOf, NamedAreBuilt, Built, x
  <2>8. OpenForSomething(t)'
    BY <1>1, <1>2, <1>3, <1>5, <1>6, <1>8, <2>1 DEF TurnOf, OpenForSomething, Holds, MovesTo, x
  <2>9. OneAlive(t)'
    BY <1>1, <1>2, <1>3, <1>5, <1>6, <1>8, <2>1 DEF TurnOf, OneAlive, Alive, Holds, MovesTo, x
  <2>10. SavedIsKept(t)'
    BY <1>1, <1>2, <1>3, <1>5, <1>6, <1>8, <2>1 DEF TurnOf, SavedIsKept, Open, MovesTo, x
  <2>11. AllOurs(t)'
    BY <1>1, <1>2, <1>3, <1>5, <1>6, <1>8, <2>1 DEF TurnOf, AllOurs, Alive, Holds, MovesTo, x
  <2>12. GoneAtRest(t)'
    BY <1>1, <1>2, <1>3, <1>5, <1>6, <1>8, <2>1, Numbers DEF TurnOf, GoneAtRest, MovesTo, Stage,
       Connected, x
  <2>13. Stage(worker[t])'
    BY <1>1, <1>2, <1>3, <1>5, <1>6, <1>8, <2>1 DEF TurnOf, Stage, MovesTo, x
  <2> QED BY <2>2, <2>3, <2>4, <2>5, <2>6, <2>7, <2>8, <2>9, <2>10, <2>11, <2>12, <2>13 DEF TurnOf
<1> QED BY <1>7, <1>8, <1>1 DEF LoginInv

\* The answer to the command came too late: the account is deleted anyway.
LEMMA DeleteLateKeeps ==
  ASSUME LoginInv, NEW t \in Task, Delete(t), UNCHANGED worker, story' = story \cup {"late"}
  PROVE  LoginInv'
<1>1. /\ LoginRows /\ lock = 0
      /\ account' = [account EXCEPT !.gone = TRUE, !.status = "disconnected"]
      /\ alarms' = IF account'.status = "error" THEN alarms + 0 ELSE 0
      /\ UNCHANGED <<client, pass, working, login, qr, attempt, worker, lock, commands, troubles>>
  BY DEF LoginInv, Delete, RowFree, RowIs, memory
<1>2. account' \in AccountRow /\ account'.status = "disconnected"
  BY <1>1, DeletedRow, TypesHold
<1>3. alarms' = IF account'.status = "error" THEN 1 ELSE 0
  BY <1>1, <1>2
<1>4. LoginRows'
  <2>1. ClientsAreBuilt'
    BY <1>1, TypesHold DEF ClientsAreBuilt, Built
  <2> QED BY <1>1, <1>2, <1>3, <2>1, RowsFollow, TypesHold
<1> QED BY <1>4 DEF LoginInv

LEMMA CrashKeeps == ASSUME LoginInv, Crash PROVE LoginInv'
<1>1. /\ LoginRows /\ troubles' \in 0..MaxTroubles
      /\ working' = 0 /\ login' = 0 /\ qr' = 0 /\ lock' = 0
      /\ worker' = [w \in Worker |-> NoWork]
      /\ attempt' = [c \in Client |-> NoAttempt]
      /\ story' \subseteq {"tangled", "crash", "network", "late", "stray"}
      /\ story' = {} => story = {} /\ AllDone
      /\ UNCHANGED <<account, pass, alarms, commands>>
  BY TypesHold, Numbers DEF LoginInv, Crash
<1>2. Closes(Client)
  BY <1>1, Changes DEF Crash
<1>3. \A c \in Client : ~client'[c].open /\ client'[c].key = client[c].key
  BY <1>2 DEF Closes
<1>4. \A w \in Worker : worker'[w] = NoWork /\ worker'[w].at = "idle"
  BY <1>1, RowsOfLogin
<1>5. LoginRows'
  <2>1. worker' \in [Worker -> WorkerRow] /\ attempt' \in [Client -> AttemptRow]
    BY <1>1, RowsOfLogin
  <2>2. LoginTypeOK'
    <3>1. /\ account' \in AccountRow /\ client' \in [Client -> ClientRow]
          /\ pass' \in [Client -> Person \cup {"none", "revoked"}]
          /\ {working', login', qr'} \subseteq 0..MaxClients
          /\ lock' \in Worker \cup {0} /\ alarms' \in Nat
          /\ commands' \in 0..MaxCommands
      BY <1>1, <1>2, TypesHold, TypesOfLogin, Numbers DEF Closes, LoginRows
    <3>2. \A w \in Worker : worker'[w].at = "tell" => lock' = w
      BY <1>4
    <3> QED BY <1>1, <2>1, <3>1, <3>2
            DEF LoginTypeOK, ClientRow, AttemptRow, WorkerRow, Who, Doing, Place
  <2>3. \A w \in Worker : Handled(w, worker[w])'
    BY <1>4 DEF Handled, NoWork, NoRow
  <2>4. RowIsLocked' /\ ToldOncePerLoss'
    BY <1>1 DEF LoginRows, RowIsLocked, ToldOncePerLoss
  <2>5. ClientsAreBuilt'
    BY <1>1, <1>3, TypesHold DEF ClientsAreBuilt, Built
  <2> QED BY <2>2, <2>3, <2>4, <2>5 DEF LoginRows
<1>6. ASSUME story' = {}, NEW w \in Worker PROVE TurnOf(w)'
  <2>1. TurnOf(w) /\ worker[w].at \in {"idle", "wait"}
    BY <1>1, <1>6, NobodyIsBusy, TypesHold, RowsOfLogin DEF AllDone, Occupied, AwaitsScan
  <2>2. \A c \in Client : ~Pending(c)' /\ attempt'[c].state = "none"
    BY <1>1, <1>3 DEF Pending, Open, NoAttempt
  <2>3. ScanIsAwaited' /\ AttemptIsOurs' /\ QrWorks' /\ AskedForCode'
    BY <1>1, <1>4, <2>2, Numbers DEF ScanIsAwaited, AttemptIsOurs, QrWorks, AskedForCode, Open,
       Worker
  <2>4. NamedAreBuilt'
    BY <1>1, <1>3, <2>1, <2>2 DEF TurnOf, NamedAreBuilt, Built
  <2>5. Rest(w)' /\ OpenForSomething(w)' /\ OneAlive(w)' /\ GoneAtRest(w)'
    BY <1>3, <1>4 DEF Rest, OpenForSomething, OneAlive, GoneAtRest
  <2>6. SavedIsKept(w)'
    BY <1>1, <2>1 DEF TurnOf, SavedIsKept, Open
  <2>7. AllOurs(w)'
    BY <1>1, <2>1 DEF TurnOf, AllOurs, Alive, Holds
  <2>8. Stage(worker[w])'
    BY <1>4 DEF Stage
  <2> QED BY <2>3, <2>4, <2>5, <2>6, <2>7, <2>8 DEF TurnOf
<1>7. \E w \in Worker : TRUE
  BY Numbers, LoginBounds DEF Worker, Client
<1> QED BY <1>5, <1>6, <1>7 DEF LoginInv

\* The owner ends a session: nobody counts on it.
LEMMA OwnerRevokesKeeps == ASSUME LoginInv, NEW k \in Client, OwnerRevokes(k) PROVE LoginInv'
<1>1. /\ LoginRows /\ pass[k] \in Person /\ troubles' \in 0..MaxTroubles
      /\ UNCHANGED <<account, client, working, login, qr, attempt, worker, lock, alarms, commands, story>>
  BY TypesHold, Numbers DEF LoginInv, OwnerRevokes, Alive
<1>2. Becomes(k, "revoked")
  BY <1>1, Changes DEF OwnerRevokes
<1>3. /\ pass'[k] = "revoked"
      /\ \A j \in Client : j # k => pass'[j] = pass[j]
  BY <1>2 DEF Becomes
<1>4. LoginRows'
  <2>1. ClientsAreBuilt'
    BY <1>1, <1>3, TypesHold DEF ClientsAreBuilt, Built, Person
  <2> QED BY <1>1, <1>2, <2>1, RowsFollow, TypesHold DEF Becomes
<1>5. ASSUME NEW w \in Worker, TurnOf(w) PROVE TurnOf(w)'
  <2>1. \A j \in Client : Alive(j)' => Alive(j) /\ pass'[j] = pass[j]
    BY <1>3 DEF Alive, Person
  <2>2. AttemptIsOurs' /\ QrWorks' /\ AskedForCode' /\ OpenForSomething(w)' /\ GoneAtRest(w)'
        /\ Rest(w)'
    BY <1>1, <1>5 DEF TurnOf, AttemptIsOurs, Pending, Open, QrWorks, AskedForCode,
                      OpenForSomething, GoneAtRest, Rest, Holds
  <2>3. ScanIsAwaited'
    BY <1>1, <1>3, <1>5 DEF TurnOf, ScanIsAwaited, Connected, Person
  <2>4. NamedAreBuilt'
    BY <1>1, <1>3, <1>5 DEF TurnOf, NamedAreBuilt, Built, Person
  <2>5. OneAlive(w)'
    <3>1. \A c \in Client : client'[c].key = client[c].key /\ client[c].key \in 0..MaxClients
      BY <1>1, TypesHold DEF ClientRow
    <3>2. \A c \in Client : Alive(client[c].key)' => Alive(client[c].key)
      BY <1>1, <2>1, <3>1, Numbers DEF Alive
    <3> QED BY <1>1, <1>5, <3>2 DEF TurnOf, OneAlive, Holds
  <2>6. SavedIsKept(w)'
    <3>1. account.session \in 0..MaxClients
      BY <1>1, TypesHold, RowsOfLogin
    <3> QED BY <1>1, <1>3, <1>5, <3>1, Numbers DEF TurnOf, SavedIsKept, Open
  <2>7. AllOurs(w)'
    BY <1>1, <1>5, <2>1 DEF TurnOf, AllOurs, Holds
  <2>8. Stage(worker[w])'
    <3>1. Stage(worker[w])
      BY <1>5 DEF TurnOf
    <3>2. ASSUME worker[w].at \in {"swap", "load", "save"} PROVE Entered(worker[w])'
      <4>1. worker[w].client \in Client /\ Entered(worker[w])
        BY <1>1, <3>1, <3>2, TypesHold DEF Handled, Stage
      <4> QED BY <1>1, <1>3, <4>1 DEF Entered
    <3> HIDE DEF Entered
    <3> QED BY <1>1, <3>1, <3>2 DEF Stage, Connected, NoQr, Pending, Open, MindsQr
  <2> QED BY <2>2, <2>3, <2>4, <2>5, <2>6, <2>7, <2>8 DEF TurnOf
<1> QED BY <1>1, <1>4, <1>5 DEF LoginInv

LEMMA StutterKeeps == ASSUME LoginInv, UNCHANGED loginVars PROVE LoginInv'
<1> USE DEF loginVars, memory
<1>1. LoginRows'
  BY DEF LoginInv, LoginRows, LoginTypeOK, Handled, RowIsLocked, ClientsAreBuilt, Built,
         ToldOncePerLoss, NoWork, NoRow
<1>2. ASSUME NEW w \in Worker, TurnOf(w) PROVE TurnOf(w)'
  BY <1>2 DEF TurnOf, ScanIsAwaited, AttemptIsOurs, QrWorks, AskedForCode, NamedAreBuilt, Rest,
     OpenForSomething, OneAlive, SavedIsKept, AllOurs, GoneAtRest, Stage, Connected, NoQr,
     Pending, Open, Alive, Built, Holds, Entered, MindsQr
<1> QED BY <1>1, <1>2 DEF LoginInv
-----------------------------------------------------------------------------
(* Every step keeps the invariant, and what follows from it.               *)

LEMMA LoginStep == LoginInv /\ [LoginNext]_loginVars => LoginInv'
<1> SUFFICES ASSUME LoginInv, [LoginNext]_loginVars PROVE LoginInv'
  OBVIOUS
<1>1. ASSUME NEW t \in Task, SendCode(t) PROVE LoginInv'
  BY <1>1, SendCodeAgainKeeps, SendCodeAnewKeeps
<1>2. ASSUME NEW t \in Task, Confirm(t) PROVE LoginInv'
  <2>1. CASE Raises(t)
    BY <1>2, <2>1, RaisesKeeps DEF Confirm, Does
  <2> QED BY <1>2, <2>1, EntersCodeKeeps
<1>3. ASSUME NEW t \in Task, QrPassword(t) PROVE LoginInv'
  <2>1. CASE Raises(t)
    BY <1>3, <2>1, RaisesKeeps DEF QrPassword, Does
  <2> QED BY <1>3, <2>1, EntersPasswordKeeps
<1>4. ASSUME NEW t \in Task, SignInFails(t) \/ QrFails(t) PROVE LoginInv'
  BY <1>4, RaisesKeeps DEF SignInFails, QrFails
<1>5. ASSUME NEW t \in Task, UseWorking(t) PROVE LoginInv'
  BY <1>5, UseWorksKeeps, UseDeadKeeps
<1>6. ASSUME NEW t \in Task, UseOpened(t) PROVE LoginInv'
  BY <1>6, UseOpenedKeeps, UseRefusedKeeps
<1>7. ASSUME NEW t \in Task, Report(t) PROVE LoginInv'
  BY <1>7, ReportKeeps, ReportGoneKeeps
<1>8. ASSUME NEW t \in Task, Delete(t) PROVE LoginInv'
  BY <1>8, DeleteKeeps, DeleteLateKeeps DEF Delete
<1>9. ASSUME NEW c \in Client, NEW p \in Person, Scan(c, p) PROVE LoginInv'
  BY <1>9, ScannedKeeps, AskedPasswordKeeps DEF Scan
<1>10. ASSUME NEW w \in Worker, MeFails(w) PROVE LoginInv'
  BY <1>10, MeFailsKeeps, MeOfScanFailsKeeps DEF Worker
<1>11. ASSUME NEW w \in Worker, Stranger(w) PROVE LoginInv'
  BY <1>11, StrangerKeeps, StrangerScansKeeps DEF Worker
<1>12. ASSUME NEW w \in Worker, Welcome(w) PROVE LoginInv'
  <2>1. CASE worker[w].op = "confirm"
    BY <1>12, <2>1, CodeWelcomeKeeps, CodeSwapsKeeps
  <2>2. CASE worker[w].op # "confirm"
    BY <1>12, <2>2, QrWelcomeKeeps, QrSwapsKeeps
  <2> QED BY <2>1, <2>2
<1>13. ASSUME NEW w \in Worker, Swap(w) PROVE LoginInv'
  BY <1>13, SwappedCodeKeeps, SwappedQrKeeps
<1>14. ASSUME NEW w \in Worker, Load(w) PROVE LoginInv'
  BY <1>14, LoadKeeps, LoadGoneKeeps
<1>15. ASSUME NEW w \in Worker, Save(w) PROVE LoginInv'
  BY <1>15, SaveCodeKeeps, SaveQrKeeps
<1>16. ASSUME NEW w \in Worker, Reply(w) PROVE LoginInv'
  <2>1. CASE /\ RowIs([account EXCEPT !.status = "connected", !.user = worker[w].who], 0)
             /\ UNCHANGED story
    BY <1>16, <2>1, ReplyKeeps
  <2>2. CASE story' = story \cup {"late"} /\ UNCHANGED <<account, alarms>>
    BY <1>16, <2>2, ReplyLateKeeps
  <2> QED BY <1>16, <2>1, <2>2 DEF Reply
<1>17. CASE UNCHANGED loginVars
  BY <1>17, StutterKeeps
<1>18. CASE Crash
  BY <1>18, CrashKeeps
<1> QED BY <1>1, <1>2, <1>3, <1>4, <1>5, <1>6, <1>7, <1>8, <1>9, <1>10, <1>11, <1>12, <1>13,
           <1>14, <1>15, <1>16, <1>17, <1>18,
           CommandKeeps, CodeSentKeeps, CodeRefusedKeeps, CodeUnavailableKeeps, SignInKeeps,
           QrStartKeeps, QrShownKeeps, UseSavedKeeps, TellKeeps, StopKeeps, LoggedOutKeeps,
           QrTimesOutKeeps, OwnerRevokesKeeps DEF LoginNext

\* The invariant holds of everything a command, a scan, a crash or the owner can lead to.
LEMMA LoginInvHolds == LoginSpec => []LoginInv
<1> QED BY LoginStart, LoginStep, PTL DEF LoginSpec

\* What is so when everything has happened in turn and nobody is at work.
LEMMA WhenSettled ==
  ASSUME LoginInv, InTurn, NEW w \in Worker
  PROVE  /\ TurnOf(w) /\ worker[w].at \in {"idle", "wait"}
<1>1. TurnOf(w)
  BY NobodyIsBusy DEF InTurn, AllDone
<1>2. worker[w].at \in {"idle", "wait"}
  BY RowsOfLogin DEF InTurn, AllDone, Occupied, AwaitsScan
<1> QED BY <1>1, <1>2

\* An account that was signed in and out in turn and that nobody is working on works
\* through one session at most, which is the saved one; the loss of the link is told
\* once however many handlers notice it; a deleted account has no connection left
\* (confirm_code, _qr_finish and stop of gateway/mtproto_provider.py,
\* handlers.write_status, account_service.delete).
THEOREM OneSessionWorks == LoginSpec => []OneSessionAtWork
<1>1. LoginInv => OneSessionAtWork
  <2> SUFFICES ASSUME LoginInv PROVE OneSessionAtWork
    OBVIOUS
  <2>1. LoginTypeOK /\ ToldOncePerLoss
    BY DEF LoginInv, LoginRows
  <2>2. PICK w \in Worker : TRUE
    BY Numbers, LoginBounds DEF Worker, Client
  <2>3. OneWorkingClient
    <3> SUFFICES ASSUME InTurn
                 PROVE  Cardinality({c \in Client : client[c].open /\ Alive(client[c].key)}) <= 1
      BY DEF OneWorkingClient
    <3> DEFINE AtWork == {c \in Client : client[c].open /\ Alive(client[c].key)}
    <3>1. AtWork \in SUBSET {working}
      BY WhenSettled DEF TurnOf, OneAlive, Holds
    <3>2. IsFiniteSet({working}) /\ Cardinality({working}) = 1
      BY FS_Singleton
    <3> HIDE DEF AtWork
    <3>3. Cardinality(AtWork) <= 1
      BY <3>1, <3>2, FS_Subset
    <3> QED BY <3>3 DEF AtWork
  <2>4. SavedIsWorking
    BY WhenSettled DEF SavedIsWorking, TurnOf, SavedIsKept
  <2>5. GoneIsSilent
    BY WhenSettled DEF GoneIsSilent, TurnOf, GoneAtRest
  <2> QED BY <2>1, <2>3, <2>4, <2>5 DEF OneSessionAtWork
<1> QED BY <1>1, LoginInvHolds, PTL

\* No session of another Telegram user is left signed in by a code, a password or a QR
\* picture that somebody else used: _ensure_same_user logs it out
\* (gateway/mtproto_provider.py:604-611).
THEOREM NoStrangerIsLeft == LoginSpec => []NoStrangerStays
<1>1. LoginInv => NoStrangerStays
  <2> SUFFICES ASSUME LoginInv, InTurn, NEW k \in Client, Alive(k)
               PROVE  pass[k] = account.user
    BY DEF NoStrangerStays
  <2>1. PICK w \in Worker : TRUE
    BY Numbers, LoginBounds DEF Worker, Client
  <2> QED BY WhenSettled DEF TurnOf, AllOurs, Holds
<1> QED BY <1>1, LoginInvHolds, PTL
=============================================================================

-------------------------------- MODULE Deal --------------------------------
(***************************************************************************)
(* The life of one deal (services/deal_service.py): managers create, edit, *)
(* send, cancel and pay it, the scheduler lets it expire, and Robokassa    *)
(* reports payments (api/v1/payments.py).  A handler never touches two     *)
(* deals, so one deal is the whole story.                                  *)
(*                                                                         *)
(* pay_deal and confirm_paid_by_provider lock the row before they read it; *)
(* update, send, cancel and the expiry job read it without a lock, check   *)
(* its status and write later.  An UPDATE waits for the row lock and is    *)
(* then applied to whatever the row has become.                            *)
(***************************************************************************)
EXTENDS Integers, Sequences

CONSTANTS
  User,          \* requests of managers that may be open at the same time
  Courier,       \* notifications of Robokassa that may be open at the same time
  Job,           \* the expiry job of the scheduler
  None,          \* nobody holds the row lock
  Amount,        \* sums a deal may have
  Requisite,     \* accounts money can be sent to; 0 is "written by hand"
  MaxLinks,      \* bound: invoices created at Robokassa
  MaxEdits,      \* bound: edits of the deal
  MaxEditions    \* bound: edits of the directory of requisites

ASSUME DealAssumption ==
  /\ Amount \subseteq Nat \ {0}
  /\ Requisite \subseteq Nat \ {0}
  /\ None \notin User \cup Courier \cup {Job}
  /\ User \cap Courier = {} /\ Job \notin User \cup Courier
  /\ {MaxLinks, MaxEdits, MaxEditions} \subseteq Nat

VARIABLES
  deal,      \* the row of the deal
  overdue,   \* expires_at has passed
  request,   \* what every open request does and the row it has read
  lock,      \* who holds the lock of the row
  chat,      \* the last invoice the client was sent
  links,     \* the invoices created at Robokassa: the sum of each
  money,     \* the invoices the client has paid
  acked,     \* ... and for which Robokassa was answered OK
  told,      \* how often people were notified
  edition,   \* the text of the requisites in the directory
  raced      \* history: a write was applied to a row changed since it was read

vars == <<deal, overdue, request, lock, chat, links, money, acked, told,
          edition, raced>>

Status == {"NONE", "DRAFT", "AWAITING", "PAID", "CANCELLED", "EXPIRED"}
Allowed ==
  [s \in Status |->
     CASE s = "DRAFT"    -> {"AWAITING", "CANCELLED"}
       [] s = "AWAITING" -> {"PAID", "CANCELLED", "EXPIRED"}
       [] s = "EXPIRED"  -> {"CANCELLED"}
       [] OTHER          -> {}]

Row == [status : Status, method : {"link", "requisites"}, total : Amount \cup {0},
        requisite : Requisite \cup {0}, snapshot : Nat, sent : BOOLEAN,
        link : Nat, source : {"none", "manual", "provider"}, edits : Nat]
NoDeal == [status |-> "NONE", method |-> "requisites", total |-> 0, requisite |-> 0,
           snapshot |-> 0, sent |-> FALSE, link |-> 0, source |-> "none", edits |-> 0]

\* What an invoice tells the client: the sum, and where to pay it.
Invoice == [amount : Amount \cup {0}, requisite : Requisite \cup {0},
            edition : Nat, link : Nat]
NoInvoice == [amount |-> 0, requisite |-> 0, edition |-> 0, link |-> 0]
InvoiceOf(d) ==
  IF d.method = "link"
  THEN [amount |-> d.total, requisite |-> 0, edition |-> 0, link |-> d.link]
  ELSE [amount |-> d.total, requisite |-> d.requisite, edition |-> d.snapshot, link |-> 0]

Party == User \cup Courier \cup {Job}
Unlocked == {"update", "send", "cancel", "expire"}
Closed == [op |-> "none", seen |-> NoDeal, link |-> 0]
Request == [op : {"none", "update", "send", "cancel", "expire", "pay", "confirm"},
            seen : Row, link : Nat]

Init ==
  /\ deal = NoDeal
  /\ overdue = FALSE
  /\ request = [p \in Party |-> Closed]
  /\ lock = None
  /\ chat = NoInvoice
  /\ links = <<>>
  /\ money = {} /\ acked = {}
  /\ told = [paid |-> 0, orphan |-> 0, mismatch |-> [a \in Amount |-> 0]]
  /\ edition = 1
  /\ raced = FALSE

-----------------------------------------------------------------------------
(* Requests.                                                               *)

\* Mutant: the payment is confirmed without SELECT ... FOR UPDATE.
NoLock(p) == TRUE
\* A write waits for the row lock of another request.
Free(p) == lock \in {None, p}

Open(p, op) ==
  /\ request[p].op = "none"
  /\ request' = [request EXCEPT ![p] = [op |-> op, seen |-> deal, link |-> 0]]

Close(p) == request' = [request EXCEPT ![p] = Closed]

\* What p has read is what it decides on; raced records that the row has
\* become something else since, under a request that does not lock it.
Write(p, row) ==
  /\ Free(p)
  /\ deal' = row
  /\ raced' = (raced \/ (deal # request[p].seen /\ request[p].op \in Unlocked))
  /\ Close(p)

\* Mutant: only what was cancelled is frozen.
EditableUnlessCancelled(row) == row.status \notin {"NONE", "CANCELLED"}
Editable(row) == row.status \in {"DRAFT", "AWAITING"}

(* Reading a deal and checking its status, without a lock.                 *)
Read(u) ==
  /\ \E op \in {"update", "send", "cancel"} :
       /\ CASE op = "update" -> Editable(deal) /\ deal.edits < MaxEdits
            [] op = "send"   -> "AWAITING" \in Allowed[deal.status]
            [] OTHER         -> "CANCELLED" \in Allowed[deal.status]
       /\ Open(u, op)
  /\ UNCHANGED <<deal, overdue, lock, chat, links, money, acked, told, edition, raced>>

(* A request fails: Telegram or Robokassa is not there, a requisite is     *)
(* switched off, a receipt is missing, the process dies.  A run of the job *)
(* that fails is one that has not begun.                                   *)
Fail(p) ==
  /\ request[p].op # "none"
  /\ Close(p)
  /\ lock' = IF lock = p THEN None ELSE lock
  /\ UNCHANGED <<deal, overdue, chat, links, money, acked, told, edition, raced>>

-----------------------------------------------------------------------------
(* Managers.                                                               *)

(* create_deal: by link, to a requisite, or to an account written by hand  *)
(* (requisite 0), whose text is the snapshot from the start.               *)
Create ==
  /\ deal.status = "NONE"
  /\ \E a \in Amount, m \in {"link", "requisites"}, q \in Requisite \cup {0} :
       /\ m = "link" => q = 0
       /\ deal' = [NoDeal EXCEPT !.status = "DRAFT", !.total = a, !.method = m,
                                 !.requisite = q]
  /\ UNCHANGED <<overdue, request, lock, chat, links, money, acked, told, edition, raced>>

\* _build_payment_link: a new invoice at Robokassa for the sum of the row.
Linked(row) == [row EXCEPT !.link = Len(links) + 1]
\* The text of the directory is copied into the row.
Copied(row) == [row EXCEPT !.snapshot = IF row.requisite = 0 THEN 0 ELSE edition]

\* create_invoice: Robokassa makes one more invoice, for the sum as it is now.
NewLink(sum) == Len(links) < MaxLinks /\ links' = Append(links, sum)

(* What goes to the client: the invoice of row, with a link of its own.    *)
Send(row) ==
  /\ chat' = InvoiceOf(row)
  /\ IF row.method = "link" THEN NewLink(row.total) ELSE UNCHANGED links

Ready(row) == IF row.method = "link" THEN Linked(row) ELSE Copied(row)

\* The invoice in the chat is out of date.
Outdated(old, new) ==
  old.sent /\ (old.total # new.total \/ old.requisite # new.requisite)

\* The ORM writes the columns that differ from what it has read.
Column(now, old, new) == IF new = old THEN now ELSE new
Merge(row, seen, new) ==
  [row EXCEPT !.status    = Column(@, seen.status, new.status),
              !.total     = Column(@, seen.total, new.total),
              !.requisite = Column(@, seen.requisite, new.requisite),
              !.snapshot  = Column(@, seen.snapshot, new.snapshot),
              !.sent      = Column(@, seen.sent, new.sent),
              !.link      = Column(@, seen.link, new.link),
              !.edits     = Column(@, seen.edits, new.edits)]

(* update_deal: new items or another requisite; if the client has an       *)
(* invoice that says something else, it is made again and sent again.      *)
Update(u) ==
  /\ request[u].op = "update"
  /\ \E a \in Amount, q \in Requisite \cup {0} :
       LET seen == request[u].seen
           new == [seen EXCEPT !.total = a, !.edits = @ + 1,
                               !.requisite = IF q = 0 THEN @ ELSE q]
           row == IF Outdated(seen, new) THEN Ready(new) ELSE new
       IN /\ Write(u, Merge(deal, seen, row))
          /\ IF Outdated(seen, new) THEN Send(row) ELSE UNCHANGED <<chat, links>>
  /\ UNCHANGED <<overdue, lock, money, acked, told, edition>>

(* send_deal: the invoice goes to the chat and the deal awaits payment     *)
(* until its deadline.                                                     *)
SendDeal(u) ==
  /\ request[u].op = "send"
  /\ LET seen == request[u].seen
         row == [Ready(seen) EXCEPT !.status = "AWAITING", !.sent = TRUE]
     IN /\ Write(u, Merge(deal, seen, row))
        /\ Send(row)
  /\ overdue' = FALSE
  /\ UNCHANGED <<lock, money, acked, told, edition>>

(* cancel_deal *)
Cancel(u) ==
  /\ request[u].op = "cancel"
  /\ Write(u, [deal EXCEPT !.status = "CANCELLED"])
  /\ UNCHANGED <<overdue, lock, chat, links, money, acked, told, edition>>

(* pay_deal locks the row, reads it and checks the transition; then the    *)
(* receipt is looked for in the storage.                                   *)
PayLock(u) ==
  /\ Free(u)
  /\ "PAID" \in Allowed[deal.status]
  /\ Open(u, "pay")
  /\ lock' = u
  /\ UNCHANGED <<deal, overdue, chat, links, money, acked, told, edition, raced>>

Pay(u) ==
  /\ request[u].op = "pay"
  /\ Write(u, [deal EXCEPT !.status = "PAID", !.source = "manual"])
  /\ told' = [told EXCEPT !.paid = @ + 1]
  /\ lock' = None
  /\ UNCHANGED <<overdue, chat, links, money, acked, edition>>

(* An administrator edits the text of the requisites.                      *)
EditRequisite ==
  /\ edition < MaxEditions
  /\ edition' = edition + 1
  /\ UNCHANGED <<deal, overdue, request, lock, chat, links, money, acked, told, raced>>

-----------------------------------------------------------------------------
(* The scheduler.                                                          *)

(* Time passes: the deadline of the deal is over.                          *)
Deadline ==
  /\ deal.sent /\ ~overdue
  /\ overdue' = TRUE
  /\ UNCHANGED <<deal, request, lock, chat, links, money, acked, told, edition, raced>>

\* Mutants: the job looks at drafts, or at everything that was sent.
ExpirableDraft(row) == row.status = "DRAFT"
ExpirableSent(row) == row.sent
Expirable(row) == row.status = "AWAITING"

(* expire_overdue_deals selects what is overdue, then writes it.           *)
ExpireRead ==
  /\ overdue /\ Expirable(deal)
  /\ Open(Job, "expire")
  /\ UNCHANGED <<deal, overdue, lock, chat, links, money, acked, told, edition, raced>>

Expire ==
  /\ request[Job].op = "expire"
  /\ Write(Job, [deal EXCEPT !.status = "EXPIRED"])
  /\ UNCHANGED <<overdue, lock, chat, links, money, acked, told, edition>>

-----------------------------------------------------------------------------
(* The client and Robokassa.                                               *)

(* The client pays an invoice, the last one or an older one.               *)
ClientPays(l) ==
  /\ l \in DOMAIN links
  /\ l \notin money
  /\ money' = money \cup {l}
  /\ UNCHANGED <<deal, overdue, request, lock, chat, links, acked, told, edition, raced>>

(* Robokassa reports a payment until it is answered OK; the handler locks  *)
(* the row and reads it.                                                   *)
Notify(c, l) ==
  /\ l \in money \ acked
  /\ Free(c)
  /\ request[c].op = "none"
  /\ request' = [request EXCEPT ![c] = [op |-> "confirm", seen |-> deal, link |-> l]]
  /\ lock' = c
  /\ UNCHANGED <<deal, overdue, chat, links, money, acked, told, edition, raced>>

\* The answer OK may be lost: then Robokassa reports the payment again.
Answer(l) == acked' \in {acked, acked \cup {l}}

RightSum(l, row) == links[l] = row.total

Confirming(c) == request[c].op = "confirm" /\ request[c].seen.method = "link"

(* The deal becomes paid, even if its deadline is over.                    *)
ConfirmPaid(c) ==
  LET seen == request[c].seen  l == request[c].link IN
  /\ Confirming(c)
  /\ seen.status \in {"AWAITING", "EXPIRED"}
  /\ RightSum(l, seen)
  /\ Write(c, [deal EXCEPT !.status = "PAID", !.source = "provider", !.link = l])
  /\ told' = [told EXCEPT !.paid = @ + 1]
  /\ lock' = None
  /\ Answer(l)
  /\ UNCHANGED <<overdue, chat, links, money, edition>>

(* It is paid already: the same answer, nothing else.                      *)
ConfirmAgain(c) ==
  /\ Confirming(c)
  /\ request[c].seen.status = "PAID"
  /\ Close(c)
  /\ lock' = None
  /\ Answer(request[c].link)
  /\ UNCHANGED <<deal, overdue, chat, links, money, told, edition, raced>>

\* Whom it concerns was told of this sum before.
ToldOf(a) == told.mismatch[a] > 0

(* The client paid an outdated invoice: people are told, once per sum.     *)
ConfirmMismatch(c) ==
  LET seen == request[c].seen  l == request[c].link  a == links[l] IN
  /\ Confirming(c)
  /\ seen.status # "PAID"
  /\ ~RightSum(l, seen)
  /\ Close(c)
  /\ told' = IF ToldOf(a) THEN told ELSE [told EXCEPT !.mismatch[a] = @ + 1]
  /\ lock' = None
  /\ UNCHANGED <<deal, overdue, chat, links, money, acked, edition, raced>>

(* The deal was cancelled meanwhile: people are told, once.                *)
ConfirmOrphan(c) ==
  LET seen == request[c].seen IN
  /\ Confirming(c)
  /\ seen.status \notin {"PAID", "AWAITING", "EXPIRED"}
  /\ RightSum(request[c].link, seen)
  /\ Close(c)
  /\ told' = [told EXCEPT !.orphan = IF @ > 0 THEN @ ELSE 1]
  /\ lock' = None
  /\ UNCHANGED <<deal, overdue, chat, links, money, acked, edition, raced>>

Confirm(c) == ConfirmPaid(c) \/ ConfirmAgain(c) \/ ConfirmMismatch(c) \/ ConfirmOrphan(c)
Work(u) == Update(u) \/ SendDeal(u) \/ Cancel(u) \/ Pay(u)

Next ==
  \/ Create
  \/ \E u \in User : Read(u) \/ PayLock(u) \/ Work(u)
  \/ \E p \in User \cup Courier : Fail(p)
  \/ EditRequisite
  \/ Deadline
  \/ ExpireRead
  \/ Expire
  \/ \E l \in 1..MaxLinks : ClientPays(l)
  \/ \E c \in Courier, l \in 1..MaxLinks : Notify(c, l)
  \/ \E c \in Courier : Confirm(c)

Spec == Init /\ [][Next]_vars

(* Requests end, Robokassa repeats what was not answered OK, and the job   *)
(* runs every minute.  The handling of a report may fail, but not for ever. *)
FairSpec ==
  /\ Spec
  /\ \A u \in User : WF_vars(Work(u))
  /\ WF_vars(ExpireRead) /\ SF_vars(Expire)
  /\ \A l \in 1..MaxLinks :
       /\ SF_vars(\E c \in Courier : Notify(c, l))
       /\ SF_vars(\E c \in Courier : request[c].link = l /\ Confirm(c))

-----------------------------------------------------------------------------
(* Properties.                                                             *)

TypeOK ==
  /\ deal \in Row
  /\ overdue \in BOOLEAN
  /\ request \in [Party -> Request]
  /\ lock \in Party \cup {None}
  /\ chat \in Invoice
  /\ links \in Seq(Amount \cup {0})
  /\ acked \subseteq money /\ money \subseteq DOMAIN links
  /\ told \in [paid : Nat, orphan : Nat, mismatch : [Amount -> Nat]]
  /\ edition \in Nat
  /\ raced \in BOOLEAN
  /\ deal.link <= Len(links)

(* "PAID - конечный статус": a paid deal stays paid, and for the sum that  *)
(* was paid (the FROZEN error of every other operation).                   *)
PaidIsFinal ==
  [][deal.status = "PAID" => deal'.status = "PAID" /\ deal'.total = deal.total]_vars

(* ... as long as no request was overtaken between its reading of the row  *)
(* and its writing.                                                        *)
PaidIsFinalInTurn ==
  [][deal.status = "PAID" /\ ~raced' =>
       deal'.status = "PAID" /\ deal'.total = deal.total]_vars

(* What Robokassa reported is the sum of the deal it closed, however the   *)
(* deal was edited, sent again and paid by older links meanwhile.          *)
PaidInFull ==
  deal.status = "PAID" /\ deal.source = "provider" /\ ~raced =>
    deal.link \in money /\ links[deal.link] = deal.total

(* Robokassa stops repeating a payment only when the deal is paid.         *)
AckedIsPaid == acked # {} /\ ~raced => deal.status = "PAID"

(* While the deal awaits payment the last invoice in the chat names its    *)
(* sum and the requisites that were copied into it ("чтобы CRM и чат не    *)
(* разъезжались", update_deal), and a link that costs as much.             *)
InvoiceIsCurrent ==
  deal.status = "AWAITING" /\ ~raced =>
    /\ chat = InvoiceOf(deal)
    /\ deal.method = "link" => links[deal.link] = deal.total

(* Nobody is told the same twice, however often Robokassa repeats itself:  *)
(* a payment, an orphaned payment, each wrong sum.                         *)
ToldOnce ==
  /\ told.orphan <= 1
  /\ \A a \in Amount : told.mismatch[a] <= 1
  /\ ~raced => told.paid <= 1

(* Money that Robokassa has taken does not vanish: the deal gets paid or   *)
(* somebody is told ("молчать логом мало, нужен живой человек").           *)
MoneyIsSeen ==
  \A l \in 1..MaxLinks :
    l \in money \ acked ~>
      \/ deal.status = "PAID"
      \/ told.orphan > 0
      \/ l \in DOMAIN links /\ told.mismatch[links[l]] > 0

(* A deal whose deadline is over does not go on waiting for payment.       *)
OverdueEnds ==
  deal.status = "AWAITING" /\ overdue ~> deal.status # "AWAITING" \/ ~overdue

(* The row, the chat, Robokassa and the notifications tell one story about *)
(* the money: paid means paid in full, acknowledged means paid, what the   *)
(* client was asked for is what the deal asks for, nobody is told twice    *)
(* (confirm_paid_by_provider, update_deal, pay_deal).                      *)
BooksAgree == TypeOK /\ PaidInFull /\ AckedIsPaid /\ InvoiceIsCurrent /\ ToldOnce

(* Nothing is left hanging: neither money that was taken nor a deal whose  *)
(* time is over.                                                           *)
DealsEnd == MoneyIsSeen /\ OverdueEnds

=============================================================================

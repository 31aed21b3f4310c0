----------------------------- MODULE DealProofs ------------------------------
(***************************************************************************)
(* Theorems about Deal, for any number of requests and reports at a time,  *)
(* any sums, requisites and links.                                         *)
(***************************************************************************)
EXTENDS Deal, SequenceTheorems, TLAPS

\* What an open request knows of the row it has read; who locks it knows it
\* as it is.
Asked(p) ==
  LET q == request[p] IN
  /\ q.op # "none" => deal.status # "NONE"
  /\ q.op = "update" => Editable(q.seen)
  /\ q.op = "send" => q.seen.status = "DRAFT"
  /\ q.op = "cancel" => q.seen.status \in {"DRAFT", "AWAITING", "EXPIRED"}
  /\ q.op = "expire" => q.seen.status = "AWAITING"
  /\ q.op \in {"pay", "confirm"} => lock = p /\ q.seen = deal
  /\ q.op = "pay" => q.seen.status = "AWAITING"
  /\ q.op = "confirm" => q.link \in money

\* What the row, the chat, Robokassa and the notifications say together, as
\* long as nobody was overtaken.
Honest ==
  /\ told.paid = IF deal.status = "PAID" THEN 1 ELSE 0
  /\ deal.status = "PAID" /\ deal.source = "provider" =>
       deal.link \in money /\ links[deal.link] = deal.total
  /\ acked # {} => deal.status = "PAID"
  /\ deal.status = "AWAITING" =>
       /\ deal.sent
       /\ chat = InvoiceOf(deal)
       /\ deal.method = "link" => links[deal.link] = deal.total

ToldFew == told.orphan <= 1 /\ \A a \in Amount : told.mismatch[a] <= 1

DealInv ==
  /\ TypeOK
  /\ \A p \in Party : Asked(p)
  /\ links # <<>> => deal.status # "NONE"
  /\ ~raced => Honest
  /\ ToldFew

-----------------------------------------------------------------------------
(* Rows and requests.                                                      *)

LEMMA Fields ==
  ASSUME NEW d \in Row
  PROVE  /\ d.status \in Status /\ d.method \in {"link", "requisites"}
         /\ d.total \in Amount \cup {0} /\ d.requisite \in Requisite \cup {0}
         /\ d.snapshot \in Nat /\ d.sent \in BOOLEAN /\ d.link \in Nat
         /\ d.source \in {"none", "manual", "provider"} /\ d.edits \in Nat
BY DEF Row

LEMMA InvoiceType == ASSUME NEW d \in Row PROVE InvoiceOf(d) \in Invoice
BY Fields DEF InvoiceOf, Invoice

\* The new row says the same as row but for the link or the snapshot.
LEMMA ReadyFields ==
  ASSUME TypeOK, NEW d \in Row
  PROVE  /\ Ready(d) \in Row
         /\ Ready(d).status = d.status /\ Ready(d).method = d.method
         /\ Ready(d).total = d.total /\ Ready(d).requisite = d.requisite
         /\ Ready(d).sent = d.sent
         /\ Ready(d).link = IF d.method = "link" THEN Len(links) + 1 ELSE d.link
<1> DEFINE n == Len(links) + 1
<1>1. n \in Nat /\ edition \in Nat
  BY LenProperties DEF TypeOK
<1>2. CASE d.method = "link"
  <2>1. Ready(d) = [d EXCEPT !.link = n]
    BY <1>2 DEF Ready, Linked
  <2> HIDE DEF n
  <2>2. [d EXCEPT !.link = n] \in Row /\ [d EXCEPT !.link = n].link = n
    BY <1>1 DEF Row
  <2> QED BY <1>2, <2>1, <2>2 DEF Row, n
<1>3. CASE d.method # "link"
  <2> DEFINE s == IF d.requisite = 0 THEN 0 ELSE edition
  <2>1. Ready(d) = [d EXCEPT !.snapshot = s] /\ s \in Nat
    BY <1>1, <1>3 DEF Ready, Copied
  <2> HIDE DEF s
  <2> QED BY <1>3, <2>1 DEF Row
<1> QED BY <1>2, <1>3

LEMMA MergeFields ==
  ASSUME NEW d \in Row, NEW seen \in Row, NEW new \in Row
  PROVE  /\ Merge(d, seen, new) \in Row
         /\ Merge(d, seen, new).method = d.method
         /\ Merge(d, seen, new).source = d.source
         /\ Merge(d, seen, new).status = Column(d.status, seen.status, new.status)
         /\ Merge(d, seen, new).total = Column(d.total, seen.total, new.total)
         /\ Merge(d, seen, new).requisite = Column(d.requisite, seen.requisite, new.requisite)
         /\ Merge(d, seen, new).snapshot = Column(d.snapshot, seen.snapshot, new.snapshot)
         /\ Merge(d, seen, new).sent = Column(d.sent, seen.sent, new.sent)
         /\ Merge(d, seen, new).link = Column(d.link, seen.link, new.link)
<1> DEFINE st == Column(d.status, seen.status, new.status)
           to == Column(d.total, seen.total, new.total)
           re == Column(d.requisite, seen.requisite, new.requisite)
           sn == Column(d.snapshot, seen.snapshot, new.snapshot)
           se == Column(d.sent, seen.sent, new.sent)
           li == Column(d.link, seen.link, new.link)
           ed == Column(d.edits, seen.edits, new.edits)
<1>1. /\ st \in Status /\ to \in Amount \cup {0} /\ re \in Requisite \cup {0}
      /\ sn \in Nat /\ li \in Nat /\ ed \in Nat
  BY Fields DEF Column
<1>2. se \in BOOLEAN
  BY Fields, Zenon DEF Column
<1>3. Merge(d, seen, new) =
        [d EXCEPT !.status = st, !.total = to, !.requisite = re, !.snapshot = sn,
                  !.sent = se, !.link = li, !.edits = ed]
  BY DEF Merge
<1> HIDE DEF st, to, re, sn, se, li, ed
<1> QED BY <1>1, <1>2, <1>3 DEF Row, st, to, re, sn, se, li

\* Who writes in turn writes what it has decided.
LEMMA MergeInTurn ==
  ASSUME NEW d \in Row, NEW new \in Row, new.method = d.method
  PROVE  /\ Merge(d, d, new).status = new.status
         /\ Merge(d, d, new).total = new.total
         /\ Merge(d, d, new).sent = new.sent
         /\ Merge(d, d, new).link = new.link
         /\ InvoiceOf(Merge(d, d, new)) = InvoiceOf(new)
BY MergeFields DEF Column, InvoiceOf

LEMMA DealStart == Init => DealInv
<1> SUFFICES ASSUME Init PROVE DealInv
  OBVIOUS
<1>1. NoDeal \in Row /\ NoDeal.status = "NONE" /\ NoDeal.link = 0
  BY DEF NoDeal, Row, Status
<1>2. Closed \in Request /\ Closed.op = "none"
  BY <1>1 DEF Closed, Request
<1>3. NoInvoice \in Invoice
  BY DEF NoInvoice, Invoice
<1>4. told \in [paid : Nat, orphan : Nat, mismatch : [Amount -> Nat]] /\ told.paid = 0 /\ ToldFew
  BY DEF Init, ToldFew
<1>5. links \in Seq(Amount \cup {0}) /\ Len(links) = 0
  BY EmptySeq DEF Init
<1>6. acked \subseteq money /\ money \subseteq DOMAIN links
  BY DEF Init
<1>7. edition \in Nat /\ deal.link <= Len(links) /\ deal \in Row /\ chat \in Invoice
  BY <1>1, <1>3, <1>5 DEF Init
<1>8. request \in [Party -> Request] /\ lock \in Party \cup {None}
  BY <1>2 DEF Init
<1>9. overdue \in BOOLEAN /\ raced \in BOOLEAN
  BY Zenon DEF Init
<1>10. TypeOK
  BY <1>4, <1>5, <1>6, <1>7, <1>8, <1>9 DEF TypeOK
<1>11. \A p \in Party : Asked(p)
  BY <1>2 DEF Init, Asked
<1>12. Honest
  BY <1>1, <1>4 DEF Init, Honest
<1> QED BY <1>4, <1>10, <1>11, <1>12 DEF DealInv, Init

-----------------------------------------------------------------------------
(* Opening and closing requests.                                           *)

\* Somebody who may write is either the one who locks the row or finds it free.
LEMMA NobodyLocks ==
  ASSUME DealInv, NEW p \in Party, Free(p), NEW q \in Party, q # p
  PROVE  request[q].op \notin {"pay", "confirm"}
<1>1. q # None
  BY DealAssumption DEF Party
<1> QED BY <1>1 DEF DealInv, Asked, Free

LEMMA CloseKeeps ==
  ASSUME DealInv, NEW p \in Party, Close(p)
  PROVE  /\ request' \in [Party -> Request] /\ request'[p].op = "none"
         /\ \A q \in Party : q # p => request'[q] = request[q]
<1>1. Closed \in Request /\ Closed.op = "none"
  BY DEF Closed, Request, NoDeal, Row, Status
<1> QED BY <1>1 DEF Close, DealInv, TypeOK

\* The row is written by p: the others know what they knew.
LEMMA OthersAsked ==
  ASSUME DealInv, NEW p \in Party, Close(p), Free(p), deal'.status # "NONE",
         lock' \in {lock, None}, UNCHANGED money
  PROVE  \A q \in Party : Asked(q)'
<1> SUFFICES ASSUME NEW q \in Party PROVE Asked(q)'
  OBVIOUS
<1>1. CASE q = p
  BY <1>1, CloseKeeps DEF Asked
<1>2. CASE q # p
  <2>1. request'[q] = request[q] /\ request[q].op \notin {"pay", "confirm"}
    BY <1>2, CloseKeeps, NobodyLocks
  <2> QED BY <2>1 DEF Asked, DealInv
<1> QED BY <1>1, <1>2

\* A request of p ends and nothing else happens, but people may be told.
LEMMA EndKeeps ==
  ASSUME DealInv, NEW p \in Party, Close(p), lock' = (IF lock = p THEN None ELSE lock),
         told' \in [paid : Nat, orphan : Nat, mismatch : [Amount -> Nat]], told'.paid = told.paid,
         ToldFew', acked' \in SUBSET money, ~raced /\ acked' # {} => deal.status = "PAID",
         UNCHANGED <<deal, overdue, chat, links, money, edition, raced>>
  PROVE  DealInv'
<1>1. /\ request' \in [Party -> Request] /\ request'[p].op = "none"
      /\ \A q \in Party : q # p => request'[q] = request[q]
  BY CloseKeeps
<1>2. TypeOK'
  BY <1>1 DEF DealInv, TypeOK
<1>3. ASSUME NEW q \in Party PROVE Asked(q)'
  <2>1. CASE q = p
    BY <1>1, <2>1 DEF Asked
  <2>2. CASE q # p
    BY <1>1, <2>2 DEF Asked, DealInv
  <2> QED BY <2>1, <2>2
<1>4. ~raced => Honest'
  BY DEF DealInv, Honest, InvoiceOf
<1> QED BY <1>2, <1>3, <1>4 DEF DealInv

\* A request is opened, with or without the lock.
LEMMA OpenKeeps ==
  ASSUME DealInv, NEW p \in Party, NEW r \in Request, r.op # "none", r.seen = deal,
         request[p].op = "none", request' = [request EXCEPT ![p] = r],
         deal.status # "NONE",
         r.op = "update" => Editable(deal),
         r.op = "send" => deal.status = "DRAFT",
         r.op = "cancel" => deal.status \in {"DRAFT", "AWAITING", "EXPIRED"},
         r.op \in {"expire", "pay"} => deal.status = "AWAITING",
         r.op = "confirm" => r.link \in money,
         IF r.op \in {"pay", "confirm"} THEN Free(p) /\ lock' = p ELSE lock' = lock,
         UNCHANGED <<deal, overdue, chat, links, money, acked, told, edition, raced>>
  PROVE  DealInv'
<1>1. /\ request' \in [Party -> Request] /\ request'[p] = r
      /\ \A q \in Party : q # p => request'[q] = request[q]
  BY DEF DealInv, TypeOK
<1>2. lock' \in Party \cup {None}
  BY DEF DealInv, TypeOK
<1>3. TypeOK'
  BY <1>1, <1>2 DEF DealInv, TypeOK
<1>4. ASSUME NEW q \in Party PROVE Asked(q)'
  <2>1. CASE q = p
    BY <1>1, <2>1 DEF Asked
  <2>2. CASE q # p
    <3>1. r.op \in {"pay", "confirm"} => request[q].op \notin {"pay", "confirm"}
      BY <2>2, NobodyLocks
    <3> QED BY <1>1, <2>2, <3>1 DEF Asked, DealInv
  <2> QED BY <2>1, <2>2
<1>5. ~raced => Honest'
  BY DEF DealInv, Honest, InvoiceOf
<1> QED BY <1>3, <1>4, <1>5 DEF DealInv, ToldFew

LEMMA ReadKeeps == ASSUME DealInv, NEW u \in User, Read(u) PROVE DealInv'
<1>1. PICK op \in {"update", "send", "cancel"} :
        /\ CASE op = "update" -> Editable(deal) /\ deal.edits < MaxEdits
             [] op = "send"   -> "AWAITING" \in Allowed[deal.status]
             [] OTHER         -> "CANCELLED" \in Allowed[deal.status]
        /\ Open(u, op)
  BY DEF Read
<1> DEFINE r == [op |-> op, seen |-> deal, link |-> 0]
<1>2. deal \in Row /\ deal.status \in Status
  BY Fields DEF DealInv, TypeOK
<1>3. r \in Request /\ r.op # "none" /\ r.seen = deal /\ r.op = op
  BY <1>2 DEF Request
<1>4. u \in Party
  BY DEF Party
<1>5. op = "update" => Editable(deal) /\ deal.status # "NONE"
  BY <1>1 DEF Editable
<1>6. op = "send" => deal.status = "DRAFT"
  BY <1>1, <1>2 DEF Allowed, Status
<1>7. op = "cancel" => deal.status \in {"DRAFT", "AWAITING", "EXPIRED"}
  BY <1>1, <1>2 DEF Allowed, Status
<1>8. request[u].op = "none" /\ request' = [request EXCEPT ![u] = r]
  BY <1>1 DEF Open
<1>9. UNCHANGED <<deal, overdue, lock, chat, links, money, acked, told, edition, raced>>
  BY DEF Read
<1> HIDE DEF r
<1> QED BY <1>3, <1>4, <1>5, <1>6, <1>7, <1>8, <1>9, OpenKeeps

LEMMA PayLockKeeps == ASSUME DealInv, NEW u \in User, PayLock(u) PROVE DealInv'
<1> DEFINE r == [op |-> "pay", seen |-> deal, link |-> 0]
<1>1. deal \in Row /\ deal.status = "AWAITING"
  BY Fields DEF DealInv, TypeOK, PayLock, Allowed, Status
<1>2. r \in Request /\ r.op = "pay" /\ r.seen = deal /\ u \in Party
  BY <1>1 DEF Request, Party
<1>3. request[u].op = "none" /\ request' = [request EXCEPT ![u] = r] /\ Free(u) /\ lock' = u
      /\ UNCHANGED <<deal, overdue, chat, links, money, acked, told, edition, raced>>
  BY DEF PayLock, Open
<1> HIDE DEF r
<1> QED BY <1>1, <1>2, <1>3, OpenKeeps

LEMMA ExpireReadKeeps == ASSUME DealInv, ExpireRead PROVE DealInv'
<1> DEFINE r == [op |-> "expire", seen |-> deal, link |-> 0]
<1>1. deal \in Row /\ deal.status = "AWAITING"
  BY DEF DealInv, TypeOK, ExpireRead, Expirable
<1>2. r \in Request /\ r.op = "expire" /\ r.seen = deal /\ Job \in Party
  BY <1>1 DEF Request, Party
<1>3. request[Job].op = "none" /\ request' = [request EXCEPT ![Job] = r]
      /\ UNCHANGED <<deal, overdue, lock, chat, links, money, acked, told, edition, raced>>
  BY DEF ExpireRead, Open
<1> HIDE DEF r
<1> QED BY <1>1, <1>2, <1>3, OpenKeeps

\* There only is a link to pay when there is a deal.
LEMMA NotifyKeeps ==
  ASSUME DealInv, NEW c \in Courier, NEW l \in 1..MaxLinks, Notify(c, l) PROVE DealInv'
<1> DEFINE r == [op |-> "confirm", seen |-> deal, link |-> l]
<1>1. deal \in Row /\ l \in Nat /\ l \in money
  BY DealAssumption DEF DealInv, TypeOK, Notify
<1>2. deal.status # "NONE"
  <2>1. l \in DOMAIN links
    BY <1>1 DEF DealInv, TypeOK
  <2>2. links # <<>>
    BY <2>1, EmptySeq, LenProperties DEF DealInv, TypeOK
  <2> QED BY <2>2 DEF DealInv
<1>3. r \in Request /\ r.op = "confirm" /\ r.seen = deal /\ r.link = l /\ c \in Party
  BY <1>1 DEF Request, Party
<1>4. request[c].op = "none" /\ request' = [request EXCEPT ![c] = r] /\ Free(c) /\ lock' = c
      /\ UNCHANGED <<deal, overdue, chat, links, money, acked, told, edition, raced>>
  BY DEF Notify
<1> HIDE DEF r
<1> QED BY <1>1, <1>2, <1>3, <1>4, OpenKeeps

LEMMA FailKeeps == ASSUME DealInv, NEW p \in User \cup Courier, Fail(p) PROVE DealInv'
<1>1. p \in Party /\ Close(p) /\ lock' = (IF lock = p THEN None ELSE lock)
  BY DEF Fail, Party
<1>2. UNCHANGED <<deal, overdue, chat, links, money, acked, told, edition, raced>>
  BY DEF Fail
<1>3. ToldFew' /\ told' \in [paid : Nat, orphan : Nat, mismatch : [Amount -> Nat]]
  BY <1>2 DEF DealInv, TypeOK, ToldFew
<1>4. acked' \in SUBSET money /\ (~raced /\ acked' # {} => deal.status = "PAID")
  BY <1>2 DEF DealInv, TypeOK, Honest
<1> QED BY <1>1, <1>2, <1>3, <1>4, EndKeeps

-----------------------------------------------------------------------------
(* Writing.                                                                *)

\* What every write has in common.
LEMMA WriteKeeps ==
  ASSUME DealInv, NEW p \in Party, NEW d \in Row, Write(p, d), d.status # "NONE",
         lock' \in {lock, None}, overdue' \in BOOLEAN, UNCHANGED <<money, edition>>,
         links' \in Seq(Amount \cup {0}), Len(links) <= Len(links'), d.link <= Len(links'),
         chat' \in Invoice, acked' \in SUBSET money,
         told' \in [paid : Nat, orphan : Nat, mismatch : [Amount -> Nat]], ToldFew',
         ~raced' => Honest'
  PROVE  DealInv'
<1>1. deal' = d /\ Free(p) /\ Close(p) /\ raced' \in BOOLEAN
  BY DEF Write, DealInv, TypeOK
<1>2. request' \in [Party -> Request]
  BY <1>1, CloseKeeps
<1>3. \A q \in Party : Asked(q)'
  BY <1>1, OthersAsked
<1>4. money' \subseteq DOMAIN links'
  BY LenProperties DEF DealInv, TypeOK
<1>5. lock' \in Party \cup {None} /\ edition' \in Nat
  BY DEF DealInv, TypeOK
<1>6. TypeOK'
  BY <1>1, <1>2, <1>4, <1>5 DEF TypeOK
<1> QED BY <1>1, <1>3, <1>6 DEF DealInv

\* Who does not lock the row and is not overtaken finds it as it was read.
LEMMA InTurn ==
  ASSUME DealInv, NEW p \in Party, NEW d, Write(p, d), request[p].op \in Unlocked, ~raced'
  PROVE  ~raced /\ deal = request[p].seen /\ Honest
BY DEF Write, DealInv

\* What changes only what is told of an unpaid deal that stays unpaid.
LEMMA UnpaidKeeps ==
  ASSUME DealInv, NEW p \in Party, NEW d \in Row, Write(p, d),
         d.status \in {"CANCELLED", "EXPIRED"}, d.link = deal.link,
         request[p].op \in Unlocked, request[p].seen.status # "PAID",
         UNCHANGED <<overdue, lock, chat, links, money, acked, told, edition>>
  PROVE  DealInv'
<1>1. ~raced' => Honest'
  <2> SUFFICES ASSUME ~raced' PROVE Honest'
    OBVIOUS
  <2>1. deal.status # "PAID" /\ Honest
    BY InTurn
  <2> QED BY <2>1 DEF Honest, Write
<1>2. ToldFew' /\ told' \in [paid : Nat, orphan : Nat, mismatch : [Amount -> Nat]]
  BY DEF DealInv, TypeOK, ToldFew
<1>3. d.link <= Len(links') /\ links' \in Seq(Amount \cup {0}) /\ Len(links) <= Len(links')
  BY LenProperties DEF DealInv, TypeOK
<1>4. overdue' \in BOOLEAN /\ chat' \in Invoice /\ acked' \in SUBSET money /\ lock' \in {lock, None}
  BY DEF DealInv, TypeOK
<1> QED BY <1>1, <1>2, <1>3, <1>4, WriteKeeps

LEMMA CancelKeeps == ASSUME DealInv, NEW u \in User, Cancel(u) PROVE DealInv'
<1> DEFINE d == [deal EXCEPT !.status = "CANCELLED"]
<1>1. d \in Row /\ d.status = "CANCELLED" /\ d.link = deal.link
  BY DEF DealInv, TypeOK, Row, Status
<1>2. u \in Party /\ request[u].op \in Unlocked /\ request[u].seen.status # "PAID"
  BY DEF Party, Cancel, Unlocked, DealInv, Asked
<1>3. Write(u, d) /\ UNCHANGED <<overdue, lock, chat, links, money, acked, told, edition>>
  BY DEF Cancel
<1> HIDE DEF d
<1> QED BY <1>1, <1>2, <1>3, UnpaidKeeps

LEMMA ExpireKeeps == ASSUME DealInv, Expire PROVE DealInv'
<1> DEFINE d == [deal EXCEPT !.status = "EXPIRED"]
<1>1. d \in Row /\ d.status = "EXPIRED" /\ d.link = deal.link
  BY DEF DealInv, TypeOK, Row, Status
<1>2. Job \in Party /\ request[Job].op \in Unlocked /\ request[Job].seen.status # "PAID"
  BY DEF Party, Expire, Unlocked, DealInv, Asked
<1>3. Write(Job, d) /\ UNCHANGED <<overdue, lock, chat, links, money, acked, told, edition>>
  BY DEF Expire
<1> HIDE DEF d
<1> QED BY <1>1, <1>2, <1>3, UnpaidKeeps

\* Sending row: the invoice and, for a link, one more invoice at Robokassa.
LEMMA Sent ==
  ASSUME DealInv, NEW r \in Row, Send(r)
  PROVE  /\ chat' = InvoiceOf(r) /\ chat' \in Invoice
         /\ links' \in Seq(Amount \cup {0}) /\ Len(links) <= Len(links')
         /\ r.method = "link" => Len(links') = Len(links) + 1 /\ links'[Len(links) + 1] = r.total
         /\ r.method # "link" => links' = links
<1>1. links \in Seq(Amount \cup {0}) /\ r.total \in Amount \cup {0} /\ Len(links) \in Nat
  BY Fields, LenProperties DEF DealInv, TypeOK
<1>2. chat' = InvoiceOf(r) /\ chat' \in Invoice
  BY InvoiceType DEF Send
<1>3. CASE r.method = "link"
  <2>1. links' = Append(links, r.total)
    BY <1>3 DEF Send, NewLink
  <2> QED BY <1>1, <1>2, <1>3, <2>1, AppendProperties
<1>4. CASE r.method # "link"
  BY <1>1, <1>2, <1>4 DEF Send
<1> QED BY <1>3, <1>4

LEMMA SendDealKeeps == ASSUME DealInv, NEW u \in User, SendDeal(u) PROVE DealInv'
<1> DEFINE seen == request[u].seen
           r == [Ready(seen) EXCEPT !.status = "AWAITING", !.sent = TRUE]
           d == Merge(deal, seen, r)
<1>1. deal \in Row /\ seen \in Row /\ TypeOK /\ u \in Party /\ request[u].op = "send"
      /\ seen.status = "DRAFT" /\ deal.status # "NONE"
  BY DEF DealInv, TypeOK, Request, Party, SendDeal, Asked
<1>2. /\ Ready(seen) \in Row /\ Ready(seen).method = seen.method
      /\ Ready(seen).link = IF seen.method = "link" THEN Len(links) + 1 ELSE seen.link
  BY <1>1, ReadyFields
<1>3. /\ r \in Row /\ r.status = "AWAITING" /\ r.sent = TRUE /\ r.method = seen.method
      /\ r.link = IF seen.method = "link" THEN Len(links) + 1 ELSE seen.link
  BY <1>2 DEF Row, Status
<1>4. Write(u, d) /\ Send(r) /\ overdue' = FALSE
      /\ UNCHANGED <<lock, money, acked, told, edition>>
  BY DEF SendDeal
<1> HIDE DEF r
<1>5. /\ d \in Row /\ d.method = deal.method
      /\ d.status = Column(deal.status, seen.status, r.status)
      /\ d.link = Column(deal.link, seen.link, r.link)
  BY <1>1, <1>3, MergeFields
<1>6. /\ chat' = InvoiceOf(r) /\ chat' \in Invoice
      /\ links' \in Seq(Amount \cup {0}) /\ Len(links) <= Len(links')
      /\ r.method = "link" => Len(links') = Len(links) + 1 /\ links'[Len(links) + 1] = r.total
  BY <1>3, <1>4, Sent
<1>7. d.status = "AWAITING"
  BY <1>1, <1>3, <1>5 DEF Column
<1>8. d.link <= Len(links')
  <2>1. deal.link <= Len(links) /\ Len(links) \in Nat /\ deal.link \in Nat /\ Len(links') \in Nat
    BY <1>1, <1>6, Fields, LenProperties DEF TypeOK
  <2> QED BY <1>3, <1>5, <1>6, <2>1 DEF Column
<1>9. ASSUME ~raced' PROVE Honest'
  <2>1. ~raced /\ deal = seen /\ Honest
    BY <1>1, <1>4, <1>9, InTurn DEF Unlocked
  <2>2. d.total = r.total /\ d.sent = TRUE /\ d.link = r.link /\ InvoiceOf(d) = InvoiceOf(r)
    BY <1>1, <1>3, <2>1, MergeInTurn
  <2>3. deal' = d /\ told'.paid = 0 /\ acked' = {}
    BY <1>1, <1>4, <2>1 DEF Honest, Write
  <2>4. d.method = "link" => links'[d.link] = d.total
    BY <1>3, <1>5, <1>6, <2>1, <2>2
  <2>5. chat' = InvoiceOf(d)
    BY <1>6, <2>2
  <2> HIDE DEF d
  <2>6. InvoiceOf(deal)' = InvoiceOf(d)
    BY <2>3 DEF InvoiceOf
  <2> QED BY <1>7, <2>2, <2>3, <2>4, <2>5, <2>6 DEF Honest
<1>10. ToldFew' /\ told' \in [paid : Nat, orphan : Nat, mismatch : [Amount -> Nat]]
       /\ acked' \in SUBSET money /\ overdue' \in BOOLEAN
  BY <1>4 DEF DealInv, TypeOK, ToldFew
<1> HIDE DEF d
<1> QED BY <1>1, <1>4, <1>5, <1>6, <1>7, <1>8, <1>9, <1>10, WriteKeeps

LEMMA UpdateKeeps == ASSUME DealInv, NEW u \in User, Update(u) PROVE DealInv'
<1> DEFINE seen == request[u].seen
<1>1. deal \in Row /\ seen \in Row /\ TypeOK /\ u \in Party /\ request[u].op = "update"
      /\ Editable(seen) /\ deal.status # "NONE"
  BY DEF DealInv, TypeOK, Request, Party, Update, Asked
<1> DEFINE new(a, q) == [seen EXCEPT !.total = a, !.edits = @ + 1,
                                     !.requisite = IF q = 0 THEN @ ELSE q]
           row(a, q) == IF Outdated(seen, new(a, q)) THEN Ready(new(a, q)) ELSE new(a, q)
<1>2. PICK a \in Amount, q \in Requisite \cup {0} :
        /\ Write(u, Merge(deal, seen, row(a, q)))
        /\ IF Outdated(seen, new(a, q)) THEN Send(row(a, q)) ELSE UNCHANGED <<chat, links>>
  BY DEF Update
<1>3. UNCHANGED <<overdue, lock, money, acked, told, edition>>
  BY DEF Update
<1> DEFINE n == new(a, q)
           r == row(a, q)
           d == Merge(deal, seen, r)
<1>4. /\ n \in Row /\ n.total = a /\ n.status = seen.status /\ n.method = seen.method
      /\ n.sent = seen.sent /\ n.link = seen.link /\ n.snapshot = seen.snapshot
      /\ n.requisite = IF q = 0 THEN seen.requisite ELSE q
  <2> DEFINE e == seen.edits + 1
             k == IF q = 0 THEN seen.requisite ELSE q
  <2>1. e \in Nat /\ k \in Requisite \cup {0} /\ seen.edits \in Nat
    BY <1>1, Fields
  <2>2. n = [seen EXCEPT !.total = a, !.edits = e, !.requisite = k]
    BY <1>1 DEF Row
  <2> HIDE DEF e, k
  <2>3. n.requisite = k
    BY <1>1, <2>2 DEF Row
  <2> HIDE DEF new
  <2> QED BY <1>1, <2>1, <2>2, <2>3 DEF Row, k
<1> HIDE DEF new
<1>5. /\ r \in Row /\ r.status = seen.status /\ r.method = seen.method /\ r.sent = seen.sent
      /\ r.total = a
      /\ r.link = IF Outdated(seen, n) /\ seen.method = "link" THEN Len(links) + 1 ELSE seen.link
  BY <1>1, <1>4, ReadyFields
<1>6. r = IF Outdated(seen, n) THEN Ready(n) ELSE n
  OBVIOUS
<1> HIDE DEF row
<1>7. /\ d \in Row /\ d.method = deal.method
      /\ d.status = Column(deal.status, seen.status, r.status)
      /\ d.link = Column(deal.link, seen.link, r.link)
  BY <1>1, <1>5, MergeFields
<1>8. Write(u, d) /\ IF Outdated(seen, n) THEN Send(r) ELSE UNCHANGED <<chat, links>>
  BY <1>2
<1>9. d.status = deal.status
  BY <1>5, <1>7 DEF Column
<1>10. /\ links' \in Seq(Amount \cup {0}) /\ Len(links) <= Len(links') /\ chat' \in Invoice
       /\ Outdated(seen, n) =>
            /\ chat' = InvoiceOf(r)
            /\ r.method = "link" =>
                 Len(links') = Len(links) + 1 /\ links'[Len(links) + 1] = r.total
       /\ ~Outdated(seen, n) => chat' = chat /\ links' = links
  <2>1. CASE Outdated(seen, n)
    BY <1>5, <1>8, <2>1, Sent
  <2>2. CASE ~Outdated(seen, n)
    BY <1>8, <2>2, LenProperties DEF DealInv, TypeOK
  <2> QED BY <2>1, <2>2
<1>11. d.link <= Len(links')
  <2>1. deal.link <= Len(links) /\ Len(links) \in Nat /\ deal.link \in Nat /\ Len(links') \in Nat
    BY <1>1, <1>10, Fields, LenProperties DEF TypeOK
  <2> QED BY <1>5, <1>7, <1>10, <2>1 DEF Column
<1>12. ASSUME ~raced' PROVE Honest'
  <2>1. ~raced /\ deal = seen /\ Honest
    BY <1>1, <1>8, <1>12, InTurn DEF Unlocked
  <2>2. d.total = r.total /\ d.sent = r.sent /\ d.link = r.link /\ InvoiceOf(d) = InvoiceOf(r)
    BY <1>1, <1>5, <2>1, MergeInTurn
  <2>3. deal' = d /\ told'.paid = 0 /\ acked' = {} /\ d.status \in {"DRAFT", "AWAITING"}
    BY <1>1, <1>3, <1>8, <1>9, <2>1 DEF Honest, Write, Editable
  <2>4. InvoiceOf(deal)' = InvoiceOf(deal')
    BY DEF InvoiceOf
  <2>5. ASSUME d.status = "AWAITING"
        PROVE  d.sent /\ chat' = InvoiceOf(d) /\ (d.method = "link" => links'[d.link] = d.total)
    <3>1. seen.sent /\ chat = InvoiceOf(seen) /\ (seen.method = "link" => links[seen.link] = seen.total)
      BY <1>9, <2>1, <2>5 DEF Honest
    <3>2. CASE Outdated(seen, n)
      <4>1. chat' = InvoiceOf(d)
        BY <1>10, <2>2, <3>2
      <4>2. d.method = "link" => links'[d.link] = d.total
        BY <1>5, <1>7, <1>10, <2>1, <2>2, <3>2
      <4> QED BY <1>5, <2>2, <3>1, <4>1, <4>2
    <3>3. CASE ~Outdated(seen, n)
      <4>1. r = n /\ n.total = seen.total /\ n.requisite = seen.requisite
        BY <1>6, <3>1, <3>3 DEF Outdated
      <4>2. InvoiceOf(n) = InvoiceOf(seen)
        BY <1>4, <4>1 DEF InvoiceOf
      <4>3. d.method = "link" => links'[d.link] = d.total
        BY <1>5, <1>7, <1>10, <2>1, <2>2, <3>1, <3>3, <4>1
      <4> QED BY <1>5, <1>10, <2>2, <3>1, <3>3, <4>1, <4>2, <4>3
    <3> QED BY <3>2, <3>3
  <2> HIDE DEF d
  <2> QED BY <2>3, <2>4, <2>5 DEF Honest
<1>13. ToldFew' /\ told' \in [paid : Nat, orphan : Nat, mismatch : [Amount -> Nat]]
       /\ acked' \in SUBSET money /\ overdue' \in BOOLEAN
  BY <1>3 DEF DealInv, TypeOK, ToldFew
<1> HIDE DEF d
<1> QED BY <1>1, <1>3, <1>7, <1>8, <1>9, <1>10, <1>11, <1>12, <1>13, WriteKeeps

\* Who locks the row and pays it finds it unpaid.
LEMMA PaidKeeps ==
  ASSUME DealInv, NEW p \in Party, NEW d \in Row, Write(p, d),
         request[p].op \in {"pay", "confirm"},
         deal.status \in {"AWAITING", "EXPIRED"}, d.status = "PAID", d.total = deal.total,
         d.link <= Len(links),
         d.source = "provider" => d.link \in money /\ links[d.link] = d.total,
         told' = [told EXCEPT !.paid = @ + 1], lock' = None, acked' \in SUBSET money,
         UNCHANGED <<overdue, chat, links, money, edition>>
  PROVE  DealInv'
<1>1. deal' = d /\ (~raced' => ~raced)
  BY DEF Write
<1>2. told \in [paid : Nat, orphan : Nat, mismatch : [Amount -> Nat]]
  BY DEF DealInv, TypeOK
<1> DEFINE n == told.paid + 1
<1>3. n \in Nat /\ told' = [told EXCEPT !.paid = n]
  BY <1>2
<1>4. told' \in [paid : Nat, orphan : Nat, mismatch : [Amount -> Nat]] /\ told'.paid = n
      /\ told'.orphan = told.orphan /\ told'.mismatch = told.mismatch
  <2> HIDE DEF n
  <2> QED BY <1>2, <1>3
<1>5. ToldFew'
  BY <1>4 DEF DealInv, ToldFew
<1>6. ~raced' => Honest'
  <2> SUFFICES ASSUME ~raced' PROVE Honest'
    OBVIOUS
  <2>1. told.paid = 0
    BY <1>1 DEF DealInv, Honest
  <2>2. told'.paid = 1
    BY <1>4, <2>1
  <2> QED BY <1>1, <2>2 DEF Honest
<1>7. links' \in Seq(Amount \cup {0}) /\ Len(links) <= Len(links') /\ d.link <= Len(links')
      /\ chat' \in Invoice /\ overdue' \in BOOLEAN
  BY LenProperties DEF DealInv, TypeOK
<1> QED BY <1>4, <1>5, <1>6, <1>7, WriteKeeps

LEMMA PayKeeps == ASSUME DealInv, NEW u \in User, Pay(u) PROVE DealInv'
<1> DEFINE d == [deal EXCEPT !.status = "PAID", !.source = "manual"]
<1>1. deal \in Row /\ u \in Party /\ request[u].op = "pay" /\ deal.status = "AWAITING"
      /\ deal.link <= Len(links)
  BY DEF DealInv, TypeOK, Party, Pay, Asked
<1>2. d \in Row /\ d.status = "PAID" /\ d.total = deal.total /\ d.link = deal.link
      /\ d.source = "manual"
  BY <1>1 DEF Row, Status
<1>3. /\ Write(u, d) /\ told' = [told EXCEPT !.paid = @ + 1] /\ lock' = None
      /\ UNCHANGED <<overdue, chat, links, money, acked, edition>>
  BY DEF Pay
<1>4. acked' \in SUBSET money
  BY <1>3 DEF DealInv, TypeOK
<1> HIDE DEF d
<1> QED BY <1>1, <1>2, <1>3, <1>4, PaidKeeps

\* What a report knows of the row is the row.
LEMMA Reported ==
  ASSUME DealInv, NEW c \in Courier, Confirming(c)
  PROVE  /\ c \in Party /\ request[c].op = "confirm" /\ request[c].seen = deal /\ lock = c
         /\ request[c].link \in money /\ request[c].link \in 1..Len(links)
         /\ links[request[c].link] \in Amount \cup {0}
<1>1. c \in Party /\ request[c].op = "confirm"
  BY DEF Party, Confirming
<1>2. request[c].seen = deal /\ lock = c /\ request[c].link \in money
  BY <1>1 DEF DealInv, Asked
<1>3. request[c].link \in 1..Len(links)
  BY <1>2, LenProperties DEF DealInv, TypeOK
<1> QED BY <1>1, <1>2, <1>3, ElementOfSeq DEF DealInv, TypeOK

LEMMA ConfirmPaidKeeps == ASSUME DealInv, NEW c \in Courier, ConfirmPaid(c) PROVE DealInv'
<1> DEFINE l == request[c].link
           d == [deal EXCEPT !.status = "PAID", !.source = "provider", !.link = l]
<1>1. /\ c \in Party /\ request[c].op = "confirm" /\ request[c].seen = deal
      /\ l \in money /\ l \in 1..Len(links)
  BY Reported DEF ConfirmPaid
<1>2. deal \in Row /\ deal.status \in {"AWAITING", "EXPIRED"} /\ links[l] = deal.total
  BY <1>1 DEF DealInv, TypeOK, ConfirmPaid, RightSum
<1>3. l \in Nat /\ l <= Len(links)
  BY <1>1, LenProperties DEF DealInv, TypeOK
<1>4. /\ Write(c, d) /\ told' = [told EXCEPT !.paid = @ + 1] /\ lock' = None
      /\ acked' \in {acked, acked \cup {l}} /\ UNCHANGED <<overdue, chat, links, money, edition>>
  BY DEF ConfirmPaid, Answer
<1> HIDE DEF l
<1>5. d \in Row /\ d.status = "PAID" /\ d.total = deal.total /\ d.link = l /\ d.source = "provider"
  BY <1>2, <1>3 DEF Row, Status
<1>6. acked' \in SUBSET money
  BY <1>1, <1>4 DEF DealInv, TypeOK
<1> HIDE DEF d
<1> QED BY <1>1, <1>2, <1>3, <1>4, <1>5, <1>6, PaidKeeps

LEMMA ConfirmAgainKeeps == ASSUME DealInv, NEW c \in Courier, ConfirmAgain(c) PROVE DealInv'
<1>1. c \in Party /\ lock = c /\ deal.status = "PAID" /\ request[c].link \in money
  BY Reported DEF ConfirmAgain
<1>2. /\ Close(c) /\ lock' = None /\ acked' \in {acked, acked \cup {request[c].link}}
      /\ UNCHANGED <<deal, overdue, chat, links, money, told, edition, raced>>
  BY DEF ConfirmAgain, Answer
<1>3. ToldFew' /\ told' \in [paid : Nat, orphan : Nat, mismatch : [Amount -> Nat]]
      /\ acked' \in SUBSET money
  BY <1>1, <1>2 DEF DealInv, TypeOK, ToldFew
<1> QED BY <1>1, <1>2, <1>3, EndKeeps

LEMMA ConfirmMismatchKeeps ==
  ASSUME DealInv, NEW c \in Courier, ConfirmMismatch(c) PROVE DealInv'
<1> DEFINE a == links[request[c].link]
<1>1. c \in Party /\ lock = c
  BY Reported DEF ConfirmMismatch
<1>2. /\ Close(c) /\ lock' = None
      /\ told' = IF ToldOf(a) THEN told ELSE [told EXCEPT !.mismatch[a] = @ + 1]
      /\ UNCHANGED <<deal, overdue, chat, links, money, acked, edition, raced>>
  BY DEF ConfirmMismatch
<1>3. told \in [paid : Nat, orphan : Nat, mismatch : [Amount -> Nat]]
  BY DEF DealInv, TypeOK
<1> HIDE DEF a
<1>4. /\ told' \in [paid : Nat, orphan : Nat, mismatch : [Amount -> Nat]]
      /\ told'.paid = told.paid /\ ToldFew'
  <2>1. CASE ToldOf(a)
    BY <1>2, <1>3, <2>1 DEF DealInv, ToldFew
  <2>2. CASE ~ToldOf(a)
    <3> DEFINE k == told.mismatch[a] + 1
               m == [told.mismatch EXCEPT ![a] = k]
    <3>1. told' = [told EXCEPT !.mismatch = m]
      BY <1>2, <1>3, <2>2
    <3>2. told.mismatch \in [Amount -> Nat]
      BY <1>3
    <3>3. a \in Amount => k = 1
      BY <2>2, <3>2 DEF ToldOf
    <3>4. m \in [Amount -> Nat] /\ \A b \in Amount : m[b] <= 1
      <4> HIDE DEF k
      <4>1. CASE a \in Amount
        BY <3>2, <3>3, <4>1 DEF DealInv, ToldFew
      <4>2. CASE a \notin Amount
        <5>1. m = told.mismatch
          BY <3>2, <4>2
        <5> HIDE DEF m
        <5> QED BY <3>2, <5>1 DEF DealInv, ToldFew
      <4> QED BY <4>1, <4>2
    <3> HIDE DEF m
    <3> QED BY <1>3, <3>1, <3>4 DEF DealInv, ToldFew
  <2> QED BY <2>1, <2>2
<1>5. acked' \in SUBSET money /\ (~raced /\ acked' # {} => deal.status = "PAID")
  BY <1>2 DEF DealInv, TypeOK, Honest
<1> QED BY <1>1, <1>2, <1>4, <1>5, EndKeeps

LEMMA ConfirmOrphanKeeps == ASSUME DealInv, NEW c \in Courier, ConfirmOrphan(c) PROVE DealInv'
<1>1. c \in Party /\ lock = c
  BY Reported DEF ConfirmOrphan
<1>2. /\ Close(c) /\ lock' = None
      /\ told' = [told EXCEPT !.orphan = IF @ > 0 THEN @ ELSE 1]
      /\ UNCHANGED <<deal, overdue, chat, links, money, acked, edition, raced>>
  BY DEF ConfirmOrphan
<1>3. told \in [paid : Nat, orphan : Nat, mismatch : [Amount -> Nat]]
  BY DEF DealInv, TypeOK
<1> DEFINE n == IF told.orphan > 0 THEN told.orphan ELSE 1
<1>4. told' = [told EXCEPT !.orphan = n] /\ n \in Nat /\ n <= 1
  BY <1>2, <1>3 DEF DealInv, ToldFew
<1> HIDE DEF n
<1>5. /\ told' \in [paid : Nat, orphan : Nat, mismatch : [Amount -> Nat]]
      /\ told'.paid = told.paid /\ ToldFew'
  BY <1>3, <1>4 DEF DealInv, ToldFew
<1>6. acked' \in SUBSET money /\ (~raced /\ acked' # {} => deal.status = "PAID")
  BY <1>2 DEF DealInv, TypeOK, Honest
<1> QED BY <1>1, <1>2, <1>5, <1>6, EndKeeps

-----------------------------------------------------------------------------
(* The rest.                                                               *)

LEMMA CreateKeeps == ASSUME DealInv, Create PROVE DealInv'
<1>1. PICK a \in Amount, m \in {"link", "requisites"}, q \in Requisite \cup {0} :
        deal' = [NoDeal EXCEPT !.status = "DRAFT", !.total = a, !.method = m, !.requisite = q]
  BY DEF Create
<1>2. deal' \in Row /\ deal'.status = "DRAFT" /\ deal'.link = 0
  BY <1>1 DEF NoDeal, Row, Status
<1>3. deal.status = "NONE"
      /\ UNCHANGED <<overdue, request, lock, chat, links, money, acked, told, edition, raced>>
  BY DEF Create
<1>4. TypeOK'
  BY <1>2, <1>3, LenProperties DEF DealInv, TypeOK
<1>5. \A p \in Party : Asked(p)'
  BY <1>2, <1>3 DEF DealInv, Asked
<1>6. ~raced => Honest'
  BY <1>2, <1>3 DEF DealInv, Honest
<1> QED BY <1>2, <1>3, <1>4, <1>5, <1>6 DEF DealInv, ToldFew

LEMMA ClientPaysKeeps == ASSUME DealInv, NEW l \in 1..MaxLinks, ClientPays(l) PROVE DealInv'
<1>1. money' = money \cup {l} /\ l \in DOMAIN links
      /\ UNCHANGED <<deal, overdue, request, lock, chat, links, acked, told, edition, raced>>
  BY DEF ClientPays
<1>2. TypeOK'
  BY <1>1 DEF DealInv, TypeOK
<1>3. \A p \in Party : Asked(p)'
  BY <1>1 DEF DealInv, Asked
<1>4. ~raced => Honest'
  BY <1>1 DEF DealInv, Honest, InvoiceOf
<1> QED BY <1>1, <1>2, <1>3, <1>4 DEF DealInv, ToldFew

\* The text of the directory changes, or time passes.
LEMMA OthersKeep == ASSUME DealInv, EditRequisite \/ Deadline PROVE DealInv'
<1>1. UNCHANGED <<deal, request, lock, chat, links, money, acked, told, raced>>
  BY DEF EditRequisite, Deadline
<1>2. edition' \in Nat
  BY DEF EditRequisite, Deadline, DealInv, TypeOK
<1>2a. overdue' \in BOOLEAN
  BY Zenon DEF EditRequisite, Deadline, DealInv, TypeOK
<1>3. TypeOK'
  BY <1>1, <1>2, <1>2a DEF DealInv, TypeOK
<1>4. ~raced => Honest'
  BY <1>1 DEF DealInv, Honest, InvoiceOf
<1> QED BY <1>1, <1>3, <1>4 DEF DealInv, Asked, ToldFew

LEMMA DealStep == DealInv /\ [Next]_vars => DealInv'
<1> SUFFICES ASSUME DealInv, [Next]_vars PROVE DealInv'
  OBVIOUS
<1>1. CASE Create
  BY <1>1, CreateKeeps
<1>2. ASSUME NEW u \in User, Read(u) \/ PayLock(u) \/ Work(u) PROVE DealInv'
  BY <1>2, ReadKeeps, PayLockKeeps, UpdateKeeps, SendDealKeeps, CancelKeeps, PayKeeps DEF Work
<1>3. ASSUME NEW p \in User \cup Courier, Fail(p) PROVE DealInv'
  BY <1>3, FailKeeps
<1>4. CASE EditRequisite \/ Deadline
  BY <1>4, OthersKeep
<1>5. CASE ExpireRead \/ Expire
  BY <1>5, ExpireReadKeeps, ExpireKeeps
<1>6. ASSUME NEW l \in 1..MaxLinks, ClientPays(l) PROVE DealInv'
  BY <1>6, ClientPaysKeeps
<1>7. ASSUME NEW c \in Courier, NEW l \in 1..MaxLinks, Notify(c, l) PROVE DealInv'
  BY <1>7, NotifyKeeps
<1>8. ASSUME NEW c \in Courier, Confirm(c) PROVE DealInv'
  BY <1>8, ConfirmPaidKeeps, ConfirmAgainKeeps, ConfirmMismatchKeeps, ConfirmOrphanKeeps DEF Confirm
<1>9. CASE UNCHANGED vars
  BY <1>9 DEF vars, DealInv, TypeOK, Asked, Honest, InvoiceOf, ToldFew
<1> QED BY <1>1, <1>2, <1>3, <1>4, <1>5, <1>6, <1>7, <1>8, <1>9 DEF Next

LEMMA DealCorrect == Spec => []DealInv
BY DealStart, DealStep, PTL DEF Spec

-----------------------------------------------------------------------------

(* The row, the chat, Robokassa and the notifications tell one story about *)
(* the money (confirm_paid_by_provider, update_deal, send_deal, pay_deal): *)
(* paid means paid in full, acknowledged means paid, the invoice in the    *)
(* chat is the deal's, nobody is told twice.                               *)
THEOREM BooksAreRight == Spec => []BooksAgree
<1>1. DealInv => BooksAgree
  BY DEF DealInv, Honest, ToldFew, BooksAgree, PaidInFull, AckedIsPaid, InvoiceIsCurrent, ToldOnce
<1> QED BY <1>1, DealCorrect, PTL

(* A paid deal stays paid and keeps its sum (FROZEN), unless a request was *)
(* overtaken between its reading of the row and its writing.               *)
THEOREM PaidStays == Spec => PaidIsFinalInTurn
<1>1. ASSUME DealInv, [Next]_vars, deal.status = "PAID", ~raced'
      PROVE  deal'.status = "PAID" /\ deal'.total = deal.total
  <2>1. ASSUME NEW p \in Party, NEW d, Write(p, d), request[p].op \in Unlocked PROVE FALSE
    <3>1. deal = request[p].seen
      BY <1>1, <2>1, InTurn
    <3> QED BY <1>1, <2>1, <3>1 DEF DealInv, Asked, Unlocked, Editable
  <2>2. ASSUME NEW u \in User, Pay(u) PROVE FALSE
    BY <1>1, <2>2 DEF DealInv, Asked, Pay, Party
  <2>3. ASSUME NEW c \in Courier, ConfirmPaid(c) PROVE FALSE
    BY <1>1, <2>3, Reported DEF ConfirmPaid
  <2>4. ASSUME NEW u \in User, Update(u) \/ SendDeal(u) \/ Cancel(u) PROVE FALSE
    BY <2>1, <2>4 DEF Update, SendDeal, Cancel, Party, Unlocked
  <2>5. CASE Expire
    BY <2>1, <2>5 DEF Expire, Party, Unlocked
  <2>6. CASE Create
    BY <1>1, <2>6 DEF Create
  <2>7. CASE UNCHANGED deal
    BY <1>1, <2>7
  <2> QED BY <1>1, <2>2, <2>3, <2>4, <2>5, <2>6, <2>7
          DEF Next, Work, Confirm, Read, PayLock, Fail, EditRequisite, Deadline, ExpireRead,
              ClientPays, Notify, ConfirmAgain, ConfirmMismatch, ConfirmOrphan, vars
<1>2. DealInv /\ [Next]_vars =>
        [deal.status = "PAID" /\ ~raced' =>
           deal'.status = "PAID" /\ deal'.total = deal.total]_vars
  BY <1>1
<1> QED BY <1>2, DealCorrect, PTL DEF Spec, PaidIsFinalInTurn
=============================================================================

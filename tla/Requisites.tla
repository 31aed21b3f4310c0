------------------------------- MODULE Requisites -------------------------------
(***************************************************************************)
(* The accounts money is sent to, one of which a manager names in a deal.  *)
(* Directors add, switch and delete them; each request reads first and     *)
(* writes the columns it changed at its commit, and no row is locked.      *)
(***************************************************************************)
EXTENDS Naturals, FiniteSets

CONSTANTS
  Payee,        \* rows of payment_requisites
  Director,     \* requests of directors under way at once
  MaxChanged    \* bound: requests of directors

ASSUME RequisitesAssumption == MaxChanged \in Nat /\ Payee # {}

VARIABLES
  payee,       \* the rows
  change,      \* requests of directors
  changed,
  overlapped   \* history: two requests were under way at once

payeeVars == <<payee, change, changed, overlapped>>

NoPayee == "none"
PayeeRow == [is_active : BOOLEAN, deleted : BOOLEAN]
Seeded == CHOOSE p \in Payee : TRUE     \* the row a new database has
Op == {"create", "on", "off", "delete"}
Free == [op |-> "free", on |-> NoPayee, seen |-> FALSE]

Exists(p) == p \in DOMAIN payee /\ ~payee[p].deleted
\* list_requisites without the switched off ones: what a manager chooses from.
Active == {p \in Payee : Exists(p) /\ payee[p].is_active}

RequisitesTypeOK ==
  /\ DOMAIN payee \subseteq Payee /\ \A p \in DOMAIN payee : payee[p] \in PayeeRow
  /\ change \in [Director -> [op : Op \cup {"free"}, on : Payee \cup {NoPayee}, seen : BOOLEAN]]
  /\ changed \in 0..MaxChanged

RequisitesInit ==
  /\ payee = [p \in {Seeded} |-> [is_active |-> TRUE, deleted |-> FALSE]]
  /\ change = [d \in Director |-> Free]
  /\ changed = 0 /\ overlapped = FALSE

-----------------------------------------------------------------------------
\* Mutant: any active row counts, the one that goes included.
LeavesSome(p) == Active # {}
\* _active_count with except_id.
LeavesAnother(p) == Active \ {p} # {}

\* What a request checks before it changes the row: to switch off needs another
\* active row whatever this one is; to delete does only when this one is active.
Allowed(op, p) ==
  /\ Exists(p) <=> op # "create"
  /\ op = "create" => p \notin DOMAIN payee
  /\ op = "off" \/ (op = "delete" /\ payee[p].is_active) => LeavesAnother(p)

\* A request up to its commit; _get and the check.
BeginChange(d, op, p) ==
  /\ change[d].op = "free" /\ changed < MaxChanged
  /\ Allowed(op, p)
  /\ \A e \in Director : change[e].op = "create" => change[e].on # p    \* a new row has its own id
  /\ changed' = changed + 1
  /\ change' = [change EXCEPT ![d] =
       [op |-> op, on |-> p, seen |-> op # "create" /\ payee[p].is_active]]
  /\ overlapped' = (overlapped \/ \E e \in Director \ {d} : change[e].op # "free")
  /\ UNCHANGED payee

\* The columns that differ from what was read are written.
Written(c) ==
  [is_active |-> IF c.seen = (c.op = "on") THEN payee[c.on].is_active ELSE c.op = "on",
   deleted |-> payee[c.on].deleted \/ c.op = "delete"]

CommitChange(d) ==
  LET c == change[d] IN
  /\ c.op # "free"
  /\ IF c.op = "create"
       THEN \E active \in BOOLEAN :
              payee' = [p \in DOMAIN payee \cup {c.on} |->
                          IF p = c.on THEN [is_active |-> active, deleted |-> FALSE] ELSE payee[p]]
       ELSE payee' = [payee EXCEPT ![c.on] = Written(c)]
  /\ change' = [change EXCEPT ![d] = Free]
  /\ UNCHANGED <<changed, overlapped>>

\* load: every row of the list is added or switched on, also one deleted
\* before, which stays deleted.
LoadRequisites ==
  /\ changed < MaxChanged
  /\ changed' = changed + 1
  /\ \E rows \in SUBSET {p \in Payee : \A d \in Director : change[d].op = "create" => change[d].on # p} :
       payee' = [p \in DOMAIN payee \cup rows |->
                   IF p \notin DOMAIN payee THEN [is_active |-> TRUE, deleted |-> FALSE]
                   ELSE IF p \in rows THEN [payee[p] EXCEPT !.is_active = TRUE]
                   ELSE payee[p]]
  /\ UNCHANGED <<change, overlapped>>

RequisitesNext ==
  \/ LoadRequisites
  \/ \E d \in Director, op \in Op, p \in Payee : BeginChange(d, op, p)
  \/ \E d \in Director : CommitChange(d)

RequisitesSpec == RequisitesInit /\ [][RequisitesNext]_payeeVars

-----------------------------------------------------------------------------
\* NEED_ONE_ACTIVE: as long as two directors never worked at once, there is an
\* account a manager can name, however rows were switched and deleted.
OneActiveInTurn == ~overlapped => Active # {}
\* The rule as it is worded: two directors who switch off each other's last
\* account break it.
OneActive == Active # {}
=============================================================================

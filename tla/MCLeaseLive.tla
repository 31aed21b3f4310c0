---------------------------- MODULE MCLeaseLive -----------------------------
(***************************************************************************)
(* Two small instances of Lease in one run: which mishaps a behaviour may  *)
(* have is chosen at its start, by a count that is beyond its bound.       *)
(***************************************************************************)
EXTENDS MCLease

Without(k) == [j \in Kinds |-> IF j = k THEN Bound[k] + 1 ELSE 0]

(* Nothing is switched off, or no process is stopped in order.             *)
PlanInit == AtRest /\ counts \in {Without("toggle"), Without("shutdown")}

PlanSpec == PlanInit /\ [][Next]_vars /\ Fairness

(* Where accounts are switched off and on nothing connects on demand.      *)
SwitchedWithoutCalls ==
  counts["shutdown"] > MaxShutdowns => \A w \in Worker : calls[w] = {}
=============================================================================

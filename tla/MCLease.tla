------------------------------ MODULE MCLease -------------------------------
(* Small instances of Lease for TLC.                                       *)
EXTENDS Lease, TLC

CONSTANTS a1, a2

TwoAccounts == {a1, a2}
OneAccount == {a1}
FullSpeed == {Capacity}
=============================================================================

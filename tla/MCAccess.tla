------------------------------- MODULE MCAccess -------------------------------
(* Small instances of Access for TLC.                                      *)
EXTENDS Access

\* One invitation may be sent again.
TwoInvitations == [k \in Kind |-> IF k = "invite" THEN 2 ELSE 1]
=============================================================================

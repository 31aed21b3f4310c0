------------------------------- MODULE MCInbox -------------------------------
(* Small instances of Inbox for TLC.                                       *)
EXTENDS Inbox
=============================================================================

---------------------------- MODULE MCTicketLock ----------------------------
(* TicketLock on small sets.                                                *)
EXTENDS TicketLock
=============================================================================

---------------------------- MODULE MCTicketLock ----------------------------
(* The ticket lock, for model checking with few threads and tickets.        *)
EXTENDS TicketLock
=============================================================================

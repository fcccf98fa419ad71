---------------------------- MODULE MCTicketSaga ----------------------------
(* Small instances of the whole purchase. *)
EXTENDS TicketSaga
=============================================================================

------------------------------ MODULE MCOutbox ------------------------------
(***************************************************************************)
(* Outbox with the constants of MCOutbox.cfg.                           *)
(***************************************************************************)
EXTENDS Outbox
=============================================================================

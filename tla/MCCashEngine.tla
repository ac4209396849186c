---------------------------- MODULE MCCashEngine ----------------------------
(***************************************************************************)
(* An instance of CashEngine: two processes at work on the deal.            *)
(***************************************************************************)
EXTENDS CashEngine
=============================================================================

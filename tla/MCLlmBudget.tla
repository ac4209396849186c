---------------------------- MODULE MCLlmBudget ----------------------------
(***************************************************************************)
(* Instances of LlmBudget for TLC.                                         *)
(***************************************************************************)
EXTENDS LlmBudget

\* The quota of an inefficient workcell, and of an efficient one.
MCQuotas == {1, 2}
=============================================================================

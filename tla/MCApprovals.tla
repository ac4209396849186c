---------------------------- MODULE MCApprovals ----------------------------
(***************************************************************************)
(* An instance of Approvals: a routine and an emergency request, and two   *)
(* calls at a time.                                                        *)
(***************************************************************************)
EXTENDS Approvals
=============================================================================

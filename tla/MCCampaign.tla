----------------------------- MODULE MCCampaign -----------------------------
(***************************************************************************)
(* An instance of Campaign: three nodes, of which the first needs nothing. *)
(* In one template the second is gated and the third follows it when the   *)
(* KPIs allow; in the other two gated nodes follow, and one of them is     *)
(* unsafe.                                                                 *)
(***************************************************************************)
EXTENDS Campaign

Chain ==
    [preds |-> <<{}, {1}, {2}>>, gated |-> {2}, unsafe |-> {}, conditional |-> {3}]
Fork ==
    [preds |-> <<{}, {1}, {1}>>, gated |-> {2, 3}, unsafe |-> {3}, conditional |-> {}]
MCTemplates == {Chain, Fork}
=============================================================================

-------------------------- MODULE MCStripeWebhook --------------------------
(***************************************************************************)
(* Small instances of StripeWebhook: two finance instances, one customer,  *)
(* and one to three events.                                                *)
(***************************************************************************)
EXTENDS StripeWebhook, TLC

CONSTANTS i1, i2, e1, e2, e3, c1

Sale(settled, offer) == [kind |-> "payment", email |-> c1, settled |-> settled, offer |-> offer]
Sub(settled) == [kind |-> "subscription", email |-> c1, settled |-> settled, offer |-> FALSE]
NoCustomer(kind) == [kind |-> kind, email |-> None, settled |-> "paid", offer |-> FALSE]

OneSale == e1 :> Sale("paid", TRUE)
SaleAndPendingSub == (e1 :> Sale("paid", TRUE)) @@ (e2 :> Sub("pending"))
NoFunds == (e1 :> Sale("free", TRUE)) @@ (e2 :> NoCustomer("renewal"))
             @@ (e3 :> NoCustomer("payment"))

\* Deliveries: three of every event, or three of the sale and one of the other.
Thrice == [e \in Events |-> 3]
SaleThrice == [e \in Events |-> IF e = e1 THEN 3 ELSE 1]

\* The two instances are interchangeable.
InstanceSymmetry == Permutations(Instances)

=============================================================================

---------------------------- MODULE MCSqsWorker ----------------------------
(***************************************************************************)
(* Small instances of SqsWorker: a message and its resubmission under the  *)
(* same key, a message of another key, and a message that is not valid.    *)
(***************************************************************************)
EXTENDS SqsWorker, TLC

CONSTANTS w1, w2, m1, m2, m3, k1, k2

KeysABA == (m1 :> k1) @@ (m2 :> k2) @@ (m3 :> k1)
BodiesUnsigned == (m1 :> "signed") @@ (m2 :> "signed") @@ (m3 :> "unsigned")

KeysAA == (m1 :> k1) @@ (m2 :> k1)
KeysA == (m1 :> k1)
BodySigned == (m1 :> "signed")
BodiesSigned == (m1 :> "signed") @@ (m2 :> "signed")

=============================================================================

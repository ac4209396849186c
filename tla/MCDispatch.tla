----------------------------- MODULE MCDispatch -----------------------------
(***************************************************************************)
(* An instance of Dispatch: two dispatch requests at a time and one        *)
(* diagnostics request.                                                    *)
(***************************************************************************)
EXTENDS Dispatch

CONSTANTS h1, h2, r1

\* One caller that retries once, and two that do not.
MCRetries == [c \in Callers |-> IF c = h1 THEN 1 ELSE 0]
=============================================================================

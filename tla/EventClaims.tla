---------------------------- MODULE EventClaims ----------------------------
(***************************************************************************)
(* What claim_event_id and its callers promise the side effects of a       *)
(* Stripe event (backend/finance/webhook.py), whatever crashes, expires    *)
(* and is delivered again.  A delivery has a turn at its event while it    *)
(* handles it.  There is one turn for the claim, one more for each         *)
(* takeover and one for each claim that failed open; the first takeover    *)
(* finds nobody at work but deliveries whose claim failed open.  In its    *)
(* turn a delivery performs each effect at most once, and effects happen   *)
(* in no other way.                                                        *)
(***************************************************************************)
EXTENDS Naturals, FiniteSets

CONSTANTS Instances, Events, Effects, None

VARIABLES
    claimed,     \* events that were claimed
    takeovers,   \* turns given by taking over a claim, per event
    opened,      \* turns given by claims that failed open, per event
    turn,        \* per instance: the event it has a turn at, or None
    todo,        \* per instance: the effects its turn may still perform
    done         \* how often each effect of each event happened

claimVars == <<claimed, takeovers, opened, turn, todo, done>>

ClaimsInit ==
    /\ claimed = {}
    /\ takeovers = [e \in Events |-> 0]
    /\ opened = [e \in Events |-> 0]
    /\ turn = [i \in Instances |-> None]
    /\ todo = [i \in Instances |-> {}]
    /\ done = [e \in Events |-> [k \in Effects |-> 0]]

AtWork(e) == {i \in Instances : turn[i] = e}

Begin(i, e) ==
    /\ turn[i] = None
    /\ turn' = [turn EXCEPT ![i] = e]
    /\ todo' = [todo EXCEPT ![i] = Effects]
    /\ UNCHANGED done

\* ledger.claim creates the marker.
First(i, e) ==
    /\ e \notin claimed
    /\ claimed' = claimed \cup {e}
    /\ Begin(i, e)
    /\ UNCHANGED <<takeovers, opened>>

\* reclaim_expired
TakeOver(i, e) ==
    /\ e \in claimed
    /\ takeovers[e] = 0 => Cardinality(AtWork(e)) <= opened[e]
    /\ takeovers' = [takeovers EXCEPT ![e] = @ + 1]
    /\ Begin(i, e)
    /\ UNCHANGED <<claimed, opened>>

\* ledger.claim fails open.
FailOpen(i, e) ==
    /\ opened' = [opened EXCEPT ![e] = @ + 1]
    /\ Begin(i, e)
    /\ UNCHANGED <<claimed, takeovers>>

\* The turn performs an effect or gives some up, and may end with that.
Proceed(i) ==
    /\ turn[i] # None
    /\ \E left \in SUBSET todo[i] :
          /\ todo' = [todo EXCEPT ![i] = left]
          /\ \/ UNCHANGED done
             \/ \E k \in todo[i] \ left : done' = [done EXCEPT ![turn[i]][k] = @ + 1]
          /\ UNCHANGED turn \/ (left = {} /\ turn' = [turn EXCEPT ![i] = None])
    /\ UNCHANGED <<claimed, takeovers, opened>>

ClaimsNext ==
    \E i \in Instances :
        \/ Proceed(i)
        \/ \E e \in Events : First(i, e) \/ TakeOver(i, e) \/ FailOpen(i, e)

ClaimsSpec == ClaimsInit /\ [][ClaimsNext]_claimVars

=============================================================================

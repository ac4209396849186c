------------------------------ MODULE Verdicts ------------------------------
(***************************************************************************)
(* What the operator approval queue (backend/common/approvals.py) promises *)
(* the subsystems that wait for a human's yes, whatever its two stores     *)
(* lose and its readers race: nothing counts as approved that no operator  *)
(* approved, and nobody decides a request that lapsed.  It promises no     *)
(* more: a request may be decided twice, and an approved one may look as   *)
(* if it were not.                                                         *)
(***************************************************************************)
CONSTANT Ids   \* requests

VARIABLES
    submitted,   \* requests made
    verdicts,    \* per request: the operators' decisions
    lapsed,      \* requests past their deadline, no decision being under way
    granted      \* requests that is_currently_approved said yes to

queueVars == <<submitted, verdicts, lapsed, granted>>

Verdict == {"approved", "rejected"}

QueueInit ==
    /\ submitted = {}
    /\ verdicts = [i \in Ids |-> {}]
    /\ lapsed = {}
    /\ granted = {}

\* create_approval
Submit(i) ==
    /\ i \in Ids \ submitted
    /\ submitted' = submitted \cup {i}
    /\ UNCHANGED <<verdicts, lapsed, granted>>

\* decide_approval; a deadline that passed meanwhile takes effect now.
Decide(i, v) ==
    /\ i \in submitted \ lapsed
    /\ verdicts' = [verdicts EXCEPT ![i] = @ \cup {v}]
    /\ lapsed' \in {lapsed, lapsed \cup {i}}
    /\ UNCHANGED <<submitted, granted>>

\* The deadline passes, or the last decision begun before it is given up.
Lapse(i) ==
    /\ i \in submitted
    /\ lapsed' = lapsed \cup {i}
    /\ UNCHANGED <<submitted, verdicts, granted>>

\* is_currently_approved says yes.
Grant(i) ==
    /\ "approved" \in verdicts[i]
    /\ granted' = granted \cup {i}
    /\ UNCHANGED <<submitted, verdicts, lapsed>>

QueueNext ==
    \E i \in Ids :
        \/ Submit(i) \/ Lapse(i) \/ Grant(i)
        \/ \E v \in Verdict : Decide(i, v)

QueueSpec == QueueInit /\ [][QueueNext]_queueVars

=============================================================================

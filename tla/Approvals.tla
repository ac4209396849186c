----------------------------- MODULE Approvals -----------------------------
(***************************************************************************)
(* The operator approval queue, backend/common/approvals.py: a row per     *)
(* request in the DynamoDB table and in the JSON file that mirrors it.     *)
(* Readers in several processes load both, let the table's row win,        *)
(* expire a pending row whose deadline has passed, and perhaps decide it;  *)
(* every write replaces the row in the table and then in the mirror, and   *)
(* either write may fail unnoticed.                                        *)
(***************************************************************************)
EXTENDS Naturals, FiniteSets

CONSTANTS
    Ids,        \* requests
    Emergency,  \* those of high or critical risk
    Actors,     \* calls of the module under way at a time
    Watched,    \* the request whose decisions are counted
    MaxCount,   \* bound: disturbances counted
    MaxFaults,  \* bound: failing reads and writes, and crashes
    None

ASSUME ApprovalsAssumption ==
    /\ Emergency \subseteq Ids
    /\ IsFiniteSet(Actors)
    /\ Watched \in Ids
    /\ MaxCount \in Nat \ {0}
    /\ MaxFaults \in Nat
    /\ None \notin Ids

Verdict == {"approved", "rejected"}
Status == Verdict \cup {"pending", "expired"}
\* What a store holds of a request.
Row == Status \cup {"absent"}

VARIABLES
    due,        \* requests whose ttl_expires_at has passed
    table,      \* DynamoDB: the status of each row
    mirror,     \* the JSON file: the status of each row
    pc,         \* per actor: where its call is
    at,         \* per actor: the request it works on
    row,        \* per actor: the status it is about to give it
    submitted,  \* history: requests made
    verdicts,   \* history: decisions taken, per request
    granted,    \* history: requests that is_currently_approved said yes to
    decisions,  \* history: how often the watched request was decided
    disturbed,  \* history: faults, and reads of a request another call works on
    faults

callVars == <<pc, at, row>>
storeVars == <<table, mirror>>
historyVars == <<submitted, verdicts, granted>>
countVars == <<decisions, disturbed>>
vars == <<due, storeVars, callVars, historyVars, countVars, faults>>

Steps == {"idle", "batch", "decide", "put", "mirror"}

Init ==
    /\ due = {}
    /\ table = [i \in Ids |-> "absent"]
    /\ mirror = [i \in Ids |-> "absent"]
    /\ pc = [a \in Actors |-> "idle"]
    /\ at = [a \in Actors |-> None]
    /\ row = [a \in Actors |-> "absent"]
    /\ submitted = {}
    /\ verdicts = [i \in Ids |-> {}]
    /\ granted = {}
    /\ decisions = 0
    /\ disturbed = 0
    /\ faults = 0

Goto(a, step, i, status) ==
    /\ pc' = [pc EXCEPT ![a] = step]
    /\ at' = [at EXCEPT ![a] = i]
    /\ row' = [row EXCEPT ![a] = status]

Leave(a) == Goto(a, "idle", None, "absent")

\* Disturbances are counted up to MaxCount; after that many nothing is.
Counting == disturbed < MaxCount
Disturb ==
    /\ disturbed' = IF Counting THEN disturbed + 1 ELSE disturbed
    /\ decisions' = IF Counting' THEN decisions ELSE 0

Fault == faults < MaxFaults /\ faults' = faults + 1 /\ Disturb
NoFault == UNCHANGED <<countVars, faults>>

\* Nobody else is at work on the request.
Alone(a, i) == \A b \in Actors \ {a} : at[b] # i
Begin(a, i) ==
    \/ Alone(a, i) /\ NoFault
    \/ ~Alone(a, i) /\ Disturb /\ UNCHANGED faults

-----------------------------------------------------------------------------
\* The deadline passes.
Elapse(i) ==
    /\ i \in submitted \ due
    /\ due' = due \cup {i}
    /\ UNCHANGED <<storeVars, callVars, historyVars, countVars, faults>>

\* create_approval: a pending row under a new id, saved in both stores.
Create(a, i) ==
    /\ pc[a] = "idle"
    /\ i \notin submitted
    /\ submitted' = submitted \cup {i}
    /\ Goto(a, "put", i, "pending")
    /\ UNCHANGED <<due, storeVars, verdicts, granted, countVars, faults>>

\* _load_all: the table's row wins.
Merged(i) == IF table[i] # "absent" THEN table[i] ELSE mirror[i]

\* The row as a reader gets it: both stores read, or only one of them.
Loads(a, i, r) ==
    \/ r = Merged(i) /\ Begin(a, i)
    \/ r \in {table[i], mirror[i]} /\ r # Merged(i) /\ Fault

\* Mutant: only a sweep expires rows, not the readers.
IsDueNever(i, r) == FALSE

\* _expire_if_due: a pending row is looked at by its deadline.
IsDue(i, r) == r = "pending" /\ i \in due

\* Mutant: the row is saved as it was read.
ExpiredUnchanged(r) == r

\* Mutant: an overdue row is dropped.
ExpiredDropped(r) == None

\* row["status"] = STATUS_EXPIRED, on a copy of the row.
Expired(r) == "expired"

\* get_approval, list_approvals (a row at a time), is_currently_approved: an
\* overdue row is expired and saved, and an approved one lets its caller go on.
Read(a, i) ==
    /\ pc[a] = "idle"
    /\ \E r \in Row :
          /\ Loads(a, i, r)
          /\ \/ IsDue(i, r) /\ Goto(a, "put", i, Expired(r)) /\ UNCHANGED granted
             \/ /\ ~IsDue(i, r) /\ Leave(a)
                /\ granted' = IF r = "approved" THEN granted \cup {i} ELSE granted
    /\ UNCHANGED <<due, storeVars, submitted, verdicts>>

\* Mutant: anything but an expired row can be decided.
IsOpenUnlessExpired(r) == r \notin {"absent", "expired"}

\* row.get("status") != STATUS_PENDING
IsOpen(r) == r = "pending"

\* decide_approval reads the row itself; it refuses one that is absent, is not
\* pending or has just expired.
Consider(a, i, v) ==
    \E r \in Row :
        /\ Loads(a, i, r)
        /\ \/ IsDue(i, r) /\ Goto(a, "put", i, Expired(r))
           \/ ~IsDue(i, r) /\ IsOpen(r) /\ Goto(a, "decide", i, v)
           \/ ~IsDue(i, r) /\ ~IsOpen(r) /\ Leave(a)

Ask(a, i) ==
    /\ pc[a] = "idle"
    /\ \E v \in Verdict : Consider(a, i, v)
    /\ UNCHANGED <<due, storeVars, historyVars>>

\* batch_approve looks at each row first and leaves out the emergencies ...
Batch(a, i) ==
    /\ pc[a] = "idle"
    /\ i \notin Emergency
    /\ \E r \in Row :
          /\ Loads(a, i, r)
          /\ \/ IsDue(i, r) /\ Goto(a, "put", i, Expired(r))
             \/ ~IsDue(i, r) /\ IsOpen(r) /\ Goto(a, "batch", i, "absent")
    /\ UNCHANGED <<due, storeVars, historyVars>>

\* ... and then decides it as any other.
BatchOn(a) ==
    /\ pc[a] = "batch"
    /\ Consider(a, at[a], "approved")
    /\ UNCHANGED <<due, storeVars, historyVars>>

\* The decision: the row the actor read as pending gets its verdict.
Rule(a) ==
    /\ pc[a] = "decide"
    /\ verdicts' = [verdicts EXCEPT ![at[a]] = @ \cup {row[a]}]
    /\ decisions' = IF Counting /\ at[a] = Watched THEN decisions + 1 ELSE decisions
    /\ Goto(a, "put", at[a], row[a])
    /\ UNCHANGED <<due, storeVars, submitted, granted, disturbed, faults>>

\* _ddb_put: no condition on what is there.
Put(a) ==
    /\ pc[a] = "put"
    /\ \/ table' = [table EXCEPT ![at[a]] = row[a]] /\ NoFault
       \/ Fault /\ UNCHANGED table
    /\ Goto(a, "mirror", at[a], row[a])
    /\ UNCHANGED <<due, mirror, historyVars>>

\* Mutant: the file is a fallback, written when the table was not.
MirrorFallback(i, r) ==
    IF table[i] = r THEN mirror ELSE [mirror EXCEPT ![i] = r]

\* _json_save: the file is read, the row replaced, and the file written.
Mirrored(i, r) == [mirror EXCEPT ![i] = r]

\* A file that cannot be read is replaced by one with this row only.
Mirror(a) ==
    /\ pc[a] = "mirror"
    /\ \/ mirror' = Mirrored(at[a], row[a]) /\ NoFault
       \/ mirror' = [i \in Ids |-> IF i = at[a] THEN row[a] ELSE "absent"] /\ Fault
       \/ Fault /\ UNCHANGED mirror
    /\ Leave(a)
    /\ UNCHANGED <<due, table, historyVars>>

\* The process dies.
Crash(a) ==
    /\ pc[a] # "idle"
    /\ Fault
    /\ Leave(a)
    /\ UNCHANGED <<due, storeVars, historyVars>>

-----------------------------------------------------------------------------
Next ==
    \/ \E i \in Ids : Elapse(i)
    \/ \E a \in Actors :
          \/ BatchOn(a) \/ Rule(a) \/ Put(a) \/ Mirror(a) \/ Crash(a)
          \/ \E i \in Ids : Create(a, i) \/ Read(a, i) \/ Ask(a, i) \/ Batch(a, i)

Spec == Init /\ [][Next]_vars

-----------------------------------------------------------------------------
(* Properties. *)

\* The types of the variables.
TypeOK ==
    /\ due \subseteq submitted
    /\ table \in [Ids -> Row]
    /\ mirror \in [Ids -> Row]
    /\ pc \in [Actors -> Steps]
    /\ at \in [Actors -> Ids \cup {None}]
    /\ row \in [Actors -> Row]
    /\ \A a \in Actors : pc[a] # "idle" => at[a] \in Ids
    /\ submitted \subseteq Ids
    /\ verdicts \in [Ids -> SUBSET Verdict]
    /\ granted \subseteq Ids
    /\ decisions \in Nat
    /\ disturbed \in 0..MaxCount
    /\ faults \in 0..MaxFaults

\* A request has lapsed when its deadline has passed and no decision that read
\* it before is still to be taken.
Lapsed == {i \in due : \A a \in Actors : ~(pc[a] = "decide" /\ at[a] = i)}

Promise == INSTANCE Verdicts WITH lapsed <- Lapsed

\* Whatever fails and whoever races, the queue keeps the promise the subsystems
\* rely on: an expired request never auto-passes, and a stale approval cannot
\* be minted (decide_approval, is_currently_approved).
KeepsPromise == Promise!QueueSpec

\* However often a request is read, batched, decided and expires, it is decided at
\* most once more than something failed or a call read a request another was at
\* work on: a fault or a race lets one more decision in, never a row that stays
\* open (decide_approval).
DecisionsPaid == Counting => decisions <= 1 + disturbed

\* As long as there was none of that, the two stores agree on every request
\* nobody is at work on (_save: "ALWAYS mirrored to the JSON file").
StoresAgree ==
    disturbed = 0 => \A i \in Ids : (\A a \in Actors : at[a] # i) => table[i] = mirror[i]

\* Once the table holds an outcome of a request, no write makes it pending
\* again, whatever fails and whoever races (_save).
NeverReopened ==
    [][\A i \in Ids : table'[i] = "pending" => table[i] \in {"absent", "pending"}]_vars

=============================================================================

------------------------------ MODULE Campaign ------------------------------
(***************************************************************************)
(* The campaign orchestrator: lifecycle operations and the drive of        *)
(* backend/campaigns/orchestrator.py, node execution                       *)
(* (backend/campaigns/executor.py), approval gates                         *)
(* (backend/campaigns/approval_gate.py), readiness                         *)
(* (backend/campaigns/graph.py) and the run file                           *)
(* (backend/campaigns/store.py), for one campaign.                         *)
(*                                                                         *)
(* It relies on the approval queue through the promise of Verdicts alone,  *)
(* which Approvals keeps.  The HTTP service and the queue worker are       *)
(* different processes: each operation loads the run, works on its copy    *)
(* and saves the whole copy, after every node and at the end.              *)
(***************************************************************************)
EXTENDS Naturals, FiniteSets, Verdicts

CONSTANTS
    Total,      \* nodes of the template, in declaration order
    Templates,  \* the templates a campaign may have: see Template
    Actors,     \* operations under way at a time
    Watched,    \* the node whose dispatches are counted
    MaxCount,   \* bound: disturbances counted
    MaxCalls,   \* bound: lifecycle operations, and decisions made in the queue
    MaxFaults,  \* bound: failing saves, and crashes
    None

Nodes == 1..Total

\* gated: the approval level resolves to other than none.  unsafe: of high risk
\* but declared to need no approval.  conditional: the incoming edges have a
\* condition on the KPIs.
Template ==
    [preds : [Nodes -> SUBSET Nodes], gated : SUBSET Nodes,
     unsafe : SUBSET Nodes, conditional : SUBSET Nodes]

ASSUME CampaignAssumption ==
    /\ Total \in Nat \ {0}
    /\ Templates \subseteq Template
    /\ IsFiniteSet(Actors)
    /\ Watched \in Nodes
    /\ MaxCount \in Nat \ {0}
    /\ MaxCalls \in Nat
    /\ MaxFaults \in Nat
    /\ None \notin Ids

States == {"ready", "running", "paused", "blocked", "needs_approval",
           "completed", "failed", "cancelled"}

\* CampaignRun; request is each step result's approval_id, kpi the truth of the
\* edge conditions.
Run ==
    [state : States, completed : SUBSET Nodes, blocked : SUBSET Nodes,
     failed : SUBSET Nodes, waiting : SUBSET Nodes,
     request : [Nodes -> Ids \cup {None}], kpi : BOOLEAN]

Fresh ==
    [state |-> "ready", completed |-> {}, blocked |-> {}, failed |-> {},
     waiting |-> {}, request |-> [n \in Nodes |-> None], kpi |-> FALSE]

\* A drive: nodes left in this pass, passes left, and whether one completed.
Drive == [todo : SUBSET Nodes, left : 0..(Total + 1), gained : BOOLEAN]
NoDrive == [todo |-> {}, left |-> 0, gained |-> FALSE]

VARIABLES
    template,   \* the campaign's template
    exists,     \* there is a run file
    file,       \* what it holds
    pc,         \* per actor: where its operation is
    mem,        \* per actor: its copy of the run
    drive,      \* per actor: its drive
    owner,      \* the node each request was made for (its payload)
    attempted,  \* history: nodes dispatched
    worked,     \* history: nodes whose dispatch was answered
    times,      \* history: how often the watched node was dispatched
    disturbed,  \* history: faults, second creations, overlapping operations
    calls,
    faults

runVars == <<exists, file>>
driveVars == <<pc, mem, drive>>
historyVars == <<attempted, worked, times>>
vars == <<template, runVars, driveVars, owner, historyVars, disturbed, calls, faults, queueVars>>

Steps == {"idle", "node", "save", "end"}

Init ==
    /\ QueueInit
    /\ template \in Templates
    /\ exists = FALSE
    /\ file = Fresh
    /\ pc = [a \in Actors |-> "idle"]
    /\ mem = [a \in Actors |-> Fresh]
    /\ drive = [a \in Actors |-> NoDrive]
    /\ owner = [i \in Ids |-> None]
    /\ attempted = {}
    /\ worked = {}
    /\ times = 0
    /\ disturbed = 0
    /\ calls = 0
    /\ faults = 0

Goto(a, step, m, d) ==
    /\ pc' = [pc EXCEPT ![a] = step]
    /\ mem' = [mem EXCEPT ![a] = m]
    /\ drive' = [drive EXCEPT ![a] = d]

Leave(a) == Goto(a, "idle", Fresh, NoDrive)

\* KPIs that no edge looks at are left out.
Kpis == IF template.conditional = {} THEN {FALSE} ELSE BOOLEAN

\* Disturbances are counted up to MaxCount; after that many nothing is.
Counting == disturbed < MaxCount
Disturb == disturbed' = IF Counting THEN disturbed + 1 ELSE disturbed
Tally(n) == IF Counting' THEN n ELSE 0
NoWork == UNCHANGED <<attempted, worked>> /\ times' = Tally(times)

Fault == faults < MaxFaults /\ faults' = faults + 1 /\ Disturb
NoFault == UNCHANGED <<disturbed, faults>>

AllIdle == \A a \in Actors : pc[a] = "idle"

\* An operation begins: alone, or at the risk of another.
Call(a) ==
    /\ pc[a] = "idle"
    /\ calls < MaxCalls
    /\ calls' = calls + 1
    /\ \/ AllIdle /\ UNCHANGED disturbed
       \/ ~AllIdle /\ Disturb
    /\ NoWork

\* An operation on the run loads it; there must be one.
Load(a) == Call(a) /\ exists /\ UNCHANGED <<template, runVars, owner, faults>>

-----------------------------------------------------------------------------
(* The drive. *)

\* Mutant: nodes that failed are scheduled again.
ExcludedNotFailed(m) == m.completed \cup m.blocked \cup m.waiting

\* What _drive excludes.
Excluded(m) == m.completed \cup m.failed \cup m.blocked \cup m.waiting

\* Mutant: a node before that was tried is enough.
SatisfiedTried(m, n) == template.preds[n] \subseteq m.completed \cup m.failed

\* Every incoming edge comes from a completed node, and its condition holds.
Satisfied(m, n) ==
    /\ template.preds[n] \subseteq m.completed
    /\ n \in template.conditional => template.preds[n] = {} \/ m.kpi

\* ready_nodes
Ready(m) == {n \in Nodes \ Excluded(m) : Satisfied(m, n)}

\* Mutant: a campaign that waits for an approval goes on running.
SettledUnlessWaiting(m) ==
    [m EXCEPT !.state =
        IF m.completed = Nodes THEN "completed"
        ELSE IF m.failed # {} THEN "failed"
        ELSE IF m.blocked # {} THEN "blocked"
        ELSE IF m.waiting # {} THEN @
        ELSE "paused"]

\* _settle_state
Settled(m) ==
    [m EXCEPT !.state =
        IF m.state = "cancelled" THEN "cancelled"
        ELSE IF m.completed = Nodes THEN "completed"
        ELSE IF m.failed # {} THEN "failed"
        ELSE IF m.blocked # {} THEN "blocked"
        ELSE IF m.waiting # {} THEN "needs_approval"
        ELSE "paused"]

\* A pass over the nodes that are ready, or the end when none is.
Pass(a, m, left) ==
    IF left = 0 \/ Ready(m) = {}
    THEN Goto(a, "end", Settled(m), NoDrive)
    ELSE Goto(a, "node", m, [todo |-> Ready(m), left |-> left - 1, gained |-> FALSE])

\* Mutant: one pass is enough.
GoesOnNever(d) == FALSE

\* A pass that completed a node is followed by another.
GoesOn(d) == d.gained

\* _store.save: a failure is logged only.
Write(a) ==
    \/ exists' = TRUE /\ file' = mem[a] /\ NoFault
    \/ Fault /\ UNCHANGED runVars

\* After a node, and after an approval, the run is saved and the drive goes on.
Save(a) ==
    /\ pc[a] = "save"
    /\ Write(a)
    /\ IF drive[a].todo # {} THEN Goto(a, "node", mem[a], drive[a])
       ELSE IF GoesOn(drive[a]) THEN Pass(a, mem[a], drive[a].left)
       ELSE Goto(a, "end", Settled(mem[a]), NoDrive)
    /\ NoWork
    /\ UNCHANGED <<template, owner, calls, queueVars>>

\* The last save of an operation.
End(a) ==
    /\ pc[a] = "end"
    /\ Write(a)
    /\ Leave(a)
    /\ NoWork
    /\ UNCHANGED <<template, owner, calls, queueVars>>

\* The process dies.
Crash(a) ==
    /\ pc[a] # "idle"
    /\ Fault
    /\ Leave(a)
    /\ NoWork
    /\ UNCHANGED <<template, runVars, owner, calls, queueVars>>

-----------------------------------------------------------------------------
(* NodeExecutor.execute. *)

\* The next node of the pass, in declaration order.
IsNext(a, n) == n \in drive[a].todo /\ \A k \in drive[a].todo : n <= k

\* Mutant: a node that did not complete stays in the pass.
DoneIfGained(a, n, m, gained) ==
    Goto(a, "save", m, [drive[a] EXCEPT !.todo = IF gained THEN @ \ {n} ELSE @, !.gained = @ \/ gained])

\* The node is done with for this pass.
Done(a, n, m, gained) ==
    Goto(a, "save", m, [drive[a] EXCEPT !.todo = @ \ {n}, !.gained = @ \/ gained])

\* _reject_unsafe
RejectUnsafe(a, n) ==
    /\ n \in template.unsafe
    /\ Done(a, n, [mem[a] EXCEPT !.blocked = @ \cup {n}], FALSE)
    /\ UNCHANGED <<owner, historyVars, queueVars>>

\* ensure and _pause_for_approval: a request is made when the step has none (it
\* may come back without an id), and the node waits unless it is approved.
Pause(a, n) ==
    LET i == mem[a].request[n] IN
    /\ n \in template.gated \ template.unsafe
    /\ \/ /\ i = None
          /\ \E j \in Ids :
                /\ Submit(j)
                /\ owner' = [owner EXCEPT ![j] = n]
                /\ Done(a, n, [mem[a] EXCEPT !.request[n] = j, !.waiting = @ \cup {n}], FALSE)
       \/ /\ Done(a, n, [mem[a] EXCEPT !.waiting = @ \cup {n}], FALSE)
          /\ UNCHANGED <<owner, queueVars>>
    /\ UNCHANGED historyVars

\* Mutant: having a request is enough.
IsSatisfiedPending(i) ==
    /\ i # None
    /\ granted' = granted \cup {i}
    /\ UNCHANGED <<submitted, verdicts, lapsed>>

\* is_currently_approved says yes to the step's own request.
IsSatisfied(i) == i # None /\ Grant(i)

\* _run_dispatch and _finish_failure
Failed(m, n) ==
    [m EXCEPT !.waiting = @ \ {n}, !.blocked = @ \ {n}, !.failed = @ \cup {n}]

\* Mutant: a result that says nothing of the KPIs clears them.
CompletedWithoutKpis(m, n, kpi) ==
    [m EXCEPT !.waiting = @ \ {n}, !.blocked = @ \ {n}, !.failed = @ \ {n},
              !.completed = @ \cup {n}, !.kpi = None]

\* _run_dispatch and _finish_success, with what the result makes of the KPIs.
Completed(m, n, kpi) ==
    [m EXCEPT !.waiting = @ \ {n}, !.blocked = @ \ {n}, !.failed = @ \ {n},
              !.completed = @ \cup {n}, !.kpi = kpi]

\* The node is dispatched, with its retries; it may do its work and yet fail.
Dispatch(a, n) ==
    /\ n \notin template.unsafe
    /\ \/ n \in template.gated /\ IsSatisfied(mem[a].request[n])
       \/ n \notin template.gated /\ UNCHANGED queueVars
    /\ attempted' = attempted \cup {n}
    /\ times' = Tally(IF n = Watched THEN times + 1 ELSE times)
    /\ \/ /\ \E kpi \in Kpis : Done(a, n, Completed(mem[a], n, kpi), TRUE)
          /\ worked' = worked \cup {n}
       \/ Done(a, n, Failed(mem[a], n), FALSE) /\ UNCHANGED worked
    /\ UNCHANGED owner

Execute(a) ==
    /\ pc[a] = "node"
    /\ UNCHANGED <<template, runVars, disturbed, calls, faults>>
    /\ \E n \in Nodes :
          IsNext(a, n) /\ (RejectUnsafe(a, n) \/ Pause(a, n) \/ Dispatch(a, n))

-----------------------------------------------------------------------------
(* Lifecycle operations. *)

\* create_campaign does not look for a run that is there already.
CreateCampaign(a) ==
    /\ pc[a] = "idle"
    /\ calls < MaxCalls
    /\ calls' = calls + 1
    /\ exists' = TRUE
    /\ file' = Fresh
    /\ \/ ~exists /\ UNCHANGED disturbed
       \/ exists /\ Disturb
    /\ NoWork
    /\ UNCHANGED <<template, driveVars, owner, faults, queueVars>>

Running(m) == [m EXCEPT !.state = "running"]

Start(a) ==
    /\ Load(a)
    /\ file.state \notin {"completed", "cancelled"}
    /\ Pass(a, Running(file), Total + 1)
    /\ UNCHANGED queueVars

\* advance: the gates that are satisfied by now are cleared first.
Advance(a) ==
    /\ Load(a)
    /\ file.state \in {"running", "ready", "paused", "needs_approval"}
    /\ \E cleared \in SUBSET file.waiting :
          /\ \A n \in cleared : LET i == file.request[n] IN i # None /\ "approved" \in verdicts[i]
          /\ granted' = granted \cup {file.request[n] : n \in cleared}
          /\ Pass(a, [Running(file) EXCEPT !.waiting = @ \ cleared], Total + 1)
    /\ UNCHANGED <<submitted, verdicts, lapsed>>

\* approve_node, of any request and any node the operator names: the verdict
\* clears the node's gate and the campaign is driven on, or blocks the node.
ApproveNode(a, i, n) ==
    /\ Load(a)
    /\ \/ /\ Decide(i, "approved")
          /\ Goto(a, "save", [Running(file) EXCEPT !.waiting = @ \ {n}],
                  [todo |-> {}, left |-> Total + 1, gained |-> TRUE])
       \/ /\ Decide(i, "rejected")
          /\ Goto(a, "end",
                  Settled([file EXCEPT !.waiting = @ \ {n}, !.blocked = @ \cup {n}]), NoDrive)

Cancel(a) ==
    /\ Load(a)
    /\ Goto(a, "end", [file EXCEPT !.state = "cancelled"], NoDrive)
    /\ UNCHANGED queueVars

\* ingest_kpi, and generate_report, which leaves the KPIs alone.
IngestKpi(a) ==
    /\ Load(a)
    /\ \E kpi \in Kpis : Goto(a, "end", [file EXCEPT !.kpi = kpi], NoDrive)
    /\ UNCHANGED queueVars

\* An operator decides in the queue itself, or a deadline passes.
Queue ==
    /\ \E i \in Ids :
          \/ Lapse(i) /\ UNCHANGED calls
          \/ calls < MaxCalls /\ calls' = calls + 1 /\ \E v \in Verdict : Decide(i, v)
    /\ UNCHANGED <<template, runVars, driveVars, owner, historyVars, disturbed, faults>>

-----------------------------------------------------------------------------
GoOn(a) == Execute(a) \/ Save(a) \/ End(a)

Next ==
    \/ Queue
    \/ \E a \in Actors :
          \/ CreateCampaign(a) \/ Start(a) \/ Advance(a) \/ Cancel(a) \/ IngestKpi(a)
          \/ \E i \in Ids, n \in Nodes : ApproveNode(a, i, n)
          \/ GoOn(a) \/ Crash(a)

Spec == Init /\ [][Next]_vars

\* An operation that is under way goes on.
FairSpec == Spec /\ \A a \in Actors : WF_vars(GoOn(a))

-----------------------------------------------------------------------------
(* Properties. *)

\* The types of the variables.
TypeOK ==
    /\ template \in Templates
    /\ exists \in BOOLEAN
    /\ file \in Run
    /\ pc \in [Actors -> Steps]
    /\ mem \in [Actors -> Run]
    /\ drive \in [Actors -> Drive]
    /\ owner \in [Ids -> Nodes \cup {None}]
    /\ attempted \subseteq Nodes /\ worked \subseteq Nodes
    /\ times \in Nat
    /\ disturbed \in 0..MaxCount
    /\ calls \in 0..MaxCalls
    /\ faults \in 0..MaxFaults
    /\ submitted \subseteq Ids /\ lapsed \subseteq Ids /\ granted \subseteq Ids
    /\ verdicts \in [Ids -> SUBSET Verdict]

\* A gated node is dispatched only after an operator approved a request made for
\* that very node, and an unsafe one never, whichever request is approved for
\* whichever node, however operations overlap, are lost or are repeated ("high-risk
\* actions must never auto-run", NodeExecutor.execute).
GatesHold ==
    \A n \in attempted :
        /\ n \notin template.unsafe
        /\ n \in template.gated => \E i \in granted : owner[i] = n /\ "approved" \in verdicts[i]

\* A node is dispatched only after every node before it was answered, and a
\* campaign that is recorded as completed had every node answered, whatever runs
\* overwrite each other (_drive, _settle_state).
InOrder ==
    /\ \A n \in attempted : template.preds[n] \subseteq worked
    /\ file.state = "completed" => worked = Nodes

\* Every repeated dispatch of a node is paid for: by a fault, by creating the
\* campaign again, or by an operation begun while another was under way.  In
\* between it may be started, advanced and approved as often as anyone likes, and
\* a node that failed is not tried again (_drive).
DispatchesPaid == Counting => times <= 1 + disturbed

\* As long as there was none of that, a campaign at rest has nothing left to do but
\* what new KPIs allow (_drive: "each pass either completes >=1 node or converges").
NothingLeft ==
    (/\ disturbed = 0
     /\ AllIdle
     /\ file.state \in {"paused", "needs_approval", "blocked", "failed"})
    => Ready(file) \subseteq template.conditional

\* Steps to the end of a pass: each node is executed and saved.
Rank(a) == 2 * Cardinality(drive[a].todo) + IF pc[a] = "save" THEN 1 ELSE 0

\* The step of an actor that is driving ends the drive, or brings the end of the
\* pass nearer, or begins the next of the passes left.
Nearer(a) ==
    \/ pc'[a] = "idle"
    \/ pc[a] # "end" /\ pc'[a] = "end"
    \/ /\ pc[a] \in {"node", "save"} /\ pc'[a] \in {"node", "save"}
       /\ \/ drive'[a].left < drive[a].left
          \/ drive'[a].left = drive[a].left /\ Rank(a)' < Rank(a)

\* An operation that was begun gets nearer its end with every step, whatever the
\* others do to the run meanwhile (_drive).
DriveShrinks ==
    [][\A a \in Actors :
        pc[a] # "idle" => Nearer(a) \/ UNCHANGED <<pc[a], mem[a], drive[a]>>]_vars

\* A campaign that is running comes to rest, unless something fails or
\* operations overlap (_settle_state).
ComesToRest == file.state = "running" ~> (file.state # "running" \/ disturbed > 0)

=============================================================================

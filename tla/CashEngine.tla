----------------------------- MODULE CashEngine -----------------------------
(***************************************************************************)
(* The cash engine's walk of one deal: the front door                      *)
(* (backend/cash_engine/service.py, gate.py, queue.py), process_job,       *)
(* reengage and halt of backend/cash_engine/worker.py over the deal's      *)
(* state file (backend/cash_engine/state.py), the stages                   *)
(* (backend/cash_engine/stages.py), and the signals of                     *)
(* backend/feedback/handlers.py.                                           *)
(*                                                                         *)
(* Jobs stay in the queue's file, so that every drain takes up every job   *)
(* again; drains, queue consumers and signals run in several processes.    *)
(* Each of them loads the state file, works on its copy, and saves the     *)
(* whole copy.                                                             *)
(***************************************************************************)
EXTENDS Naturals, FiniteSets

CONSTANTS
    Actors,     \* the drains, queue consumers and signal handlers under way
    Watched,    \* the stage whose runs are counted
    MaxCount,   \* bound: disturbances counted
    MaxFaults   \* bound: failing loads and saves, exceptions and crashes

\* STAGE_SEQUENCE: audit, proposal, contact, outreach, deliver.
Stages == 1..5
Audit == 1
Contact == 3
Outreach == 4
Deliver == 5
\* The stage of a deal at rest.
Resting == 0

ASSUME CashAssumption ==
    /\ IsFiniteSet(Actors)
    /\ Watched \in Stages
    /\ MaxCount \in Nat \ {0}
    /\ MaxFaults \in Nat

Statuses == {"running", "parked", "escalated", "dormant", "halted"}

\* CashEngineState; stage is the one to run next, or last run.
State == [status : Statuses, stage : Stages \cup {Resting}, completed : SUBSET Stages]
Fresh == [status |-> "running", stage |-> Audit, completed |-> {}]

VARIABLES
    stake,    \* the CRM: the Opportunity has a Stake Sentence
    won,      \* the CRM: the Opportunity is closed_won
    queued,   \* there is a job for the deal in the queue
    exists,   \* there is a state file
    file,     \* what it holds
    pc,       \* per actor: where it is
    mem,      \* per actor: its copy of the state
    sawWon,   \* per actor: the Opportunity it read was won
    worked,   \* history: the stages that did their work
    times,    \* history: how often the watched one did
    drafts,   \* history: voicemails drafted since the deal came to rest
    disturbed,\* history: faults, and loads while another actor was at work
    faults

crmVars == <<stake, won, queued>>
fileVars == <<exists, file>>
historyVars == <<worked, times, drafts>>
vars == <<crmVars, fileVars, pc, mem, sawWon, historyVars, disturbed, faults>>

Steps == {"idle", "walk", "save", "end", "reengage"}

Init ==
    /\ stake = FALSE
    /\ won = FALSE
    /\ queued = FALSE
    /\ exists = FALSE
    /\ file = Fresh
    /\ pc = [a \in Actors |-> "idle"]
    /\ mem = [a \in Actors |-> Fresh]
    /\ sawWon = [a \in Actors |-> FALSE]
    /\ worked = {}
    /\ times = 0
    /\ drafts = 0
    /\ disturbed = 0
    /\ faults = 0

\* The actor goes on with this copy of the state.
Goto(a, step, m) ==
    /\ pc' = [pc EXCEPT ![a] = step]
    /\ mem' = [mem EXCEPT ![a] = m]
    /\ UNCHANGED sawWon

Leave(a) ==
    /\ pc' = [pc EXCEPT ![a] = "idle"]
    /\ mem' = [mem EXCEPT ![a] = Fresh]
    /\ sawWon' = [sawWon EXCEPT ![a] = FALSE]

\* Disturbances are counted up to MaxCount; after that many nothing is.
Counting == disturbed < MaxCount
Disturb == disturbed' = IF Counting THEN disturbed + 1 ELSE disturbed
Tally(n) == IF Counting' THEN n ELSE 0
NoWork == UNCHANGED worked /\ times' = Tally(times) /\ drafts' = Tally(drafts)

Fault == faults < MaxFaults /\ faults' = faults + 1 /\ Disturb
NoFault == UNCHANGED <<disturbed, faults>>

\* The state is loaded: by the only actor at work, or else at the others' risk.
Alone(a) == \A b \in Actors : b = a \/ pc[b] = "idle"
Overlap(a) ==
    /\ \/ Alone(a) /\ UNCHANGED disturbed
       \/ ~Alone(a) /\ Disturb
    /\ UNCHANGED faults

-----------------------------------------------------------------------------
(* The CRM and the front door. *)

\* The operator signs the deal's Stake Sentence, or clears it.
SetStake ==
    /\ stake' = ~stake
    /\ UNCHANGED <<won, queued, fileVars, pc, mem, sawWon, historyVars, disturbed, faults>>

Win ==
    /\ won' = TRUE
    /\ UNCHANGED <<stake, queued, fileVars, pc, mem, sawWon, historyVars, disturbed, faults>>

\* review_opportunity: only a staked deal passes the gate, and a clean pass
\* enqueues a job.
Review ==
    /\ stake
    /\ queued' = TRUE
    /\ UNCHANGED <<stake, won, fileVars, pc, mem, sawWon, historyVars, disturbed, faults>>

-----------------------------------------------------------------------------
(* process_job. *)

\* Mutant: only a deal that is running is gone on with.
LoadedIfRunning == IF exists /\ file.status = "running" THEN file ELSE Fresh

\* What process_job goes on from: the file, or a new state.
Loaded == IF exists THEN file ELSE Fresh

\* if state.status in (DORMANT, "done")
Walked(m) == m.status = "dormant"

\* The state the actor starts from, and where it goes from there.
Begin(a, m) ==
    \/ /\ ~stake
       /\ Goto(a, "end", [m EXCEPT !.status = "escalated"])
    \/ /\ stake /\ Walked(m)
       /\ Leave(a)
    \/ /\ stake /\ ~Walked(m)
       /\ pc' = [pc EXCEPT ![a] = IF exists /\ m = file THEN "walk" ELSE "save"]
       /\ mem' = [mem EXCEPT ![a] = m]
       /\ sawWon' = [sawWon EXCEPT ![a] = won]

\* A drain, or a consumer of the queue, takes up the job and reads the deal and
\* its state: without a stake the deal is escalated, a new state is saved at
\* once, a resting deal is left alone, and any other is walked on.  A file that
\* cannot be read looks absent.
Take(a) ==
    /\ queued
    /\ pc[a] = "idle"
    /\ \/ Begin(a, Loaded) /\ Overlap(a)
       \/ exists /\ file # Fresh /\ Begin(a, Fresh) /\ Fault
    /\ NoWork
    /\ UNCHANGED <<crmVars, fileVars>>

\* The stages still ahead: from the present one on, without the complete ones.
Ahead(m) == {s \in Stages \ m.completed : m.stage = Resting \/ s >= m.stage}

IsNext(m, s) == s \in Ahead(m) /\ \A r \in Ahead(m) : s <= r

\* Mutant: a stage counts as complete before its result is looked at.
HoldingCompleted(m, s, status) ==
    [m EXCEPT !.stage = s, !.status = status, !.completed = @ \cup {s}]

\* The state of a deal that escalates or parks at a stage.
Holding(m, s, status) == [m EXCEPT !.stage = s, !.status = status]

\* Mutant: the stage to run next is the one after, also after the last.
CompletedAdvanced(m, s) == [m EXCEPT !.stage = s + 1, !.completed = @ \cup {s}]

\* Mutant: the stage is run next, but not recorded.
CompletedUnrecorded(m, s) == [m EXCEPT !.stage = s]

\* The state of a deal whose stage did its work.
Completed(m, s) == [m EXCEPT !.stage = s, !.completed = @ \cup {s}]

\* Every stage but outreach passes a Codex gate before it does anything.
CanBlock(s) == s # Outreach
\* No website, no prospect, no outreach ring left, not won or no builder.
CanPark(s) == s \in {Audit, Contact, Outreach, Deliver}
MustPark(a, s) == s = Deliver /\ ~sawWon[a]

\* The handler of the next stage is blocked, parks, or does its work: it leaves
\* artifacts, advances the Opportunity, sends the outreach, opens the order.
RunStage(a, s) ==
    /\ pc[a] = "walk"
    /\ IsNext(mem[a], s)
    /\ UNCHANGED <<crmVars, fileVars, disturbed, faults>>
    /\ \/ /\ CanBlock(s) /\ ~MustPark(a, s)
          /\ Goto(a, "end", Holding(mem[a], s, "escalated"))
          /\ UNCHANGED historyVars
       \/ /\ CanPark(s)
          /\ Goto(a, "end", Holding(mem[a], s, "parked"))
          /\ UNCHANGED historyVars
       \/ /\ ~MustPark(a, s)
          /\ Goto(a, "save", Completed(mem[a], s))
          /\ worked' = worked \cup {s}
          /\ times' = Tally(IF s = Watched THEN times + 1 ELSE times)
          /\ UNCHANGED drafts

\* Mutant: a completed walk does not come to rest.
AtRestRunning(m) == [m EXCEPT !.stage = Resting]

AtRest(m) == [m EXCEPT !.status = "dormant", !.stage = Resting]

\* Every stage is complete: the deal rests until a signal.
Rest(a) ==
    /\ pc[a] = "walk"
    /\ Ahead(mem[a]) = {}
    /\ Goto(a, "end", AtRest(mem[a]))
    /\ drafts' = 0
    /\ UNCHANGED <<crmVars, fileVars, worked, times, disturbed, faults>>

\* save_state replaces the file by the actor's copy; a failure is logged only.
Write(a) ==
    \/ exists' = TRUE /\ file' = mem[a] /\ NoFault
    \/ Fault /\ UNCHANGED fileVars

Save(a) ==
    /\ \/ pc[a] = "save" /\ Goto(a, "walk", mem[a])
       \/ pc[a] = "end" /\ Leave(a)
    /\ Write(a)
    /\ NoWork
    /\ UNCHANGED crmVars

\* The process dies or a call of the stage raises, before or after its effect.
Crash(a) ==
    /\ pc[a] # "idle"
    /\ Fault
    /\ Leave(a)
    /\ NoWork
    /\ UNCHANGED <<crmVars, fileVars>>

-----------------------------------------------------------------------------
(* fire_cash_engine_signal: halt and reengage. *)

\* halt refuses when there is no state.
Halt(a) ==
    /\ pc[a] = "idle"
    /\ exists
    /\ Goto(a, "end", [file EXCEPT !.status = "halted"])
    /\ Overlap(a)
    /\ NoWork
    /\ UNCHANGED <<crmVars, fileVars>>

\* So does reengage, and when the deal is not at rest.
Signal(a) ==
    /\ pc[a] = "idle"
    /\ exists
    /\ file.status = "dormant"
    /\ Goto(a, "reengage", file)
    /\ Overlap(a)
    /\ NoWork
    /\ UNCHANGED <<crmVars, fileVars>>

\* Mutant: the deal is left at rest.
ReopenedNot(m) == m

\* state.status = "running"
Reopened(m) == [m EXCEPT !.status = "running"]

\* The script is gated, then drafted as an artifact; the Opportunity or the
\* prospect may be missing.  A refusal saves what was loaded, or nothing.
Reengage(a) ==
    /\ pc[a] = "reengage"
    /\ UNCHANGED <<crmVars, fileVars, worked, times, disturbed, faults>>
    /\ \/ /\ drafts' = Tally(drafts + 1)
          /\ Goto(a, "end", Reopened(mem[a]))
       \/ Goto(a, "end", mem[a]) /\ UNCHANGED drafts
       \/ Leave(a) /\ UNCHANGED drafts

-----------------------------------------------------------------------------
GoOn(a) ==
    \/ Rest(a) \/ Save(a) \/ Reengage(a)
    \/ \E s \in Stages : RunStage(a, s)

Next ==
    \/ SetStake \/ Win \/ Review
    \/ \E a \in Actors : Take(a) \/ Halt(a) \/ Signal(a) \/ GoOn(a) \/ Crash(a)

Spec == Init /\ [][Next]_vars

\* The queue is drained again and again, and what is begun goes on.
Fairness ==
    \A a \in Actors : WF_vars(Take(a)) /\ WF_vars(GoOn(a))

FairSpec == Spec /\ Fairness

-----------------------------------------------------------------------------
(* Properties. *)

\* The types of the variables.
TypeOK ==
    /\ stake \in BOOLEAN /\ won \in BOOLEAN /\ queued \in BOOLEAN
    /\ exists \in BOOLEAN
    /\ file \in State
    /\ pc \in [Actors -> Steps]
    /\ mem \in [Actors -> State]
    /\ sawWon \in [Actors -> BOOLEAN]
    /\ worked \subseteq Stages
    /\ times \in Nat /\ drafts \in Nat
    /\ disturbed \in 0..MaxCount
    /\ faults \in 0..MaxFaults

\* No stage is worked before every earlier one was, and nothing is recorded as
\* complete that was not worked, whatever walks overlap, crash, lose their
\* saves or overwrite each other's (process_job).
StageOrder ==
    /\ \A s \in worked : 1..(s - 1) \subseteq worked
    /\ file.completed \subseteq worked

\* Every repetition of a stage's work is paid for: by a fault, or by an actor
\* that took up the deal while another was at work on it.  In between a job may
\* be taken up again, park, escalate, be halted or re-engaged as often as it
\* likes ("a redelivered job skips stages already recorded as complete").
RepeatsPaid == Counting => times <= 1 + disturbed

\* So is every voicemail that a storm of signals drafts between two rests of the
\* deal, beyond the first (reengage).
DraftsPaid == Counting => drafts <= 1 + disturbed

\* What an actor has still to do: a stage is two steps, its work and its save.
Rank(a) ==
    LET ahead == Cardinality(Stages \ mem[a].completed) IN
    CASE pc[a] = "walk" -> 2 * ahead + 2
      [] pc[a] = "save" -> 2 * ahead + 3
      [] pc[a] = "reengage" -> 2
      [] pc[a] = "end" -> 1
      [] OTHER -> 0

\* A walk that was begun gets nearer its end with every step, whatever the other
\* actors do to the file meanwhile: nothing is tried again within it (process_job).
WalkShrinks ==
    [][\A a \in Actors : pc[a] # "idle" => Rank(a)' < Rank(a) \/ UNCHANGED <<pc[a], mem[a]>>]_vars

\* A deal that is running is not left running for ever (process_job, reengage).
ComesToHold == file.status = "running" /\ exists ~> file.status # "running"

=============================================================================

-------------------------- MODULE CashEngineProofs --------------------------
(***************************************************************************)
(* What the walk of a deal guarantees for any number of drains, consumers, *)
(* signals and faults.                                                     *)
(***************************************************************************)
EXTENDS CashEngine, FiniteSetTheorems, TLAPS

-----------------------------------------------------------------------------
(***************************************************************************)
(* Type correctness, with what holds of every copy of the state: no copy   *)
(* is ahead of the work that was done, and none has a stage behind it that *)
(* is not complete.                                                        *)
(***************************************************************************)

Sound(m) ==
    /\ m.completed \subseteq worked
    /\ \A r \in Stages : r < m.stage => r \in m.completed

Typed ==
    /\ TypeOK
    /\ Sound(file)
    /\ \A a \in Actors : Sound(mem[a])
    /\ \A s \in worked : 1..(s - 1) \subseteq worked

LEMMA FreshState == Fresh \in State /\ Sound(Fresh)
BY DEF Fresh, State, Statuses, Stages, Audit, Sound

LEMMA FaultStep ==
  ASSUME TypeOK, Fault
  PROVE  /\ faults' \in 0..MaxFaults /\ disturbed' \in 0..MaxCount
         /\ Counting' => disturbed' = disturbed + 1
BY CashAssumption DEF Fault, Disturb, Counting, TypeOK

\* A load is a disturbance unless the actor is alone.
LEMMA OverlapStep ==
  ASSUME TypeOK, NEW a \in Actors, Overlap(a)
  PROVE  /\ faults' \in 0..MaxFaults /\ disturbed' \in 0..MaxCount
         /\ Counting' => disturbed' = disturbed + 1 \/ (Alone(a) /\ disturbed' = disturbed)
<1>1. CASE Alone(a) /\ UNCHANGED disturbed /\ UNCHANGED faults
  BY <1>1 DEF TypeOK
<1>2. CASE Disturb /\ UNCHANGED faults
  BY <1>2, CashAssumption DEF Disturb, Counting, TypeOK
<1> QED BY <1>1, <1>2 DEF Overlap

\* A step that works nothing keeps the counts, as long as there is counting.
LEMMA NoWorkStep ==
  ASSUME TypeOK, NoWork
  PROVE  /\ worked' = worked /\ times' \in Nat /\ drafts' \in Nat
         /\ Counting' => times' = times /\ drafts' = drafts
BY DEF NoWork, Tally, TypeOK

\* When a copy's next stage comes, all that goes before it is complete.
LEMMA BeforeNext ==
  ASSUME NEW m \in State, Sound(m), NEW s \in Stages, IsNext(m, s)
  PROVE  /\ s \notin m.completed
         /\ \A r \in Stages : r < s => r \in m.completed
<1>1. s \notin m.completed
  BY DEF IsNext, Ahead
<1>2. ASSUME NEW r \in Stages, r < s, r \notin m.completed
      PROVE  FALSE
  <2>1. m.stage \in Stages \cup {Resting} /\ ~(r < m.stage)
    BY <1>2 DEF Sound, State
  <2>2. r \in Ahead(m)
    BY <1>2, <2>1 DEF Ahead, Stages, Resting
  <2> QED BY <1>2, <2>2 DEF IsNext, Stages
<1> QED BY <1>1, <1>2

\* The copies an actor makes.
LEMMA HoldingCopy ==
  ASSUME NEW m \in State, NEW s \in Stages, NEW status \in Statuses
  PROVE  /\ Holding(m, s, status) \in State
         /\ Holding(m, s, status).stage = s
         /\ Holding(m, s, status).completed = m.completed
         /\ Holding(m, s, status).status = status
BY DEF Holding, State

LEMMA CompletedCopy ==
  ASSUME NEW m \in State, NEW s \in Stages
  PROVE  /\ Completed(m, s) \in State
         /\ Completed(m, s).stage = s
         /\ Completed(m, s).completed = m.completed \cup {s}
         /\ Completed(m, s).status = m.status
BY DEF Completed, State

LEMMA RestCopy ==
  ASSUME NEW m \in State
  PROVE  /\ AtRest(m) \in State
         /\ AtRest(m).stage = 0
         /\ AtRest(m).completed = m.completed
         /\ AtRest(m).status = "dormant"
BY DEF AtRest, State, Statuses, Resting

LEMMA StatusCopy ==
  ASSUME NEW m \in State, NEW status \in Statuses, NEW k, k = [m EXCEPT !.status = status]
  PROVE  /\ k \in State /\ k.stage = m.stage
         /\ k.completed = m.completed /\ k.status = status
BY DEF State

LEMMA StatusNames ==
  {"running", "parked", "escalated", "dormant", "halted"} \subseteq Statuses
BY DEF Statuses

\* An actor goes on with a copy, or leaves.
LEMMA Moved ==
  ASSUME TypeOK, NEW a \in Actors, NEW step \in Steps, NEW m \in State,
         Goto(a, step, m)
  PROVE  /\ pc' \in [Actors -> Steps] /\ mem' \in [Actors -> State]
         /\ sawWon' \in [Actors -> BOOLEAN]
         /\ pc'[a] = step /\ mem'[a] = m
         /\ \A b \in Actors : b # a => pc'[b] = pc[b] /\ mem'[b] = mem[b]
BY DEF TypeOK, Goto

LEMMA Left ==
  ASSUME TypeOK, NEW a \in Actors, Leave(a)
  PROVE  /\ pc' \in [Actors -> Steps] /\ mem' \in [Actors -> State]
         /\ sawWon' \in [Actors -> BOOLEAN]
         /\ pc'[a] = "idle" /\ mem'[a] = Fresh
         /\ \A b \in Actors : b # a => pc'[b] = pc[b] /\ mem'[b] = mem[b]
BY FreshState DEF TypeOK, Leave, Steps

\* What begins a walk leaves the copy's stages alone.
LEMMA Begun ==
  ASSUME TypeOK, NEW a \in Actors, NEW m \in State, Begin(a, m)
  PROVE  \E step \in {"end", "idle", "walk", "save"}, k \in State :
            /\ pc' \in [Actors -> Steps] /\ mem' \in [Actors -> State]
            /\ sawWon' \in [Actors -> BOOLEAN]
            /\ pc'[a] = step /\ mem'[a] = k
            /\ \A b \in Actors : b # a => pc'[b] = pc[b] /\ mem'[b] = mem[b]
            /\ \/ step = "idle" /\ k = Fresh
               \/ /\ step # "idle" /\ k.stage = m.stage /\ k.completed = m.completed
                  /\ k.status # "dormant"
<1>1. CASE ~stake /\ Goto(a, "end", [m EXCEPT !.status = "escalated"])
  <2> DEFINE k == [m EXCEPT !.status = "escalated"]
  <2>1. k \in State /\ k.stage = m.stage /\ k.completed = m.completed /\ k.status = "escalated"
    BY StatusCopy, StatusNames
  <2> HIDE DEF k
  <2>2. Goto(a, "end", k)
    BY <1>1 DEF k
  <2> QED BY <2>1, <2>2, Moved DEF Steps
<1>2. CASE stake /\ Walked(m) /\ Leave(a)
  BY <1>2, Left, FreshState
<1>3. CASE /\ stake /\ ~Walked(m)
           /\ pc' = [pc EXCEPT ![a] = IF exists /\ m = file THEN "walk" ELSE "save"]
           /\ mem' = [mem EXCEPT ![a] = m]
           /\ sawWon' = [sawWon EXCEPT ![a] = won]
  BY <1>3 DEF Walked, TypeOK, Steps
<1> QED BY <1>1, <1>2, <1>3 DEF Begin

LEMMA TakeMoves ==
  ASSUME TypeOK, NEW a \in Actors, Take(a)
  PROVE  \E m \in {Loaded, Fresh}, step \in {"end", "idle", "walk", "save"}, k \in State :
            /\ m \in State
            /\ pc' \in [Actors -> Steps] /\ mem' \in [Actors -> State]
            /\ sawWon' \in [Actors -> BOOLEAN]
            /\ disturbed' \in 0..MaxCount /\ faults' \in 0..MaxFaults
            /\ Counting' => \/ disturbed' = disturbed + 1
                            \/ Alone(a) /\ m = Loaded /\ disturbed' = disturbed
            /\ pc'[a] = step /\ mem'[a] = k
            /\ \A b \in Actors : b # a => pc'[b] = pc[b] /\ mem'[b] = mem[b]
            /\ \/ step = "idle" /\ k = Fresh
               \/ /\ step # "idle" /\ k.stage = m.stage /\ k.completed = m.completed
                  /\ k.status # "dormant"
<1>0. Loaded \in State /\ Fresh \in State
  BY FreshState DEF Loaded, TypeOK
<1>1. CASE Begin(a, Loaded) /\ Overlap(a)
  BY <1>0, <1>1, Begun, OverlapStep
<1>2. CASE Begin(a, Fresh) /\ Fault
  BY <1>0, <1>2, Begun, FaultStep
<1> QED BY <1>1, <1>2 DEF Take

\* A save replaces the file, or fails, which is a disturbance.
LEMMA Written ==
  ASSUME TypeOK, NEW a \in Actors, Write(a)
  PROVE  /\ exists' \in BOOLEAN /\ file' \in {file, mem[a]} /\ file' \in State
         /\ disturbed' \in 0..MaxCount /\ faults' \in 0..MaxFaults
         /\ exists' \/ (exists' = exists /\ file' = file)
         /\ Counting' => disturbed' = disturbed + 1 \/ (file' = mem[a] /\ disturbed' = disturbed)
<1>1. CASE exists' = TRUE /\ file' = mem[a] /\ NoFault
  BY <1>1 DEF NoFault, TypeOK
<1>2. CASE Fault /\ UNCHANGED fileVars
  <2>1. exists' = exists /\ file' = file
    BY <1>2 DEF fileVars
  <2> QED BY <1>2, <2>1, FaultStep DEF TypeOK
<1> QED BY <1>1, <1>2 DEF Write

LEMMA SaveMoves ==
  ASSUME TypeOK, NEW a \in Actors, Save(a)
  PROVE  /\ pc' \in [Actors -> Steps] /\ mem' \in [Actors -> State]
         /\ sawWon' \in [Actors -> BOOLEAN]
         /\ pc[a] # "idle"
         /\ \A b \in Actors : b # a => pc'[b] = pc[b] /\ mem'[b] = mem[b]
         /\ \/ pc[a] = "save" /\ pc'[a] = "walk" /\ mem'[a] = mem[a]
            \/ pc[a] = "end" /\ pc'[a] = "idle" /\ mem'[a] = Fresh
<1>1. CASE pc[a] = "save" /\ Goto(a, "walk", mem[a])
  BY <1>1 DEF Goto, TypeOK, Steps
<1>2. CASE pc[a] = "end" /\ Leave(a)
  BY <1>2, Left
<1> QED BY <1>1, <1>2 DEF Save

\* The handler of a stage holds the deal there, or does its work.
LEMMA StageMoves ==
  ASSUME TypeOK, NEW a \in Actors, NEW s \in Stages, RunStage(a, s)
  PROVE  /\ pc' \in [Actors -> Steps] /\ mem' \in [Actors -> State]
         /\ sawWon' \in [Actors -> BOOLEAN]
         /\ pc[a] = "walk" /\ IsNext(mem[a], s)
         /\ \A b \in Actors : b # a => pc'[b] = pc[b] /\ mem'[b] = mem[b]
         /\ mem'[a].stage = s
         /\ UNCHANGED <<crmVars, fileVars, disturbed, faults, drafts>>
         /\ \/ /\ pc'[a] = "end" /\ mem'[a].completed = mem[a].completed
               /\ mem'[a].status \in {"escalated", "parked"}
               /\ worked' = worked /\ times' = times
            \/ /\ pc'[a] = "save" /\ mem'[a].completed = mem[a].completed \cup {s}
               /\ mem'[a].status = mem[a].status
               /\ worked' = worked \cup {s}
               /\ times' \in Nat
               /\ Counting' => times' = IF s = Watched THEN times + 1 ELSE times
<1>0. mem[a] \in State
  BY DEF TypeOK
<1>1. CASE Goto(a, "end", Holding(mem[a], s, "escalated")) /\ UNCHANGED historyVars
  <2>1. /\ Holding(mem[a], s, "escalated") \in State
        /\ Holding(mem[a], s, "escalated").stage = s
        /\ Holding(mem[a], s, "escalated").completed = mem[a].completed
        /\ Holding(mem[a], s, "escalated").status = "escalated"
    BY <1>0, HoldingCopy, StatusNames
  <2> QED BY <1>1, <2>1, Moved DEF RunStage, Steps, historyVars
<1>2. CASE Goto(a, "end", Holding(mem[a], s, "parked")) /\ UNCHANGED historyVars
  <2>1. /\ Holding(mem[a], s, "parked") \in State
        /\ Holding(mem[a], s, "parked").stage = s
        /\ Holding(mem[a], s, "parked").completed = mem[a].completed
        /\ Holding(mem[a], s, "parked").status = "parked"
    BY <1>0, HoldingCopy, StatusNames
  <2> QED BY <1>2, <2>1, Moved DEF RunStage, Steps, historyVars
<1>3. CASE /\ Goto(a, "save", Completed(mem[a], s))
           /\ worked' = worked \cup {s}
           /\ times' = Tally(IF s = Watched THEN times + 1 ELSE times)
           /\ UNCHANGED drafts
  <2>1. /\ Completed(mem[a], s) \in State
        /\ Completed(mem[a], s).stage = s
        /\ Completed(mem[a], s).completed = mem[a].completed \cup {s}
        /\ Completed(mem[a], s).status = mem[a].status
    BY <1>0, CompletedCopy
  <2>2. /\ times' \in Nat
        /\ Counting' => times' = IF s = Watched THEN times + 1 ELSE times
    BY <1>3 DEF Tally, TypeOK
  <2> QED BY <1>3, <2>1, <2>2, Moved DEF RunStage, Steps
<1> QED BY <1>1, <1>2, <1>3 DEF RunStage

LEMMA RestMoves ==
  ASSUME TypeOK, NEW a \in Actors, Rest(a)
  PROVE  /\ pc' \in [Actors -> Steps] /\ mem' \in [Actors -> State]
         /\ sawWon' \in [Actors -> BOOLEAN]
         /\ pc[a] = "walk" /\ pc'[a] = "end"
         /\ mem'[a].stage = 0 /\ mem'[a].completed = mem[a].completed
         /\ mem'[a].status = "dormant"
         /\ \A b \in Actors : b # a => pc'[b] = pc[b] /\ mem'[b] = mem[b]
<1>1. /\ AtRest(mem[a]) \in State /\ AtRest(mem[a]).stage = 0
      /\ AtRest(mem[a]).status = "dormant"
      /\ AtRest(mem[a]).completed = mem[a].completed
  BY RestCopy DEF TypeOK
<1> QED BY <1>1, Moved DEF Rest, Steps

LEMMA HaltMoves ==
  ASSUME TypeOK, NEW a \in Actors, Halt(a)
  PROVE  /\ pc' \in [Actors -> Steps] /\ mem' \in [Actors -> State]
         /\ sawWon' \in [Actors -> BOOLEAN]
         /\ exists /\ pc[a] = "idle" /\ pc'[a] = "end"
         /\ mem'[a].stage = file.stage /\ mem'[a].completed = file.completed
         /\ mem'[a].status = "halted"
         /\ disturbed' \in 0..MaxCount /\ faults' \in 0..MaxFaults
         /\ Counting' => disturbed' = disturbed + 1 \/ (Alone(a) /\ disturbed' = disturbed)
         /\ \A b \in Actors : b # a => pc'[b] = pc[b] /\ mem'[b] = mem[b]
<1>1. PICK k : k = [file EXCEPT !.status = "halted"]
  OBVIOUS
<1>2. /\ k \in State /\ k.stage = file.stage
      /\ k.completed = file.completed /\ k.status = "halted"
  BY <1>1, StatusCopy, StatusNames DEF TypeOK
<1>3. Goto(a, "end", k) /\ exists /\ pc[a] = "idle"
  BY <1>1 DEF Halt
<1>4. Overlap(a)
  BY DEF Halt
<1> QED BY <1>2, <1>3, <1>4, OverlapStep, Moved DEF Steps

LEMMA SignalMoves ==
  ASSUME TypeOK, NEW a \in Actors, Signal(a)
  PROVE  /\ pc' \in [Actors -> Steps] /\ mem' \in [Actors -> State]
         /\ sawWon' \in [Actors -> BOOLEAN]
         /\ exists /\ file.status = "dormant"
         /\ pc[a] = "idle" /\ pc'[a] = "reengage" /\ mem'[a] = file
         /\ disturbed' \in 0..MaxCount /\ faults' \in 0..MaxFaults
         /\ Counting' => disturbed' = disturbed + 1 \/ (Alone(a) /\ disturbed' = disturbed)
         /\ \A b \in Actors : b # a => pc'[b] = pc[b] /\ mem'[b] = mem[b]
<1>1. file \in State
  BY DEF TypeOK
<1>2. Overlap(a)
  BY DEF Signal
<1> QED BY <1>1, <1>2, OverlapStep, Moved DEF Signal, Steps

LEMMA ReengageMoves ==
  ASSUME TypeOK, NEW a \in Actors, Reengage(a)
  PROVE  /\ pc' \in [Actors -> Steps] /\ mem' \in [Actors -> State]
         /\ sawWon' \in [Actors -> BOOLEAN]
         /\ pc[a] = "reengage"
         /\ drafts' \in Nat
         /\ \A b \in Actors : b # a => pc'[b] = pc[b] /\ mem'[b] = mem[b]
         /\ \/ /\ pc'[a] = "end" /\ mem'[a].status = "running"
               /\ mem'[a].stage = mem[a].stage /\ mem'[a].completed = mem[a].completed
               /\ Counting' => drafts' = drafts + 1
            \/ /\ pc'[a] = "end" /\ mem'[a] = mem[a]
               /\ drafts' = drafts
            \/ /\ pc'[a] = "idle" /\ mem'[a] = Fresh
               /\ drafts' = drafts
<1>0. mem[a] \in State /\ drafts \in Nat
  BY DEF TypeOK
<1>1. CASE /\ drafts' = Tally(drafts + 1)
           /\ Goto(a, "end", Reopened(mem[a]))
  <2>1. /\ Reopened(mem[a]) \in State /\ Reopened(mem[a]).status = "running"
        /\ Reopened(mem[a]).stage = mem[a].stage
        /\ Reopened(mem[a]).completed = mem[a].completed
    BY <1>0, StatusCopy, StatusNames DEF Reopened
  <2>2. drafts' \in Nat /\ (Counting' => drafts' = drafts + 1)
    BY <1>0, <1>1 DEF Tally
  <2>3. pc[a] = "reengage"
    BY DEF Reengage
  <2> QED BY <1>1, <2>1, <2>2, <2>3, Moved DEF Steps
<1>2. CASE Goto(a, "end", mem[a]) /\ UNCHANGED drafts
  BY <1>0, <1>2, Moved DEF Reengage, Steps
<1>3. CASE Leave(a) /\ UNCHANGED drafts
  BY <1>0, <1>3, Left DEF Reengage
<1> QED BY <1>1, <1>2, <1>3 DEF Reengage

-----------------------------------------------------------------------------
(* The steps preserve it. *)

\* A copy with the stages of a sound one is sound.
LEMMA SoundCopy ==
  ASSUME NEW m, NEW k, Sound(m), k.stage = m.stage, k.completed = m.completed
  PROVE  Sound(k)
BY DEF Sound

\* One actor's copy is replaced by a sound one.
LEMMA TypedMoved ==
  ASSUME Typed, TypeOK', worked' = worked, NEW a \in Actors, Sound(mem'[a]), Sound(file'),
         \A b \in Actors : b # a => mem'[b] = mem[b]
  PROVE  Typed'
<1>1. ASSUME NEW b \in Actors
      PROVE  Sound(mem[b])'
  <2>1. Sound(mem'[b])
    <3>1. CASE b = a
      BY <3>1
    <3>2. CASE b # a
      BY <3>2 DEF Typed
    <3> QED BY <3>1, <3>2
  <2> QED BY <2>1 DEF Sound
<1>2. Sound(file)'
  BY DEF Sound
<1>3. \A s \in worked' : 1..(s - 1) \subseteq worked'
  BY DEF Typed
<1> QED BY <1>1, <1>2, <1>3 DEF Typed

LEMMA TypedInit == Init => Typed
<1> SUFFICES ASSUME Init PROVE Typed
  OBVIOUS
<1>1. TypeOK
  <2>1. /\ stake \in BOOLEAN /\ won \in BOOLEAN /\ queued \in BOOLEAN /\ exists \in BOOLEAN
    BY DEF Init
  <2>2. sawWon \in [Actors -> BOOLEAN]
    BY DEF Init
  <2>3. file \in State /\ pc \in [Actors -> Steps] /\ mem \in [Actors -> State]
    BY FreshState DEF Init, Steps
  <2>4. /\ worked \subseteq Stages /\ times \in Nat /\ drafts \in Nat
        /\ disturbed \in 0..MaxCount /\ faults \in 0..MaxFaults
    BY CashAssumption DEF Init
  <2> QED BY <2>1, <2>2, <2>3, <2>4 DEF TypeOK
<1>2. file = Fresh /\ worked = {} /\ \A a \in Actors : mem[a] = Fresh
  BY DEF Init
<1> QED BY <1>1, <1>2, FreshState DEF Typed

LEMMA TypedStep == Typed /\ [Next]_vars => Typed'
<1> SUFFICES ASSUME Typed, [Next]_vars
             PROVE  Typed'
  OBVIOUS
<1>0. /\ TypeOK /\ Sound(file) /\ file \in State
      /\ \A a \in Actors : Sound(mem[a]) /\ mem[a] \in State
  BY DEF Typed, TypeOK
<1>1. CASE SetStake \/ Win \/ Review
  <2>1. UNCHANGED <<exists, file, pc, mem, sawWon, worked, times, drafts, disturbed, faults>>
    BY <1>1 DEF SetStake, Win, Review, fileVars, historyVars
  <2>2. stake' \in BOOLEAN /\ won' \in BOOLEAN /\ queued' \in BOOLEAN
    <3>1. stake \in BOOLEAN /\ won \in BOOLEAN /\ queued \in BOOLEAN
      BY DEF Typed, TypeOK
    <3> QED BY <1>1, <3>1, Zenon DEF SetStake, Win, Review
  <2> QED BY <2>1, <2>2 DEF Typed, TypeOK, Sound
<1>2. ASSUME NEW a \in Actors, Take(a)
      PROVE  Typed'
  <2>1. PICK m \in {Loaded, Fresh}, step \in {"end", "idle", "walk", "save"}, k \in State :
            /\ m \in State
            /\ pc' \in [Actors -> Steps] /\ mem' \in [Actors -> State]
            /\ sawWon' \in [Actors -> BOOLEAN]
            /\ disturbed' \in 0..MaxCount /\ faults' \in 0..MaxFaults
            /\ mem'[a] = k
            /\ \A b \in Actors : b # a => mem'[b] = mem[b]
            /\ k = Fresh \/ (k.stage = m.stage /\ k.completed = m.completed)
    BY <1>0, <1>2, TakeMoves
  <2>2. Sound(m)
    BY <1>0, <2>1, FreshState DEF Loaded
  <2>3. Sound(k)
    BY <2>1, <2>2, FreshState, SoundCopy
  <2>4. UNCHANGED <<stake, won, queued, exists, file>> /\ NoWork
    BY <1>2 DEF Take, crmVars, fileVars
  <2>5. TypeOK' /\ worked' = worked
    BY <1>0, <2>1, <2>4, NoWorkStep DEF TypeOK
  <2> QED BY <1>0, <2>1, <2>3, <2>4, <2>5, TypedMoved
<1>3. ASSUME NEW a \in Actors, Halt(a)
      PROVE  Typed'
  <2>1. UNCHANGED <<stake, won, queued, exists, file>> /\ NoWork
    BY <1>3 DEF Halt, crmVars, fileVars
  <2>2. TypeOK' /\ worked' = worked
    BY <1>0, <1>3, <2>1, HaltMoves, NoWorkStep DEF TypeOK
  <2>3. Sound(mem'[a])
    BY <1>0, <1>3, HaltMoves DEF Sound
  <2> QED BY <1>0, <1>3, <2>1, <2>2, <2>3, HaltMoves, TypedMoved
<1>4. ASSUME NEW a \in Actors, Signal(a)
      PROVE  Typed'
  <2>1. UNCHANGED <<stake, won, queued, exists, file>> /\ NoWork
    BY <1>4 DEF Signal, crmVars, fileVars
  <2>2. TypeOK' /\ worked' = worked
    BY <1>0, <1>4, <2>1, SignalMoves, NoWorkStep DEF TypeOK
  <2>3. Sound(mem'[a])
    BY <1>0, <1>4, SignalMoves
  <2> QED BY <1>0, <1>4, <2>1, <2>2, <2>3, SignalMoves, TypedMoved
<1>5. ASSUME NEW a \in Actors, Rest(a)
      PROVE  Typed'
  <2>1. UNCHANGED <<stake, won, queued, exists, file, worked, times, disturbed, faults>>
    BY <1>5 DEF Rest, crmVars, fileVars
  <2>2. drafts' \in Nat
    BY <1>5 DEF Rest
  <2>3. TypeOK'
    BY <1>0, <1>5, <2>1, <2>2, RestMoves DEF TypeOK
  <2>4. Sound(mem'[a])
    BY <1>0, <1>5, RestMoves DEF Sound, Stages
  <2> QED BY <1>0, <1>5, <2>1, <2>3, <2>4, RestMoves, TypedMoved
<1>6. ASSUME NEW a \in Actors, Save(a)
      PROVE  Typed'
  <2>1. Write(a) /\ UNCHANGED <<stake, won, queued>> /\ NoWork
    BY <1>6 DEF Save, crmVars
  <2>2. TypeOK' /\ worked' = worked
    BY <1>0, <1>6, <2>1, SaveMoves, Written, NoWorkStep DEF TypeOK
  <2>3. Sound(mem'[a]) /\ Sound(file')
    BY <1>0, <1>6, <2>1, SaveMoves, Written, FreshState
  <2> QED BY <1>0, <1>6, <2>1, <2>2, <2>3, SaveMoves, TypedMoved
<1>7. ASSUME NEW a \in Actors, Reengage(a)
      PROVE  Typed'
  <2>1. UNCHANGED <<stake, won, queued, exists, file, worked, times, disturbed, faults>>
    BY <1>7 DEF Reengage, crmVars, fileVars
  <2>2. TypeOK'
    BY <1>0, <1>7, <2>1, ReengageMoves DEF TypeOK
  <2>3. Sound(mem'[a])
    BY <1>0, <1>7, ReengageMoves, FreshState DEF Sound
  <2> QED BY <1>0, <1>7, <2>1, <2>2, <2>3, ReengageMoves, TypedMoved
<1>8. ASSUME NEW a \in Actors, NEW s \in Stages, RunStage(a, s)
      PROVE  Typed'
  <2>1. UNCHANGED <<stake, won, queued, exists, file, drafts, disturbed, faults>>
    BY <1>0, <1>8, StageMoves DEF crmVars, fileVars
  <2>2. worked \subseteq worked' /\ worked' \subseteq Stages /\ times' \in Nat
    BY <1>0, <1>8, StageMoves DEF TypeOK
  <2>3. TypeOK'
    BY <1>0, <1>8, <2>1, <2>2, StageMoves DEF TypeOK
  <2>4. IsNext(mem[a], s)
    BY <1>0, <1>8, StageMoves
  <2>5. \A r \in Stages : r < s => r \in mem[a].completed
    BY <1>0, <2>4, BeforeNext
  <2>6. /\ mem'[a].stage = s /\ mem[a].completed \subseteq mem'[a].completed
        /\ mem'[a].completed \subseteq worked'
    BY <1>0, <1>8, StageMoves DEF Sound
  <2>7. \A b \in Actors : Sound(mem[b])'
    <3> SUFFICES ASSUME NEW b \in Actors PROVE Sound(mem[b])'
      OBVIOUS
    <3>1. CASE b = a
      BY <2>5, <2>6, <3>1 DEF Sound
    <3>2. CASE b # a
      <4>1. mem'[b] = mem[b]
        BY <1>0, <1>8, <3>2, StageMoves
      <4> QED BY <1>0, <2>2, <4>1 DEF Sound
    <3> QED BY <3>1, <3>2
  <2>8. Sound(file)'
    BY <1>0, <2>1, <2>2 DEF Sound
  <2>9. \A r \in worked' : 1..(r - 1) \subseteq worked'
    <3>1. 1..(s - 1) \subseteq worked'
      BY <1>0, <2>2, <2>5 DEF Sound, Stages
    <3>2. worked' \subseteq worked \cup {s}
      BY <1>0, <1>8, StageMoves
    <3> QED BY <2>2, <3>1, <3>2 DEF Typed
  <2> QED BY <2>3, <2>7, <2>8, <2>9 DEF Typed
<1>9. ASSUME NEW a \in Actors, Crash(a)
      PROVE  Typed'
  <2>1. Fault /\ Leave(a) /\ NoWork /\ UNCHANGED <<stake, won, queued, exists, file>>
    BY <1>9 DEF Crash, crmVars, fileVars
  <2>2. TypeOK' /\ worked' = worked
    BY <1>0, <2>1, Left, FaultStep, NoWorkStep DEF TypeOK
  <2> QED BY <1>0, <2>1, <2>2, Left, FreshState, TypedMoved
<1>10. CASE UNCHANGED vars
  BY <1>10 DEF vars, crmVars, fileVars, historyVars, Typed, TypeOK, Sound
<1> QED BY <1>1, <1>2, <1>3, <1>4, <1>5, <1>6, <1>7, <1>8, <1>9, <1>10 DEF Next, GoOn

\* The variables keep their types, whatever walks and signals overlap or fail.
THEOREM TypeCorrect == Spec => []TypeOK
<1>1. Typed => TypeOK
  BY DEF Typed
<1> QED BY TypedInit, TypedStep, <1>1, PTL DEF Spec

\* Stages are worked in their order and recorded only once worked, whatever
\* walks overlap, crash or overwrite each other's saves (process_job).
THEOREM Sequence == Spec => []StageOrder
<1>1. Typed => StageOrder
  BY DEF Typed, Sound, StageOrder
<1> QED BY TypedInit, TypedStep, <1>1, PTL DEF Spec

-----------------------------------------------------------------------------
(***************************************************************************)
(* What a copy's status says of it: a deal at rest has every stage behind  *)
(* it, in the file and in every copy of it.                                *)
(***************************************************************************)

Rested(m) == m.status = "dormant" => m.completed = Stages

Copies ==
    /\ exists \/ file = Fresh
    /\ Rested(file)
    /\ \A a \in Actors :
        /\ Rested(mem[a])
        /\ pc[a] = "reengage" => mem[a].status = "dormant"
        /\ pc[a] \in {"walk", "save"} => mem[a].status # "dormant"

LEMMA FreshRuns == Fresh.status # "dormant" /\ Rested(Fresh)
BY DEF Fresh, Rested

\* A walk comes to rest when every stage is complete.
LEMMA AllBehind ==
  ASSUME NEW m \in State, Sound(m), Ahead(m) = {}
  PROVE  m.completed = Stages
<1>1. m.completed \subseteq Stages /\ m.stage \in Stages \cup {Resting}
  BY DEF State
<1>2. ASSUME NEW s \in Stages, s \notin m.completed
      PROVE  FALSE
  <2>1. ~(s < m.stage)
    BY <1>2 DEF Sound
  <2>2. s \in Ahead(m)
    BY <1>1, <1>2, <2>1 DEF Ahead, Stages, Resting
  <2> QED BY <2>2
<1> QED BY <1>1, <1>2

\* One actor moves, and its copy is as it should be where it goes.
LEMMA CopiesMoved ==
  ASSUME Copies, NEW a \in Actors, exists' \/ file' = Fresh, Rested(file'),
         Rested(mem'[a]), pc'[a] = "reengage" => mem'[a].status = "dormant",
         pc'[a] \in {"walk", "save"} => mem'[a].status # "dormant",
         \A b \in Actors : b # a => pc'[b] = pc[b] /\ mem'[b] = mem[b]
  PROVE  Copies'
<1>1. ASSUME NEW b \in Actors
      PROVE  /\ Rested(mem'[b])
             /\ pc'[b] = "reengage" => mem'[b].status = "dormant"
             /\ pc'[b] \in {"walk", "save"} => mem'[b].status # "dormant"
  <2>1. CASE b = a
    BY <2>1
  <2>2. CASE b # a
    BY <2>2 DEF Copies
  <2> QED BY <2>1, <2>2
<1> QED BY <1>1 DEF Copies, Rested

LEMMA CopiesInit == Init => Copies
BY FreshRuns DEF Init, Copies

LEMMA CopiesStep == Typed /\ Copies /\ [Next]_vars => Copies'
<1> SUFFICES ASSUME Typed, Copies, [Next]_vars
             PROVE  Copies'
  OBVIOUS
<1>0. /\ TypeOK /\ file \in State /\ Rested(file) /\ (exists \/ file = Fresh)
      /\ \A a \in Actors : Sound(mem[a]) /\ mem[a] \in State /\ Rested(mem[a])
  BY DEF Typed, TypeOK, Copies
<1>1. CASE SetStake \/ Win \/ Review
  <2>1. UNCHANGED <<exists, file, pc, mem>>
    BY <1>1 DEF SetStake, Win, Review, fileVars
  <2> QED BY <2>1 DEF Copies, Rested
<1>2. ASSUME NEW a \in Actors, Take(a)
      PROVE  Copies'
  <2>1. UNCHANGED <<exists, file>>
    BY <1>2 DEF Take, fileVars
  <2>2. /\ pc'[a] # "reengage"
        /\ \A b \in Actors : b # a => pc'[b] = pc[b] /\ mem'[b] = mem[b]
        /\ mem'[a].status # "dormant"
    BY <1>0, <1>2, TakeMoves, FreshRuns
  <2> QED BY <1>0, <2>1, <2>2, CopiesMoved DEF Rested
<1>3. ASSUME NEW a \in Actors, Halt(a)
      PROVE  Copies'
  <2>1. UNCHANGED <<exists, file>>
    BY <1>3 DEF Halt, fileVars
  <2> QED BY <1>0, <1>3, <2>1, HaltMoves, CopiesMoved DEF Rested
<1>4. ASSUME NEW a \in Actors, Signal(a)
      PROVE  Copies'
  <2>1. UNCHANGED <<exists, file>>
    BY <1>4 DEF Signal, fileVars
  <2> QED BY <1>0, <1>4, <2>1, SignalMoves, CopiesMoved
<1>5. ASSUME NEW a \in Actors, Rest(a)
      PROVE  Copies'
  <2>1. UNCHANGED <<exists, file>> /\ Ahead(mem[a]) = {}
    BY <1>5 DEF Rest, fileVars
  <2>2. Rested(mem'[a])
    BY <1>0, <1>5, <2>1, RestMoves, AllBehind DEF Rested
  <2> QED BY <1>0, <1>5, <2>1, <2>2, RestMoves, CopiesMoved
<1>6. ASSUME NEW a \in Actors, Save(a)
      PROVE  Copies'
  <2>1. Write(a)
    BY <1>6 DEF Save
  <2>2. (exists' \/ file' = Fresh) /\ Rested(file')
    BY <1>0, <2>1, Written
  <2>3. pc[a] = "save" => mem[a].status # "dormant"
    BY DEF Copies
  <2> QED BY <1>0, <1>6, <2>2, <2>3, SaveMoves, FreshRuns, CopiesMoved
<1>7. ASSUME NEW a \in Actors, Reengage(a)
      PROVE  Copies'
  <2>1. UNCHANGED <<exists, file>>
    BY <1>7 DEF Reengage, fileVars
  <2>2. Rested(mem'[a]) /\ pc'[a] \in {"end", "idle"}
    BY <1>0, <1>7, ReengageMoves, FreshRuns DEF Rested
  <2> QED BY <1>0, <1>7, <2>1, <2>2, ReengageMoves, CopiesMoved
<1>8. ASSUME NEW a \in Actors, NEW s \in Stages, RunStage(a, s)
      PROVE  Copies'
  <2>1. UNCHANGED <<exists, file>>
    BY <1>8 DEF RunStage, fileVars
  <2>2. mem'[a].status # "dormant" /\ pc'[a] # "reengage"
    BY <1>0, <1>8, StageMoves DEF Copies
  <2> QED BY <1>0, <1>8, <2>1, <2>2, StageMoves, CopiesMoved DEF Rested
<1>9. ASSUME NEW a \in Actors, Crash(a)
      PROVE  Copies'
  <2>1. Leave(a) /\ UNCHANGED <<exists, file>>
    BY <1>9 DEF Crash, fileVars
  <2> QED BY <1>0, <2>1, Left, FreshRuns, CopiesMoved
<1>10. CASE UNCHANGED vars
  BY <1>10 DEF vars, fileVars, Copies, Rested
<1> QED BY <1>1, <1>2, <1>3, <1>4, <1>5, <1>6, <1>7, <1>8, <1>9, <1>10 DEF Next, GoOn

-----------------------------------------------------------------------------
(***************************************************************************)
(* What is still to be paid for.  An actor whose copy lacks the watched    *)
(* stage may work it, and so may the next one to load the file if the file *)
(* lacks it and nobody is about to save it: what was worked and what may   *)
(* be is never more than one and the disturbances.  Likewise for the       *)
(* drafts: an actor that holds a resting copy may draft, and so may the    *)
(* first to load a resting file.                                           *)
(***************************************************************************)

Lacks(a) == pc[a] # "idle" /\ Watched \notin mem[a].completed
Lacking == {a \in Actors : Lacks(a)}
Closing == \E a \in Actors : pc[a] \in {"walk", "save", "end"}
Open == IF Watched \in file.completed \/ Closing THEN 0 ELSE 1

Rests(a) == pc[a] # "idle" /\ mem[a].status = "dormant"
Resters == {a \in Actors : Rests(a)}
Busy == {a \in Actors : pc[a] # "idle"}
Waiting == IF file.status = "dormant" /\ Busy = {} THEN 1 ELSE 0

Paid == Counting => times + Cardinality(Lacking) + Open <= 1 + disturbed
DraftPaid ==
    Counting => /\ drafts + Cardinality(Resters) + Waiting <= 1 + disturbed
                /\ Cardinality(Busy) <= 1 + disturbed

Bit(b) == IF b THEN 1 ELSE 0
LackBit(a) == IF Lacks(a) THEN 1 ELSE 0
RestBit(a) == IF Rests(a) THEN 1 ELSE 0
BusyBit(a) == IF pc[a] # "idle" THEN 1 ELSE 0

\* The cardinality of a set of actors that changes at one actor only.
LEMMA CardStep ==
  ASSUME NEW S \in SUBSET Actors, NEW T \in SUBSET Actors, NEW a \in Actors,
         \A b \in Actors : b # a => (b \in S <=> b \in T)
  PROVE  /\ Cardinality(S) \in Nat /\ Cardinality(T) \in Nat
         /\ Cardinality(T) + Bit(a \in S) = Cardinality(S) + Bit(a \in T)
<1>1. IsFiniteSet(S) /\ IsFiniteSet(T)
  BY CashAssumption, FS_Subset
<1>2. Cardinality(S) \in Nat /\ Cardinality(T) \in Nat
  BY <1>1, FS_CardinalityType
<1>3. CASE a \in S <=> a \in T
  <2>1. S = T
    BY <1>3
  <2> QED BY <1>2, <2>1
<1>4. CASE a \in S /\ a \notin T
  <2>1. T = S \ {a}
    BY <1>4
  <2>2. Cardinality(T) = Cardinality(S) - 1
    BY <1>1, <1>4, <2>1, FS_RemoveElement
  <2> QED BY <1>2, <1>4, <2>2 DEF Bit
<1>5. CASE a \notin S /\ a \in T
  <2>1. T = S \cup {a}
    BY <1>5
  <2>2. Cardinality(T) = Cardinality(S) + 1
    BY <1>1, <1>5, <2>1, FS_AddElement
  <2> QED BY <1>2, <1>5, <2>2 DEF Bit
<1> QED BY <1>3, <1>4, <1>5

\* One actor moves: how the counts change.
LEMMA CountsMove ==
  ASSUME NEW a \in Actors,
         \A b \in Actors : b # a => pc'[b] = pc[b] /\ mem'[b] = mem[b]
  PROVE  /\ Cardinality(Lacking) \in Nat /\ Cardinality(Lacking') \in Nat
         /\ Cardinality(Lacking') + LackBit(a) = Cardinality(Lacking) + LackBit(a)'
         /\ Cardinality(Resters) \in Nat /\ Cardinality(Resters') \in Nat
         /\ Cardinality(Resters') + RestBit(a) = Cardinality(Resters) + RestBit(a)'
         /\ Cardinality(Busy) \in Nat /\ Cardinality(Busy') \in Nat
         /\ Cardinality(Busy') + BusyBit(a) = Cardinality(Busy) + BusyBit(a)'
<1>1. /\ Cardinality(Lacking) \in Nat /\ Cardinality(Lacking') \in Nat
      /\ Cardinality(Lacking') + LackBit(a) = Cardinality(Lacking) + LackBit(a)'
  <2>1. \A b \in Actors : b # a => (b \in Lacking <=> b \in Lacking')
    BY DEF Lacking, Lacks
  <2>2. Lacking \in SUBSET Actors /\ Lacking' \in SUBSET Actors
    BY DEF Lacking
  <2>3. (a \in Lacking <=> Lacks(a)) /\ (a \in Lacking' <=> Lacks(a)')
    BY DEF Lacking
  <2> HIDE DEF Lacking
  <2> QED BY <2>1, <2>2, <2>3, CardStep DEF Bit, LackBit
<1>2. /\ Cardinality(Resters) \in Nat /\ Cardinality(Resters') \in Nat
      /\ Cardinality(Resters') + RestBit(a) = Cardinality(Resters) + RestBit(a)'
  <2>1. \A b \in Actors : b # a => (b \in Resters <=> b \in Resters')
    BY DEF Resters, Rests
  <2>2. Resters \in SUBSET Actors /\ Resters' \in SUBSET Actors
    BY DEF Resters
  <2>3. (a \in Resters <=> Rests(a)) /\ (a \in Resters' <=> Rests(a)')
    BY DEF Resters
  <2> QED BY <2>1, <2>2, <2>3, CardStep DEF Bit, RestBit
<1>3. /\ Cardinality(Busy) \in Nat /\ Cardinality(Busy') \in Nat
      /\ Cardinality(Busy') + BusyBit(a) = Cardinality(Busy) + BusyBit(a)'
  <2>1. \A b \in Actors : b # a => (b \in Busy <=> b \in Busy')
    BY DEF Busy
  <2>2. Busy \in SUBSET Actors /\ Busy' \in SUBSET Actors
    BY DEF Busy
  <2>3. (a \in Busy <=> pc[a] # "idle") /\ (a \in Busy' <=> pc'[a] # "idle")
    BY DEF Busy
  <2> QED BY <2>1, <2>2, <2>3, CardStep DEF Bit, BusyBit
<1> QED BY <1>1, <1>2, <1>3

\* Whoever is at work alone finds nobody lacking, at rest or busy.
LEMMA NobodyElse ==
  ASSUME NEW a \in Actors, pc[a] = "idle", Alone(a)
  PROVE  /\ Cardinality(Lacking) = 0 /\ Cardinality(Resters) = 0 /\ Cardinality(Busy) = 0
         /\ Busy = {} /\ ~Closing
<1>1. \A b \in Actors : pc[b] = "idle"
  BY DEF Alone
<1>2. Lacking = {} /\ Resters = {} /\ Busy = {} /\ ~Closing
  BY <1>1 DEF Lacking, Lacks, Resters, Rests, Busy, Closing
<1> QED BY <1>2, FS_EmptySet

\* Counting goes on only from where it was going on.
LEMMA StillCounting ==
  ASSUME TypeOK, TypeOK', Counting', disturbed' \in {disturbed, disturbed + 1}
  PROVE  Counting /\ disturbed \in Nat /\ disturbed' \in Nat
BY CashAssumption DEF Counting, TypeOK

LEMMA PaidInit == Init => Paid /\ DraftPaid
<1> SUFFICES ASSUME Init PROVE Paid /\ DraftPaid
  OBVIOUS
<1>1. \A a \in Actors : pc[a] = "idle"
  BY DEF Init
<1>2. Lacking = {} /\ Resters = {} /\ Busy = {}
  BY <1>1 DEF Lacking, Lacks, Resters, Rests, Busy
<1>3. Cardinality(Lacking) = 0 /\ Cardinality(Resters) = 0 /\ Cardinality(Busy) = 0
  BY <1>2, FS_EmptySet
<1>4. times = 0 /\ drafts = 0 /\ disturbed = 0 /\ file.status = "running"
  BY DEF Init, Fresh
<1>5. Open \in {0, 1} /\ Waiting = 0
  BY <1>4 DEF Open, Waiting
<1> QED BY <1>3, <1>4, <1>5 DEF Paid, DraftPaid

\* Steps that leave the actors, the file and the counts alone.
LEMMA PaidStutter ==
  ASSUME Paid, DraftPaid, UNCHANGED <<file, pc, mem, times, drafts, disturbed>>
  PROVE  Paid' /\ DraftPaid'
<1>1. Lacking' = Lacking /\ Resters' = Resters /\ Busy' = Busy
  BY DEF Lacking, Lacks, Resters, Rests, Busy
<1>2. Open' = Open /\ Waiting' = Waiting
  BY <1>1 DEF Open, Closing, Waiting
<1> QED BY <1>1, <1>2 DEF Paid, DraftPaid, Counting

\* An actor takes the deal up: from the file if it is alone, else as a disturbance.
LEMMA PaidBegin ==
  ASSUME TypeOK, TypeOK', Paid, DraftPaid, NEW a \in Actors, pc[a] = "idle",
         \A b \in Actors : b # a => pc'[b] = pc[b] /\ mem'[b] = mem[b],
         file' = file, NoWork,
         pc'[a] \in {"idle", "walk", "save", "end", "reengage"},
         pc'[a] = "reengage" => Watched \in file.completed /\ Watched \in mem'[a].completed,
         Counting' =>
            \/ disturbed' = disturbed + 1
            \/ /\ Alone(a) /\ disturbed' = disturbed
               /\ pc'[a] = "idle" \/ mem'[a].completed = file.completed,
         pc'[a] = "idle" \/ mem'[a].status # "dormant" \/ mem'[a] = file
  PROVE  Paid' /\ DraftPaid'
<1> SUFFICES ASSUME Counting'
             PROVE  /\ times' + Cardinality(Lacking)' + Open' <= 1 + disturbed'
                    /\ drafts' + Cardinality(Resters)' + Waiting' <= 1 + disturbed'
                    /\ Cardinality(Busy)' <= 1 + disturbed'
  BY DEF Paid, DraftPaid
<1>1. Counting /\ disturbed \in Nat /\ disturbed' \in Nat
  BY StillCounting
<1>2. times' = times /\ drafts' = drafts /\ times \in Nat /\ drafts \in Nat
  BY NoWorkStep DEF TypeOK
<1>3. /\ times + Cardinality(Lacking) + Open <= 1 + disturbed
      /\ drafts + Cardinality(Resters) + Waiting <= 1 + disturbed
      /\ Cardinality(Busy) <= 1 + disturbed
  BY <1>1 DEF Paid, DraftPaid
<1>4. ~Lacks(a) /\ ~Rests(a)
  BY DEF Lacks, Rests
<1>5. /\ Cardinality(Lacking) \in Nat /\ Cardinality(Lacking') \in Nat
      /\ Cardinality(Lacking') = Cardinality(Lacking) + LackBit(a)'
      /\ Cardinality(Resters) \in Nat /\ Cardinality(Resters') \in Nat
      /\ Cardinality(Resters') = Cardinality(Resters) + RestBit(a)'
      /\ Cardinality(Busy) \in Nat /\ Cardinality(Busy') \in Nat
      /\ Cardinality(Busy') = Cardinality(Busy) + BusyBit(a)'
  BY <1>4, CountsMove DEF LackBit, RestBit, BusyBit
<1>6. /\ Open \in {0, 1} /\ Open' \in {0, 1} /\ Open' <= Open
      /\ Waiting \in {0, 1} /\ Waiting' \in {0, 1} /\ Waiting' <= Waiting
  <2>1. Closing => Closing'
    BY DEF Closing
  <2>2. Busy \subseteq Busy'
    BY DEF Busy
  <2> QED BY <2>1, <2>2 DEF Open, Waiting
<1>7. LackBit(a)' \in {0, 1} /\ RestBit(a)' \in {0, 1} /\ BusyBit(a)' \in {0, 1}
  BY DEF LackBit, RestBit, BusyBit
<1>8. CASE disturbed' = disturbed + 1
  BY <1>1, <1>2, <1>3, <1>5, <1>6, <1>7, <1>8
<1>9. CASE /\ Alone(a) /\ disturbed' = disturbed
           /\ pc'[a] = "idle" \/ mem'[a].completed = file.completed
  <2>1. /\ Cardinality(Lacking) = 0 /\ Cardinality(Resters) = 0 /\ Cardinality(Busy) = 0
        /\ Busy = {} /\ ~Closing
    BY <1>9, NobodyElse
  <2>2. LackBit(a)' + Open' <= Open
    <3>1. CASE pc'[a] = "idle"
      <4>1. ~Lacks(a)'
        BY <3>1 DEF Lacks
      <4>2. LackBit(a)' = 0
        BY <4>1 DEF LackBit, RestBit, BusyBit
      <4> QED BY <1>6, <4>2
    <3>2. CASE pc'[a] \in {"walk", "save", "end"}
      <4>1. Closing'
        BY <3>2 DEF Closing
      <4>2. mem'[a].completed = file.completed
        BY <1>9, <3>2
      <4> QED BY <2>1, <4>1, <4>2 DEF Open, LackBit, Lacks
    <3>3. CASE pc'[a] = "reengage"
      <4>1. ~Lacks(a)'
        BY <3>3 DEF Lacks
      <4>2. LackBit(a)' = 0
        BY <4>1 DEF LackBit, RestBit, BusyBit
      <4> QED BY <1>6, <4>2
    <3> QED BY <3>1, <3>2, <3>3
  <2>3. RestBit(a)' + Waiting' <= Waiting
    <3>1. CASE pc'[a] = "idle"
      <4>1. ~Rests(a)'
        BY <3>1 DEF Rests
      <4>2. RestBit(a)' = 0
        BY <4>1 DEF LackBit, RestBit, BusyBit
      <4> QED BY <1>6, <4>2
    <3>2. CASE pc'[a] # "idle"
      <4>1. Busy' # {}
        BY <3>2 DEF Busy
      <4>2. Rests(a)' => file.status = "dormant"
        BY <3>2 DEF Rests
      <4> QED BY <2>1, <4>1, <4>2 DEF Waiting, LackBit, RestBit
    <3> QED BY <3>1, <3>2
  <2> QED BY <1>1, <1>2, <1>3, <1>5, <1>6, <1>7, <1>9, <2>1, <2>2, <2>3
<1> QED BY <1>8, <1>9

\* A save that succeeds: what the actor's copy lacks, the file may lack.
LEMMA PaidSave ==
  ASSUME TypeOK, TypeOK', Paid, DraftPaid, NEW a \in Actors, Save(a)
  PROVE  Paid' /\ DraftPaid'
<1> SUFFICES ASSUME Counting'
             PROVE  /\ times' + Cardinality(Lacking)' + Open' <= 1 + disturbed'
                    /\ drafts' + Cardinality(Resters)' + Waiting' <= 1 + disturbed'
                    /\ Cardinality(Busy)' <= 1 + disturbed'
  BY DEF Paid, DraftPaid
<1>0. Write(a) /\ NoWork
  BY DEF Save
<1>1. /\ file' \in {file, mem[a]}
      /\ disturbed' = disturbed + 1 \/ (file' = mem[a] /\ disturbed' = disturbed)
  BY <1>0, Written
<1>2. Counting /\ disturbed \in Nat /\ disturbed' \in Nat
  BY <1>1, StillCounting
<1>3. times' = times /\ drafts' = drafts /\ times \in Nat /\ drafts \in Nat
  BY <1>0, NoWorkStep DEF TypeOK
<1>4. /\ times + Cardinality(Lacking) + Open <= 1 + disturbed
      /\ drafts + Cardinality(Resters) + Waiting <= 1 + disturbed
      /\ Cardinality(Busy) <= 1 + disturbed
  BY <1>2 DEF Paid, DraftPaid
<1>5. /\ \A b \in Actors : b # a => pc'[b] = pc[b] /\ mem'[b] = mem[b]
      /\ \/ pc[a] = "save" /\ pc'[a] = "walk" /\ mem'[a] = mem[a]
         \/ pc[a] = "end" /\ pc'[a] = "idle" /\ mem'[a] = Fresh
  BY SaveMoves
<1>6. /\ Cardinality(Lacking) \in Nat /\ Cardinality(Lacking') \in Nat
      /\ Cardinality(Lacking') + LackBit(a) = Cardinality(Lacking) + LackBit(a)'
      /\ Cardinality(Resters) \in Nat /\ Cardinality(Resters') \in Nat
      /\ Cardinality(Resters') + RestBit(a) = Cardinality(Resters) + RestBit(a)'
      /\ Cardinality(Busy) \in Nat /\ Cardinality(Busy') \in Nat
      /\ Cardinality(Busy') + BusyBit(a) = Cardinality(Busy) + BusyBit(a)'
  BY <1>5, CountsMove
<1>7. Open = 0 /\ Waiting = 0
  <2>1. Closing /\ Busy # {}
    BY <1>5 DEF Closing, Busy
  <2> QED BY <2>1 DEF Open, Waiting
<1>8. Open' \in {0, 1} /\ Waiting' \in {0, 1}
  BY DEF Open, Waiting
<1>9. CASE pc[a] = "save" /\ pc'[a] = "walk" /\ mem'[a] = mem[a]
  <2>1. Open' = 0 /\ Waiting' = 0
    <3>1. Closing' /\ Busy' # {}
      BY <1>9 DEF Closing, Busy
    <3> QED BY <3>1 DEF Open, Waiting
  <2>2. (Lacks(a)' <=> Lacks(a)) /\ (Rests(a)' <=> Rests(a))
    BY <1>9 DEF Lacks, Rests
  <2>3. /\ LackBit(a)' = LackBit(a) /\ RestBit(a)' = RestBit(a)
        /\ BusyBit(a)' = 1 /\ BusyBit(a) = 1
        /\ LackBit(a) \in {0, 1} /\ RestBit(a) \in {0, 1}
    BY <1>9, <2>2 DEF LackBit, RestBit, BusyBit
  <2> QED BY <1>1, <1>2, <1>3, <1>4, <1>6, <1>7, <2>1, <2>3
<1>10. CASE pc[a] = "end" /\ pc'[a] = "idle" /\ mem'[a] = Fresh
  <2>1. ~Lacks(a)' /\ ~Rests(a)'
    BY <1>10 DEF Lacks, Rests
  <2>2. /\ LackBit(a)' = 0 /\ RestBit(a)' = 0
        /\ BusyBit(a)' = 0 /\ BusyBit(a) = 1
        /\ LackBit(a) \in {0, 1} /\ RestBit(a) \in {0, 1}
    BY <1>10, <2>1 DEF LackBit, RestBit, BusyBit
  <2>3. CASE disturbed' = disturbed + 1
    BY <1>2, <1>3, <1>4, <1>6, <1>7, <1>8, <2>2, <2>3
  <2>4. CASE file' = mem[a] /\ disturbed' = disturbed
    <3>1. Open' <= LackBit(a) /\ Waiting' <= RestBit(a)
      BY <1>8, <1>10, <2>4 DEF Open, Waiting, Lacks, Rests, LackBit, RestBit
    <3> QED BY <1>2, <1>3, <1>4, <1>6, <1>7, <1>8, <2>2, <2>4, <3>1
  <2> QED BY <1>1, <2>3, <2>4
<1> QED BY <1>5, <1>9, <1>10

\* A stage's work is paid for by the actor that lacked it.
LEMMA PaidStage ==
  ASSUME TypeOK, TypeOK', Copies, Paid, DraftPaid, NEW a \in Actors, NEW s \in Stages,
         RunStage(a, s)
  PROVE  Paid' /\ DraftPaid'
<1> SUFFICES ASSUME Counting'
             PROVE  /\ times' + Cardinality(Lacking)' + Open' <= 1 + disturbed'
                    /\ drafts' + Cardinality(Resters)' + Waiting' <= 1 + disturbed'
                    /\ Cardinality(Busy)' <= 1 + disturbed'
  BY DEF Paid, DraftPaid
<1>1. /\ pc[a] = "walk" /\ pc'[a] \in {"end", "save"} /\ IsNext(mem[a], s)
      /\ \A b \in Actors : b # a => pc'[b] = pc[b] /\ mem'[b] = mem[b]
      /\ file' = file /\ disturbed' = disturbed /\ drafts' = drafts
      /\ mem[a].status # "dormant" /\ mem'[a].status # "dormant"
  BY StageMoves DEF fileVars, Copies
<1>2. Counting /\ disturbed \in Nat /\ disturbed' \in Nat /\ times \in Nat /\ drafts \in Nat
  BY <1>1, StillCounting DEF TypeOK
<1>3. /\ times + Cardinality(Lacking) + Open <= 1 + disturbed
      /\ drafts + Cardinality(Resters) + Waiting <= 1 + disturbed
      /\ Cardinality(Busy) <= 1 + disturbed
  BY <1>2 DEF Paid, DraftPaid
<1>4. /\ Cardinality(Lacking) \in Nat /\ Cardinality(Lacking') \in Nat
      /\ Cardinality(Lacking') + LackBit(a) = Cardinality(Lacking) + LackBit(a)'
      /\ Cardinality(Resters) \in Nat /\ Cardinality(Resters') \in Nat
      /\ Cardinality(Resters') + RestBit(a) = Cardinality(Resters) + RestBit(a)'
      /\ Cardinality(Busy) \in Nat /\ Cardinality(Busy') \in Nat
      /\ Cardinality(Busy') + BusyBit(a) = Cardinality(Busy) + BusyBit(a)'
  BY <1>1, CountsMove
<1>5. Open = 0 /\ Waiting = 0 /\ Open' = 0 /\ Waiting' = 0
  <2>1. Closing /\ Busy # {} /\ Closing' /\ Busy' # {}
    BY <1>1 DEF Closing, Busy
  <2> QED BY <2>1 DEF Open, Waiting
<1>6. /\ RestBit(a) = 0 /\ RestBit(a)' = 0 /\ BusyBit(a) = 1 /\ BusyBit(a)' = 1
      /\ LackBit(a) \in {0, 1} /\ LackBit(a)' \in {0, 1}
  BY <1>1 DEF RestBit, Rests, BusyBit, LackBit
<1>7. times' + LackBit(a)' <= times + LackBit(a)
  <2>1. CASE mem'[a].completed = mem[a].completed /\ times' = times
    <3>1. LackBit(a)' = LackBit(a)
      BY <1>1, <2>1 DEF LackBit, Lacks
    <3> QED BY <1>2, <1>6, <2>1, <3>1
  <2>2. CASE /\ mem'[a].completed = mem[a].completed \cup {s}
             /\ times' = IF s = Watched THEN times + 1 ELSE times
    <3>1. s \notin mem[a].completed
      BY <1>1 DEF IsNext, Ahead
    <3>2. CASE s = Watched
      <4>1. LackBit(a) = 1 /\ LackBit(a)' = 0 /\ times' = times + 1
        BY <1>1, <2>2, <3>1, <3>2 DEF LackBit, Lacks
      <4> QED BY <1>2, <4>1
    <3>3. CASE s # Watched
      <4>1. LackBit(a)' = LackBit(a) /\ times' = times
        BY <1>1, <2>2, <3>3 DEF LackBit, Lacks
      <4> QED BY <1>2, <1>6, <4>1
    <3> QED BY <3>2, <3>3
  <2> QED BY <2>1, <2>2, StageMoves
<1>8. times' \in Nat
  BY DEF TypeOK
<1> QED BY <1>1, <1>2, <1>3, <1>4, <1>5, <1>6, <1>7, <1>8

\* When the deal comes to rest the drafts are counted anew, and only who is at
\* work holds a resting copy.
LEMMA PaidRest ==
  ASSUME TypeOK, TypeOK', Paid, DraftPaid, NEW a \in Actors, Rest(a)
  PROVE  Paid' /\ DraftPaid'
<1> SUFFICES ASSUME Counting'
             PROVE  /\ times' + Cardinality(Lacking)' + Open' <= 1 + disturbed'
                    /\ drafts' + Cardinality(Resters)' + Waiting' <= 1 + disturbed'
                    /\ Cardinality(Busy)' <= 1 + disturbed'
  BY DEF Paid, DraftPaid
<1>1. /\ pc[a] = "walk" /\ pc'[a] = "end" /\ mem'[a].completed = mem[a].completed
      /\ \A b \in Actors : b # a => pc'[b] = pc[b] /\ mem'[b] = mem[b]
      /\ file' = file /\ disturbed' = disturbed /\ times' = times /\ drafts' = 0
  BY RestMoves DEF Rest, fileVars
<1>2. Counting /\ disturbed \in Nat /\ disturbed' \in Nat /\ times \in Nat
  BY <1>1, StillCounting DEF TypeOK
<1>3. /\ times + Cardinality(Lacking) + Open <= 1 + disturbed
      /\ drafts + Cardinality(Resters) + Waiting <= 1 + disturbed
      /\ Cardinality(Busy) <= 1 + disturbed
  BY <1>2 DEF Paid, DraftPaid
<1>4. /\ Cardinality(Lacking) \in Nat /\ Cardinality(Lacking') \in Nat
      /\ Cardinality(Lacking') + LackBit(a) = Cardinality(Lacking) + LackBit(a)'
      /\ Cardinality(Resters) \in Nat /\ Cardinality(Resters') \in Nat
      /\ Cardinality(Resters') + RestBit(a) = Cardinality(Resters) + RestBit(a)'
      /\ Cardinality(Busy) \in Nat /\ Cardinality(Busy') \in Nat
      /\ Cardinality(Busy') + BusyBit(a) = Cardinality(Busy) + BusyBit(a)'
  BY <1>1, CountsMove
<1>5. Open = 0 /\ Open' = 0 /\ Waiting' = 0
  <2>1. Closing /\ Closing' /\ Busy' # {}
    BY <1>1 DEF Closing, Busy
  <2> QED BY <2>1 DEF Open, Waiting
<1>6. /\ BusyBit(a) = 1 /\ BusyBit(a)' = 1 /\ LackBit(a)' = LackBit(a)
      /\ LackBit(a) \in {0, 1}
  BY <1>1 DEF BusyBit, LackBit, Lacks
<1>7. Cardinality(Resters') <= Cardinality(Busy')
  <2>1. Resters' \subseteq Busy' /\ Busy' \subseteq Actors
    BY DEF Resters, Rests, Busy
  <2> QED BY <2>1, CashAssumption, FS_Subset
<1> QED BY <1>1, <1>2, <1>3, <1>4, <1>5, <1>6, <1>7

\* An actor that is lost leaves the file as it is: that is a disturbance.
LEMMA PaidCrash ==
  ASSUME TypeOK, TypeOK', Paid, DraftPaid, NEW a \in Actors, Crash(a)
  PROVE  Paid' /\ DraftPaid'
<1> SUFFICES ASSUME Counting'
             PROVE  /\ times' + Cardinality(Lacking)' + Open' <= 1 + disturbed'
                    /\ drafts' + Cardinality(Resters)' + Waiting' <= 1 + disturbed'
                    /\ Cardinality(Busy)' <= 1 + disturbed'
  BY DEF Paid, DraftPaid
<1>0. Fault /\ Leave(a) /\ NoWork /\ pc[a] # "idle" /\ file' = file
  BY DEF Crash, fileVars
<1>1. /\ pc'[a] = "idle" /\ disturbed' = disturbed + 1
      /\ \A b \in Actors : b # a => pc'[b] = pc[b] /\ mem'[b] = mem[b]
  BY <1>0, FaultStep, Left
<1>2. /\ Counting /\ disturbed \in Nat /\ disturbed' \in Nat
      /\ times' = times /\ drafts' = drafts /\ times \in Nat /\ drafts \in Nat
  BY <1>0, <1>1, StillCounting, NoWorkStep DEF TypeOK
<1>3. /\ times + Cardinality(Lacking) + Open <= 1 + disturbed
      /\ drafts + Cardinality(Resters) + Waiting <= 1 + disturbed
      /\ Cardinality(Busy) <= 1 + disturbed
  BY <1>2 DEF Paid, DraftPaid
<1>4. /\ Cardinality(Lacking) \in Nat /\ Cardinality(Lacking') \in Nat
      /\ Cardinality(Lacking') + LackBit(a) = Cardinality(Lacking) + LackBit(a)'
      /\ Cardinality(Resters) \in Nat /\ Cardinality(Resters') \in Nat
      /\ Cardinality(Resters') + RestBit(a) = Cardinality(Resters) + RestBit(a)'
      /\ Cardinality(Busy) \in Nat /\ Cardinality(Busy') \in Nat
      /\ Cardinality(Busy') + BusyBit(a) = Cardinality(Busy) + BusyBit(a)'
  BY <1>1, CountsMove
<1>5. Open \in {0, 1} /\ Open' \in {0, 1} /\ Waiting = 0 /\ Waiting' \in {0, 1}
  <2>1. Busy # {}
    BY <1>0 DEF Busy
  <2> QED BY <2>1 DEF Open, Waiting
<1>6. /\ LackBit(a)' = 0 /\ RestBit(a)' = 0 /\ BusyBit(a)' = 0 /\ BusyBit(a) = 1
      /\ LackBit(a) \in {0, 1} /\ RestBit(a) \in {0, 1}
  BY <1>0, <1>1 DEF LackBit, Lacks, RestBit, Rests, BusyBit
<1> QED BY <1>1, <1>2, <1>3, <1>4, <1>5, <1>6

\* A draft is paid for by the resting copy that its actor gives up.
LEMMA PaidReengage ==
  ASSUME TypeOK, TypeOK', Copies, Paid, DraftPaid, NEW a \in Actors, Reengage(a)
  PROVE  Paid' /\ DraftPaid'
<1> SUFFICES ASSUME Counting'
             PROVE  /\ times' + Cardinality(Lacking)' + Open' <= 1 + disturbed'
                    /\ drafts' + Cardinality(Resters)' + Waiting' <= 1 + disturbed'
                    /\ Cardinality(Busy)' <= 1 + disturbed'
  BY DEF Paid, DraftPaid
<1>1. /\ pc[a] = "reengage" /\ pc'[a] \in {"end", "idle"} /\ drafts' \in Nat
      /\ \A b \in Actors : b # a => pc'[b] = pc[b] /\ mem'[b] = mem[b]
      /\ \/ pc'[a] = "end" /\ mem'[a].status = "running"
            /\ mem'[a].completed = mem[a].completed /\ drafts' = drafts + 1
         \/ pc'[a] = "end" /\ mem'[a] = mem[a] /\ drafts' = drafts
         \/ pc'[a] = "idle" /\ mem'[a] = Fresh /\ drafts' = drafts
  BY ReengageMoves
<1>2. file' = file /\ disturbed' = disturbed /\ times' = times
  BY DEF Reengage, fileVars
<1>3. Counting /\ disturbed \in Nat /\ disturbed' \in Nat /\ times \in Nat /\ drafts \in Nat
  BY <1>2, StillCounting DEF TypeOK
<1>4. /\ times + Cardinality(Lacking) + Open <= 1 + disturbed
      /\ drafts + Cardinality(Resters) + Waiting <= 1 + disturbed
      /\ Cardinality(Busy) <= 1 + disturbed
  BY <1>3 DEF Paid, DraftPaid
<1>5. /\ Cardinality(Lacking) \in Nat /\ Cardinality(Lacking') \in Nat
      /\ Cardinality(Lacking') + LackBit(a) = Cardinality(Lacking) + LackBit(a)'
      /\ Cardinality(Resters) \in Nat /\ Cardinality(Resters') \in Nat
      /\ Cardinality(Resters') + RestBit(a) = Cardinality(Resters) + RestBit(a)'
      /\ Cardinality(Busy) \in Nat /\ Cardinality(Busy') \in Nat
      /\ Cardinality(Busy') + BusyBit(a) = Cardinality(Busy) + BusyBit(a)'
  BY <1>1, CountsMove
<1>6. mem[a].status = "dormant" /\ Watched \in mem[a].completed
  BY <1>1, CashAssumption DEF Copies, Rested
<1>7. LackBit(a) = 0 /\ LackBit(a)' = 0
  <2>1. pc'[a] = "idle" \/ mem'[a].completed = mem[a].completed
    BY <1>1
  <2> QED BY <1>6, <2>1 DEF LackBit, Lacks
<1>8. RestBit(a) = 1 /\ RestBit(a)' \in {0, 1} /\ BusyBit(a) = 1 /\ BusyBit(a)' \in {0, 1}
  BY <1>1, <1>6 DEF RestBit, Rests, BusyBit
<1>9. /\ Open \in {0, 1} /\ Open' \in {0, 1} /\ Open' <= Open
      /\ Waiting = 0 /\ Waiting' \in {0, 1}
  <2>1. Closing => Closing'
    BY <1>1 DEF Closing
  <2>2. Busy # {}
    BY <1>1 DEF Busy
  <2> QED BY <1>2, <2>1, <2>2 DEF Open, Waiting
<1>10. drafts' + RestBit(a)' + Waiting' <= drafts + RestBit(a)
  <2>1. CASE pc'[a] = "end"
    <3>1. Waiting' = 0
      <4>1. Busy' # {}
        BY <2>1 DEF Busy
      <4> QED BY <4>1 DEF Waiting
    <3>2. CASE mem'[a].status = "running" /\ drafts' = drafts + 1
      <4>1. RestBit(a)' = 0
        BY <3>2 DEF RestBit, Rests
      <4> QED BY <1>3, <1>8, <3>1, <3>2, <4>1
    <3>3. CASE drafts' = drafts
      BY <1>3, <1>8, <3>1, <3>3
    <3>4. (mem'[a].status = "running" /\ drafts' = drafts + 1) \/ drafts' = drafts
      BY <1>1
    <3> QED BY <3>2, <3>3, <3>4
  <2>2. CASE pc'[a] = "idle"
    <3>1. RestBit(a)' = 0 /\ drafts' = drafts
      BY <1>1, <2>2 DEF RestBit, Rests
    <3>2. RestBit(a) = 1 /\ Waiting' \in {0, 1} /\ drafts \in Nat
      BY <1>3, <1>8, <1>9
    <3>3. CASE Waiting' = 0
      BY <3>1, <3>2, <3>3
    <3>4. CASE Waiting' = 1
      BY <3>1, <3>2, <3>4
    <3> QED BY <3>2, <3>3, <3>4
  <2> QED BY <1>1, <2>1, <2>2
<1> QED BY <1>1, <1>2, <1>3, <1>4, <1>5, <1>7, <1>8, <1>9, <1>10

LEMMA PaidStep ==
  ASSUME Typed, Typed', Copies, Paid, DraftPaid, [Next]_vars
  PROVE  Paid' /\ DraftPaid'
<1>0. /\ TypeOK /\ TypeOK' /\ file \in State /\ Rested(file) /\ (exists \/ file = Fresh)
      /\ Watched \in Stages
  BY CashAssumption DEF Typed, TypeOK, Copies
<1>1. CASE SetStake \/ Win \/ Review
  <2>1. UNCHANGED <<file, pc, mem, times, drafts, disturbed>>
    BY <1>1 DEF SetStake, Win, Review, fileVars, historyVars
  <2> QED BY <2>1, PaidStutter
<1>2. ASSUME NEW a \in Actors, Take(a)
      PROVE  Paid' /\ DraftPaid'
  <2>1. PICK m \in {Loaded, Fresh}, step \in {"end", "idle", "walk", "save"}, k \in State :
            /\ Counting' => \/ disturbed' = disturbed + 1
                            \/ Alone(a) /\ m = Loaded /\ disturbed' = disturbed
            /\ pc'[a] = step /\ mem'[a] = k
            /\ \A b \in Actors : b # a => pc'[b] = pc[b] /\ mem'[b] = mem[b]
            /\ \/ step = "idle" /\ k = Fresh
               \/ /\ step # "idle" /\ k.stage = m.stage /\ k.completed = m.completed
                  /\ k.status # "dormant"
    BY <1>0, <1>2, TakeMoves
  <2>2. Loaded = file
    BY <1>0 DEF Loaded
  <2>3. pc[a] = "idle" /\ NoWork /\ file' = file
    BY <1>2 DEF Take, fileVars
  <2>4. /\ pc'[a] \in {"idle", "walk", "save", "end", "reengage"} /\ pc'[a] # "reengage"
        /\ mem'[a].status # "dormant"
    BY <2>1, FreshRuns
  <2>5. Counting' => \/ disturbed' = disturbed + 1
                     \/ /\ Alone(a) /\ disturbed' = disturbed
                        /\ pc'[a] = "idle" \/ mem'[a].completed = file.completed
    BY <2>1, <2>2
  <2> QED BY <1>0, <2>1, <2>3, <2>4, <2>5, PaidBegin
<1>3. ASSUME NEW a \in Actors, Halt(a)
      PROVE  Paid' /\ DraftPaid'
  <2>1. pc[a] = "idle" /\ NoWork /\ file' = file
    BY <1>3 DEF Halt, fileVars
  <2>2. /\ pc'[a] = "end" /\ mem'[a].completed = file.completed
        /\ mem'[a].status # "dormant"
        /\ Counting' => disturbed' = disturbed + 1 \/ (Alone(a) /\ disturbed' = disturbed)
        /\ \A b \in Actors : b # a => pc'[b] = pc[b] /\ mem'[b] = mem[b]
    BY <1>0, <1>3, HaltMoves
  <2> QED BY <1>0, <2>1, <2>2, PaidBegin
<1>4. ASSUME NEW a \in Actors, Signal(a)
      PROVE  Paid' /\ DraftPaid'
  <2>1. pc[a] = "idle" /\ NoWork /\ file' = file
    BY <1>4 DEF Signal, fileVars
  <2>2. /\ pc'[a] = "reengage" /\ mem'[a] = file /\ file.status = "dormant"
        /\ Counting' => disturbed' = disturbed + 1 \/ (Alone(a) /\ disturbed' = disturbed)
        /\ \A b \in Actors : b # a => pc'[b] = pc[b] /\ mem'[b] = mem[b]
    BY <1>0, <1>4, SignalMoves
  <2>3. Watched \in file.completed
    BY <1>0, <2>2 DEF Rested
  <2> QED BY <1>0, <2>1, <2>2, <2>3, PaidBegin
<1>5. ASSUME NEW a \in Actors, Rest(a) \/ Save(a) \/ Reengage(a) \/ Crash(a)
      PROVE  Paid' /\ DraftPaid'
  BY <1>0, <1>5, PaidRest, PaidSave, PaidReengage, PaidCrash
<1>6. ASSUME NEW a \in Actors, NEW s \in Stages, RunStage(a, s)
      PROVE  Paid' /\ DraftPaid'
  BY <1>0, <1>6, PaidStage
<1>7. CASE UNCHANGED vars
  <2>1. UNCHANGED <<file, pc, mem, times, drafts, disturbed>>
    BY <1>7 DEF vars, fileVars, historyVars
  <2> QED BY <2>1, PaidStutter
<1> QED BY <1>1, <1>2, <1>3, <1>4, <1>5, <1>6, <1>7 DEF Next, GoOn

LEMMA PaidInvariant == Spec => [](Typed /\ Copies /\ Paid /\ DraftPaid)
<1> DEFINE I == Typed /\ Copies /\ Paid /\ DraftPaid
<1>1. Init => I
  BY TypedInit, CopiesInit, PaidInit
<1>2. I /\ [Next]_vars => I'
  BY TypedStep, CopiesStep, PaidStep
<1> QED BY <1>1, <1>2, PTL DEF Spec

LEMMA PaidCounts ==
  ASSUME Typed, Paid, DraftPaid
  PROVE  RepeatsPaid /\ DraftsPaid
<1> SUFFICES ASSUME Counting
             PROVE  times <= 1 + disturbed /\ drafts <= 1 + disturbed
  BY DEF RepeatsPaid, DraftsPaid
<1>1. times \in Nat /\ drafts \in Nat /\ disturbed \in Nat
  BY CashAssumption DEF Typed, TypeOK
<1>2. Lacking \in SUBSET Actors /\ Resters \in SUBSET Actors
  BY DEF Lacking, Resters
<1>3. IsFiniteSet(Lacking) /\ IsFiniteSet(Resters)
  BY <1>2, CashAssumption, FS_Subset
<1>4. Cardinality(Lacking) \in Nat /\ Cardinality(Resters) \in Nat
  BY <1>3, FS_CardinalityType
<1>5. Open \in {0, 1} /\ Waiting \in {0, 1}
  BY DEF Open, Waiting
<1> QED BY <1>1, <1>4, <1>5 DEF Paid, DraftPaid

\* Every repetition of a stage's work is paid for by a fault or by an overlap of
\* two actors, whatever the number of actors, redeliveries, halts and
\* re-engagements (process_job).
THEOREM Repeats == Spec => []RepeatsPaid
<1>1. Typed /\ Copies /\ Paid /\ DraftPaid => RepeatsPaid
  BY PaidCounts
<1> QED BY PaidInvariant, <1>1, PTL

\* So is every voicemail drafted between two rests of the deal, beyond the first
\* (reengage).
THEOREM Drafts == Spec => []DraftsPaid
<1>1. Typed /\ Copies /\ Paid /\ DraftPaid => DraftsPaid
  BY PaidCounts
<1> QED BY PaidInvariant, <1>1, PTL

-----------------------------------------------------------------------------
(***************************************************************************)
(* A walk that was begun gets nearer its end with every step of its own.   *)
(***************************************************************************)

LEMMA StagesFinite == IsFiniteSet(Stages)
<1>1. 1 \in Int /\ 5 \in Int
  OBVIOUS
<1>2. IsFiniteSet(1..5)
  BY <1>1, FS_Interval, Zenon
<1> QED BY <1>2 DEF Stages

\* Stages still to be complete.
LEMMA AheadCount ==
  ASSUME NEW c \in SUBSET Stages
  PROVE  Cardinality(Stages \ c) \in Nat
<1>1. IsFiniteSet(Stages)
  BY StagesFinite
<1> QED BY <1>1, FS_Subset, FS_CardinalityType

\* One stage less.
LEMMA AheadLess ==
  ASSUME NEW c \in SUBSET Stages, NEW s \in Stages, s \notin c
  PROVE  Cardinality(Stages \ (c \cup {s})) = Cardinality(Stages \ c) - 1
<1>1. IsFiniteSet(Stages)
  BY StagesFinite
<1>2. IsFiniteSet(Stages \ c)
  BY <1>1, FS_Subset
<1>3. Stages \ (c \cup {s}) = (Stages \ c) \ {s} /\ s \in Stages \ c
  OBVIOUS
<1> QED BY <1>2, <1>3, FS_RemoveElement

LEMMA ShrinkStep ==
  ASSUME Typed, Copies, [Next]_vars, NEW a \in Actors, pc[a] # "idle"
  PROVE  Rank(a)' < Rank(a) \/ UNCHANGED <<pc[a], mem[a]>>
<1> DEFINE n == Cardinality(Stages \ mem[a].completed)
<1>0. TypeOK /\ mem[a] \in State /\ pc[a] \in Steps
  BY DEF Typed, TypeOK
<1>1. mem[a].completed \in SUBSET Stages /\ n \in Nat
  BY <1>0, AheadCount DEF State
<1> HIDE DEF n
<1>2. CASE SetStake \/ Win \/ Review
  BY <1>2 DEF SetStake, Win, Review
<1>3. ASSUME NEW b \in Actors, Take(b) \/ Halt(b) \/ Signal(b)
      PROVE  UNCHANGED <<pc[a], mem[a]>>
  <2>1. a # b
    BY <1>3 DEF Take, Halt, Signal
  <2> QED BY <1>0, <1>3, <2>1, TakeMoves, HaltMoves, SignalMoves
<1>4. ASSUME NEW b \in Actors, GoOn(b) \/ Crash(b), b # a
      PROVE  UNCHANGED <<pc[a], mem[a]>>
  <2>1. CASE Crash(b)
    <3>1. Leave(b)
      BY <2>1 DEF Crash
    <3> QED BY <1>0, <1>4, <3>1, Left
  <2>2. CASE GoOn(b)
    BY <1>0, <1>4, <2>2, RestMoves, SaveMoves, ReengageMoves, StageMoves DEF GoOn
  <2> QED BY <1>4, <2>1, <2>2
<1>5. CASE Crash(a)
  <2>1. pc'[a] = "idle"
    <3>1. Leave(a)
      BY <1>5 DEF Crash
    <3> QED BY <1>0, <3>1, Left
  <2>2. Rank(a)' = 0
    BY <2>1 DEF Rank
  <2>3. Rank(a) \in Nat /\ Rank(a) > 0
    BY <1>0, <1>1 DEF Rank, Steps, n
  <2> QED BY <2>2, <2>3
<1>6. CASE Rest(a)
  <2>1. Rank(a)' = 1
    BY <1>0, <1>6, RestMoves DEF Rank
  <2>2. Rank(a) = 2 * n + 2
    BY <1>0, <1>6, RestMoves DEF Rank, n
  <2> QED BY <1>1, <2>1, <2>2
<1>7. CASE Save(a)
  <2>1. CASE pc[a] = "save" /\ pc'[a] = "walk" /\ mem'[a] = mem[a]
    <3>1. Rank(a)' = 2 * n + 2 /\ Rank(a) = 2 * n + 3
      BY <2>1 DEF Rank, n
    <3> QED BY <1>1, <3>1
  <2>2. CASE pc[a] = "end" /\ pc'[a] = "idle"
    BY <2>2 DEF Rank
  <2> QED BY <1>0, <1>7, <2>1, <2>2, SaveMoves
<1>8. CASE Reengage(a)
  <2>1. pc[a] = "reengage" /\ pc'[a] \in {"end", "idle"}
    BY <1>0, <1>8, ReengageMoves
  <2> QED BY <2>1 DEF Rank
<1>9. ASSUME NEW s \in Stages, RunStage(a, s)
      PROVE  Rank(a)' < Rank(a)
  <2>1. pc[a] = "walk" /\ s \notin mem[a].completed
    BY <1>0, <1>9, StageMoves DEF IsNext, Ahead
  <2>2. Rank(a) = 2 * n + 2
    BY <2>1 DEF Rank, n
  <2>3. CASE pc'[a] = "end"
    <3>1. Rank(a)' = 1
      BY <2>3 DEF Rank
    <3> QED BY <1>1, <2>2, <3>1
  <2>4. CASE pc'[a] = "save" /\ mem'[a].completed = mem[a].completed \cup {s}
    <3>1. Rank(a)' = 2 * Cardinality(Stages \ (mem[a].completed \cup {s})) + 3
      BY <2>4 DEF Rank
    <3>2. Cardinality(Stages \ (mem[a].completed \cup {s})) = n - 1
      BY <1>1, <2>1, AheadLess DEF n
    <3> QED BY <1>1, <2>2, <3>1, <3>2
  <2> QED BY <1>0, <1>9, <2>3, <2>4, StageMoves
<1>10. CASE UNCHANGED vars
  BY <1>10 DEF vars
<1>11. GoOn(a) => Rank(a)' < Rank(a) \/ UNCHANGED <<pc[a], mem[a]>>
  BY <1>6, <1>7, <1>8, <1>9 DEF GoOn
<1> QED BY <1>2, <1>3, <1>4, <1>5, <1>10, <1>11 DEF Next

\* With any number of actors, faults and overlaps, no step of a walk is ever
\* tried again: a walk of five stages ends after a bounded number of its own steps
\* (process_job).
THEOREM Shrinks == Spec => WalkShrinks
<1>1. Typed /\ Copies /\ [Next]_vars
        => [\A a \in Actors : pc[a] # "idle" =>
                Rank(a)' < Rank(a) \/ UNCHANGED <<pc[a], mem[a]>>]_vars
  BY ShrinkStep
<1> QED BY PaidInvariant, <1>1, PTL DEF Spec, WalkShrinks

=============================================================================

--------------------------- MODULE CampaignProofs ---------------------------
(***************************************************************************)
(* What the campaign orchestrator guarantees for every template, set of    *)
(* requests, number of operations and faults.                              *)
(***************************************************************************)
EXTENDS Campaign, FiniteSetTheorems, TLAPS

-----------------------------------------------------------------------------
(***************************************************************************)
(* Type correctness, with what holds of a drive that is under way: what is *)
(* to do was ready and was not tried since; unless a node completed in     *)
(* this pass nothing else is ready; and there are more passes left than    *)
(* nodes that could make one necessary.                                    *)
(***************************************************************************)

Left(m) == Cardinality(Nodes \ m.completed)

InDrive(m, d) ==
    /\ \A n \in d.todo : template.preds[n] \subseteq m.completed
    /\ \A n \in d.todo : n \notin m.completed \cup m.failed
    /\ ~d.gained => Ready(m) \subseteq d.todo
    /\ ~d.gained => Left(m) <= d.left
    /\ d.gained => Left(m) < d.left

Legal(s, m, d) ==
    /\ s \in Steps
    /\ m \in Run
    /\ d \in Drive
    /\ s \in {"node", "save"} => InDrive(m, d)

Typed ==
    /\ TypeOK
    /\ \A a \in Actors : Legal(pc[a], mem[a], drive[a])

\* No disturbance so far.
Undisturbed == disturbed = 0

LEMMA Disturbed ==
  ASSUME TypeOK, Disturb
  PROVE  /\ disturbed' \in 0..MaxCount /\ ~Undisturbed'
         /\ Counting' => disturbed' = disturbed + 1
BY CampaignAssumption DEF Disturb, Counting, Undisturbed, TypeOK

LEMMA FaultStep ==
  ASSUME TypeOK, Fault
  PROVE  /\ faults' \in 0..MaxFaults
         /\ disturbed' \in 0..MaxCount /\ ~Undisturbed'
         /\ Counting' => disturbed' = disturbed + 1
BY Disturbed, CampaignAssumption DEF Fault, TypeOK

\* A step that dispatches nothing keeps the count, as long as there is counting.
LEMMA NoWorkStep ==
  ASSUME TypeOK, NoWork
  PROVE  /\ attempted' = attempted /\ worked' = worked /\ times' \in Nat
         /\ Counting' => times' = times
BY DEF NoWork, Tally, TypeOK

\* The nodes left are a number, at most all of them.
LEMMA LeftBound ==
  ASSUME NEW m \in Run
  PROVE  Left(m) \in 0..Total
<1>1. IsFiniteSet(Nodes) /\ Cardinality(Nodes) = Total
  BY FS_Interval, CampaignAssumption DEF Nodes
<1>2. Left(m) <= Cardinality(Nodes) /\ IsFiniteSet(Nodes \ m.completed)
  BY <1>1, FS_Subset DEF Left
<1>3. Left(m) \in Nat
  BY <1>2, FS_CardinalityType DEF Left
<1> QED BY <1>1, <1>2, <1>3, CampaignAssumption

\* Completing a node leaves one less.
LEMMA LeftLess ==
  ASSUME NEW m \in Run, NEW n \in Nodes \ m.completed, NEW k \in Run,
         k.completed = m.completed \cup {n}
  PROVE  Left(k) = Left(m) - 1
<1>0. IsFiniteSet(Nodes)
  BY FS_Interval, CampaignAssumption DEF Nodes
<1>1. IsFiniteSet(Nodes \ m.completed)
  BY <1>0, FS_Subset
<1>2. Nodes \ k.completed = (Nodes \ m.completed) \ {n}
  OBVIOUS
<1> QED BY <1>1, <1>2, FS_RemoveElement DEF Left

\* An actor moved: what holds of its new place holds of every actor.
LEMMA Moved ==
  ASSUME Typed, NEW a \in Actors, NEW s, NEW m, NEW d,
         Goto(a, s, m, d), Legal(s, m, d), template' = template
  PROVE  /\ \A b \in Actors : Legal(pc[b], mem[b], drive[b])'
         /\ pc' \in [Actors -> Steps] /\ mem' \in [Actors -> Run] /\ drive' \in [Actors -> Drive]
<1>1. pc' \in [Actors -> Steps] /\ mem' \in [Actors -> Run] /\ drive' \in [Actors -> Drive]
  BY DEF Typed, TypeOK, Goto, Legal
<1>2. ASSUME NEW t \in Steps, NEW k \in Run, NEW e \in Drive, Legal(t, k, e)
      PROVE  Legal(t, k, e)'
  BY <1>2 DEF Legal, InDrive, Ready, Satisfied
<1>3. ASSUME NEW b \in Actors
      PROVE  Legal(pc[b], mem[b], drive[b])'
  <2>1. CASE b = a
    <3>1. pc'[b] = s /\ mem'[b] = m /\ drive'[b] = d
      BY <2>1 DEF Goto, Typed, TypeOK
    <3>2. s \in Steps /\ m \in Run /\ d \in Drive
      BY DEF Legal
    <3> QED BY <1>2, <3>1, <3>2
  <2>2. CASE b # a
    <3>1. pc'[b] = pc[b] /\ mem'[b] = mem[b] /\ drive'[b] = drive[b]
      BY <2>2 DEF Goto, Typed, TypeOK
    <3>2. pc[b] \in Steps /\ mem[b] \in Run /\ drive[b] \in Drive /\ Legal(pc[b], mem[b], drive[b])
      BY DEF Typed, TypeOK
    <3> QED BY <1>2, <3>1, <3>2
  <2> QED BY <2>1, <2>2
<1> QED BY <1>1, <1>3

\* Nobody moved.
LEMMA Unmoved ==
  ASSUME Typed, UNCHANGED driveVars, template' = template
  PROVE  /\ \A b \in Actors : Legal(pc[b], mem[b], drive[b])'
         /\ pc' \in [Actors -> Steps] /\ mem' \in [Actors -> Run] /\ drive' \in [Actors -> Drive]
<1>1. pc' = pc /\ mem' = mem /\ drive' = drive
  BY DEF driveVars
<1>2. ASSUME NEW b \in Actors
      PROVE  Legal(pc[b], mem[b], drive[b])'
  BY <1>1 DEF Typed, Legal, InDrive, Ready, Satisfied
<1> QED BY <1>1, <1>2 DEF Typed, TypeOK

LEMMA FreshRun == Fresh \in Run /\ NoDrive \in Drive
BY CampaignAssumption DEF Fresh, Run, States, NoDrive, Drive

\* _settle_state changes the state alone.
LEMMA SettledRun ==
  ASSUME NEW m \in Run
  PROVE  /\ Settled(m) \in Run
         /\ Settled(m).completed = m.completed /\ Settled(m).failed = m.failed
         /\ Settled(m).blocked = m.blocked /\ Settled(m).waiting = m.waiting
         /\ Settled(m).request = m.request /\ Settled(m).kpi = m.kpi
         /\ Settled(m).state \in {"cancelled", "completed", "failed", "blocked", "needs_approval", "paused"}
         /\ Settled(m).state = "completed" => m.completed = Nodes
BY DEF Settled, Run, States

\* A pass begins, or the drive ends.
LEMMA PassLegal ==
  ASSUME Typed, NEW a \in Actors, NEW m \in Run, NEW left \in 0..(Total + 1),
         Left(m) < left, Pass(a, m, left)
  PROVE  \E s, k, d :
            /\ Goto(a, s, k, d) /\ Legal(s, k, d)
            /\ \/ s = "end" /\ k = Settled(m) /\ Ready(m) = {}
               \/ s = "node" /\ k = m /\ d.todo = Ready(m) /\ d.left < left
<1>1. Left(m) \in 0..Total /\ left # 0
  BY LeftBound, CampaignAssumption
<1>2. CASE Ready(m) = {}
  <2>1. Goto(a, "end", Settled(m), NoDrive)
    BY <1>2 DEF Pass
  <2>2. Legal("end", Settled(m), NoDrive)
    BY SettledRun, FreshRun DEF Legal, Steps
  <2> QED BY <1>2, <2>1, <2>2
<1>3. CASE Ready(m) # {}
  <2> DEFINE d == [todo |-> Ready(m), left |-> left - 1, gained |-> FALSE]
  <2>1. Goto(a, "node", m, d)
    BY <1>1, <1>3 DEF Pass
  <2>2. d \in Drive
    BY <1>1, CampaignAssumption DEF Drive, Ready
  <2>3. InDrive(m, d)
    BY <1>1, CampaignAssumption DEF InDrive, Ready, Satisfied, Excluded
  <2>4. Legal("node", m, d)
    BY <2>2, <2>3 DEF Legal, Steps
  <2>5. d.todo = Ready(m) /\ d.left < left
    BY <1>1
  <2> QED BY <2>1, <2>4, <2>5
<1> QED BY <1>2, <1>3

\* The copies a node's execution makes are runs.
LEMMA NodeCopies ==
  ASSUME NEW m \in Run, NEW n \in Nodes, NEW kpi \in BOOLEAN
  PROVE  /\ Completed(m, n, kpi) \in Run
         /\ Completed(m, n, kpi).completed = m.completed \cup {n}
         /\ Completed(m, n, kpi).failed = m.failed \ {n}
         /\ Completed(m, n, kpi).request = m.request
         /\ Completed(m, n, kpi).state = m.state
         /\ Failed(m, n) \in Run
         /\ Failed(m, n).completed = m.completed
         /\ Failed(m, n).failed = m.failed \cup {n}
         /\ Failed(m, n).request = m.request
         /\ Failed(m, n).state = m.state
         /\ Failed(m, n).kpi = m.kpi
         /\ Excluded(Failed(m, n)) = Excluded(m) \cup {n}
<1>1. /\ Completed(m, n, kpi) \in Run
      /\ Completed(m, n, kpi).completed = m.completed \cup {n}
      /\ Completed(m, n, kpi).failed = m.failed \ {n}
      /\ Completed(m, n, kpi).request = m.request
      /\ Completed(m, n, kpi).state = m.state
  BY DEF Completed, Run
<1>2. /\ Failed(m, n) \in Run
      /\ Failed(m, n).completed = m.completed
      /\ Failed(m, n).failed = m.failed \cup {n}
      /\ Failed(m, n).request = m.request
      /\ Failed(m, n).state = m.state
      /\ Failed(m, n).kpi = m.kpi
      /\ Failed(m, n).blocked = m.blocked \ {n}
      /\ Failed(m, n).waiting = m.waiting \ {n}
  BY DEF Failed, Run
<1>3. Excluded(Failed(m, n)) = Excluded(m) \cup {n}
  BY <1>2 DEF Excluded
<1> QED BY <1>1, <1>2, <1>3

\* A node that did not complete is out of the pass, and nothing else is.
LEMMA DoneLegal ==
  ASSUME Typed, NEW a \in Actors, pc[a] = "node", NEW n \in drive[a].todo,
         NEW k \in Run, Done(a, n, k, FALSE),
         k.completed = mem[a].completed, k.kpi = mem[a].kpi,
         k.failed \subseteq mem[a].failed \cup {n},
         Excluded(k) = Excluded(mem[a]) \cup {n}
  PROVE  \E d \in Drive : /\ Goto(a, "save", k, d) /\ Legal("save", k, d)
                           /\ d.todo = drive[a].todo \ {n} /\ d.left = drive[a].left
<1> DEFINE d == [drive[a] EXCEPT !.todo = @ \ {n}, !.gained = @ \/ FALSE]
<1>1. drive[a] \in Drive /\ mem[a] \in Run /\ InDrive(mem[a], drive[a])
  BY DEF Typed, TypeOK, Legal
<1>2. d \in Drive /\ d.todo = drive[a].todo \ {n} /\ d.left = drive[a].left
  BY <1>1 DEF Drive
<1>3. d.gained = drive[a].gained
  BY <1>1 DEF Drive
<1>4. Ready(k) \subseteq Ready(mem[a]) \ {n} /\ Left(k) = Left(mem[a])
  BY DEF Ready, Satisfied, Left
<1>5. InDrive(k, d)
  <2>1. \A i \in d.todo : template.preds[i] \subseteq k.completed /\ i \notin k.completed \cup k.failed
    BY <1>1, <1>2 DEF InDrive
  <2>2. ~d.gained => Ready(k) \subseteq d.todo
    BY <1>1, <1>2, <1>3, <1>4 DEF InDrive
  <2>3. (~d.gained => Left(k) <= d.left) /\ (d.gained => Left(k) < d.left)
    BY <1>1, <1>2, <1>3, <1>4 DEF InDrive
  <2> HIDE DEF d
  <2> QED BY <2>1, <2>2, <2>3 DEF InDrive
<1>6. Legal("save", k, d)
  BY <1>2, <1>5 DEF Legal, Steps
<1>7. Goto(a, "save", k, d)
  BY DEF Done
<1> QED BY <1>2, <1>6, <1>7

\* A node completed.
LEMMA GainLegal ==
  ASSUME Typed, NEW a \in Actors, pc[a] = "node", NEW n \in drive[a].todo,
         NEW k \in Run, Done(a, n, k, TRUE),
         k.completed = mem[a].completed \cup {n}, k.failed \subseteq mem[a].failed
  PROVE  \E d \in Drive : /\ Goto(a, "save", k, d) /\ Legal("save", k, d)
                           /\ d.todo = drive[a].todo \ {n} /\ d.left = drive[a].left
<1> DEFINE d == [drive[a] EXCEPT !.todo = @ \ {n}, !.gained = @ \/ TRUE]
<1>1. drive[a] \in Drive /\ mem[a] \in Run /\ InDrive(mem[a], drive[a])
  BY DEF Typed, TypeOK, Legal
<1>2. /\ d \in Drive /\ d.todo = drive[a].todo \ {n} /\ d.left = drive[a].left
      /\ d.gained = TRUE
  BY <1>1 DEF Drive
<1>3. n \in Nodes \ mem[a].completed
  BY <1>1 DEF InDrive, Drive
<1>4. Left(k) = Left(mem[a]) - 1 /\ Left(mem[a]) \in 0..Total
  BY <1>1, <1>3, LeftLess, LeftBound
<1>5. InDrive(k, d)
  <2>1. \A i \in d.todo : template.preds[i] \subseteq k.completed /\ i \notin k.completed \cup k.failed
    BY <1>1, <1>2 DEF InDrive
  <2>2. drive[a].left \in 0..(Total + 1) /\ Left(mem[a]) <= drive[a].left
    BY <1>1, <1>4, CampaignAssumption DEF InDrive, Drive
  <2>3. Left(k) < d.left
    BY <1>2, <1>4, <2>2, CampaignAssumption
  <2> HIDE DEF d
  <2> QED BY <1>2, <2>1, <2>3 DEF InDrive
<1>6. Legal("save", k, d)
  BY <1>2, <1>5 DEF Legal, Steps
<1>7. Goto(a, "save", k, d)
  BY DEF Done
<1> QED BY <1>2, <1>6, <1>7

\* What a node's execution does to the actor's copy, the queue and the history.
Refused(a, n, k) ==
    /\ k.completed = mem[a].completed /\ k.failed = mem[a].failed
    /\ UNCHANGED historyVars
    /\ \/ k.request = mem[a].request /\ UNCHANGED <<owner, queueVars>>
       \/ \E j \in Ids :
             /\ Submit(j) /\ owner' = [owner EXCEPT ![j] = n]
             /\ k.request = [mem[a].request EXCEPT ![n] = j]

Tried(a, n, k) ==
    /\ n \notin template.unsafe
    /\ n \in template.gated => IsSatisfied(mem[a].request[n])
    /\ n \notin template.gated => UNCHANGED queueVars
    /\ attempted' = attempted \cup {n}
    /\ times' = Tally(IF n = Watched THEN times + 1 ELSE times)
    /\ UNCHANGED owner
    /\ k.request = mem[a].request
    /\ \/ /\ k.completed = mem[a].completed \cup {n} /\ k.failed = mem[a].failed \ {n}
          /\ worked' = worked \cup {n}
       \/ /\ k.completed = mem[a].completed /\ k.failed = mem[a].failed \cup {n}
          /\ worked' = worked

LEMMA ExecuteMoves ==
  ASSUME Typed, NEW a \in Actors, Execute(a)
  PROVE  \E n \in drive[a].todo, k \in Run, d \in Drive :
            /\ Goto(a, "save", k, d) /\ Legal("save", k, d)
            /\ d.todo = drive[a].todo \ {n} /\ d.left = drive[a].left
            /\ k.state = mem[a].state
            /\ Refused(a, n, k) \/ Tried(a, n, k)
<1>1. /\ pc[a] = "node" /\ mem[a] \in Run /\ drive[a] \in Drive
      /\ InDrive(mem[a], drive[a])
  BY DEF Typed, TypeOK, Legal, Execute
<1>2. PICK n \in Nodes :
          IsNext(a, n) /\ (RejectUnsafe(a, n) \/ Pause(a, n) \/ Dispatch(a, n))
  BY DEF Execute
<1>3. n \in drive[a].todo
  BY <1>2 DEF IsNext
<1>4. CASE RejectUnsafe(a, n)
  <2> DEFINE k == [mem[a] EXCEPT !.blocked = @ \cup {n}]
  <2>1. /\ k \in Run /\ k.completed = mem[a].completed /\ k.failed = mem[a].failed
        /\ k.kpi = mem[a].kpi /\ k.state = mem[a].state /\ k.request = mem[a].request
        /\ k.blocked = mem[a].blocked \cup {n} /\ k.waiting = mem[a].waiting
    BY <1>1 DEF Run
  <2>2. Done(a, n, k, FALSE) /\ UNCHANGED <<owner, historyVars, queueVars>>
    BY <1>4 DEF RejectUnsafe
  <2> HIDE DEF k
  <2>3. Excluded(k) = Excluded(mem[a]) \cup {n}
    BY <2>1 DEF Excluded
  <2>4. PICK d \in Drive : Goto(a, "save", k, d) /\ Legal("save", k, d) /\ d.todo = drive[a].todo \ {n} /\ d.left = drive[a].left
    BY <1>1, <1>3, <2>1, <2>2, <2>3, DoneLegal
  <2>5. Refused(a, n, k)
    BY <2>1, <2>2 DEF Refused
  <2> QED BY <1>3, <2>1, <2>4, <2>5
<1>5. CASE Pause(a, n)
  <2>1. CASE \E j \in Ids :
                /\ Submit(j)
                /\ owner' = [owner EXCEPT ![j] = n]
                /\ Done(a, n, [mem[a] EXCEPT !.request[n] = j, !.waiting = @ \cup {n}], FALSE)
    <3>1. PICK j \in Ids :
                /\ Submit(j)
                /\ owner' = [owner EXCEPT ![j] = n]
                /\ Done(a, n, [mem[a] EXCEPT !.request[n] = j, !.waiting = @ \cup {n}], FALSE)
      BY <2>1
    <3> DEFINE k == [mem[a] EXCEPT !.request[n] = j, !.waiting = @ \cup {n}]
    <3>2. /\ k \in Run /\ k.completed = mem[a].completed /\ k.failed = mem[a].failed
          /\ k.kpi = mem[a].kpi /\ k.state = mem[a].state
          /\ k.request = [mem[a].request EXCEPT ![n] = j]
          /\ k.blocked = mem[a].blocked /\ k.waiting = mem[a].waiting \cup {n}
      BY <1>1 DEF Run
    <3>3. Done(a, n, k, FALSE) /\ UNCHANGED historyVars
      BY <1>5, <3>1 DEF Pause
    <3> HIDE DEF k
    <3>4. Excluded(k) = Excluded(mem[a]) \cup {n}
      BY <3>2 DEF Excluded
    <3>5. PICK d \in Drive : Goto(a, "save", k, d) /\ Legal("save", k, d) /\ d.todo = drive[a].todo \ {n} /\ d.left = drive[a].left
      BY <1>1, <1>3, <3>2, <3>3, <3>4, DoneLegal
    <3>6. Refused(a, n, k)
      BY <3>1, <3>2, <3>3 DEF Refused
    <3> QED BY <1>3, <3>2, <3>5, <3>6
  <2>2. CASE /\ Done(a, n, [mem[a] EXCEPT !.waiting = @ \cup {n}], FALSE)
             /\ UNCHANGED <<owner, queueVars>>
    <3> DEFINE k == [mem[a] EXCEPT !.waiting = @ \cup {n}]
    <3>2. /\ k \in Run /\ k.completed = mem[a].completed /\ k.failed = mem[a].failed
          /\ k.kpi = mem[a].kpi /\ k.state = mem[a].state /\ k.request = mem[a].request
          /\ k.blocked = mem[a].blocked /\ k.waiting = mem[a].waiting \cup {n}
      BY <1>1 DEF Run
    <3>3. Done(a, n, k, FALSE) /\ UNCHANGED historyVars
      BY <1>5, <2>2 DEF Pause
    <3> HIDE DEF k
    <3>4. Excluded(k) = Excluded(mem[a]) \cup {n}
      BY <3>2 DEF Excluded
    <3>5. PICK d \in Drive : Goto(a, "save", k, d) /\ Legal("save", k, d) /\ d.todo = drive[a].todo \ {n} /\ d.left = drive[a].left
      BY <1>1, <1>3, <3>2, <3>3, <3>4, DoneLegal
    <3>6. Refused(a, n, k)
      BY <2>2, <3>2, <3>3 DEF Refused
    <3> QED BY <1>3, <3>2, <3>5, <3>6
  <2> QED BY <1>5, <2>1, <2>2 DEF Pause
<1>6. CASE Dispatch(a, n)
  <2>1. /\ n \notin template.unsafe
        /\ n \in template.gated => IsSatisfied(mem[a].request[n])
        /\ n \notin template.gated => UNCHANGED queueVars
        /\ attempted' = attempted \cup {n}
        /\ times' = Tally(IF n = Watched THEN times + 1 ELSE times)
        /\ UNCHANGED owner
    BY <1>6 DEF Dispatch
  <2>2. CASE (\E kpi \in Kpis : Done(a, n, Completed(mem[a], n, kpi), TRUE)) /\ worked' = worked \cup {n}
    <3>1. PICK kpi \in BOOLEAN : Done(a, n, Completed(mem[a], n, kpi), TRUE)
      BY <2>2 DEF Kpis
    <3> DEFINE k == Completed(mem[a], n, kpi)
    <3>2. /\ k \in Run /\ k.completed = mem[a].completed \cup {n}
          /\ k.failed = mem[a].failed \ {n}
          /\ k.state = mem[a].state /\ k.request = mem[a].request
      BY <1>1, NodeCopies
    <3>3. Done(a, n, k, TRUE)
      BY <3>1
    <3> HIDE DEF k
    <3>4. PICK d \in Drive : Goto(a, "save", k, d) /\ Legal("save", k, d) /\ d.todo = drive[a].todo \ {n} /\ d.left = drive[a].left
      BY <1>1, <1>3, <3>2, <3>3, GainLegal
    <3>5. Tried(a, n, k)
      BY <2>1, <2>2, <3>2 DEF Tried
    <3> QED BY <1>3, <3>2, <3>4, <3>5
  <2>3. CASE Done(a, n, Failed(mem[a], n), FALSE) /\ UNCHANGED worked
    <3> DEFINE k == Failed(mem[a], n)
    <3>1. /\ k \in Run /\ k.completed = mem[a].completed
          /\ k.failed = mem[a].failed \cup {n} /\ k.kpi = mem[a].kpi
          /\ k.state = mem[a].state /\ k.request = mem[a].request
          /\ Excluded(k) = Excluded(mem[a]) \cup {n}
      BY <1>1, NodeCopies
    <3>2. Done(a, n, k, FALSE)
      BY <2>3
    <3> HIDE DEF k
    <3>3. PICK d \in Drive : Goto(a, "save", k, d) /\ Legal("save", k, d) /\ d.todo = drive[a].todo \ {n} /\ d.left = drive[a].left
      BY <1>1, <1>3, <3>1, <3>2, DoneLegal
    <3>4. Tried(a, n, k)
      BY <2>1, <2>3, <3>1 DEF Tried
    <3> QED BY <1>3, <3>1, <3>3, <3>4
  <2> QED BY <1>6, <2>2, <2>3 DEF Dispatch
<1> QED BY <1>2, <1>4, <1>5, <1>6

AtRest == {"cancelled", "completed", "failed", "blocked", "needs_approval", "paused"}

\* A copy that a drive or an operation carries on: what was done, and for which
\* requests, is that of m.
Carries(k, m) ==
    /\ k.completed = m.completed /\ k.failed = m.failed /\ k.request = m.request
    /\ k.state = "completed" => m.state = "completed" \/ m.completed = Nodes

\* The drive has nothing left to do.
Exhausted(k) == Ready(k) = {} /\ k.state \in AtRest

LEMMA SettledCarries ==
  ASSUME NEW m \in Run
  PROVE  Carries(Settled(m), m) /\ (Ready(m) = {} => Exhausted(Settled(m)))
<1>1. Ready(Settled(m)) = Ready(m)
  BY SettledRun DEF Ready, Satisfied, Excluded
<1> QED BY <1>1, SettledRun DEF Carries, Exhausted, AtRest

LEMMA PassMoves ==
  ASSUME Typed, NEW a \in Actors, NEW m \in Run, NEW left \in 0..(Total + 1),
         Left(m) < left, Pass(a, m, left)
  PROVE  \E s \in {"node", "end"}, k \in Run, d \in Drive :
            /\ Goto(a, s, k, d) /\ Legal(s, k, d) /\ Carries(k, m)
            /\ s = "end" => Exhausted(k)
            /\ s = "node" => d.left < left
<1>1. PICK s, k, d :
            /\ Goto(a, s, k, d) /\ Legal(s, k, d)
            /\ \/ s = "end" /\ k = Settled(m) /\ Ready(m) = {}
               \/ s = "node" /\ k = m /\ d.todo = Ready(m) /\ d.left < left
  BY PassLegal
<1>2. k \in Run /\ d \in Drive
  BY <1>1 DEF Legal
<1>3. CASE s = "end" /\ k = Settled(m) /\ Ready(m) = {}
  BY <1>1, <1>2, <1>3, SettledCarries
<1>4. CASE s = "node" /\ k = m /\ d.left < left
  <2>1. Carries(k, m)
    BY <1>4 DEF Carries
  <2> QED BY <1>1, <1>2, <1>4, <2>1
<1> QED BY <1>1, <1>3, <1>4

\* After a save the drive goes on, or there is nothing left to do.
LEMMA SaveMoves ==
  ASSUME Typed, NEW a \in Actors, Save(a)
  PROVE  \E s \in {"node", "end"}, k \in Run, d \in Drive :
            /\ Goto(a, s, k, d) /\ Legal(s, k, d) /\ Carries(k, mem[a])
            /\ s = "end" => Exhausted(k)
            /\ s = "node" => d = drive[a] \/ d.left < drive[a].left
<1>1. /\ pc[a] = "save" /\ mem[a] \in Run /\ drive[a] \in Drive
      /\ InDrive(mem[a], drive[a])
  BY DEF Typed, TypeOK, Legal, Save
<1>2. Carries(mem[a], mem[a]) /\ NoDrive \in Drive
  BY FreshRun DEF Carries
<1>3. CASE drive[a].todo # {}
  <2>1. Goto(a, "node", mem[a], drive[a])
    BY <1>3 DEF Save
  <2>2. Legal("node", mem[a], drive[a])
    BY <1>1 DEF Legal, Steps
  <2> QED BY <1>1, <1>2, <2>1, <2>2
<1>4. CASE drive[a].todo = {} /\ drive[a].gained
  <2>1. Pass(a, mem[a], drive[a].left)
    BY <1>4 DEF Save, GoesOn
  <2>2. drive[a].left \in 0..(Total + 1) /\ Left(mem[a]) < drive[a].left
    BY <1>1, <1>4 DEF InDrive, Drive
  <2> QED BY <1>1, <2>1, <2>2, PassMoves
<1>5. CASE drive[a].todo = {} /\ ~drive[a].gained
  <2>1. Goto(a, "end", Settled(mem[a]), NoDrive)
    BY <1>5 DEF Save, GoesOn
  <2>2. Ready(mem[a]) = {}
    BY <1>1, <1>5 DEF InDrive
  <2>3. Legal("end", Settled(mem[a]), NoDrive) /\ Settled(mem[a]) \in Run
    BY <1>1, SettledRun, FreshRun DEF Legal, Steps
  <2> QED BY <1>1, <1>2, <2>1, <2>2, <2>3, SettledCarries
<1> QED BY <1>3, <1>4, <1>5

LEMMA IdleLegal == Legal("idle", Fresh, NoDrive)
BY FreshRun DEF Legal, Steps

Operation(a) ==
    \/ Start(a) \/ Advance(a) \/ Cancel(a) \/ IngestKpi(a)
    \/ \E i \in Ids, n \in Nodes : ApproveNode(a, i, n)

\* What an operation that ends at once leaves to do: nothing, or no more than it
\* found, but for what the KPIs allow.
Ended(k) ==
    \/ Exhausted(k)
    \/ k.state = "cancelled"
    \/ /\ Ready(k) \subseteq Ready(file) \cup template.conditional
       /\ \/ k.state = file.state
          \/ /\ submitted # {} /\ k.state \in AtRest
             /\ file.state = "cancelled" => k.state = "cancelled"

\* Verdicts and grants are only added, and verdicts on requests that were made.
QueueGrows ==
    /\ submitted' = submitted /\ lapsed' \subseteq Ids
    /\ granted \subseteq granted' /\ granted' \subseteq Ids
    /\ verdicts' \in [Ids -> SUBSET Verdict]
    /\ \A i \in Ids : verdicts[i] \subseteq verdicts'[i]
    /\ \A i \in Ids : verdicts'[i] # verdicts[i] => i \in submitted

LEMMA Decided ==
  ASSUME Typed, NEW i, NEW v \in Verdict, Decide(i, v)
  PROVE  QueueGrows /\ i \in submitted
BY DEF Decide, QueueGrows, Typed, TypeOK

LEMMA QueueStill ==
  ASSUME Typed, UNCHANGED queueVars
  PROVE  QueueGrows
BY DEF queueVars, QueueGrows, Typed, TypeOK

LEMMA RunningRun ==
  ASSUME NEW m \in Run
  PROVE  /\ Running(m) \in Run /\ Carries(Running(m), m)
         /\ Running(m).completed = m.completed
BY DEF Running, Carries, Run, States

LEMMA OperationMoves ==
  ASSUME Typed, NEW a \in Actors, Operation(a)
  PROVE  /\ QueueGrows
         /\ \E s \in {"node", "save", "end"}, k \in Run, d \in Drive :
                /\ Goto(a, s, k, d) /\ Legal(s, k, d) /\ Carries(k, file)
                /\ s = "end" => Ended(k)
<1>0. /\ file \in Run /\ Running(file) \in Run /\ NoDrive \in Drive
      /\ Total + 1 \in 0..(Total + 1)
  BY FreshRun, RunningRun, CampaignAssumption DEF Typed, TypeOK
<1>1. CASE Start(a)
  <2>1. Left(Running(file)) < Total + 1
    BY <1>0, LeftBound, CampaignAssumption
  <2>2. Pass(a, Running(file), Total + 1)
    BY <1>1 DEF Start
  <2>3. PICK s \in {"node", "end"}, k \in Run, d \in Drive :
            /\ Goto(a, s, k, d) /\ Legal(s, k, d) /\ Carries(k, Running(file))
            /\ s = "end" => Exhausted(k)
    BY <1>0, <2>1, <2>2, PassMoves
  <2>4. Carries(k, file)
    BY <1>0, <2>3, RunningRun DEF Carries
  <2>5. QueueGrows
    BY <1>1, QueueStill DEF Start
  <2> QED BY <2>3, <2>4, <2>5 DEF Ended
<1>2. CASE Advance(a)
  <2>1. PICK cleared \in SUBSET file.waiting :
            /\ \A n \in cleared : LET i == file.request[n] IN i # None /\ "approved" \in verdicts[i]
            /\ granted' = granted \cup {file.request[n] : n \in cleared}
            /\ Pass(a, [Running(file) EXCEPT !.waiting = @ \ cleared], Total + 1)
    BY <1>2 DEF Advance
  <2> DEFINE m == [Running(file) EXCEPT !.waiting = @ \ cleared]
  <2>2. m \in Run /\ m.completed = file.completed /\ Carries(m, file)
    BY <1>0 DEF Running, Run, Carries, States
  <2>3. Left(m) < Total + 1
    BY <2>2, LeftBound, CampaignAssumption
  <2>4. Pass(a, m, Total + 1)
    BY <2>1
  <2> HIDE DEF m
  <2>5. PICK s \in {"node", "end"}, k \in Run, d \in Drive :
            /\ Goto(a, s, k, d) /\ Legal(s, k, d) /\ Carries(k, m)
            /\ s = "end" => Exhausted(k)
    BY <1>0, <2>2, <2>3, <2>4, PassMoves
  <2>6. Carries(k, file)
    BY <2>2, <2>5 DEF Carries
  <2>7. \A n \in cleared : file.request[n] \in Ids
    BY <1>0, <2>1 DEF Run
  <2>8. QueueGrows
    BY <1>2, <2>1, <2>7 DEF Advance, QueueGrows, Typed, TypeOK
  <2> QED BY <2>5, <2>6, <2>8 DEF Ended
<1>3. CASE Cancel(a)
  <2> DEFINE k == [file EXCEPT !.state = "cancelled"]
  <2>1. k \in Run /\ Carries(k, file) /\ k.state = "cancelled"
    BY <1>0 DEF Run, States, Carries
  <2>2. Goto(a, "end", k, NoDrive) /\ QueueGrows
    BY <1>3, QueueStill DEF Cancel
  <2> HIDE DEF k
  <2>3. Legal("end", k, NoDrive)
    BY <2>1, FreshRun DEF Legal, Steps
  <2> QED BY <1>0, <2>1, <2>2, <2>3 DEF Ended
<1>4. CASE IngestKpi(a)
  <2>1. PICK kpi \in BOOLEAN : Goto(a, "end", [file EXCEPT !.kpi = kpi], NoDrive)
    BY <1>4 DEF IngestKpi, Kpis
  <2> DEFINE k == [file EXCEPT !.kpi = kpi]
  <2>2. /\ k \in Run /\ k.state = file.state /\ Carries(k, file)
        /\ k.completed = file.completed /\ k.failed = file.failed
        /\ k.blocked = file.blocked /\ k.waiting = file.waiting
    BY <1>0 DEF Run, Carries
  <2>3. Goto(a, "end", k, NoDrive) /\ QueueGrows
    BY <1>4, <2>1, QueueStill DEF IngestKpi
  <2> HIDE DEF k
  <2>4. Ready(k) \subseteq Ready(file) \cup template.conditional
    BY <2>2 DEF Ready, Satisfied, Excluded
  <2>5. Legal("end", k, NoDrive)
    BY <2>2, FreshRun DEF Legal, Steps
  <2> QED BY <1>0, <2>2, <2>3, <2>4, <2>5 DEF Ended
<1>5. ASSUME NEW i \in Ids, NEW n \in Nodes, ApproveNode(a, i, n)
      PROVE  /\ QueueGrows
             /\ \E s \in {"node", "save", "end"}, k \in Run, d \in Drive :
                    /\ Goto(a, s, k, d) /\ Legal(s, k, d) /\ Carries(k, file)
                    /\ s = "end" => Ended(k)
  <2>1. CASE /\ Decide(i, "approved")
             /\ Goto(a, "save", [Running(file) EXCEPT !.waiting = @ \ {n}],
                  [todo |-> {}, left |-> Total + 1, gained |-> TRUE])
    <3> DEFINE m == [Running(file) EXCEPT !.waiting = @ \ {n}]
    <3> DEFINE d == [todo |-> {}, left |-> Total + 1, gained |-> TRUE]
    <3>1. m \in Run /\ m.completed = file.completed /\ Carries(m, file)
      BY <1>0 DEF Running, Run, Carries, States
    <3>2. d \in Drive /\ d.todo = {} /\ d.gained = TRUE /\ d.left = Total + 1
      BY <1>0 DEF Drive
    <3>3. Left(m) < Total + 1
      BY <3>1, LeftBound, CampaignAssumption
    <3>4. Goto(a, "save", m, d) /\ QueueGrows
      BY <2>1, Decided DEF Verdict
    <3> HIDE DEF m, d
    <3>5. Legal("save", m, d)
      BY <3>1, <3>2, <3>3 DEF Legal, InDrive, Steps
    <3> QED BY <3>1, <3>2, <3>4, <3>5
  <2>2. CASE /\ Decide(i, "rejected")
             /\ Goto(a, "end",
                  Settled([file EXCEPT !.waiting = @ \ {n}, !.blocked = @ \cup {n}]), NoDrive)
    <3> DEFINE m == [file EXCEPT !.waiting = @ \ {n}, !.blocked = @ \cup {n}]
    <3>1. /\ m \in Run /\ m.completed = file.completed /\ m.failed = file.failed
          /\ m.request = file.request /\ m.state = file.state /\ m.kpi = file.kpi
          /\ m.blocked = file.blocked \cup {n} /\ m.waiting = file.waiting \ {n}
      BY <1>0 DEF Run
    <3>2. Goto(a, "end", Settled(m), NoDrive)
      BY <2>2
    <3>3. QueueGrows /\ submitted # {}
      BY <2>2, Decided DEF Verdict
    <3>4. file.state = "cancelled" => Settled(m).state = "cancelled"
      BY <1>0 DEF Settled, Run
    <3> HIDE DEF m
    <3>5. /\ Settled(m) \in Run /\ Carries(Settled(m), m) /\ Settled(m).state \in AtRest
      BY <3>1, SettledRun, SettledCarries DEF AtRest
    <3>6. Ready(Settled(m)) \subseteq Ready(file)
      BY <3>1, SettledRun DEF Ready, Satisfied, Excluded
    <3>7. Carries(Settled(m), file)
      BY <3>1, <3>5 DEF Carries
    <3>8. Legal("end", Settled(m), NoDrive)
      BY <3>5, FreshRun DEF Legal, Steps
    <3>9. Ended(Settled(m))
      BY <3>3, <3>4, <3>5, <3>6 DEF Ended
    <3> QED BY <1>0, <3>2, <3>3, <3>5, <3>7, <3>8, <3>9
  <2> QED BY <1>5, <2>1, <2>2 DEF ApproveNode
<1> QED BY <1>1, <1>2, <1>3, <1>4, <1>5 DEF Operation

\* A save writes the actor's copy, or fails, which is a disturbance.
LEMMA WriteRun ==
  ASSUME Typed, NEW a \in Actors, Write(a)
  PROVE  /\ exists' \in BOOLEAN /\ (exists => exists')
         /\ file' \in {file, mem[a]} /\ file' \in Run
         /\ disturbed' \in 0..MaxCount /\ faults' \in 0..MaxFaults
         /\ Undisturbed' => Undisturbed /\ file' = mem[a]
         /\ exists' \/ file' = file
         /\ Counting' => disturbed' = disturbed + 1 \/ (file' = mem[a] /\ disturbed' = disturbed)
<1>0. TypeOK
  BY DEF Typed
<1>1. CASE exists' = TRUE /\ file' = mem[a] /\ NoFault
  BY <1>1 DEF NoFault, Undisturbed, Typed, TypeOK
<1>2. CASE Fault /\ UNCHANGED runVars
  <2>1. exists' = exists /\ file' = file
    BY <1>2 DEF runVars
  <2> QED BY <1>0, <1>2, <2>1, FaultStep DEF TypeOK
<1> QED BY <1>1, <1>2 DEF Write

\* An operation is counted; it is a disturbance if somebody else is at work.
LEMMA CallCounts ==
  ASSUME Typed, NEW a \in Actors, Operation(a)
  PROVE  /\ pc[a] = "idle" /\ exists
         /\ calls' \in 0..MaxCalls /\ disturbed' \in 0..MaxCount /\ times' \in Nat
         /\ Undisturbed' => Undisturbed /\ AllIdle
         /\ Counting' => times' = times
         /\ Counting' => disturbed' = disturbed + 1 \/ (AllIdle /\ disturbed' = disturbed)
         /\ UNCHANGED <<template, exists, file, faults, owner, attempted, worked>>
<1>0. TypeOK
  BY DEF Typed
<1>1. Load(a)
  BY DEF Operation, Start, Advance, Cancel, IngestKpi, ApproveNode
<1>2. Call(a) /\ exists /\ UNCHANGED <<template, exists, file, owner, faults>>
  BY <1>1 DEF Load, runVars
<1>3. pc[a] = "idle" /\ calls' \in 0..MaxCalls /\ NoWork
  BY <1>2, CampaignAssumption DEF Call, Typed, TypeOK
<1>4. /\ disturbed' \in 0..MaxCount
      /\ Undisturbed' => Undisturbed /\ AllIdle
      /\ Counting' => disturbed' = disturbed + 1 \/ (AllIdle /\ disturbed' = disturbed)
  <2>1. CASE AllIdle /\ UNCHANGED disturbed
    BY <1>0, <2>1 DEF TypeOK, Undisturbed
  <2>2. CASE Disturb
    BY <1>0, <2>2, Disturbed
  <2> QED BY <1>2, <2>1, <2>2 DEF Call
<1> QED BY <1>0, <1>2, <1>3, <1>4, NoWorkStep

LEMMA CreationCounts ==
  ASSUME Typed, NEW a \in Actors, CreateCampaign(a)
  PROVE  /\ calls' \in 0..MaxCalls /\ disturbed' \in 0..MaxCount /\ times' \in Nat
         /\ Undisturbed' => Undisturbed /\ ~exists
         /\ Counting' => times' = times
         /\ Counting' => disturbed' = disturbed + 1 \/ (~exists /\ disturbed' = disturbed)
         /\ attempted' = attempted /\ worked' = worked
<1>0. TypeOK
  BY DEF Typed
<1>1. CASE ~exists /\ UNCHANGED disturbed
  BY <1>0, <1>1, NoWorkStep, CampaignAssumption DEF CreateCampaign, Undisturbed, TypeOK
<1>2. CASE exists /\ Disturb
  BY <1>0, <1>2, NoWorkStep, Disturbed, CampaignAssumption DEF CreateCampaign, TypeOK
<1> QED BY <1>1, <1>2 DEF CreateCampaign

LEMMA QueueCounts ==
  ASSUME Typed, Queue
  PROVE  /\ calls' \in 0..MaxCalls /\ QueueGrows
         /\ UNCHANGED <<template, exists, file, driveVars, owner, attempted, worked, times, disturbed, faults>>
<1>1. UNCHANGED <<template, exists, file, driveVars, owner, attempted, worked, times, disturbed, faults>>
  BY DEF Queue, runVars, historyVars
<1>2. PICK i \in Ids :
          \/ Lapse(i) /\ UNCHANGED calls
          \/ calls < MaxCalls /\ calls' = calls + 1 /\ \E v \in Verdict : Decide(i, v)
  BY DEF Queue
<1>3. CASE Lapse(i) /\ UNCHANGED calls
  BY <1>1, <1>3 DEF Lapse, QueueGrows, Typed, TypeOK
<1>4. CASE calls < MaxCalls /\ calls' = calls + 1 /\ \E v \in Verdict : Decide(i, v)
  BY <1>1, <1>4, Decided, CampaignAssumption DEF Typed, TypeOK
<1> QED BY <1>2, <1>3, <1>4

\* A node's execution, as far as the types go.
LEMMA ExecuteTypes ==
  ASSUME Typed, NEW a \in Actors, Execute(a)
  PROVE  /\ UNCHANGED <<template, exists, file, disturbed, calls, faults>>
         /\ owner' \in [Ids -> Nodes \cup {None}]
         /\ attempted' \subseteq Nodes /\ worked' \subseteq Nodes /\ times' \in Nat
         /\ submitted' \subseteq Ids /\ lapsed' \subseteq Ids /\ granted' \subseteq Ids
         /\ verdicts' \in [Ids -> SUBSET Verdict]
<1>1. UNCHANGED <<template, exists, file, disturbed, calls, faults>>
  BY DEF Execute, runVars
<1>2. PICK n \in drive[a].todo, k \in Run : Refused(a, n, k) \/ Tried(a, n, k)
  BY ExecuteMoves
<1>3. n \in Nodes /\ mem[a] \in Run
  BY DEF Typed, TypeOK, Drive
<1>4. CASE Refused(a, n, k)
  BY <1>1, <1>3, <1>4 DEF Refused, Submit, historyVars, queueVars, Typed, TypeOK
<1>5. CASE Tried(a, n, k)
  <2>0. times' \in Nat
    BY <1>5 DEF Tried, Tally, Typed, TypeOK
  <2>1. CASE n \in template.gated
    <3>1. mem[a].request[n] \in Ids
      BY <1>3, <1>5, <2>1 DEF Tried, IsSatisfied, Run
    <3>2. /\ UNCHANGED <<submitted, verdicts, lapsed>>
          /\ granted' = granted \cup {mem[a].request[n]}
      BY <1>5, <2>1 DEF Tried, IsSatisfied, Grant
    <3> QED BY <1>1, <1>3, <1>5, <2>0, <3>1, <3>2 DEF Tried, Typed, TypeOK
  <2>2. CASE n \notin template.gated
    BY <1>1, <1>3, <1>5, <2>0, <2>2 DEF Tried, queueVars, Typed, TypeOK
  <2> QED BY <2>1, <2>2
<1> QED BY <1>2, <1>4, <1>5

LEMMA TypedInit == Init => Typed
<1> SUFFICES ASSUME Init PROVE Typed
  OBVIOUS
<1>1. TypeOK
  <2>1. /\ template \in Templates /\ exists \in BOOLEAN /\ file \in Run
        /\ pc \in [Actors -> Steps] /\ mem \in [Actors -> Run] /\ drive \in [Actors -> Drive]
    BY FreshRun DEF Init, Steps
  <2>2. /\ owner \in [Ids -> Nodes \cup {None}]
        /\ attempted \subseteq Nodes /\ worked \subseteq Nodes
    BY DEF Init
  <2>3. times \in Nat /\ disturbed \in 0..MaxCount
    BY CampaignAssumption DEF Init
  <2>4. calls \in 0..MaxCalls /\ faults \in 0..MaxFaults
    BY CampaignAssumption DEF Init
  <2>5. /\ submitted \subseteq Ids /\ lapsed \subseteq Ids /\ granted \subseteq Ids
        /\ verdicts \in [Ids -> SUBSET Verdict]
    BY DEF Init, QueueInit
  <2> QED BY <2>1, <2>2, <2>3, <2>4, <2>5 DEF TypeOK
<1>2. \A a \in Actors : pc[a] = "idle" /\ mem[a] = Fresh /\ drive[a] = NoDrive
  BY DEF Init
<1> QED BY <1>1, <1>2, IdleLegal DEF Typed

LEMMA TypedStep == Typed /\ [Next]_vars => Typed'
<1> SUFFICES ASSUME Typed, [Next]_vars
             PROVE  Typed'
  OBVIOUS
<1>1. CASE Queue
  BY <1>1, QueueCounts, Unmoved DEF QueueGrows, Typed, TypeOK
<1>2. ASSUME NEW a \in Actors, CreateCampaign(a)
      PROVE  Typed'
  BY <1>2, CreationCounts, Unmoved, FreshRun
     DEF CreateCampaign, Typed, TypeOK, queueVars
<1>3. ASSUME NEW a \in Actors, Operation(a)
      PROVE  Typed'
  BY <1>3, CallCounts, OperationMoves, Moved DEF QueueGrows, Typed, TypeOK
<1>4. ASSUME NEW a \in Actors, Execute(a)
      PROVE  Typed'
  <2>1. PICK k, d : Goto(a, "save", k, d) /\ Legal("save", k, d)
    BY <1>4, ExecuteMoves
  <2> QED BY <1>4, <2>1, ExecuteTypes, Moved DEF Typed, TypeOK
<1>5. ASSUME NEW a \in Actors, Save(a)
      PROVE  Typed'
  <2>1. PICK s, k, d : Goto(a, s, k, d) /\ Legal(s, k, d)
    BY <1>5, SaveMoves
  <2>2. Write(a) /\ NoWork /\ UNCHANGED <<template, owner, calls, queueVars>>
    BY <1>5 DEF Save
  <2> QED BY <2>1, <2>2, WriteRun, NoWorkStep, Moved DEF queueVars, Typed, TypeOK
<1>6. ASSUME NEW a \in Actors, End(a)
      PROVE  Typed'
  <2>1. Write(a) /\ Goto(a, "idle", Fresh, NoDrive) /\ NoWork
        /\ UNCHANGED <<template, owner, calls, queueVars>>
    BY <1>6 DEF End, Leave
  <2> QED BY <2>1, WriteRun, NoWorkStep, Moved, IdleLegal DEF queueVars, Typed, TypeOK
<1>7. ASSUME NEW a \in Actors, Crash(a)
      PROVE  Typed'
  <2>1. /\ Fault /\ Goto(a, "idle", Fresh, NoDrive) /\ NoWork
        /\ UNCHANGED <<template, runVars, owner, calls, queueVars>>
    BY <1>7 DEF Crash, Leave
  <2>2. disturbed' \in 0..MaxCount /\ faults' \in 0..MaxFaults
    BY <2>1, FaultStep DEF Typed
  <2> QED BY <2>1, <2>2, NoWorkStep, Moved, IdleLegal DEF runVars, queueVars, Typed, TypeOK
<1>8. CASE UNCHANGED vars
  BY <1>8, Unmoved DEF vars, runVars, historyVars, queueVars, Typed, TypeOK
<1> QED BY <1>1, <1>2, <1>3, <1>4, <1>5, <1>6, <1>7, <1>8 DEF Next, GoOn, Operation

\* The variables keep their types, whatever operations overlap or fail.
THEOREM TypeCorrect == Spec => []TypeOK
<1>1. Typed => TypeOK
  BY DEF Typed
<1> QED BY TypedInit, TypedStep, <1>1, PTL DEF Spec

-----------------------------------------------------------------------------
(***************************************************************************)
(* Gates and order.  Copies of the run overwrite each other and lose what  *)
(* was done, but none claims too much: what a copy calls completed was     *)
(* answered, and the request a step holds was made for that very step.     *)
(***************************************************************************)

Honest(m) ==
    /\ m.completed \subseteq worked
    /\ m.state = "completed" => m.completed = Nodes
    /\ \A n \in Nodes :
          m.request[n] # None => m.request[n] \in submitted /\ owner[m.request[n]] = n

\* What was dispatched was cleared, and came after what goes before it.
Cleared ==
    \A n \in attempted :
        /\ template.preds[n] \subseteq worked
        /\ n \notin template.unsafe
        /\ n \in template.gated => \E i \in granted : owner[i] = n /\ "approved" \in verdicts[i]

OnlySubmitted == \A i \in Ids : verdicts[i] # {} => i \in submitted

Sourced ==
    /\ Honest(file)
    /\ \A a \in Actors : Honest(mem[a])
    /\ OnlySubmitted
    /\ Cleared

\* What a copy relies on only grows.
Grown ==
    /\ template' = template
    /\ worked \subseteq worked'
    /\ submitted \subseteq submitted'
    /\ granted \subseteq granted'
    /\ \A i \in Ids : verdicts[i] \subseteq verdicts'[i]
    /\ \A i \in Ids : verdicts'[i] # verdicts[i] => i \in submitted
    /\ \A i \in submitted : owner'[i] = owner[i]

LEMMA HonestStays ==
  ASSUME Typed, Grown, NEW m \in Run, Honest(m)
  PROVE  Honest(m)'
<1>1. m.completed \subseteq worked'
  BY DEF Honest, Grown
<1>2. \A n \in Nodes :
          m.request[n] # None => m.request[n] \in submitted' /\ owner'[m.request[n]] = n
  BY DEF Honest, Grown
<1> QED BY <1>1, <1>2 DEF Honest

LEMMA CarriedHonest ==
  ASSUME NEW m \in Run, NEW k \in Run, Honest(m), Carries(k, m)
  PROVE  Honest(k)
BY DEF Honest, Carries

LEMMA FreshHonest == Honest(Fresh)
BY DEF Honest, Fresh

LEMMA QueueStays ==
  ASSUME Typed, Sourced, Grown
  PROVE  OnlySubmitted'
BY DEF Sourced, OnlySubmitted, Grown, Typed, TypeOK

\* What was cleared stays so.
LEMMA ClearedStays ==
  ASSUME Typed, Sourced, Grown, NEW n \in attempted
  PROVE  /\ template'.preds[n] \subseteq worked'
         /\ n \notin template'.unsafe
         /\ n \in template'.gated =>
                \E i \in granted' : owner'[i] = n /\ "approved" \in verdicts'[i]
<1>1. template'.preds[n] \subseteq worked' /\ n \notin template'.unsafe
  BY DEF Sourced, Cleared, Grown
<1>2. ASSUME n \in template'.gated
      PROVE  \E i \in granted' : owner'[i] = n /\ "approved" \in verdicts'[i]
  <2>1. PICK i \in granted : owner[i] = n /\ "approved" \in verdicts[i]
    BY <1>2 DEF Sourced, Cleared, Grown
  <2>2. i \in Ids /\ i \in submitted
    BY <2>1 DEF Sourced, OnlySubmitted, Typed, TypeOK
  <2> QED BY <2>1, <2>2 DEF Grown
<1> QED BY <1>1, <1>2

\* An actor moved to an honest copy, and the file holds one too.
LEMMA SourcedMoved ==
  ASSUME Typed, Sourced, Grown, attempted' = attempted,
         NEW a \in Actors, NEW s, NEW k \in Run, NEW d, Goto(a, s, k, d), Honest(k)',
         file' \in Run, Honest(file)'
  PROVE  Sourced'
<1>1. ASSUME NEW b \in Actors
      PROVE  Honest(mem[b])'
  <2>1. CASE b = a
    <3>1. mem'[b] = k
      BY <2>1 DEF Goto, Typed, TypeOK
    <3> QED BY <3>1
  <2>2. CASE b # a
    <3>1. mem'[b] = mem[b] /\ mem[b] \in Run /\ Honest(mem[b])
      BY <2>2 DEF Goto, Typed, TypeOK, Sourced
    <3> QED BY <3>1, HonestStays
  <2> QED BY <2>1, <2>2
<1>2. Cleared'
  BY ClearedStays DEF Cleared
<1> QED BY <1>1, <1>2, QueueStays DEF Sourced

\* Nobody moved.
LEMMA SourcedUnmoved ==
  ASSUME Typed, Sourced, Grown, attempted' = attempted, mem' = mem, file' \in Run, Honest(file)'
  PROVE  Sourced'
<1>1. ASSUME NEW b \in Actors
      PROVE  Honest(mem[b])'
  <2>1. mem'[b] = mem[b] /\ mem[b] \in Run /\ Honest(mem[b])
    BY DEF Typed, TypeOK, Sourced
  <2> QED BY <2>1, HonestStays
<1>2. Cleared'
  BY ClearedStays DEF Cleared
<1> QED BY <1>1, <1>2, QueueStays DEF Sourced

LEMMA SourcedInit == Init => Sourced
<1> SUFFICES ASSUME Init PROVE Sourced
  OBVIOUS
<1>1. file = Fresh /\ \A a \in Actors : mem[a] = Fresh
  BY DEF Init
<1>2. OnlySubmitted /\ Cleared
  BY DEF Init, QueueInit, OnlySubmitted, Cleared
<1> QED BY <1>1, <1>2, FreshHonest DEF Sourced

LEMMA SourcedStep == Typed /\ Sourced /\ [Next]_vars => Sourced'
<1> SUFFICES ASSUME Typed, Sourced, [Next]_vars
             PROVE  Sourced'
  OBVIOUS
<1>0. /\ file \in Run /\ Honest(file)
      /\ \A a \in Actors : mem[a] \in Run /\ Honest(mem[a])
  BY DEF Typed, TypeOK, Sourced
<1>1. CASE Queue
  <2>1. Grown /\ mem' = mem /\ file' = file /\ attempted' = attempted
    BY <1>1, QueueCounts DEF QueueGrows, Grown, driveVars
  <2> QED BY <1>0, <2>1, HonestStays, SourcedUnmoved
<1>2. ASSUME NEW a \in Actors, CreateCampaign(a)
      PROVE  Sourced'
  <2>1. Grown /\ mem' = mem /\ file' = Fresh /\ attempted' = attempted
    BY <1>2 DEF CreateCampaign, NoWork, Grown, driveVars, queueVars
  <2> QED BY <2>1, FreshRun, FreshHonest, HonestStays, SourcedUnmoved
<1>3. ASSUME NEW a \in Actors, Operation(a)
      PROVE  Sourced'
  <2>1. Grown /\ file' = file /\ attempted' = attempted
    BY <1>3, OperationMoves, CallCounts DEF QueueGrows, Grown
  <2>2. PICK s \in Steps, k \in Run, d \in Drive : Goto(a, s, k, d) /\ Carries(k, file)
    BY <1>3, OperationMoves DEF Steps
  <2>3. Honest(k)' /\ Honest(file)'
    BY <1>0, <2>1, <2>2, CarriedHonest, HonestStays
  <2> QED BY <1>0, <2>1, <2>2, <2>3, SourcedMoved
<1>4. ASSUME NEW a \in Actors, Execute(a)
      PROVE  Sourced'
  <2>1. PICK n \in drive[a].todo, k \in Run, d \in Drive :
            /\ Goto(a, "save", k, d)
            /\ k.state = mem[a].state
            /\ Refused(a, n, k) \/ Tried(a, n, k)
    BY <1>4, ExecuteMoves
  <2>0. PICK m \in Run : m = mem[a] /\ Honest(m)
    BY <1>0
  <2>2. /\ template' = template /\ file' = file
        /\ n \in Nodes /\ template.preds[n] \subseteq mem[a].completed
        /\ mem[a].completed \subseteq Nodes
    BY <1>0, <1>4 DEF Execute, runVars, Typed, TypeOK, Legal, InDrive, Drive, Run
  <2>3. CASE Refused(a, n, k)
    <3>1. Grown /\ attempted' = attempted
      BY <2>2, <2>3 DEF Refused, Submit, Grown, historyVars, queueVars, Typed, TypeOK
    <3>2. k.completed = m.completed /\ Honest(m)' /\ Honest(file)'
      BY <1>0, <2>0, <2>2, <2>3, <3>1, HonestStays DEF Refused
    <3>3. \A j \in Nodes : k.request[j] # None =>
              k.request[j] \in submitted' /\ owner'[k.request[j]] = j
      <4>1. mem[a].request \in [Nodes -> Ids \cup {None}]
        BY <1>0 DEF Run
      <4>2. \A j \in Nodes : mem[a].request[j] # None =>
                mem[a].request[j] \in submitted' /\ owner'[mem[a].request[j]] = j
        BY <1>0, <3>1 DEF Honest, Grown
      <4>3. CASE k.request = mem[a].request
        BY <4>2, <4>3
      <4>4. CASE \E j \in Ids :
                    /\ Submit(j) /\ owner' = [owner EXCEPT ![j] = n]
                    /\ k.request = [mem[a].request EXCEPT ![n] = j]
        <5>1. PICK j \in Ids :
                    /\ Submit(j) /\ owner' = [owner EXCEPT ![j] = n]
                    /\ k.request = [mem[a].request EXCEPT ![n] = j]
          BY <4>4
        <5>2. owner'[j] = n /\ j \in submitted'
          BY <5>1 DEF Submit, Typed, TypeOK
        <5> QED BY <2>2, <4>1, <4>2, <5>1, <5>2
      <4> QED BY <2>3, <4>3, <4>4 DEF Refused
    <3>4. Honest(k)'
      BY <2>0, <2>1, <3>2, <3>3 DEF Honest
    <3> QED BY <1>0, <2>1, <2>2, <3>1, <3>2, <3>4, SourcedMoved
  <2>4. CASE Tried(a, n, k)
    <3>1. n \in template.gated =>
              /\ mem[a].request[n] \in Ids /\ mem[a].request[n] # None
              /\ "approved" \in verdicts[mem[a].request[n]]
              /\ granted' = granted \cup {mem[a].request[n]}
              /\ UNCHANGED <<submitted, verdicts>>
      BY <1>0, <2>2, <2>4 DEF Tried, IsSatisfied, Grant, Run
    <3>2. n \notin template.gated => UNCHANGED <<submitted, verdicts, granted>>
      BY <2>4 DEF Tried, queueVars
    <3>3. Grown
      BY <2>2, <2>4, <3>1, <3>2 DEF Tried, Grown
    <3>4. Honest(m)' /\ Honest(file)'
      BY <1>0, <2>0, <2>2, <3>3, HonestStays
    <3>5. k.request = mem[a].request /\ k.completed \subseteq worked'
      BY <1>0, <2>4 DEF Tried, Honest
    <3>6. k.state = "completed" => k.completed = Nodes
      <4>1. k.completed \in {mem[a].completed, mem[a].completed \cup {n}}
        BY <2>4 DEF Tried
      <4>2. mem[a].state = "completed" => mem[a].completed = Nodes
        BY <1>0 DEF Honest
      <4> QED BY <2>1, <2>2, <4>1, <4>2
    <3>7. Honest(k)'
      BY <2>0, <3>4, <3>5, <3>6 DEF Honest
    <3>8. ASSUME NEW b \in Actors
          PROVE  Honest(mem[b])'
      <4>1. CASE b = a
        <5>1. mem'[b] = k
          BY <2>1, <4>1 DEF Goto, Typed, TypeOK
        <5> QED BY <3>7, <5>1
      <4>2. CASE b # a
        <5>1. mem'[b] = mem[b]
          BY <2>1, <4>2 DEF Goto, Typed, TypeOK
        <5> QED BY <1>0, <3>3, <5>1, HonestStays
      <4> QED BY <4>1, <4>2
    <3>9. /\ template'.preds[n] \subseteq worked'
          /\ n \notin template'.unsafe
          /\ n \in template'.gated =>
                \E i \in granted' : owner'[i] = n /\ "approved" \in verdicts'[i]
      <4>1. template'.preds[n] \subseteq worked' /\ n \notin template'.unsafe
        BY <1>0, <2>2, <2>4, <3>3 DEF Tried, Honest, Grown
      <4>2. n \in template.gated => owner[mem[a].request[n]] = n
        BY <1>0, <2>2, <3>1 DEF Honest
      <4> QED BY <2>2, <2>4, <3>1, <4>1, <4>2 DEF Tried
    <3>10. Cleared'
      <4>1. attempted' = attempted \cup {n}
        BY <2>4 DEF Tried
      <4> QED BY <3>3, <3>9, <4>1, ClearedStays DEF Cleared
    <3> QED BY <3>3, <3>4, <3>8, <3>10, QueueStays DEF Sourced
  <2> QED BY <2>1, <2>3, <2>4
<1>5. ASSUME NEW a \in Actors, Save(a)
      PROVE  Sourced'
  <2>1. PICK s \in Steps, k \in Run, d \in Drive : Goto(a, s, k, d) /\ Carries(k, mem[a])
    BY <1>5, SaveMoves DEF Steps
  <2>2. Grown /\ attempted' = attempted
    BY <1>5 DEF Save, NoWork, Grown, queueVars
  <2>3. file' \in {file, mem[a]} /\ file' \in Run
    BY <1>5, WriteRun DEF Save
  <2>4. Honest(k)' /\ Honest(file)'
    BY <1>0, <2>1, <2>2, <2>3, CarriedHonest, HonestStays
  <2> QED BY <2>1, <2>2, <2>3, <2>4, SourcedMoved
<1>6. ASSUME NEW a \in Actors, End(a)
      PROVE  Sourced'
  <2>1. Goto(a, "idle", Fresh, NoDrive)
    BY <1>6 DEF End, Leave
  <2>2. Grown /\ attempted' = attempted
    BY <1>6 DEF End, NoWork, Grown, queueVars
  <2>3. file' \in {file, mem[a]} /\ file' \in Run
    BY <1>6, WriteRun DEF End
  <2>4. Honest(Fresh)' /\ Honest(file)'
    BY <1>0, <2>2, <2>3, FreshRun, FreshHonest, HonestStays
  <2> QED BY <2>1, <2>2, <2>3, <2>4, FreshRun, SourcedMoved
<1>7. ASSUME NEW a \in Actors, Crash(a)
      PROVE  Sourced'
  <2>1. Goto(a, "idle", Fresh, NoDrive)
    BY <1>7 DEF Crash, Leave
  <2>2. Grown /\ attempted' = attempted /\ file' = file
    BY <1>7 DEF Crash, NoWork, Grown, runVars, queueVars
  <2>3. Honest(Fresh)' /\ Honest(file)'
    BY <1>0, <2>2, FreshRun, FreshHonest, HonestStays
  <2> QED BY <1>0, <2>1, <2>2, <2>3, FreshRun, SourcedMoved
<1>8. CASE UNCHANGED vars
  <2>1. Grown /\ mem' = mem /\ file' = file /\ attempted' = attempted
    BY <1>8 DEF vars, Grown, runVars, driveVars, historyVars, queueVars
  <2> QED BY <1>0, <2>1, HonestStays, SourcedUnmoved
<1> QED BY <1>1, <1>2, <1>3, <1>4, <1>5, <1>6, <1>7, <1>8 DEF Next, GoOn, Operation

LEMMA SourcedAlways == Spec => [](Typed /\ Sourced)
<1>1. Init => Typed /\ Sourced
  BY TypedInit, SourcedInit
<1>2. Typed /\ Sourced /\ [Next]_vars => Typed' /\ Sourced'
  BY TypedStep, SourcedStep
<1> QED BY <1>1, <1>2, PTL DEF Spec

\* The gates hold for every template: no gated node is dispatched before an
\* operator approved its own request, and no unsafe one at all
\* (NodeExecutor.execute, ApprovalGate.ensure).
THEOREM Gates == Spec => []GatesHold
<1>1. Typed /\ Sourced => GatesHold
  BY DEF Sourced, Cleared, GatesHold
<1> QED BY SourcedAlways, <1>1, PTL

\* Nodes are dispatched in the template's order, and only a campaign all of whose
\* nodes were answered is recorded as completed (_drive, _settle_state).
THEOREM Order == Spec => []InOrder
<1>1. Typed /\ Sourced => InOrder
  <2> SUFFICES ASSUME Typed, Sourced PROVE InOrder
    OBVIOUS
  <2>1. file.state = "completed" => worked = Nodes
    BY DEF Sourced, Honest, Typed, TypeOK
  <2> QED BY <2>1 DEF Sourced, Cleared, InOrder
<1> QED BY SourcedAlways, <1>1, PTL

-----------------------------------------------------------------------------
(***************************************************************************)
(* Nothing left.  As long as nothing disturbs it one actor works at a      *)
(* time, and the copy that counts, its own or else the file, knows of      *)
(* every node that was dispatched; a copy at rest has nothing ready but    *)
(* what the KPIs may have opened.                                          *)
(***************************************************************************)

Remembered(m) == attempted \subseteq m.completed \cup m.failed

Quiet(m) ==
    /\ m.state # "running"
    /\ m.state = "ready" => submitted = {}
    /\ m.state \in {"paused", "needs_approval", "blocked", "failed"}
          => Ready(m) \subseteq template.conditional

\* Before the campaign is created nothing happens.
Unmade == ~exists => file = Fresh /\ attempted = {} /\ submitted = {} /\ AllIdle

Sole == \A a, b \in Actors : pc[a] # "idle" /\ pc[b] # "idle" => a = b
FileCounts == AllIdle => Remembered(file) /\ Quiet(file)
CopyCounts == \A a \in Actors : pc[a] # "idle" => Remembered(mem[a])
EndsQuiet == \A a \in Actors : pc[a] = "end" => Quiet(mem[a])

Calm ==
    /\ Unmade
    /\ Undisturbed => Sole /\ FileCounts /\ CopyCounts /\ EndsQuiet

LEMMA ExhaustedQuiet ==
  ASSUME NEW k, Exhausted(k)
  PROVE  Quiet(k)
BY DEF Exhausted, Quiet, AtRest

LEMMA EndedQuiet ==
  ASSUME Typed, NEW k \in Run, Ended(k), Quiet(file), Honest(file)
  PROVE  Quiet(k)
<1>1. CASE Exhausted(k)
  BY <1>1, ExhaustedQuiet
<1>2. CASE k.state = "cancelled"
  BY <1>2 DEF Quiet
<1>3. CASE Ready(k) \subseteq Ready(file) \cup template.conditional /\ k.state = file.state
  BY <1>3 DEF Quiet
<1>4. CASE /\ Ready(k) \subseteq Ready(file) \cup template.conditional
           /\ submitted # {} /\ k.state \in AtRest
           /\ file.state = "cancelled" => k.state = "cancelled"
  <2>1. file.state \in States
    BY DEF Typed, TypeOK, Run
  <2>2. file.state = "completed" => Ready(file) = {}
    BY DEF Honest, Ready, Excluded
  <2>3. Ready(file) \subseteq template.conditional \/ file.state = "cancelled"
    BY <1>4, <2>1, <2>2 DEF Quiet, States
  <2> QED BY <1>4, <2>3 DEF Quiet, AtRest
<1> QED BY <1>1, <1>2, <1>3, <1>4 DEF Ended

LEMMA CalmInit == Init => Calm
BY DEF Init, QueueInit, Calm, Unmade, Sole, AllIdle, FileCounts, CopyCounts, EndsQuiet,
       Remembered, Quiet, Fresh

\* Whoever is at work works alone, once the campaign was created.
LEMMA AtWork ==
  ASSUME Typed, Calm, NEW a \in Actors, pc[a] # "idle"
  PROVE  /\ exists
         /\ Undisturbed => \A b \in Actors : b # a => pc[b] = "idle"
BY DEF Calm, Unmade, Sole, AllIdle

\* The only actor at work moved on to a copy that knows what was dispatched.
LEMMA CalmMoved ==
  ASSUME Typed, Calm, exists', Undisturbed' => Undisturbed, NEW a \in Actors,
         Undisturbed => \A b \in Actors : b # a => pc[b] = "idle",
         NEW s \in {"node", "save", "end"}, NEW k \in Run, NEW d, Goto(a, s, k, d),
         Undisturbed' => Remembered(k)',
         Undisturbed' => (s = "end" => Quiet(k)')
  PROVE  Calm'
<1>1. /\ pc'[a] = s /\ mem'[a] = k
      /\ \A b \in Actors : b # a => pc'[b] = pc[b]
  BY DEF Goto, Typed, TypeOK
<1>2. Unmade'
  BY DEF Unmade
<1>3. ASSUME Undisturbed'
      PROVE  Sole' /\ FileCounts' /\ CopyCounts' /\ EndsQuiet'
  <2>1. \A b \in Actors : b # a => pc'[b] = "idle"
    BY <1>1, <1>3
  <2>2. Sole' /\ FileCounts'
    BY <1>1, <2>1 DEF Sole, AllIdle, FileCounts
  <2>3. CopyCounts'
    <3> SUFFICES ASSUME NEW b \in Actors, pc'[b] # "idle"
                 PROVE  Remembered(mem[b])'
      BY DEF CopyCounts
    <3>1. b = a /\ mem'[b] = k
      BY <1>1, <2>1
    <3> QED BY <1>3, <3>1 DEF Remembered
  <2>4. EndsQuiet'
    <3> SUFFICES ASSUME NEW b \in Actors, pc'[b] = "end"
                 PROVE  Quiet(mem[b])'
      BY DEF EndsQuiet
    <3>1. b = a /\ mem'[b] = k /\ s = "end"
      BY <1>1, <2>1
    <3>2. Quiet(k)'
      BY <1>3, <3>1
    <3> QED BY <3>1, <3>2
  <2> QED BY <2>2, <2>3, <2>4
<1> QED BY <1>2, <1>3 DEF Calm

\* What is quiet stays so while no request is made.
LEMMA QuietStays ==
  ASSUME NEW k, Quiet(k), template' = template, submitted' = submitted
  PROVE  Quiet(k)'
BY DEF Quiet, Ready, Satisfied

LEMMA CalmStep == Typed /\ Sourced /\ Calm /\ [Next]_vars => Calm'
<1> SUFFICES ASSUME Typed, Sourced, Calm, [Next]_vars
             PROVE  Calm'
  OBVIOUS
<1>0. /\ file \in Run /\ Honest(file)
      /\ \A a \in Actors : mem[a] \in Run
  BY DEF Typed, TypeOK, Sourced, Calm
<1>1. CASE Queue
  <2>1. UNCHANGED <<template, exists, file, pc, mem, attempted, disturbed, submitted>>
    BY <1>1, QueueCounts DEF QueueGrows, driveVars
  <2> QED BY <2>1 DEF Calm, Unmade, Sole, AllIdle, FileCounts, CopyCounts, EndsQuiet,
                      Undisturbed, Remembered, Quiet, Ready, Satisfied
<1>2. ASSUME NEW a \in Actors, CreateCampaign(a)
      PROVE  Calm'
  <2>1. /\ exists' = TRUE /\ file' = Fresh
        /\ UNCHANGED <<template, pc, mem, attempted, submitted>>
    BY <1>2 DEF CreateCampaign, NoWork, driveVars, queueVars
  <2>2. Undisturbed' => Undisturbed /\ ~exists
    BY <1>2, CreationCounts
  <2>3. Unmade'
    BY <1>0, <2>1 DEF Unmade
  <2>4. ASSUME Undisturbed'
        PROVE  Sole' /\ FileCounts' /\ CopyCounts' /\ EndsQuiet'
    <3>1. attempted' = {} /\ submitted' = {} /\ \A b \in Actors : pc'[b] = "idle"
      BY <2>1, <2>2, <2>4 DEF Calm, Unmade, AllIdle
    <3> QED BY <2>1, <3>1 DEF Sole, AllIdle, FileCounts, CopyCounts, EndsQuiet, Remembered, Quiet, Fresh
  <2> QED BY <2>3, <2>4 DEF Calm
<1>3. ASSUME NEW a \in Actors, Operation(a)
      PROVE  Calm'
  <2>1. PICK s \in {"node", "save", "end"}, k \in Run, d \in Drive :
            /\ Goto(a, s, k, d) /\ Carries(k, file)
            /\ s = "end" => Ended(k)
    BY <1>3, OperationMoves
  <2>2. /\ exists' /\ attempted' = attempted
        /\ template' = template /\ submitted' = submitted
        /\ Undisturbed' => Undisturbed /\ AllIdle
    BY <1>0, <1>3, CallCounts, OperationMoves DEF QueueGrows
  <2>3. Undisturbed' => Remembered(file) /\ Quiet(file)
    BY <2>2 DEF Calm, FileCounts
  <2>4. Undisturbed' => Remembered(k)'
    BY <2>1, <2>2, <2>3 DEF Remembered, Carries
  <2>5. Undisturbed' => (s = "end" => Quiet(k)')
    BY <1>0, <2>1, <2>2, <2>3, EndedQuiet, QuietStays
  <2>6. CASE ~Undisturbed'
    BY <2>2, <2>6 DEF Calm, Unmade
  <2>7. CASE Undisturbed'
    BY <2>1, <2>2, <2>4, <2>5, <2>7, CalmMoved DEF AllIdle
  <2> QED BY <2>6, <2>7
<1>4. ASSUME NEW a \in Actors, Execute(a)
      PROVE  Calm'
  <2>1. PICK n \in drive[a].todo, k \in Run, d \in Drive :
            /\ Goto(a, "save", k, d)
            /\ Refused(a, n, k) \/ Tried(a, n, k)
    BY <1>4, ExecuteMoves
  <2>2. /\ pc[a] # "idle" /\ exists' = exists /\ Undisturbed' = Undisturbed
        /\ n \notin mem[a].completed \cup mem[a].failed
    BY <1>4, <2>1 DEF Execute, runVars, Undisturbed, Typed, Legal, InDrive
  <2>3. exists' /\ (Undisturbed => \A b \in Actors : b # a => pc[b] = "idle")
    BY <2>2, AtWork
  <2>4. Undisturbed => Remembered(mem[a])
    BY <2>2 DEF Calm, CopyCounts
  <2>5. CASE Refused(a, n, k)
    <3>1. attempted' = attempted
      BY <1>0, <2>5 DEF Refused, historyVars
    <3>2. Undisturbed' => Remembered(k)'
      BY <2>2, <2>4, <2>5, <3>1 DEF Refused, Remembered
    <3> QED BY <2>1, <2>2, <2>3, <3>1, <3>2, CalmMoved
  <2>6. CASE Tried(a, n, k)
    <3>1. Undisturbed' => Remembered(k)'
      BY <2>2, <2>4, <2>6 DEF Tried, Remembered
    <3> QED BY <2>1, <2>2, <2>3, <3>1, CalmMoved
  <2> QED BY <2>1, <2>5, <2>6
<1>5. ASSUME NEW a \in Actors, Save(a)
      PROVE  Calm'
  <2>1. PICK s \in {"node", "end"}, k \in Run, d \in Drive :
            /\ Goto(a, s, k, d) /\ Carries(k, mem[a])
            /\ s = "end" => Exhausted(k)
    BY <1>5, SaveMoves
  <2>2. /\ pc[a] # "idle" /\ Write(a)
        /\ UNCHANGED <<template, attempted, submitted>>
    BY <1>5 DEF Save, NoWork, queueVars
  <2>3. exists' /\ (Undisturbed' => Undisturbed) /\ (Undisturbed => \A b \in Actors : b # a => pc[b] = "idle")
    BY <2>2, AtWork, WriteRun
  <2>4. Undisturbed' => Remembered(k)'
    BY <2>1, <2>2, <2>3 DEF Calm, CopyCounts, Remembered, Carries
  <2>5. Undisturbed' => (s = "end" => Quiet(k)')
    BY <2>1, <2>2, ExhaustedQuiet, QuietStays
  <2> QED BY <1>0, <2>1, <2>2, <2>3, <2>4, <2>5, CalmMoved
<1>6. ASSUME NEW a \in Actors, End(a)
      PROVE  Calm'
  <2>1. /\ pc[a] = "end" /\ Write(a) /\ Goto(a, "idle", Fresh, NoDrive)
        /\ UNCHANGED <<template, attempted, submitted>>
    BY <1>6 DEF End, Leave, NoWork, queueVars
  <2>2. exists' /\ (Undisturbed' => Undisturbed /\ file' = mem[a])
        /\ (Undisturbed => \A b \in Actors : b # a => pc[b] = "idle")
    BY <2>1, AtWork, WriteRun
  <2>3. ASSUME Undisturbed'
        PROVE  Sole' /\ FileCounts' /\ CopyCounts' /\ EndsQuiet'
    <3>1. \A b \in Actors : pc'[b] = "idle"
      BY <2>1, <2>2, <2>3 DEF Goto, Typed, TypeOK
    <3>2. Remembered(mem[a]) /\ Quiet(mem[a]) /\ file' = mem[a]
      BY <2>1, <2>2, <2>3 DEF Calm, CopyCounts, EndsQuiet
    <3>3. Remembered(file)' /\ Quiet(file)'
      BY <2>1, <3>2 DEF Remembered, Quiet, Ready, Satisfied
    <3> QED BY <3>1, <3>3 DEF Sole, AllIdle, FileCounts, CopyCounts, EndsQuiet
  <2> QED BY <1>0, <2>1, <2>2, <2>3 DEF Calm, Unmade
<1>7. ASSUME NEW a \in Actors, Crash(a)
      PROVE  Calm'
  <2>1. /\ pc[a] # "idle" /\ ~Undisturbed' /\ UNCHANGED exists
    BY <1>7, FaultStep DEF Crash, runVars, Typed
  <2> QED BY <1>0, <2>1, AtWork DEF Calm, Unmade
<1>8. CASE UNCHANGED vars
  <2>1. UNCHANGED <<template, exists, file, pc, mem, attempted, disturbed, submitted>>
    BY <1>8 DEF vars, runVars, driveVars, historyVars, queueVars
  <2> QED BY <2>1 DEF Calm, Unmade, Sole, AllIdle, FileCounts, CopyCounts, EndsQuiet,
                      Undisturbed, Remembered, Quiet, Ready, Satisfied
<1> QED BY <1>1, <1>2, <1>3, <1>4, <1>5, <1>6, <1>7, <1>8 DEF Next, GoOn, Operation

LEMMA CalmAlways == Spec => [](Typed /\ Sourced /\ Calm)
<1>1. Init => Typed /\ Sourced /\ Calm
  BY TypedInit, SourcedInit, CalmInit
<1>2. Typed /\ Sourced /\ Calm /\ [Next]_vars => Typed' /\ Sourced' /\ Calm'
  BY TypedStep, SourcedStep, CalmStep
<1> QED BY <1>1, <1>2, PTL DEF Spec

\* A drive stops only when nothing is ready: the bound on its passes, one more
\* than there are nodes, is never what stops it (_drive).
THEOREM Converges == Spec => []NothingLeft
<1>1. Typed /\ Sourced /\ Calm => NothingLeft
  BY DEF Calm, Undisturbed, FileCounts, Quiet, NothingLeft
<1> QED BY CalmAlways, <1>1, PTL

-----------------------------------------------------------------------------
(***************************************************************************)
(* Every repetition is paid for.  An actor whose copy does not know of the *)
(* watched node may dispatch it, and so may the next one to load a file    *)
(* that does not know of it: dispatches and those who may are never more   *)
(* than one and the disturbances.                                          *)
(***************************************************************************)

Knows(m) == Watched \in m.completed \cup m.failed
Ignorant(a) == pc[a] # "idle" /\ ~Knows(mem[a])
Ignorants == {a \in Actors : Ignorant(a)}
Bit(a) == IF Ignorant(a) THEN 1 ELSE 0
Open == IF AllIdle /\ ~Knows(file) THEN 1 ELSE 0

Paid == Counting => times + Cardinality(Ignorants) + Open <= 1 + disturbed

\* One actor moves: how the number of the ignorant changes.
LEMMA IgnorantsMove ==
  ASSUME NEW a \in Actors,
         \A b \in Actors : b # a => pc'[b] = pc[b] /\ mem'[b] = mem[b]
  PROVE  /\ Cardinality(Ignorants) \in Nat /\ Cardinality(Ignorants') \in Nat
         /\ Cardinality(Ignorants') + Bit(a) = Cardinality(Ignorants) + Bit(a)'
<1>1. \A b \in Actors : b # a => (b \in Ignorants <=> b \in Ignorants')
  BY DEF Ignorants, Ignorant, Knows
<1>2. Ignorants \in SUBSET Actors /\ Ignorants' \in SUBSET Actors
  BY DEF Ignorants
<1>3. IsFiniteSet(Ignorants) /\ IsFiniteSet(Ignorants')
  BY <1>2, CampaignAssumption, FS_Subset
<1>4. Cardinality(Ignorants) \in Nat /\ Cardinality(Ignorants') \in Nat
  BY <1>3, FS_CardinalityType
<1>5. (a \in Ignorants <=> Ignorant(a)) /\ (a \in Ignorants' <=> Ignorant(a)')
  BY DEF Ignorants
<1>6. CASE Ignorant(a) <=> Ignorant(a)'
  <2>1. Ignorants' = Ignorants
    BY <1>1, <1>2, <1>5, <1>6
  <2>2. Bit(a)' = Bit(a) /\ Bit(a) \in {0, 1}
    BY <1>6 DEF Bit
  <2> QED BY <1>4, <2>1, <2>2
<1>7. CASE Ignorant(a) /\ ~Ignorant(a)'
  <2>1. Ignorants' = Ignorants \ {a} /\ a \in Ignorants
    BY <1>1, <1>2, <1>5, <1>7
  <2>2. Cardinality(Ignorants') = Cardinality(Ignorants) - 1
    BY <1>3, <2>1, FS_RemoveElement
  <2>3. Bit(a)' = 0 /\ Bit(a) = 1
    BY <1>7 DEF Bit
  <2> QED BY <1>4, <2>2, <2>3
<1>8. CASE ~Ignorant(a) /\ Ignorant(a)'
  <2>1. Ignorants' = Ignorants \cup {a} /\ a \notin Ignorants
    BY <1>1, <1>2, <1>5, <1>8
  <2>2. Cardinality(Ignorants') = Cardinality(Ignorants) + 1
    BY <1>3, <2>1, FS_AddElement
  <2>3. Bit(a)' = 1 /\ Bit(a) = 0
    BY <1>8 DEF Bit
  <2> QED BY <1>4, <2>2, <2>3
<1> QED BY <1>6, <1>7, <1>8

\* What an actor's step has to show: what it dispatches, and what it or the file
\* no longer knows afterwards, is paid for by what it did not know before, or is
\* a disturbance.
LEMMA PaidMoved ==
  ASSUME Typed, Typed', Paid, NEW a \in Actors,
         NEW s, NEW k, NEW d, Goto(a, s, k, d),
         disturbed' \in {disturbed, disturbed + 1} \/ ~Counting',
         Counting' => times' + Bit(a)' + Open' + disturbed <= times + Bit(a) + Open + disturbed'
  PROVE  Paid'
<1> SUFFICES ASSUME Counting'
             PROVE  times' + Cardinality(Ignorants') + Open' <= 1 + disturbed'
  BY DEF Paid
<1>1. Counting /\ disturbed \in Nat /\ disturbed' \in Nat /\ times \in Nat /\ times' \in Nat
  BY CampaignAssumption DEF Counting, Typed, TypeOK
<1>2. times + Cardinality(Ignorants) + Open <= 1 + disturbed
  BY <1>1 DEF Paid
<1>3. /\ Cardinality(Ignorants) \in Nat /\ Cardinality(Ignorants') \in Nat
      /\ Cardinality(Ignorants') + Bit(a) = Cardinality(Ignorants) + Bit(a)'
  <2>1. \A b \in Actors : b # a => pc'[b] = pc[b] /\ mem'[b] = mem[b]
    BY DEF Goto, Typed, TypeOK
  <2> QED BY <2>1, IgnorantsMove
<1>4. Bit(a) \in {0, 1} /\ Bit(a)' \in {0, 1} /\ Open \in {0, 1} /\ Open' \in {0, 1}
  BY DEF Bit, Open
<1> QED BY <1>1, <1>2, <1>3, <1>4

LEMMA PaidUnmoved ==
  ASSUME Typed, Paid, pc' = pc, mem' = mem, file' = file, times' = times, disturbed' = disturbed
  PROVE  Paid'
<1>1. Ignorants' = Ignorants /\ Open' = Open
  BY DEF Ignorants, Ignorant, Open, AllIdle, Knows
<1> QED BY <1>1 DEF Paid, Counting

LEMMA PaidInit == Init => Paid
<1> SUFFICES ASSUME Init PROVE Paid
  OBVIOUS
<1>1. Ignorants = {}
  BY DEF Init, Ignorants, Ignorant
<1>2. Cardinality(Ignorants) = 0
  BY <1>1, FS_EmptySet
<1>3. times = 0 /\ disturbed = 0 /\ Open \in {0, 1}
  BY DEF Init, Open
<1> QED BY <1>2, <1>3 DEF Paid

LEMMA PaidStep ==
  ASSUME Typed, Typed', Sourced, Calm, Paid, [Next]_vars
  PROVE  Paid'
<1>0. /\ file \in Run /\ times \in Nat /\ disturbed \in Nat
      /\ \A a \in Actors : Bit(a) \in {0, 1} /\ Bit(a)' \in {0, 1}
      /\ Open \in {0, 1} /\ Open' \in {0, 1}
      /\ times' \in Nat /\ disturbed' \in Nat
  BY CampaignAssumption DEF Typed, TypeOK, Bit, Open
<1>1. CASE Queue
  BY <1>1, QueueCounts, PaidUnmoved DEF driveVars
<1>2. ASSUME NEW a \in Actors, CreateCampaign(a)
      PROVE  Paid'
  <2>1. file' = Fresh /\ pc' = pc /\ mem' = mem
    BY <1>2 DEF CreateCampaign, driveVars
  <2>2. /\ Counting' => times' = times
        /\ Counting' => disturbed' = disturbed + 1 \/ (~exists /\ disturbed' = disturbed)
    BY <1>2, CreationCounts
  <2>3. CASE Counting' /\ disturbed' = disturbed + 1
    <3>1. Ignorants' = Ignorants
      BY <2>1 DEF Ignorants, Ignorant, Knows
    <3>2. Counting
      BY <1>0, <2>3, CampaignAssumption DEF Counting, Typed, TypeOK
    <3>3. Ignorants \in SUBSET Actors
      BY DEF Ignorants
    <3>4. IsFiniteSet(Ignorants)
      BY <3>3, CampaignAssumption, FS_Subset
    <3>5. Cardinality(Ignorants) \in Nat
      BY <3>4, FS_CardinalityType
    <3>6. times + Cardinality(Ignorants) + Open <= 1 + disturbed
      BY <3>2 DEF Paid
    <3>7. times' + Cardinality(Ignorants) + Open' <= 1 + disturbed'
      BY <1>0, <2>2, <2>3, <3>5, <3>6
    <3> QED BY <3>1, <3>7 DEF Paid
  <2>4. CASE Counting' /\ ~exists /\ disturbed' = disturbed
    <3>1. file' = file
      BY <2>1, <2>4 DEF Calm, Unmade
    <3> QED BY <2>1, <2>2, <2>4, <3>1, PaidUnmoved
  <2>5. CASE ~Counting'
    BY <2>5 DEF Paid
  <2> QED BY <2>2, <2>3, <2>4, <2>5
<1>3. ASSUME NEW a \in Actors, Operation(a)
      PROVE  Paid'
  <2>1. PICK s \in {"node", "save", "end"}, k \in Run, d \in Drive :
            Goto(a, s, k, d) /\ Carries(k, file)
    BY <1>3, OperationMoves
  <2>2. /\ pc[a] = "idle" /\ file' = file
        /\ Counting' => times' = times
        /\ Counting' => disturbed' = disturbed + 1 \/ (AllIdle /\ disturbed' = disturbed)
    BY <1>3, CallCounts
  <2>3. pc'[a] # "idle" /\ mem'[a] = k
    BY <2>1 DEF Goto, Typed, TypeOK
  <2>4. Open' = 0 /\ Bit(a) = 0
    BY <2>2, <2>3 DEF Open, AllIdle, Bit, Ignorant
  <2>5. AllIdle => Bit(a)' = Open
    <3>1. Ignorant(a)' <=> ~Knows(file)
      BY <2>1, <2>3 DEF Ignorant, Knows, Carries
    <3> QED BY <3>1 DEF Bit, Open
  <2>6. Counting' => times' + Bit(a)' + Open' + disturbed <= times + Bit(a) + Open + disturbed'
    BY <1>0, <2>2, <2>4, <2>5
  <2> QED BY <2>1, <2>2, <2>6, PaidMoved
<1>4. ASSUME NEW a \in Actors, Execute(a)
      PROVE  Paid'
  <2>1. PICK n \in drive[a].todo, k \in Run, d \in Drive :
            /\ Goto(a, "save", k, d)
            /\ Refused(a, n, k) \/ Tried(a, n, k)
    BY <1>4, ExecuteMoves
  <2>2. /\ pc[a] # "idle" /\ disturbed' = disturbed
        /\ n \notin mem[a].completed \cup mem[a].failed
    BY <1>4, <2>1 DEF Execute, Typed, Legal, InDrive
  <2>3. pc'[a] # "idle" /\ mem'[a] = k
    BY <2>1 DEF Goto, Typed, TypeOK
  <2>4. Open = 0 /\ Open' = 0
    BY <2>2, <2>3 DEF Open, AllIdle
  <2>5. Counting' => times' + Bit(a)' <= times + Bit(a)
    <3>1. CASE Refused(a, n, k)
      <4>1. Bit(a)' = Bit(a) /\ times' = times
        BY <2>2, <2>3, <3>1 DEF Refused, Bit, Ignorant, Knows, historyVars
      <4> QED BY <1>0, <4>1
    <3>2. CASE Tried(a, n, k) /\ n = Watched
      <4>1. Bit(a) = 1 /\ Bit(a)' = 0
        BY <2>2, <2>3, <3>2 DEF Tried, Bit, Ignorant, Knows
      <4>2. Counting' => times' = times + 1
        BY <3>2 DEF Tried, Tally
      <4> QED BY <1>0, <4>1, <4>2
    <3>3. CASE Tried(a, n, k) /\ n # Watched
      <4>1. Bit(a)' = Bit(a)
        BY <2>2, <2>3, <3>3 DEF Tried, Bit, Ignorant, Knows
      <4>2. Counting' => times' = times
        BY <3>3 DEF Tried, Tally
      <4> QED BY <1>0, <4>1, <4>2
    <3> QED BY <2>1, <3>1, <3>2, <3>3
  <2>6. Counting' => times' + Bit(a)' + Open' + disturbed <= times + Bit(a) + Open + disturbed'
    BY <1>0, <2>2, <2>4, <2>5
  <2> QED BY <2>1, <2>2, <2>6, PaidMoved
<1>5. ASSUME NEW a \in Actors, Save(a)
      PROVE  Paid'
  <2>1. PICK s \in {"node", "end"}, k \in Run, d \in Drive : Goto(a, s, k, d) /\ Carries(k, mem[a])
    BY <1>5, SaveMoves
  <2>2. pc[a] # "idle" /\ Write(a) /\ NoWork
    BY <1>5 DEF Save
  <2>3. /\ Counting' => disturbed' \in {disturbed, disturbed + 1}
        /\ Counting' => times' = times
    BY <2>2, WriteRun, NoWorkStep DEF Typed
  <2>4. pc'[a] # "idle" /\ mem'[a] = k
    BY <2>1 DEF Goto, Typed, TypeOK
  <2>5. Open = 0 /\ Open' = 0 /\ Bit(a)' = Bit(a)
    BY <2>1, <2>2, <2>4 DEF Open, AllIdle, Bit, Ignorant, Knows, Carries
  <2>6. Counting' => times' + Bit(a)' + Open' + disturbed <= times + Bit(a) + Open + disturbed'
    BY <1>0, <2>3, <2>5
  <2> QED BY <2>1, <2>3, <2>6, PaidMoved
<1>6. ASSUME NEW a \in Actors, End(a)
      PROVE  Paid'
  <2>1. pc[a] = "end" /\ Write(a) /\ NoWork /\ Goto(a, "idle", Fresh, NoDrive)
    BY <1>6 DEF End, Leave
  <2>2. /\ Counting' => disturbed' = disturbed + 1 \/ (file' = mem[a] /\ disturbed' = disturbed)
        /\ Counting' => times' = times
    BY <2>1, WriteRun, NoWorkStep DEF Typed
  <2>3. pc'[a] = "idle"
    BY <2>1 DEF Goto, Typed, TypeOK
  <2>4. Open = 0 /\ Bit(a)' = 0
    BY <2>1, <2>3 DEF Open, AllIdle, Bit, Ignorant
  <2>5. file' = mem[a] => Open' <= Bit(a)
    <3>1. file' = mem[a] /\ Open' = 1 => Bit(a) = 1
      BY <2>1 DEF Open, Bit, Ignorant, Knows
    <3> QED BY <1>0, <3>1
  <2>6. Counting' => times' + Bit(a)' + Open' + disturbed <= times + Bit(a) + Open + disturbed'
    BY <1>0, <2>2, <2>4, <2>5
  <2> QED BY <2>1, <2>2, <2>6, PaidMoved
<1>7. ASSUME NEW a \in Actors, Crash(a)
      PROVE  Paid'
  <2>1. pc[a] # "idle" /\ Fault /\ NoWork /\ Goto(a, "idle", Fresh, NoDrive)
    BY <1>7 DEF Crash, Leave
  <2>2. /\ Counting' => disturbed' = disturbed + 1
        /\ Counting' => times' = times
    BY <2>1, FaultStep, NoWorkStep DEF Typed
  <2>3. pc'[a] = "idle"
    BY <2>1 DEF Goto, Typed, TypeOK
  <2>4. Open = 0 /\ Bit(a)' = 0
    BY <2>1, <2>3 DEF Open, AllIdle, Bit, Ignorant
  <2>5. Counting' => times' + Bit(a)' + Open' + disturbed <= times + Bit(a) + Open + disturbed'
    BY <1>0, <2>2, <2>4
  <2> QED BY <2>1, <2>2, <2>5, PaidMoved
<1>8. CASE UNCHANGED vars
  BY <1>8, PaidUnmoved DEF vars, runVars, driveVars, historyVars
<1> QED BY <1>1, <1>2, <1>3, <1>4, <1>5, <1>6, <1>7, <1>8 DEF Next, GoOn, Operation

\* A node is dispatched at most once more than there were faults, second creations
\* and overlapping operations, however often the campaign is started, advanced or
\* approved and whatever failed (_drive excludes what was tried).
THEOREM Dispatches == Spec => []DispatchesPaid
<1> DEFINE I == Typed /\ Sourced /\ Calm /\ Paid
<1>1. Init => I
  BY TypedInit, SourcedInit, CalmInit, PaidInit
<1>2. I /\ [Next]_vars => I'
  BY TypedStep, SourcedStep, CalmStep, PaidStep
<1>3. I => DispatchesPaid
  <2> SUFFICES ASSUME Typed, Paid, Counting
               PROVE  times <= 1 + disturbed
    BY DEF DispatchesPaid
  <2>1. Ignorants \in SUBSET Actors
    BY DEF Ignorants
  <2>2. IsFiniteSet(Ignorants)
    BY <2>1, CampaignAssumption, FS_Subset
  <2>3. Cardinality(Ignorants) \in Nat
    BY <2>2, FS_CardinalityType
  <2>4. times \in Nat /\ disturbed \in Nat /\ Open \in {0, 1}
    BY CampaignAssumption DEF Typed, TypeOK, Open
  <2> QED BY <2>3, <2>4 DEF Paid
<1> QED BY <1>1, <1>2, <1>3, PTL DEF Spec

-----------------------------------------------------------------------------
(***************************************************************************)
(* An operation gets nearer its end with every step of its own.            *)
(***************************************************************************)

\* What a pass has left is a finite set of nodes.
LEMMA TodoFinite ==
  ASSUME Typed, NEW a \in Actors
  PROVE  IsFiniteSet(drive[a].todo)
<1>1. IsFiniteSet(Nodes)
  BY FS_Interval, CampaignAssumption DEF Nodes
<1>2. drive[a].todo \in SUBSET Nodes
  BY DEF Typed, TypeOK, Drive
<1> QED BY <1>1, <1>2, FS_Subset

\* A step of an operation shortens its own way to the end, and no other's.
LEMMA ShrinkStep ==
  ASSUME Typed, [Next]_vars, NEW a \in Actors, pc[a] # "idle"
  PROVE  Nearer(a) \/ UNCHANGED <<pc[a], mem[a], drive[a]>>
<1>1. ASSUME NEW b \in Actors, NEW s, NEW k, NEW d, Goto(b, s, k, d), b # a
      PROVE  UNCHANGED <<pc[a], mem[a], drive[a]>>
  BY <1>1 DEF Goto, Typed, TypeOK
<1>2. ASSUME NEW s, NEW k, NEW d, Goto(a, s, k, d)
      PROVE  pc'[a] = s /\ drive'[a] = d
  BY <1>2 DEF Goto, Typed, TypeOK
<1>3. CASE Queue
  BY <1>3 DEF Queue, driveVars
<1>4. ASSUME NEW b \in Actors, CreateCampaign(b)
      PROVE  UNCHANGED <<pc[a], mem[a], drive[a]>>
  BY <1>4 DEF CreateCampaign, driveVars
<1>5. ASSUME NEW b \in Actors, Operation(b)
      PROVE  UNCHANGED <<pc[a], mem[a], drive[a]>>
  <2>1. b # a
    BY <1>5, CallCounts
  <2> QED BY <1>1, <1>5, <2>1, OperationMoves
<1>6. ASSUME NEW b \in Actors, GoOn(b) \/ Crash(b), b # a
      PROVE  UNCHANGED <<pc[a], mem[a], drive[a]>>
  <2>1. \E s, k, d : Goto(b, s, k, d)
    BY <1>6, ExecuteMoves, SaveMoves DEF GoOn, End, Crash, Leave
  <2> QED BY <1>1, <1>6, <2>1
<1>7. CASE Execute(a)
  <2>1. PICK n \in drive[a].todo, k \in Run, d \in Drive :
            /\ Goto(a, "save", k, d)
            /\ d.todo = drive[a].todo \ {n} /\ d.left = drive[a].left
    BY <1>7, ExecuteMoves
  <2>2. pc[a] = "node" /\ pc'[a] = "save" /\ drive'[a] = d
    BY <1>2, <1>7, <2>1 DEF Execute
  <2>3. IsFiniteSet(drive[a].todo)
    BY TodoFinite
  <2>4. /\ Cardinality(drive[a].todo) \in Nat
        /\ Cardinality(d.todo) = Cardinality(drive[a].todo) - 1
    BY <2>1, <2>3, FS_CardinalityType, FS_RemoveElement
  <2>5. Rank(a) = 2 * Cardinality(drive[a].todo) /\ Rank(a)' = 2 * Cardinality(d.todo) + 1
    BY <2>2, <2>4 DEF Rank
  <2>6. Rank(a)' < Rank(a)
    BY <2>4, <2>5
  <2> QED BY <2>1, <2>2, <2>6 DEF Nearer
<1>8. CASE Save(a)
  <2>1. PICK s \in {"node", "end"}, k \in Run, d \in Drive :
            /\ Goto(a, s, k, d)
            /\ s = "node" => d = drive[a] \/ d.left < drive[a].left
    BY <1>8, SaveMoves
  <2>2. pc[a] = "save" /\ pc'[a] = s /\ drive'[a] = d
    BY <1>2, <1>8, <2>1 DEF Save
  <2>3. CASE s = "node" /\ d = drive[a]
    <3>1. IsFiniteSet(drive[a].todo)
      BY TodoFinite
    <3>2. Cardinality(drive[a].todo) \in Nat
      BY <3>1, FS_CardinalityType
    <3>3. Rank(a)' < Rank(a)
      BY <2>2, <2>3, <3>2 DEF Rank
    <3> QED BY <2>2, <2>3, <3>3 DEF Nearer
  <2>4. CASE s = "node" /\ d.left < drive[a].left
    BY <2>2, <2>4 DEF Nearer
  <2>5. CASE s = "end"
    BY <2>2, <2>5 DEF Nearer
  <2> QED BY <2>1, <2>3, <2>4, <2>5
<1>9. CASE End(a) \/ Crash(a)
  BY <1>2, <1>9 DEF End, Crash, Leave, Nearer
<1>10. CASE UNCHANGED vars
  BY <1>10 DEF vars, driveVars
<1> QED BY <1>3, <1>4, <1>5, <1>6, <1>7, <1>8, <1>9, <1>10 DEF Next, GoOn, Operation

\* For every template, and whatever the other operations do to the run, every step
\* of an operation ends it, brings the end of its pass nearer or uses up one of its
\* passes: no drive goes on for ever (_drive).
THEOREM Shrinks == Spec => DriveShrinks
<1>1. Typed /\ [Next]_vars
        => [\A a \in Actors : pc[a] # "idle" =>
                Nearer(a) \/ UNCHANGED <<pc[a], mem[a], drive[a]>>]_vars
  BY ShrinkStep
<1> QED BY TypedInit, TypedStep, <1>1, PTL DEF Spec, DriveShrinks

=============================================================================

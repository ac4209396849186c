-------------------------- MODULE ApprovalsProofs --------------------------
(***************************************************************************)
(* What the approval queue guarantees for every set of requests, callers   *)
(* and faults: it keeps the promise Verdicts, no outcome is undone, every  *)
(* further decision of a request is paid for by a fault or a race, and     *)
(* while all is calm the stores agree.                                     *)
(***************************************************************************)
EXTENDS Approvals, FiniteSetTheorems, TLAPS

-----------------------------------------------------------------------------
(***************************************************************************)
(* Type correctness, with what an actor holds at each step.                *)
(***************************************************************************)

Held ==
    \A a \in Actors :
        /\ pc[a] = "idle" <=> at[a] = None
        /\ pc[a] # "idle" => at[a] \in submitted
        /\ pc[a] = "decide" => row[a] \in Verdict
        /\ pc[a] \in {"put", "mirror"} => row[a] \in Status

\* What is in a store, or on its way there, was submitted.
Stored == \A i \in Ids : table[i] # "absent" \/ mirror[i] # "absent" => i \in submitted

Typed == TypeOK /\ Held /\ Stored

Counts == decisions \in Nat /\ disturbed \in 0..MaxCount /\ faults \in 0..MaxFaults

\* A disturbance is counted, until they are no longer.
LEMMA Disturbed ==
  ASSUME TypeOK, Disturb
  PROVE  /\ decisions' \in Nat /\ disturbed' \in 0..MaxCount /\ disturbed' # 0
         /\ Counting' => Counting /\ disturbed' = disturbed + 1 /\ decisions' = decisions
<1>1. disturbed \in 0..MaxCount /\ decisions \in Nat
  BY DEF TypeOK
<1> QED BY <1>1, ApprovalsAssumption DEF Disturb, Counting

\* A fault is counted, and all is calm no more.
LEMMA FaultStep ==
  ASSUME TypeOK, Fault
  PROVE  Counts' /\ disturbed' # 0
<1>1. faults' \in 0..MaxFaults /\ Disturb
  BY ApprovalsAssumption DEF Fault, TypeOK
<1> QED BY <1>1, Disturbed DEF Counts

\* A reader gets what one of the stores holds, and nothing is disturbed only if it
\* is the row that counts and nobody else works on the request.
LEMMA LoadedRow ==
  ASSUME TypeOK, NEW a \in Actors, NEW i \in Ids, NEW r, Loads(a, i, r)
  PROVE  /\ r \in {table[i], mirror[i]}
         /\ Counts'
         /\ Disturb \/ (UNCHANGED countVars /\ Alone(a, i) /\ r = Merged(i))
<1>1. CASE r = Merged(i) /\ Alone(a, i) /\ NoFault
  <2>1. Counts'
    BY <1>1 DEF NoFault, countVars, Counts, TypeOK
  <2> QED BY <1>1, <2>1 DEF NoFault, Merged
<1>2. CASE r = Merged(i) /\ Disturb /\ UNCHANGED faults
  <2>1. Counts'
    BY <1>2, Disturbed DEF Counts, TypeOK
  <2> QED BY <1>2, <2>1 DEF Merged
<1>3. CASE r \in {table[i], mirror[i]} /\ Fault
  BY <1>3, FaultStep DEF Fault
<1> QED BY <1>1, <1>2, <1>3 DEF Loads, Begin

\* A row that is due or open was submitted.
LEMMA OpenRow ==
  ASSUME Typed, NEW i \in Ids, NEW r \in {table[i], mirror[i]},
         IsDue(i, r) \/ IsOpen(r)
  PROVE  i \in submitted
BY DEF Typed, Stored, IsDue, IsOpen

LEMMA TypedInit == Init => Typed
BY ApprovalsAssumption DEF Init, Typed, TypeOK, Held, Stored, Row, Status, Verdict, Steps

LEMMA TypedStep == Typed /\ [Next]_vars => Typed'
<1> SUFFICES ASSUME Typed, [Next]_vars
             PROVE  Typed'
  OBVIOUS
<1> USE ApprovalsAssumption DEF Counts, countVars
<1>1. ASSUME NEW i \in Ids, Elapse(i)
      PROVE  Typed'
  BY <1>1 DEF Elapse, Typed, TypeOK, Held, Stored, storeVars, callVars, historyVars
<1>2. ASSUME NEW a \in Actors, NEW i \in Ids, Create(a, i)
      PROVE  Typed'
  BY <1>2 DEF Create, Goto, Typed, TypeOK, Held, Stored, storeVars, Steps, Row, Status
<1>3. ASSUME NEW a \in Actors, NEW i \in Ids, Read(a, i)
      PROVE  Typed'
  <2>1. PICK r \in Row :
            /\ Loads(a, i, r)
            /\ \/ IsDue(i, r) /\ Goto(a, "put", i, Expired(r)) /\ UNCHANGED granted
               \/ /\ ~IsDue(i, r) /\ Leave(a)
                  /\ granted' = IF r = "approved" THEN granted \cup {i} ELSE granted
    BY <1>3 DEF Read
  <2>2. /\ r \in {table[i], mirror[i]}
        /\ Counts'
    BY <2>1, LoadedRow DEF Typed
  <2>3. UNCHANGED <<due, storeVars, submitted, verdicts>>
    BY <1>3 DEF Read
  <2>4. CASE IsDue(i, r) /\ Goto(a, "put", i, Expired(r)) /\ UNCHANGED granted
    <3>1. i \in submitted
      BY <2>2, <2>4, OpenRow
    <3> QED BY <2>2, <2>3, <2>4, <3>1
            DEF Goto, Expired, Typed, TypeOK, Held, Stored, storeVars, Steps, Row, Status
  <2>5. CASE ~IsDue(i, r) /\ Leave(a)
    <3>1. granted' \subseteq Ids
      BY <2>1, <2>5 DEF Typed, TypeOK
    <3> QED BY <2>2, <2>3, <2>5, <3>1
            DEF Leave, Goto, Typed, TypeOK, Held, Stored, storeVars, Steps, Row, Status
  <2> QED BY <2>1, <2>4, <2>5
<1>4. ASSUME NEW a \in Actors, NEW i \in Ids, NEW v \in Verdict, Consider(a, i, v),
             UNCHANGED <<due, storeVars, historyVars>>
      PROVE  Typed'
  <2>1. PICK r \in Row :
            /\ Loads(a, i, r)
            /\ \/ IsDue(i, r) /\ Goto(a, "put", i, Expired(r))
               \/ IsOpen(r) /\ Goto(a, "decide", i, v)
               \/ Leave(a)
    BY <1>4 DEF Consider
  <2>2. /\ r \in {table[i], mirror[i]}
        /\ Counts'
    BY <2>1, LoadedRow DEF Typed
  <2>3. CASE IsDue(i, r) /\ Goto(a, "put", i, Expired(r))
    <3>1. i \in submitted
      BY <2>2, <2>3, OpenRow
    <3> QED BY <1>4, <2>2, <2>3, <3>1
            DEF Goto, Expired, Typed, TypeOK, Held, Stored, storeVars, historyVars, Steps, Row, Status
  <2>4. CASE IsOpen(r) /\ Goto(a, "decide", i, v)
    <3>1. i \in submitted
      BY <2>2, <2>4, OpenRow
    <3> QED BY <1>4, <2>2, <2>4, <3>1
            DEF Goto, Typed, TypeOK, Held, Stored, storeVars, historyVars, Steps, Row, Status
  <2>5. CASE Leave(a)
    BY <1>4, <2>2, <2>5
       DEF Leave, Goto, Typed, TypeOK, Held, Stored, storeVars, historyVars, Steps, Row, Status
  <2> QED BY <2>1, <2>3, <2>4, <2>5
<1>5. ASSUME NEW a \in Actors, NEW i \in Ids, Ask(a, i)
      PROVE  Typed'
  BY <1>4, <1>5 DEF Ask
<1>6. ASSUME NEW a \in Actors, NEW i \in Ids, Batch(a, i)
      PROVE  Typed'
  <2>1. PICK r \in Row :
            /\ Loads(a, i, r)
            /\ \/ IsDue(i, r) /\ Goto(a, "put", i, Expired(r))
               \/ IsOpen(r) /\ Goto(a, "batch", i, "absent")
    BY <1>6 DEF Batch
  <2>2. /\ r \in {table[i], mirror[i]}
        /\ Counts'
    BY <2>1, LoadedRow DEF Typed
  <2>3. i \in submitted
    BY <2>1, <2>2, OpenRow
  <2>4. \E step \in {"put", "batch"}, status \in Row :
            Goto(a, step, i, status) /\ (step = "put" => status \in Status)
    BY <2>1 DEF Expired, Row, Status
  <2> QED BY <1>6, <2>2, <2>3, <2>4
          DEF Batch, Goto, Typed, TypeOK, Held, Stored, storeVars, historyVars, Steps
<1>7. ASSUME NEW a \in Actors, BatchOn(a)
      PROVE  Typed'
  <2>1. at[a] \in Ids /\ "approved" \in Verdict
    BY <1>7 DEF BatchOn, Typed, TypeOK, Verdict
  <2> QED BY <1>4, <1>7, <2>1 DEF BatchOn
<1>8. ASSUME NEW a \in Actors, Rule(a)
      PROVE  Typed'
  <2>1. at[a] \in Ids /\ row[a] \in Verdict
    BY <1>8 DEF Rule, Typed, TypeOK, Held
  <2>2. verdicts' \in [Ids -> SUBSET Verdict] /\ decisions' \in Nat
    BY <1>8, <2>1 DEF Rule, Typed, TypeOK
  <2> QED BY <1>8, <2>1, <2>2
          DEF Rule, Goto, Typed, TypeOK, Held, Stored, storeVars, Steps, Row, Status
<1>9. ASSUME NEW a \in Actors, Put(a)
      PROVE  Typed'
  <2>1. at[a] \in submitted /\ row[a] \in Status
    BY <1>9 DEF Put, Typed, Held
  <2>2. table' \in [Ids -> Row] /\ \A i \in Ids : table'[i] # "absent" => i \in submitted
    BY <1>9, <2>1 DEF Put, Typed, TypeOK, Stored, Row
  <2>3. Counts'
    BY <1>9, FaultStep DEF Put, NoFault, Typed, TypeOK
  <2> QED BY <1>9, <2>2, <2>3
          DEF Put, Goto, Typed, TypeOK, Held, Stored, historyVars, Steps, Row
<1>10. ASSUME NEW a \in Actors, Mirror(a)
       PROVE  Typed'
  <2>1. at[a] \in submitted /\ row[a] \in Status
    BY <1>10 DEF Mirror, Typed, Held
  <2>2. mirror' \in [Ids -> Row] /\ \A i \in Ids : mirror'[i] # "absent" => i \in submitted
    BY <1>10, <2>1 DEF Mirror, Mirrored, Typed, TypeOK, Stored, Row
  <2>3. Counts'
    BY <1>10, FaultStep DEF Mirror, NoFault, Typed, TypeOK
  <2> QED BY <1>10, <2>2, <2>3
          DEF Mirror, Leave, Goto, Typed, TypeOK, Held, Stored, historyVars, Steps, Row
<1>11. ASSUME NEW a \in Actors, Crash(a)
       PROVE  Typed'
  <2>1. Counts'
    BY <1>11, FaultStep DEF Crash, Typed
  <2> QED BY <1>11, <2>1
          DEF Crash, Leave, Goto, Typed, TypeOK, Held, Stored, storeVars, historyVars, Steps, Row
<1>12. CASE UNCHANGED vars
  BY <1>12 DEF vars, storeVars, callVars, historyVars, Typed, TypeOK, Held, Stored
<1> QED BY <1>1, <1>2, <1>3, <1>5, <1>6, <1>7, <1>8, <1>9, <1>10, <1>11, <1>12 DEF Next

\* Every reachable state is well-typed: a call works on a request exactly while
\* it is under way, and only on a submitted one.
THEOREM TypeCorrect == Spec => []TypeOK
<1>1. Spec => []Typed
  BY TypedInit, TypedStep, PTL DEF Spec
<1>2. Typed => TypeOK
  BY DEF Typed
<1> QED BY <1>1, <1>2, PTL

-----------------------------------------------------------------------------
(***************************************************************************)
(* The promise.  A row that says approved, in a store or in the hands of   *)
(* an actor that is about to write it, goes back to an operator's          *)
(* approval: that is what every write has to carry along.                  *)
(***************************************************************************)

Backed ==
    /\ \A i \in Ids :
          table[i] = "approved" \/ mirror[i] = "approved" => "approved" \in verdicts[i]
    /\ \A a \in Actors :
          pc[a] \in {"put", "mirror"} /\ row[a] = "approved" =>
              "approved" \in verdicts[at[a]]

LEMMA BackedInit == Init => Backed
BY DEF Init, Backed

\* The actions that only move an actor: none of them writes a store or decides.
LEMMA BackedMove ==
  ASSUME Typed, Backed, NEW a \in Actors, NEW step, NEW i, NEW status,
         Goto(a, step, i, status),
         step \in {"put", "mirror"} => status # "approved",
         UNCHANGED <<storeVars, verdicts>>
  PROVE  Backed'
BY DEF Typed, TypeOK, Backed, Goto, storeVars

LEMMA BackedStep == Typed /\ Backed /\ [Next]_vars => Backed'
<1> SUFFICES ASSUME Typed, Backed, [Next]_vars
             PROVE  Backed'
  OBVIOUS
<1>1. ASSUME NEW i \in Ids, Elapse(i)
      PROVE  Backed'
  BY <1>1 DEF Elapse, Backed, storeVars, callVars, historyVars
<1>2. ASSUME NEW a \in Actors, NEW i \in Ids, Create(a, i)
      PROVE  Backed'
  BY <1>2, BackedMove DEF Create
<1>3. ASSUME NEW a \in Actors, NEW i \in Ids, Read(a, i)
      PROVE  Backed'
  BY <1>3, BackedMove DEF Read, Leave, Expired
<1>4. ASSUME NEW a \in Actors, NEW i \in Ids, NEW v \in Verdict, Consider(a, i, v),
             UNCHANGED <<due, storeVars, historyVars>>
      PROVE  Backed'
  BY <1>4, BackedMove DEF Consider, Leave, Expired, historyVars
<1>5. ASSUME NEW a \in Actors, NEW i \in Ids, Ask(a, i)
      PROVE  Backed'
  BY <1>4, <1>5 DEF Ask
<1>6. ASSUME NEW a \in Actors, NEW i \in Ids, Batch(a, i)
      PROVE  Backed'
  BY <1>6, BackedMove DEF Batch, Expired, historyVars
<1>7. ASSUME NEW a \in Actors, BatchOn(a)
      PROVE  Backed'
  <2>1. at[a] \in Ids /\ "approved" \in Verdict
    BY <1>7 DEF BatchOn, Typed, TypeOK, Verdict
  <2> QED BY <1>4, <1>7, <2>1 DEF BatchOn
<1>8. ASSUME NEW a \in Actors, Rule(a)
      PROVE  Backed'
  <2>1. at[a] \in Ids
    BY <1>8 DEF Rule, Typed, TypeOK
  <2>2. \A i \in Ids : verdicts[i] \subseteq verdicts'[i]
    BY <1>8, <2>1 DEF Rule, Typed, TypeOK
  <2>3. row[a] \in verdicts'[at[a]]
    BY <1>8, <2>1 DEF Rule, Typed, TypeOK
  <2>4. \A b \in Actors : pc[b] # "idle" => at[b] \in Ids
    BY DEF Typed, TypeOK
  <2> QED BY <1>8, <2>2, <2>3, <2>4 DEF Rule, Goto, Typed, TypeOK, Backed, storeVars
<1>9. ASSUME NEW a \in Actors, Put(a)
      PROVE  Backed'
  <2>1. at[a] \in Ids
    BY <1>9 DEF Put, Typed, TypeOK
  <2> QED BY <1>9, <2>1 DEF Put, Goto, Typed, TypeOK, Backed, historyVars
<1>10. ASSUME NEW a \in Actors, Mirror(a)
       PROVE  Backed'
  <2>1. at[a] \in Ids
    BY <1>10 DEF Mirror, Typed, TypeOK
  <2>2. \A i \in Ids : mirror'[i] = "approved" => "approved" \in verdicts[i]
    BY <1>10, <2>1 DEF Mirror, Mirrored, Typed, TypeOK, Backed
  <2> QED BY <1>10, <2>2 DEF Mirror, Leave, Goto, Typed, TypeOK, Backed, historyVars
<1>11. ASSUME NEW a \in Actors, Crash(a)
       PROVE  Backed'
  BY <1>11, BackedMove DEF Crash, Leave, historyVars
<1>12. CASE UNCHANGED vars
  BY <1>12 DEF vars, storeVars, callVars, historyVars, Backed
<1> QED BY <1>1, <1>2, <1>3, <1>5, <1>6, <1>7, <1>8, <1>9, <1>10, <1>11, <1>12 DEF Next

\* A move that takes no decision away from a request past its deadline, and
\* begins none on one, leaves the set of lapsed requests as it is.
LEMMA LapsedMove ==
  ASSUME Typed, NEW a \in Actors, pc[a] # "decide",
         NEW step, NEW i, NEW status, Goto(a, step, i, status),
         step = "decide" => i \notin due,
         due' = due
  PROVE  Lapsed' = Lapsed
<1>1. \A b \in Actors \ {a} : pc'[b] = pc[b] /\ at'[b] = at[b]
  BY DEF Goto, Typed, TypeOK
<1>2. pc'[a] = step /\ at'[a] = i
  BY DEF Goto, Typed, TypeOK
<1> QED BY <1>1, <1>2 DEF Lapsed

\* The end of a decision lets at most its own request lapse.
LEMMA LapsedEnd ==
  ASSUME Typed, NEW a \in Actors, pc[a] = "decide",
         NEW step, NEW i, NEW status, Goto(a, step, i, status),
         step # "decide", due' = due
  PROVE  Lapsed' \in {Lapsed, Lapsed \cup {at[a]}}
<1>1. \A b \in Actors \ {a} : pc'[b] = pc[b] /\ at'[b] = at[b]
  BY DEF Goto, Typed, TypeOK
<1>2. pc'[a] = step /\ at'[a] = i
  BY DEF Goto, Typed, TypeOK
<1>3. Lapsed \subseteq Lapsed' /\ Lapsed' \subseteq Lapsed \cup {at[a]}
  BY <1>1, <1>2 DEF Lapsed
<1> QED BY <1>3

\* Initial states are initial states of the promise.
LEMMA PromiseInit == Init => Promise!QueueInit
BY DEF Init, Promise!QueueInit, Lapsed

\* Every step is a step of the promise, or one it does not see.
LEMMA PromiseStep ==
  Typed /\ Backed /\ [Next]_vars => [Promise!QueueNext]_(Promise!queueVars)
<1> SUFFICES ASSUME Typed, Backed, [Next]_vars
             PROVE  Promise!QueueNext \/ UNCHANGED Promise!queueVars
  OBVIOUS
<1> USE DEF Promise!queueVars
<1>1. ASSUME NEW i \in Ids, Elapse(i)
      PROVE  Promise!QueueNext \/ UNCHANGED Promise!queueVars
  <2>1. Lapsed' \in {Lapsed, Lapsed \cup {i}}
    BY <1>1 DEF Elapse, Lapsed, callVars
  <2>2. i \in submitted /\ UNCHANGED <<submitted, verdicts, granted>>
    BY <1>1 DEF Elapse, historyVars
  <2> QED BY <2>1, <2>2 DEF Promise!QueueNext, Promise!Lapse
<1>2. ASSUME NEW a \in Actors, NEW i \in Ids, Create(a, i)
      PROVE  Promise!QueueNext
  <2>1. Lapsed' = Lapsed
    BY <1>2, LapsedMove DEF Create
  <2>2. Promise!Submit(i)
    BY <1>2, <2>1 DEF Create, Promise!Submit
  <2> QED BY <2>2 DEF Promise!QueueNext
<1>3. ASSUME NEW a \in Actors, NEW i \in Ids, Read(a, i)
      PROVE  Promise!QueueNext \/ UNCHANGED Promise!queueVars
  <2>1. PICK r \in Row :
            /\ Loads(a, i, r)
            /\ \/ Goto(a, "put", i, Expired(r)) /\ UNCHANGED granted
               \/ /\ Leave(a)
                  /\ granted' = IF r = "approved" THEN granted \cup {i} ELSE granted
    BY <1>3 DEF Read
  <2>2. Lapsed' = Lapsed
    BY <1>3, <2>1, LapsedMove DEF Read, Leave
  <2>3. UNCHANGED <<submitted, verdicts>>
    BY <1>3 DEF Read
  <2>4. CASE r = "approved" /\ granted' = granted \cup {i}
    <3>1. "approved" \in verdicts[i]
      BY <2>1, <2>4, LoadedRow DEF Typed, Backed
    <3> QED BY <2>2, <2>3, <2>4, <3>1 DEF Promise!QueueNext, Promise!Grant
  <2>5. CASE UNCHANGED granted
    BY <2>2, <2>3, <2>5
  <2> QED BY <2>1, <2>4, <2>5
<1>4. ASSUME NEW a \in Actors, NEW i \in Ids, NEW v \in Verdict, Consider(a, i, v),
             pc[a] # "decide", UNCHANGED <<due, storeVars, historyVars>>
      PROVE  UNCHANGED Promise!queueVars
  <2>1. Lapsed' = Lapsed
    BY <1>4, LapsedMove DEF Consider, Leave, IsDue, IsOpen
  <2> QED BY <1>4, <2>1 DEF historyVars
<1>5. ASSUME NEW a \in Actors, NEW i \in Ids, Ask(a, i)
      PROVE  UNCHANGED Promise!queueVars
  BY <1>4, <1>5 DEF Ask
<1>6. ASSUME NEW a \in Actors, NEW i \in Ids, Batch(a, i)
      PROVE  UNCHANGED Promise!queueVars
  <2>1. Lapsed' = Lapsed
    BY <1>6, LapsedMove DEF Batch
  <2> QED BY <1>6, <2>1 DEF Batch, historyVars
<1>7. ASSUME NEW a \in Actors, BatchOn(a)
      PROVE  UNCHANGED Promise!queueVars
  <2>1. at[a] \in Ids /\ "approved" \in Verdict
    BY <1>7 DEF BatchOn, Typed, TypeOK, Verdict
  <2> QED BY <1>4, <1>7, <2>1 DEF BatchOn
<1>8. ASSUME NEW a \in Actors, Rule(a)
      PROVE  Promise!QueueNext
  <2>1. at[a] \in Ids /\ at[a] \in submitted /\ row[a] \in Verdict
    BY <1>8 DEF Rule, Typed, TypeOK, Held
  <2>2. at[a] \notin Lapsed
    BY <1>8 DEF Rule, Lapsed
  <2>3. Lapsed' \in {Lapsed, Lapsed \cup {at[a]}}
    BY <1>8, LapsedEnd DEF Rule
  <2>4. Promise!Decide(at[a], row[a])
    BY <1>8, <2>1, <2>2, <2>3 DEF Rule, Promise!Decide
  <2>5. row[a] \in Promise!Verdict
    BY <2>1 DEF Verdict, Promise!Verdict
  <2> QED BY <2>1, <2>4, <2>5 DEF Promise!QueueNext
<1>9. ASSUME NEW a \in Actors, Put(a)
      PROVE  UNCHANGED Promise!queueVars
  <2>1. Lapsed' = Lapsed
    BY <1>9, LapsedMove DEF Put
  <2> QED BY <1>9, <2>1 DEF Put, historyVars
<1>10. ASSUME NEW a \in Actors, Mirror(a)
       PROVE  UNCHANGED Promise!queueVars
  <2>1. Lapsed' = Lapsed
    BY <1>10, LapsedMove DEF Mirror, Leave
  <2> QED BY <1>10, <2>1 DEF Mirror, historyVars
<1>11. ASSUME NEW a \in Actors, Crash(a)
       PROVE  Promise!QueueNext \/ UNCHANGED Promise!queueVars
  <2>1. at[a] \in Ids /\ at[a] \in submitted
    BY <1>11 DEF Crash, Typed, TypeOK, Held
  <2>2. Lapsed' \in {Lapsed, Lapsed \cup {at[a]}}
    <3>1. CASE pc[a] = "decide"
      BY <1>11, <3>1, LapsedEnd DEF Crash, Leave
    <3>2. CASE pc[a] # "decide"
      BY <1>11, <3>2, LapsedMove DEF Crash, Leave
    <3> QED BY <3>1, <3>2
  <2>3. UNCHANGED <<submitted, verdicts, granted>>
    BY <1>11 DEF Crash, historyVars
  <2> QED BY <2>1, <2>2, <2>3 DEF Promise!QueueNext, Promise!Lapse
<1>12. CASE UNCHANGED vars
  BY <1>12 DEF vars, callVars, historyVars, Lapsed
<1> QED BY <1>1, <1>2, <1>3, <1>5, <1>6, <1>7, <1>8, <1>9, <1>10, <1>11, <1>12 DEF Next

\* The queue of backend/common/approvals.py implements the promise the
\* subsystems rely on, with any number of requests, callers, failing stores and
\* crashes: nothing counts as approved that no operator approved, and nobody
\* decides a request that lapsed.
THEOREM PromiseKept == Spec => KeepsPromise
<1>1. Spec => []Typed
  BY TypedInit, TypedStep, PTL DEF Spec
<1>2. Spec => []Backed
  BY BackedInit, BackedStep, <1>1, PTL DEF Spec
<1> QED BY <1>1, <1>2, PromiseInit, PromiseStep, PTL DEF Spec, KeepsPromise, Promise!QueueSpec

-----------------------------------------------------------------------------
(***************************************************************************)
(* No outcome is undone.  The only writer of a pending row is the creator  *)
(* of the request, and until it has written nobody else can find it.       *)
(***************************************************************************)

Unseen ==
    \A a \in Actors :
        pc[a] = "put" /\ row[a] = "pending" =>
            /\ table[at[a]] = "absent" /\ mirror[at[a]] = "absent"
            /\ \A b \in Actors \ {a} : at[b] # at[a]

LEMMA UnseenInit == Init => Unseen
BY DEF Init, Unseen

\* An actor that stays on its request, or takes up one that somebody can see,
\* leaves the new ones unseen.
LEMMA UnseenMove ==
  ASSUME Typed, Unseen, NEW a \in Actors, NEW step, NEW i, NEW status,
         Goto(a, step, i, status),
         step = "put" => status # "pending",
         \/ i = at[a]
         \/ i = None
         \/ i \in Ids /\ (table[i] # "absent" \/ mirror[i] # "absent"),
         UNCHANGED storeVars
  PROVE  Unseen'
<1> SUFFICES ASSUME NEW c \in Actors, pc'[c] = "put", row'[c] = "pending"
             PROVE  /\ table'[at'[c]] = "absent" /\ mirror'[at'[c]] = "absent"
                    /\ \A b \in Actors \ {c} : at'[b] # at'[c]
  BY DEF Unseen
<1>1. c # a /\ pc[c] = "put" /\ row[c] = "pending" /\ at'[c] = at[c]
  BY DEF Goto, Typed, TypeOK
<1>2. /\ table[at[c]] = "absent" /\ mirror[at[c]] = "absent"
      /\ \A b \in Actors \ {c} : at[b] # at[c]
  BY <1>1 DEF Unseen
<1>3. at[c] \in Ids /\ at[c] # None
  BY <1>1, ApprovalsAssumption DEF Typed, TypeOK
<1>4. at'[a] # at[c]
  BY <1>1, <1>2, <1>3 DEF Goto, Typed, TypeOK
<1>5. \A b \in Actors \ {a} : at'[b] = at[b]
  BY DEF Goto, Typed, TypeOK
<1> QED BY <1>1, <1>2, <1>4, <1>5 DEF storeVars

LEMMA UnseenStep == Typed /\ Unseen /\ [Next]_vars => Unseen'
<1> SUFFICES ASSUME Typed, Unseen, [Next]_vars
             PROVE  Unseen'
  OBVIOUS
<1>1. ASSUME NEW i \in Ids, Elapse(i)
      PROVE  Unseen'
  BY <1>1 DEF Elapse, Unseen, storeVars, callVars
<1>2. ASSUME NEW a \in Actors, NEW i \in Ids, Create(a, i)
      PROVE  Unseen'
  <2>1. /\ table[i] = "absent" /\ mirror[i] = "absent"
        /\ \A b \in Actors : at[b] # i
    BY <1>2, ApprovalsAssumption DEF Create, Typed, Held, Stored
  <2>2. /\ pc'[a] = "put" /\ at'[a] = i /\ row'[a] = "pending"
        /\ \A b \in Actors \ {a} : pc'[b] = pc[b] /\ at'[b] = at[b] /\ row'[b] = row[b]
    BY <1>2 DEF Create, Goto, Typed, TypeOK
  <2>3. UNCHANGED storeVars
    BY <1>2 DEF Create
  <2> QED BY <2>1, <2>2, <2>3 DEF Unseen, storeVars
<1>3. ASSUME NEW a \in Actors, NEW i \in Ids, Read(a, i)
      PROVE  Unseen'
  <2>1. PICK r \in Row :
            /\ Loads(a, i, r)
            /\ (IsDue(i, r) /\ Goto(a, "put", i, Expired(r))) \/ Leave(a)
    BY <1>3 DEF Read
  <2>2. r \in {table[i], mirror[i]}
    BY <2>1, LoadedRow DEF Typed
  <2>3. CASE IsDue(i, r) /\ Goto(a, "put", i, Expired(r))
    BY <1>3, <2>2, <2>3, UnseenMove DEF Read, IsDue, Expired
  <2>4. CASE Leave(a)
    BY <1>3, <2>4, UnseenMove DEF Read, Leave
  <2> QED BY <2>1, <2>3, <2>4
<1>4. ASSUME NEW a \in Actors, NEW i \in Ids, NEW v \in Verdict, Consider(a, i, v),
             UNCHANGED <<due, storeVars, historyVars>>
      PROVE  Unseen'
  <2>1. PICK r \in Row :
            /\ Loads(a, i, r)
            /\ \/ IsDue(i, r) /\ Goto(a, "put", i, Expired(r))
               \/ IsOpen(r) /\ Goto(a, "decide", i, v)
               \/ Leave(a)
    BY <1>4 DEF Consider
  <2>2. r \in {table[i], mirror[i]}
    BY <2>1, LoadedRow DEF Typed
  <2>3. CASE IsDue(i, r) /\ Goto(a, "put", i, Expired(r))
    BY <1>4, <2>2, <2>3, UnseenMove DEF IsDue, Expired
  <2>4. CASE IsOpen(r) /\ Goto(a, "decide", i, v)
    BY <1>4, <2>2, <2>4, UnseenMove DEF IsOpen
  <2>5. CASE Leave(a)
    BY <1>4, <2>5, UnseenMove DEF Leave
  <2> QED BY <2>1, <2>3, <2>4, <2>5
<1>5. ASSUME NEW a \in Actors, NEW i \in Ids, Ask(a, i)
      PROVE  Unseen'
  BY <1>4, <1>5 DEF Ask
<1>6. ASSUME NEW a \in Actors, NEW i \in Ids, Batch(a, i)
      PROVE  Unseen'
  <2>1. PICK r \in Row :
            /\ Loads(a, i, r)
            /\ \/ IsDue(i, r) /\ Goto(a, "put", i, Expired(r))
               \/ IsOpen(r) /\ Goto(a, "batch", i, "absent")
    BY <1>6 DEF Batch
  <2>2. r \in {table[i], mirror[i]}
    BY <2>1, LoadedRow DEF Typed
  <2> QED BY <1>6, <2>1, <2>2, UnseenMove DEF Batch, IsDue, IsOpen, Expired
<1>7. ASSUME NEW a \in Actors, BatchOn(a)
      PROVE  Unseen'
  <2>1. at[a] \in Ids /\ "approved" \in Verdict
    BY <1>7 DEF BatchOn, Typed, TypeOK, Verdict
  <2> QED BY <1>4, <1>7, <2>1 DEF BatchOn
<1>8. ASSUME NEW a \in Actors, Rule(a)
      PROVE  Unseen'
  <2>1. row[a] # "pending"
    BY <1>8 DEF Rule, Typed, Held, Verdict
  <2> QED BY <1>8, <2>1, UnseenMove DEF Rule
<1>9. ASSUME NEW a \in Actors, Put(a)
      PROVE  Unseen'
  <2>1. \A b \in Actors : at'[b] = at[b]
    BY <1>9 DEF Put, Goto, Typed, TypeOK
  <2>2. ASSUME NEW c \in Actors, pc'[c] = "put", row'[c] = "pending"
        PROVE  /\ table'[at[c]] = "absent" /\ mirror'[at[c]] = "absent"
               /\ \A b \in Actors \ {c} : at[b] # at[c]
    <3>1. c # a /\ pc[c] = "put" /\ row[c] = "pending"
      BY <1>9, <2>2 DEF Put, Goto, Typed, TypeOK
    <3>2. at[c] # at[a] /\ at[c] \in Ids
      BY <3>1 DEF Unseen, Typed, TypeOK
    <3> QED BY <1>9, <3>1, <3>2 DEF Put, Unseen, Typed, TypeOK
  <2> QED BY <2>1, <2>2 DEF Unseen
<1>10. ASSUME NEW a \in Actors, Mirror(a)
       PROVE  Unseen'
  <2>1. ASSUME NEW c \in Actors, pc'[c] = "put", row'[c] = "pending"
        PROVE  /\ table'[at'[c]] = "absent" /\ mirror'[at'[c]] = "absent"
               /\ \A b \in Actors \ {c} : at'[b] # at'[c]
    <3>1. c # a /\ pc[c] = "put" /\ row[c] = "pending" /\ at'[c] = at[c]
      BY <1>10, <2>1 DEF Mirror, Leave, Goto, Typed, TypeOK
    <3>2. at[c] # at[a] /\ at[c] \in Ids /\ at[c] # None
      BY <3>1, ApprovalsAssumption DEF Unseen, Typed, TypeOK
    <3>3. \A b \in Actors \ {c} : at'[b] # at[c]
      BY <1>10, <3>1, <3>2 DEF Mirror, Leave, Goto, Unseen, Typed, TypeOK
    <3>4. mirror'[at[c]] = "absent"
      BY <1>10, <3>1, <3>2 DEF Mirror, Mirrored, Unseen, Typed, TypeOK
    <3> QED BY <1>10, <3>1, <3>3, <3>4 DEF Mirror, Unseen
  <2> QED BY <2>1 DEF Unseen
<1>11. ASSUME NEW a \in Actors, Crash(a)
       PROVE  Unseen'
  BY <1>11, UnseenMove DEF Crash, Leave
<1>12. CASE UNCHANGED vars
  BY <1>12 DEF vars, storeVars, callVars, Unseen
<1> QED BY <1>1, <1>2, <1>3, <1>5, <1>6, <1>7, <1>8, <1>9, <1>10, <1>11, <1>12 DEF Next

\* Only _ddb_put writes the table.
LEMMA TableStep ==
  ASSUME [Next]_vars
  PROVE  table' = table \/ \E a \in Actors : Put(a)
<1>1. ASSUME NEW a \in Actors, NEW i \in Ids, Create(a, i) \/ Read(a, i) \/ Ask(a, i) \/ Batch(a, i)
      PROVE  table' = table
  BY <1>1 DEF Create, Read, Ask, Batch, storeVars
<1>2. ASSUME NEW a \in Actors, BatchOn(a) \/ Rule(a) \/ Mirror(a) \/ Crash(a)
      PROVE  table' = table
  BY <1>2 DEF BatchOn, Rule, Mirror, Crash, storeVars
<1>3. ASSUME NEW i \in Ids, Elapse(i)
      PROVE  table' = table
  BY <1>3 DEF Elapse, storeVars
<1> QED BY <1>1, <1>2, <1>3 DEF Next, vars, storeVars

\* Once DynamoDB holds an outcome of a request, no write of _save makes it
\* pending again, for any number of requests, callers, faults and crashes.
THEOREM OutcomesStay == Spec => NeverReopened
<1> DEFINE Stays == \A i \in Ids : table'[i] = "pending" => table[i] \in {"absent", "pending"}
<1>1. ASSUME Typed, Unseen, [Next]_vars
      PROVE  Stays
  <2>1. CASE table' = table
    BY <2>1
  <2>2. ASSUME NEW a \in Actors, Put(a)
        PROVE  Stays
    <3>1. at[a] \in Ids
      BY <1>1, <2>2 DEF Put, Typed, TypeOK
    <3> QED BY <1>1, <2>2, <3>1 DEF Put, Unseen, Typed, TypeOK
  <2> QED BY <1>1, <2>1, <2>2, TableStep
<1>2. Spec => []Typed
  BY TypedInit, TypedStep, PTL DEF Spec
<1>3. Spec => []Unseen
  BY UnseenInit, UnseenStep, <1>2, PTL DEF Spec
<1>4. Typed /\ Unseen /\ [Next]_vars => [Stays]_vars
  BY <1>1
<1> QED BY <1>2, <1>3, <1>4, PTL DEF Spec, NeverReopened

-----------------------------------------------------------------------------
(***************************************************************************)
(* While all is calm, at most one actor works on a request, and the stores *)
(* agree on it except between its two writes.                              *)
(***************************************************************************)

Sole == \A a, b \in Actors : at[a] = at[b] /\ at[a] # None => a = b

InStep ==
    /\ \A i \in Ids : (\A a \in Actors : at[a] # i) => table[i] = mirror[i]
    /\ \A a \in Actors :
          /\ pc[a] \in {"batch", "decide"} => table[at[a]] = mirror[at[a]]
          /\ pc[a] = "mirror" => table[at[a]] = row[a]

Quiet == Sole /\ InStep

Calm == disturbed = 0 => Quiet

LEMMA CalmInit == Init => Calm
BY DEF Init, Calm, Quiet, Sole, InStep

\* Nothing is calm again.
LEMMA CalmLost ==
  ASSUME TypeOK, Disturb \/ Fault
  PROVE  disturbed' # 0
BY Disturbed, FaultStep

\* An actor that is alone with its request may go on to anything but the mirror.
LEMMA QuietMove ==
  ASSUME Typed, Quiet, NEW a \in Actors, NEW step, NEW i, NEW status,
         Goto(a, step, i, status),
         step \in {"idle", "batch", "decide", "put"},
         step = "idle" <=> i = None,
         i # None => i \in Ids /\ \A b \in Actors \ {a} : at[b] # i,
         at[a] # None => i \in {at[a], None} /\ pc[a] = "batch",
         UNCHANGED storeVars
  PROVE  Quiet'
<1>1. /\ pc'[a] = step /\ at'[a] = i /\ row'[a] = status
      /\ \A b \in Actors \ {a} : pc'[b] = pc[b] /\ at'[b] = at[b] /\ row'[b] = row[b]
  BY DEF Goto, Typed, TypeOK
<1>2. \A j \in Ids : (\A b \in Actors \ {a} : at[b] # j) => table[j] = mirror[j]
  BY ApprovalsAssumption DEF Quiet, InStep
<1>3. Sole'
  BY <1>1 DEF Quiet, Sole
<1>4. InStep'
  BY <1>1, <1>2, ApprovalsAssumption DEF Quiet, InStep, storeVars
<1> QED BY <1>3, <1>4 DEF Quiet

LEMMA CalmStep == Typed /\ Calm /\ [Next]_vars => Calm'
<1> SUFFICES ASSUME Typed, Calm, [Next]_vars, disturbed' = 0
             PROVE  Quiet'
  BY DEF Calm
<1> USE ApprovalsAssumption
<1>0. TypeOK
  BY DEF Typed
<1>1. ASSUME NEW i \in Ids, Elapse(i)
      PROVE  Quiet'
  BY <1>1 DEF Elapse, Calm, Quiet, Sole, InStep, storeVars, callVars, countVars
<1>2. ASSUME NEW a \in Actors, NEW i \in Ids, Create(a, i)
      PROVE  Quiet'
  <2>1. Quiet
    BY <1>2 DEF Create, Calm, countVars
  <2>2. \A b \in Actors : at[b] # i
    BY <1>2 DEF Create, Typed, Held
  <2>3. at[a] = None
    BY <1>2 DEF Create, Typed, Held
  <2> QED BY <1>2, <2>1, <2>2, <2>3, QuietMove DEF Create
<1>3. ASSUME NEW a \in Actors, NEW i \in Ids, NEW r, NEW step, NEW status,
             Loads(a, i, r), pc[a] \in {"idle", "batch"}, pc[a] = "batch" => at[a] = i,
             \/ step \in {"put", "batch", "decide"} /\ Goto(a, step, i, status)
             \/ Leave(a),
             UNCHANGED storeVars
      PROVE  Quiet'
  <2>1. disturbed = 0 /\ Alone(a, i)
    BY <1>0, <1>3, LoadedRow, CalmLost DEF countVars
  <2>2. Quiet
    BY <2>1 DEF Calm
  <2>3. \A b \in Actors \ {a} : at[b] # i
    BY <2>1 DEF Alone
  <2>4. at[a] # None => at[a] = i /\ pc[a] = "batch"
    BY <1>3 DEF Typed, Held
  <2>5. CASE step \in {"put", "batch", "decide"} /\ Goto(a, step, i, status)
    BY <1>3, <2>2, <2>3, <2>4, <2>5, QuietMove
  <2>6. CASE Leave(a)
    BY <1>3, <2>2, <2>4, <2>6, QuietMove DEF Leave
  <2> QED BY <1>3, <2>5, <2>6
<1>4. ASSUME NEW a \in Actors, NEW i \in Ids, Read(a, i)
      PROVE  Quiet'
  <2>1. PICK r \in Row : Loads(a, i, r) /\ (Goto(a, "put", i, Expired(r)) \/ Leave(a))
    BY <1>4 DEF Read
  <2> QED BY <1>3, <1>4, <2>1 DEF Read
<1>5. ASSUME NEW a \in Actors, NEW i \in Ids, NEW v \in Verdict, Consider(a, i, v),
             pc[a] \in {"idle", "batch"}, pc[a] = "batch" => at[a] = i,
             UNCHANGED storeVars
      PROVE  Quiet'
  BY <1>3, <1>5 DEF Consider
<1>6. ASSUME NEW a \in Actors, NEW i \in Ids, Ask(a, i)
      PROVE  Quiet'
  BY <1>5, <1>6 DEF Ask
<1>7. ASSUME NEW a \in Actors, NEW i \in Ids, Batch(a, i)
      PROVE  Quiet'
  BY <1>3, <1>7 DEF Batch
<1>8. ASSUME NEW a \in Actors, BatchOn(a)
      PROVE  Quiet'
  <2>1. at[a] \in Ids /\ "approved" \in Verdict
    BY <1>8 DEF BatchOn, Typed, TypeOK, Verdict
  <2> QED BY <1>5, <1>8, <2>1 DEF BatchOn
<1>9. ASSUME NEW a \in Actors, Rule(a)
      PROVE  Quiet'
  <2>1. Sole /\ InStep
    BY <1>9 DEF Rule, Calm, Quiet
  <2>2. /\ pc'[a] = "put" /\ at'[a] = at[a] /\ row'[a] = row[a]
        /\ \A b \in Actors \ {a} : pc'[b] = pc[b] /\ at'[b] = at[b] /\ row'[b] = row[b]
    BY <1>9 DEF Rule, Goto, Typed, TypeOK
  <2>3. Sole'
    BY <2>1, <2>2 DEF Sole
  <2>4. InStep'
    BY <1>9, <2>1, <2>2 DEF Rule, InStep, storeVars
  <2> QED BY <2>3, <2>4 DEF Quiet
<1>10. ASSUME NEW a \in Actors, Put(a)
       PROVE  Quiet'
  <2>1. at[a] \in Ids /\ at[a] # None
    BY <1>10 DEF Put, Typed, TypeOK
  <2>2. table' = [table EXCEPT ![at[a]] = row[a]] /\ disturbed = 0
    BY <1>0, <1>10, CalmLost DEF Put, NoFault, countVars
  <2>3. Sole /\ InStep
    BY <2>2 DEF Calm, Quiet
  <2>4. /\ pc'[a] = "mirror" /\ at'[a] = at[a] /\ row'[a] = row[a]
        /\ \A b \in Actors \ {a} : pc'[b] = pc[b] /\ at'[b] = at[b] /\ row'[b] = row[b]
    BY <1>10 DEF Put, Goto, Typed, TypeOK
  <2>5. /\ mirror' = mirror /\ table'[at[a]] = row[a]
        /\ \A i \in Ids : i # at[a] => table'[i] = table[i]
    BY <1>10, <2>1, <2>2 DEF Put, Typed, TypeOK
  <2>6. \A b \in Actors \ {a} : pc[b] # "idle" => at[b] \in Ids /\ at[b] # at[a]
    BY <2>1, <2>3 DEF Sole, Typed, TypeOK
  <2>7. Sole'
    BY <2>3, <2>4 DEF Sole
  <2>8. \A i \in Ids : (\A b \in Actors : at'[b] # i) => table'[i] = mirror'[i]
    BY <2>3, <2>4, <2>5 DEF InStep
  <2>9. ASSUME NEW b \in Actors
        PROVE  /\ pc'[b] \in {"batch", "decide"} => table'[at'[b]] = mirror'[at'[b]]
               /\ pc'[b] = "mirror" => table'[at'[b]] = row'[b]
    <3>1. CASE b = a
      BY <2>4, <2>5, <3>1
    <3>2. CASE b # a
      BY <2>3, <2>4, <2>5, <2>6, <3>2 DEF InStep
    <3> QED BY <3>1, <3>2
  <2> QED BY <2>7, <2>8, <2>9 DEF Quiet, InStep
<1>11. ASSUME NEW a \in Actors, Mirror(a)
       PROVE  Quiet'
  <2>1. at[a] \in Ids /\ at[a] # None
    BY <1>11 DEF Mirror, Typed, TypeOK
  <2>2. mirror' = [mirror EXCEPT ![at[a]] = row[a]] /\ disturbed = 0
    BY <1>0, <1>11, CalmLost DEF Mirror, Mirrored, NoFault, countVars
  <2>3. Sole /\ InStep
    BY <2>2 DEF Calm, Quiet
  <2>4. /\ pc'[a] = "idle" /\ at'[a] = None
        /\ \A b \in Actors \ {a} : pc'[b] = pc[b] /\ at'[b] = at[b] /\ row'[b] = row[b]
    BY <1>11 DEF Mirror, Leave, Goto, Typed, TypeOK
  <2>5. /\ table' = table /\ mirror'[at[a]] = row[a]
        /\ \A i \in Ids : i # at[a] => mirror'[i] = mirror[i]
    BY <1>11, <2>1, <2>2 DEF Mirror, Typed, TypeOK
  <2>6. \A b \in Actors \ {a} : pc[b] # "idle" => at[b] \in Ids /\ at[b] # at[a]
    BY <2>1, <2>3 DEF Sole, Typed, TypeOK
  <2>7. Sole'
    BY <2>3, <2>4 DEF Sole
  <2>8. table[at[a]] = row[a]
    BY <1>11, <2>3 DEF Mirror, InStep
  <2>9. InStep'
    BY <2>3, <2>4, <2>5, <2>6, <2>8 DEF InStep
  <2> QED BY <2>7, <2>9 DEF Quiet
<1>12. ASSUME NEW a \in Actors, Crash(a)
       PROVE  Quiet'
  BY <1>0, <1>12, CalmLost DEF Crash
<1>13. CASE UNCHANGED vars
  BY <1>13 DEF vars, storeVars, callVars, countVars, Calm, Quiet, Sole, InStep
<1> QED BY <1>1, <1>2, <1>4, <1>6, <1>7, <1>8, <1>9, <1>10, <1>11, <1>12, <1>13 DEF Next

\* As long as nothing fails and no call reads a request another is at work on, the
\* table and its mirror agree on every request that nobody is at work on.
THEOREM Agreement == Spec => []StoresAgree
<1>1. Spec => []Typed
  BY TypedInit, TypedStep, PTL DEF Spec
<1>2. Spec => []Calm
  BY CalmInit, CalmStep, <1>1, PTL DEF Spec
<1>3. Calm => StoresAgree
  BY DEF Calm, Quiet, InStep, StoresAgree
<1> QED BY <1>2, <1>3, PTL

-----------------------------------------------------------------------------
(***************************************************************************)
(* Every decision is paid for.  What counts against a request is the       *)
(* decisions taken, those about to be taken and one more as long as        *)
(* somebody can find it pending with no outcome on its way to the table.   *)
(* Only a disturbance adds to that sum.                                    *)
(***************************************************************************)

\* Somebody finds the watched request pending, now or once it is written.
Pending ==
    \/ Watched \notin submitted
    \/ Merged(Watched) = "pending"
    \/ \E a \in Actors :
          /\ at[a] = Watched /\ row[a] = "pending"
          /\ pc[a] = "put" \/ (pc[a] = "mirror" /\ table[Watched] = "absent")

\* An actor holds an outcome for the table.
Closes(a) ==
    at[a] = Watched /\ (pc[a] = "decide" \/ (pc[a] = "put" /\ row[a] # "pending"))

Open == IF Pending /\ ~\E a \in Actors : Closes(a) THEN 1 ELSE 0

Deciders == {a \in Actors : pc[a] = "decide" /\ at[a] = Watched}

Paid == Counting => decisions + Cardinality(Deciders) + Open <= 1 + disturbed

LEMMA DecidersFinite ==
  /\ IsFiniteSet(Deciders) /\ Cardinality(Deciders) \in Nat
  /\ IsFiniteSet(Deciders)' /\ Cardinality(Deciders)' \in Nat
<1>1. Deciders \in SUBSET Actors /\ Deciders' \in SUBSET Actors
  BY DEF Deciders
<1>2. IsFiniteSet(Deciders) /\ IsFiniteSet(Deciders')
  BY <1>1, ApprovalsAssumption, FS_Subset
<1> QED BY <1>2, FS_CardinalityType

\* Who decides when one actor has moved.
LEMMA DecidersMove ==
  ASSUME Typed, NEW a \in Actors, NEW step, NEW i, NEW status, Goto(a, step, i, status)
  PROVE  /\ (a \in Deciders <=> a \in Deciders') =>
                Cardinality(Deciders') = Cardinality(Deciders)
         /\ a \notin Deciders /\ a \in Deciders' =>
                Cardinality(Deciders') = Cardinality(Deciders) + 1
         /\ a \in Deciders /\ a \notin Deciders' =>
                Cardinality(Deciders') = Cardinality(Deciders) - 1
<1>1. \A b \in Actors \ {a} : b \in Deciders <=> b \in Deciders'
  BY DEF Goto, Typed, TypeOK, Deciders
<1>2. Deciders \in SUBSET Actors /\ Deciders' \in SUBSET Actors
  BY DEF Deciders
<1>3. CASE a \in Deciders <=> a \in Deciders'
  <2>1. Deciders' = Deciders
    BY <1>1, <1>2, <1>3
  <2> QED BY <1>3, <2>1
<1>4. CASE a \notin Deciders /\ a \in Deciders'
  <2>1. Deciders' = Deciders \cup {a}
    BY <1>1, <1>2, <1>4
  <2> QED BY <1>4, <2>1, DecidersFinite, FS_AddElement
<1>5. CASE a \in Deciders /\ a \notin Deciders'
  <2>1. Deciders' = Deciders \ {a}
    BY <1>1, <1>2, <1>5
  <2> QED BY <1>5, <2>1, DecidersFinite, FS_RemoveElement
<1> QED BY <1>3, <1>4, <1>5

\* A disturbance pays for one more decider, or for the request being open again.
LEMMA PaidDisturbed ==
  ASSUME Typed, Paid, Disturb,
         Cardinality(Deciders') + Open' <= Cardinality(Deciders) + Open + 1
  PROVE  Paid'
<1>1. CASE Counting'
  <2>1. Counting /\ disturbed' = disturbed + 1 /\ decisions' = decisions
    BY <1>1, Disturbed DEF Typed
  <2>2. decisions + Cardinality(Deciders) + Open <= 1 + disturbed
    BY <2>1 DEF Paid
  <2>3. decisions \in Nat /\ disturbed \in Nat /\ Open \in {0, 1} /\ Open' \in {0, 1}
    BY ApprovalsAssumption DEF Typed, TypeOK, Open
  <2>4. decisions' + Cardinality(Deciders') + Open' <= 1 + disturbed'
    BY <2>1, <2>2, <2>3, DecidersFinite
  <2> QED BY <2>4 DEF Paid
<1>2. CASE ~Counting'
  BY <1>2 DEF Paid
<1> QED BY <1>1, <1>2

\* Without one the sum must not grow.
LEMMA PaidStill ==
  ASSUME Typed, Paid, UNCHANGED disturbed, decisions' \in Nat,
         Counting => decisions' + Cardinality(Deciders') + Open'
                         <= decisions + Cardinality(Deciders) + Open
  PROVE  Paid'
<1>1. CASE Counting
  <2>1. decisions + Cardinality(Deciders) + Open <= 1 + disturbed
    BY <1>1 DEF Paid
  <2>2. decisions \in Nat /\ disturbed \in Nat /\ Open \in {0, 1} /\ Open' \in {0, 1}
    BY ApprovalsAssumption DEF Typed, TypeOK, Open
  <2>3. decisions' + Cardinality(Deciders') + Open' <= 1 + disturbed'
    BY <1>1, <2>1, <2>2, DecidersFinite
  <2> QED BY <2>3 DEF Paid
<1>2. CASE ~Counting
  BY <1>2 DEF Counting, Paid
<1> QED BY <1>1, <1>2

\* Who closes the request still does, and it is no longer pending to anybody else.
LEMMA OpenLess ==
  ASSUME Pending' => Pending, \A b \in Actors : Closes(b) => Closes(b)'
  PROVE  Open' <= Open
BY DEF Open

LEMMA OpenBit == Open \in {0, 1} /\ Open' \in {0, 1}
BY DEF Open

LEMMA PaidInit == Init => Paid
<1> SUFFICES ASSUME Init
             PROVE  Paid
  OBVIOUS
<1>1. Deciders = {} /\ decisions = 0 /\ disturbed = 0
  BY DEF Init, Deciders
<1>2. Cardinality(Deciders) = 0
  BY <1>1, FS_EmptySet
<1> QED BY <1>1, <1>2, OpenBit DEF Paid

\* A call that reads the request, and goes where what it read sends it.
LEMMA PaidLoad ==
  ASSUME Typed, Paid, NEW a \in Actors, NEW i \in Ids, NEW r, NEW step, NEW k, NEW status,
         Loads(a, i, r), pc[a] \in {"idle", "batch"}, pc[a] = "batch" => at[a] = i,
         Goto(a, step, k, status),
         \/ step = "put" /\ status = "expired"
         \/ step = "decide" /\ k = i /\ IsOpen(r)
         \/ step \in {"batch", "idle"},
         UNCHANGED <<storeVars, submitted>>
  PROVE  Paid'
<1>1. /\ pc'[a] = step /\ at'[a] = k /\ row'[a] = status
      /\ \A b \in Actors \ {a} : pc'[b] = pc[b] /\ at'[b] = at[b] /\ row'[b] = row[b]
  BY DEF Goto, Typed, TypeOK
<1>2. Merged(Watched)' = Merged(Watched)
  BY DEF Merged, storeVars
<1>3. Pending' => Pending
  BY <1>1, <1>2 DEF Pending, storeVars
<1>4. \A b \in Actors : Closes(b) => Closes(b)'
  BY <1>1 DEF Closes
<1>5. Open' <= Open
  BY <1>3, <1>4, OpenLess
<1>6. a \notin Deciders
  BY DEF Deciders
<1>7. Counts'
  BY LoadedRow DEF Typed
<1>8. CASE Disturb
  <2>1. Cardinality(Deciders') <= Cardinality(Deciders) + 1
    BY <1>6, DecidersMove, DecidersFinite
  <2>2. Cardinality(Deciders') + Open' <= Cardinality(Deciders) + Open + 1
    BY <1>5, <2>1, OpenBit, DecidersFinite
  <2> QED BY <1>8, <2>2, PaidDisturbed
<1>9. CASE UNCHANGED countVars /\ Alone(a, i) /\ r = Merged(i)
  <2>1. Cardinality(Deciders') + Open' <= Cardinality(Deciders) + Open
    <3>1. CASE a \in Deciders'
      <4>1. step = "decide" /\ i = Watched /\ IsOpen(r)
        BY <1>1, <3>1 DEF Deciders
      <4>2. Pending
        BY <1>9, <4>1 DEF IsOpen, Pending
      <4>3. ~\E b \in Actors : Closes(b)
        BY <1>9, <4>1 DEF Closes, Alone
      <4>4. Closes(a)'
        BY <1>1, <4>1 DEF Closes
      <4>5. Open = 1 /\ Open' = 0
        BY <4>2, <4>3, <4>4 DEF Open
      <4>6. Cardinality(Deciders') = Cardinality(Deciders) + 1
        BY <1>6, <3>1, DecidersMove
      <4> QED BY <4>5, <4>6, DecidersFinite
    <3>2. CASE a \notin Deciders'
      <4>1. Cardinality(Deciders') = Cardinality(Deciders)
        BY <1>6, <3>2, DecidersMove
      <4> QED BY <1>5, <4>1, OpenBit, DecidersFinite
    <3> QED BY <3>1, <3>2
  <2>2. disturbed' = disturbed /\ decisions' = decisions /\ decisions \in Nat
    BY <1>9 DEF countVars, Typed, TypeOK
  <2>3. decisions' + Cardinality(Deciders') + Open' <= decisions + Cardinality(Deciders) + Open
    BY <2>1, <2>2, OpenBit, DecidersFinite
  <2> QED BY <2>2, <2>3, PaidStill
<1> QED BY <1>8, <1>9, LoadedRow DEF Typed

\* A step that takes nobody to a decision, leaves the request no more open and
\* counts nothing.
LEMMA PaidQuiet ==
  ASSUME Typed, Paid, UNCHANGED countVars,
         Cardinality(Deciders') <= Cardinality(Deciders), Open' <= Open
  PROVE  Paid'
<1>1. disturbed' = disturbed /\ decisions' = decisions /\ decisions \in Nat
  BY DEF countVars, Typed, TypeOK
<1>2. decisions' + Cardinality(Deciders') + Open' <= decisions + Cardinality(Deciders) + Open
  BY <1>1, OpenBit, DecidersFinite
<1> QED BY <1>1, <1>2, PaidStill

LEMMA PaidStep == Typed /\ Unseen /\ Paid /\ [Next]_vars => Paid'
<1> SUFFICES ASSUME Typed, Unseen, Paid, [Next]_vars
             PROVE  Paid'
  OBVIOUS
<1> USE ApprovalsAssumption
<1>1. ASSUME UNCHANGED <<storeVars, callVars, submitted, countVars>>
      PROVE  Paid'
  <2>1. Deciders' = Deciders
    BY <1>1 DEF callVars, Deciders
  <2>2. Merged(Watched)' = Merged(Watched)
    BY <1>1 DEF storeVars, Merged
  <2>3. Pending' => Pending
    BY <1>1, <2>2 DEF storeVars, callVars, Pending
  <2>4. \A b \in Actors : Closes(b) => Closes(b)'
    BY <1>1 DEF callVars, Closes
  <2>5. Open' <= Open
    BY <2>3, <2>4, OpenLess
  <2> QED BY <1>1, <2>1, <2>5, DecidersFinite, PaidQuiet
<1>2. ASSUME NEW i \in Ids, Elapse(i)
      PROVE  Paid'
  BY <1>1, <1>2 DEF Elapse, historyVars
<1>3. ASSUME NEW a \in Actors, NEW i \in Ids, Create(a, i)
      PROVE  Paid'
  <2>1. Goto(a, "put", i, "pending") /\ UNCHANGED <<storeVars, countVars>>
    BY <1>3 DEF Create
  <2>2. /\ pc'[a] = "put" /\ at'[a] = i /\ row'[a] = "pending" /\ pc[a] = "idle"
        /\ \A b \in Actors \ {a} : pc'[b] = pc[b] /\ at'[b] = at[b] /\ row'[b] = row[b]
    BY <1>3 DEF Create, Goto, Typed, TypeOK
  <2>3. Merged(Watched)' = Merged(Watched)
    BY <2>1 DEF storeVars, Merged
  <2>4. Pending' => Pending
    <3>1. CASE i = Watched
      BY <1>3, <3>1 DEF Create, Pending
    <3>2. CASE i # Watched
      BY <1>3, <2>1, <2>2, <2>3, <3>2 DEF Create, Pending, storeVars
    <3> QED BY <3>1, <3>2
  <2>5. \A b \in Actors : Closes(b) => Closes(b)'
    BY <2>2 DEF Closes
  <2>6. a \notin Deciders /\ a \notin Deciders'
    BY <2>2 DEF Deciders
  <2>7. Cardinality(Deciders') = Cardinality(Deciders)
    BY <2>1, <2>6, DecidersMove
  <2> QED BY <2>1, <2>4, <2>5, <2>7, OpenLess, PaidQuiet, DecidersFinite
<1>4. ASSUME NEW a \in Actors, NEW i \in Ids, Read(a, i)
      PROVE  Paid'
  <2>1. PICK r \in Row : Loads(a, i, r) /\ (Goto(a, "put", i, Expired(r)) \/ Leave(a))
    BY <1>4 DEF Read
  <2> QED BY <1>4, <2>1, PaidLoad DEF Read, Leave, Expired
<1>5. ASSUME NEW a \in Actors, NEW i \in Ids, NEW v \in Verdict, Consider(a, i, v),
             pc[a] \in {"idle", "batch"}, pc[a] = "batch" => at[a] = i,
             UNCHANGED <<storeVars, historyVars>>
      PROVE  Paid'
  <2>1. PICK r \in Row :
            /\ Loads(a, i, r)
            /\ \/ Goto(a, "put", i, Expired(r))
               \/ IsOpen(r) /\ Goto(a, "decide", i, v)
               \/ Leave(a)
    BY <1>5 DEF Consider
  <2> QED BY <1>5, <2>1, PaidLoad DEF Leave, Expired, historyVars
<1>6. ASSUME NEW a \in Actors, NEW i \in Ids, Ask(a, i)
      PROVE  Paid'
  BY <1>5, <1>6 DEF Ask
<1>7. ASSUME NEW a \in Actors, NEW i \in Ids, Batch(a, i)
      PROVE  Paid'
  <2>1. PICK r \in Row :
            /\ Loads(a, i, r)
            /\ Goto(a, "put", i, Expired(r)) \/ Goto(a, "batch", i, "absent")
    BY <1>7 DEF Batch
  <2> QED BY <1>7, <2>1, PaidLoad DEF Batch, Expired, historyVars
<1>8. ASSUME NEW a \in Actors, BatchOn(a)
      PROVE  Paid'
  <2>1. at[a] \in Ids /\ "approved" \in Verdict
    BY <1>8 DEF BatchOn, Typed, TypeOK, Verdict
  <2> QED BY <1>5, <1>8, <2>1 DEF BatchOn
<1>9. ASSUME NEW a \in Actors, Rule(a)
      PROVE  Paid'
  <2>1. Goto(a, "put", at[a], row[a]) /\ UNCHANGED <<storeVars, submitted, disturbed>>
    BY <1>9 DEF Rule
  <2>2. row[a] \in Verdict /\ pc[a] = "decide"
    BY <1>9 DEF Rule, Typed, Held
  <2>3. /\ pc'[a] = "put" /\ at'[a] = at[a] /\ row'[a] = row[a] /\ row[a] # "pending"
        /\ \A b \in Actors \ {a} : pc'[b] = pc[b] /\ at'[b] = at[b] /\ row'[b] = row[b]
    BY <2>1, <2>2 DEF Goto, Typed, TypeOK, Verdict
  <2>4. Merged(Watched)' = Merged(Watched)
    BY <2>1 DEF storeVars, Merged
  <2>5. Pending' => Pending
    BY <2>1, <2>3, <2>4 DEF Pending, storeVars
  <2>6. \A b \in Actors : Closes(b) => Closes(b)'
    BY <2>3 DEF Closes
  <2>7. Open' <= Open
    BY <2>5, <2>6, OpenLess
  <2>8. decisions \in Nat /\ decisions' \in Nat
    BY <1>9 DEF Rule, Typed, TypeOK
  <2>9. decisions' + Cardinality(Deciders') <= decisions + Cardinality(Deciders)
    <3>1. CASE at[a] = Watched
      <4>1. a \in Deciders /\ a \notin Deciders'
        BY <2>2, <2>3, <3>1 DEF Deciders
      <4>2. Cardinality(Deciders') = Cardinality(Deciders) - 1
        BY <2>1, <4>1, DecidersMove
      <4>3. decisions' <= decisions + 1
        BY <1>9, <2>8 DEF Rule
      <4> QED BY <2>8, <4>2, <4>3, DecidersFinite
    <3>2. CASE at[a] # Watched
      <4>1. a \notin Deciders /\ a \notin Deciders'
        BY <2>3, <3>2 DEF Deciders
      <4>2. Cardinality(Deciders') = Cardinality(Deciders)
        BY <2>1, <4>1, DecidersMove
      <4>3. decisions' = decisions
        BY <1>9, <3>2 DEF Rule
      <4> QED BY <2>8, <4>2, <4>3, DecidersFinite
    <3> QED BY <3>1, <3>2
  <2>10. decisions' + Cardinality(Deciders') + Open' <= decisions + Cardinality(Deciders) + Open
    BY <2>7, <2>8, <2>9, OpenBit, DecidersFinite
  <2> QED BY <2>1, <2>8, <2>10, PaidStill
<1>10. ASSUME NEW a \in Actors, Fault, NEW step, NEW i, NEW status, Goto(a, step, i, status),
              a \notin Deciders'
       PROVE  Paid'
  <2>1. Cardinality(Deciders') <= Cardinality(Deciders)
    BY <1>10, DecidersMove, DecidersFinite
  <2>2. Cardinality(Deciders') + Open' <= Cardinality(Deciders) + Open + 1
    BY <2>1, OpenBit, DecidersFinite
  <2> QED BY <1>10, <2>2, PaidDisturbed DEF Fault
<1>11. ASSUME NEW a \in Actors, Put(a)
       PROVE  Paid'
  <2>1. at[a] \in submitted /\ at[a] \in Ids /\ row[a] \in Status /\ row[a] # "absent"
    BY <1>11 DEF Put, Typed, TypeOK, Held, Status, Verdict
  <2>2. Goto(a, "mirror", at[a], row[a]) /\ pc[a] = "put" /\ UNCHANGED <<mirror, submitted>>
    BY <1>11 DEF Put, historyVars
  <2>3. /\ pc'[a] = "mirror" /\ at'[a] = at[a] /\ row'[a] = row[a]
        /\ \A b \in Actors \ {a} : pc'[b] = pc[b] /\ at'[b] = at[b] /\ row'[b] = row[b]
    BY <2>2 DEF Goto, Typed, TypeOK
  <2>4. a \notin Deciders /\ a \notin Deciders'
    BY <2>2, <2>3 DEF Deciders
  <2>5. CASE Fault
    BY <1>10, <2>2, <2>4, <2>5
  <2>6. CASE table' = [table EXCEPT ![at[a]] = row[a]] /\ NoFault
    <3>1. table'[at[a]] = row[a] /\ \A i \in Ids : i # at[a] => table'[i] = table[i]
      BY <2>1, <2>6 DEF Typed, TypeOK
    <3>2. CASE at[a] # Watched
      <4>1. Merged(Watched)' = Merged(Watched) /\ table'[Watched] = table[Watched]
        BY <2>2, <3>1, <3>2 DEF Merged
      <4>2. Pending' => Pending
        BY <2>2, <2>3, <3>2, <4>1 DEF Pending
      <4>3. \A b \in Actors : Closes(b) => Closes(b)'
        BY <2>3, <3>2 DEF Closes
      <4> QED BY <4>2, <4>3, <2>2, <2>4, <2>6, OpenLess, DecidersMove, DecidersFinite, PaidQuiet
              DEF NoFault
    <3>3. CASE at[a] = Watched /\ row[a] = "pending"
      <4>1. Pending
        BY <2>2, <3>3 DEF Pending
      <4>2. \A b \in Actors : Closes(b) => Closes(b)'
        BY <2>2, <2>3, <3>3 DEF Closes
      <4> QED BY <4>1, <4>2, <2>2, <2>4, <2>6, OpenLess, DecidersMove, DecidersFinite, PaidQuiet
              DEF NoFault
    <3>4. CASE at[a] = Watched /\ row[a] # "pending"
      <4>1. Merged(Watched)' # "pending" /\ table'[Watched] # "absent"
        BY <2>1, <3>1, <3>4 DEF Merged
      <4>2. \A b \in Actors : ~(at'[b] = Watched /\ row'[b] = "pending" /\ pc'[b] = "put")
        BY <2>3, <3>4 DEF Unseen
      <4>3. ~Pending'
        BY <2>1, <2>2, <3>4, <4>1, <4>2 DEF Pending
      <4>4. Open' <= Open
        BY <4>3 DEF Open
      <4> QED BY <4>4, <2>2, <2>4, <2>6, DecidersMove, DecidersFinite, PaidQuiet DEF NoFault
    <3> QED BY <3>2, <3>3, <3>4
  <2> QED BY <1>11, <2>5, <2>6 DEF Put
<1>12. ASSUME NEW a \in Actors, Mirror(a)
       PROVE  Paid'
  <2>1. at[a] \in Ids /\ pc[a] = "mirror" /\ UNCHANGED <<table, submitted>>
    BY <1>12 DEF Mirror, Typed, TypeOK, historyVars
  <2>2. Goto(a, "idle", None, "absent")
    BY <1>12 DEF Mirror, Leave
  <2>3. /\ pc'[a] = "idle"
        /\ \A b \in Actors \ {a} : pc'[b] = pc[b] /\ at'[b] = at[b] /\ row'[b] = row[b]
    BY <2>2 DEF Goto, Typed, TypeOK
  <2>4. a \notin Deciders /\ a \notin Deciders'
    BY <2>1, <2>3 DEF Deciders
  <2>5. CASE Fault
    BY <1>10, <2>2, <2>4, <2>5
  <2>6. CASE mirror' = Mirrored(at[a], row[a]) /\ NoFault
    <3>1. mirror'[at[a]] = row[a] /\ \A i \in Ids : i # at[a] => mirror'[i] = mirror[i]
      BY <2>1, <2>6 DEF Mirrored, Typed, TypeOK
    <3>2. Merged(Watched)' = "pending" => Pending
      BY <2>1, <3>1 DEF Merged, Pending
    <3>3. Pending' => Pending
      BY <2>1, <2>3, <3>2 DEF Pending
    <3>4. \A b \in Actors : Closes(b) => Closes(b)'
      BY <2>1, <2>3 DEF Closes
    <3> QED BY <3>3, <3>4, <2>2, <2>4, <2>6, OpenLess, DecidersMove, DecidersFinite, PaidQuiet
            DEF NoFault
  <2> QED BY <1>12, <2>5, <2>6 DEF Mirror
<1>13. ASSUME NEW a \in Actors, Crash(a)
       PROVE  Paid'
  <2>1. Fault /\ Goto(a, "idle", None, "absent")
    BY <1>13 DEF Crash, Leave
  <2>2. a \notin Deciders'
    BY <2>1 DEF Goto, Typed, TypeOK, Deciders
  <2> QED BY <1>10, <2>1, <2>2
<1>14. CASE UNCHANGED vars
  BY <1>1, <1>14 DEF vars, historyVars
<1> QED BY <1>2, <1>3, <1>4, <1>6, <1>7, <1>8, <1>9, <1>11, <1>12, <1>13, <1>14 DEF Next

\* Whatever fails and whoever races, a request is decided at most once more than
\* there were faults and reads of a request another call was at work on.
THEOREM Decisions == Spec => []DecisionsPaid
<1>1. Spec => []Typed
  BY TypedInit, TypedStep, PTL DEF Spec
<1>2. Spec => []Unseen
  BY UnseenInit, UnseenStep, <1>1, PTL DEF Spec
<1>3. Spec => []Paid
  BY PaidInit, PaidStep, <1>1, <1>2, PTL DEF Spec
<1>4. Typed /\ Paid => DecisionsPaid
  <2> SUFFICES ASSUME Typed, Paid, Counting
               PROVE  decisions <= 1 + disturbed
    BY DEF DecisionsPaid
  <2>1. decisions \in Nat /\ disturbed \in Nat
    BY ApprovalsAssumption DEF Typed, TypeOK
  <2> QED BY <2>1, OpenBit, DecidersFinite DEF Paid
<1> QED BY <1>1, <1>3, <1>4, PTL

=============================================================================

-------------------------- MODULE SqsWorkerProofs --------------------------
(***************************************************************************)
(* Theorems about SqsWorker, for any number of processes, messages and     *)
(* keys and any bounds: type correctness, the accounting of handler runs   *)
(* against the claim store, and the rule that no authentic message leaves  *)
(* the queue before a run for its key is in the audit ledger.              *)
(***************************************************************************)
EXTENDS SqsWorker, TLAPS

\* A store never holds a key twice.
Distinct(s) == \A i, j \in 1..Len(s) : s[i] = s[j] => i = j

\* The handler runs of a process for a key are exactly the times the key was
\* dropped from its store, plus one while the store holds it.
RunsAccounted ==
    \A w \in Workers :
        /\ Distinct(seen[w])
        /\ \A k \in Keys :
             runs[w][k] = evicted[w][k] + (IF k \in Elems(seen[w]) THEN 1 ELSE 0)

\* A process has in its store only keys whose run is in the audit ledger, but
\* for the one it is working on; and it deletes only after that record.
Working == {"handle", "complete", "exhausted", "except"}
ClaimsAudited ==
    \A w \in Workers :
        /\ \A k \in Elems(seen[w]) :
             Audited(k) \/ (pc[w] \in Working /\ Key(w) = k)
        /\ pc[w] \in {"delete", "ceiling", "discard"} => Audited(Key(w))

-----------------------------------------------------------------------------
(* What first_seen does to the store. *)

\* The store stays a sequence of keys within its limit (first_seen).
LEMMA RememberType ==
    ASSUME NEW s \in Seq(Keys), NEW k \in Keys, Len(s) <= MaxItems
    PROVE  Remember(s, k) \in Seq(Keys) /\ Len(Remember(s, k)) <= MaxItems
<1>1. CASE Len(s) < MaxItems
  BY <1>1, ConstantsAssumption DEF Remember
<1>2. CASE ~(Len(s) < MaxItems)
  <2>1. s # <<>> /\ Len(s) = MaxItems
    BY <1>2, ConstantsAssumption
  <2>2. Tail(s) \in Seq(Keys) /\ Len(Tail(s)) = Len(s) - 1
    BY <2>1
  <2> QED
    BY <2>1, <2>2, ConstantsAssumption DEF Remember
<1> QED
  BY <1>1, <1>2

\* Claiming a new key keeps the store within its limit and duplicate-free, and
\* drops the oldest key exactly when the store was full (first_seen).
LEMMA RememberFacts ==
    ASSUME NEW s \in Seq(Keys), NEW k \in Keys,
           Len(s) <= MaxItems, k \notin Elems(s), Distinct(s)
    PROVE  /\ Remember(s, k) \in Seq(Keys)
           /\ Len(Remember(s, k)) <= MaxItems
           /\ Distinct(Remember(s, k))
           /\ Len(s) < MaxItems =>
                Elems(Remember(s, k)) = Elems(s) \cup {k}
           /\ Len(s) >= MaxItems =>
                /\ Head(s) \in Elems(s)
                /\ Elems(Remember(s, k)) = (Elems(s) \ {Head(s)}) \cup {k}
<1>0. MaxItems \in Nat \ {0}
  BY ConstantsAssumption
<1>1. CASE Len(s) < MaxItems
  <2>1. Remember(s, k) = Append(s, k)
    BY <1>1 DEF Remember
  <2>2. /\ Append(s, k) \in Seq(Keys)
        /\ Len(Append(s, k)) = Len(s) + 1
        /\ \A i \in 1..Len(s) : Append(s, k)[i] = s[i]
        /\ Append(s, k)[Len(s) + 1] = k
    OBVIOUS
  <2>3. Elems(Append(s, k)) = Elems(s) \cup {k}
    BY <2>2 DEF Elems
  <2>4. Distinct(Append(s, k))
    BY <2>2 DEF Distinct, Elems
  <2> QED
    BY <1>0, <1>1, <2>1, <2>2, <2>3, <2>4
<1>2. CASE Len(s) >= MaxItems
  <2>0. Len(s) = MaxItems /\ Len(s) \in Nat /\ Len(s) >= 1 /\ s # <<>>
    BY <1>0, <1>2
  <2>1. Remember(s, k) = Append(Tail(s), k)
    BY <2>0 DEF Remember
  <2>2. /\ Tail(s) \in Seq(Keys)
        /\ Len(Tail(s)) = Len(s) - 1
        /\ \A i \in 1..(Len(s) - 1) : Tail(s)[i] = s[i + 1]
        /\ Head(s) = s[1]
    BY <2>0
  <2>3. /\ Append(Tail(s), k) \in Seq(Keys)
        /\ Len(Append(Tail(s), k)) = Len(s)
        /\ \A i \in 1..(Len(s) - 1) : Append(Tail(s), k)[i] = s[i + 1]
        /\ Append(Tail(s), k)[Len(s)] = k
    BY <2>0, <2>2
  <2>4. Head(s) \in Elems(s)
    BY <2>0, <2>2 DEF Elems
  <2>5. Elems(Append(Tail(s), k)) = (Elems(s) \ {Head(s)}) \cup {k}
    <3> DEFINE t == Append(Tail(s), k)
    <3>1. \A x \in Elems(t) : x \in (Elems(s) \ {Head(s)}) \cup {k}
      <4> SUFFICES ASSUME NEW i \in 1..Len(t)
                   PROVE  t[i] \in (Elems(s) \ {Head(s)}) \cup {k}
        BY DEF Elems
      <4>1. CASE i = Len(s)
        BY <4>1, <2>3
      <4>2. CASE i # Len(s)
        <5>1. i \in 1..(Len(s) - 1)
          BY <4>2, <2>3, <2>0
        <5>2. t[i] = s[i + 1] /\ i + 1 \in 1..Len(s) /\ i + 1 # 1
          BY <5>1, <2>3, <2>0
        <5>3. t[i] # s[1] /\ t[i] \in Elems(s)
          BY <5>2, <2>0 DEF Distinct, Elems
        <5> QED
          BY <5>3, <2>2
      <4> QED
        BY <4>1, <4>2
    <3>2. \A x \in (Elems(s) \ {Head(s)}) \cup {k} : x \in Elems(t)
      <4> SUFFICES ASSUME NEW x \in (Elems(s) \ {Head(s)}) \cup {k}
                   PROVE  \E i \in 1..Len(t) : t[i] = x
        BY DEF Elems
      <4>1. CASE x = k
        BY <4>1, <2>3, <2>0
      <4>2. CASE x # k
        <5>1. PICK j \in 1..Len(s) : s[j] = x
          BY <4>2 DEF Elems
        <5>2. j # 1
          BY <5>1, <4>2, <2>2
        <5>3. j - 1 \in 1..(Len(s) - 1) /\ (j - 1) + 1 = j
          BY <5>2, <2>0
        <5>4. t[j - 1] = x /\ j - 1 \in 1..Len(t)
          BY <5>3, <5>1, <2>3, <2>0
        <5> QED
          BY <5>4
      <4> QED
        BY <4>1, <4>2
    <3> QED
      BY <3>1, <3>2
  <2>6. Distinct(Append(Tail(s), k))
    BY <2>0, <2>3 DEF Distinct, Elems
  <2> QED
    BY <2>0, <2>1, <2>3, <2>4, <2>5, <2>6
<1> QED
  BY <1>0, <1>1, <1>2

-----------------------------------------------------------------------------
(* Type correctness. *)

\* Inside _process_message a process has a delivery of a message of the queue.
LEMMA CurrentDelivery ==
    ASSUME TypeOK, NEW w \in Workers, pc[w] \notin {"down", "poll", "next"}
    PROVE  /\ cur[w] \in Delivery
           /\ cur[w] # None
           /\ cur[w].msg \in Msgs
           /\ Key(w) \in Keys
           /\ TaskOf[cur[w].msg] \in Tasks
  BY ConstantsAssumption DEF TypeOK, TypeProc, Steps, Delivery, Key

\* The messages of a batch are messages of the queue, and None is no delivery.
LEMMA BatchDelivery ==
    ASSUME TypeOK, NEW w \in Workers, NEW d \in batch[w]
    PROVE  d \in Delivery /\ d.msg \in Msgs /\ TaskOf[d.msg] \in Tasks /\ d # None
  BY ConstantsAssumption DEF TypeOK, TypeProc, Delivery

\* A process that dies leaves a well-typed process behind.
LEMMA DiesTyped ==
    ASSUME TypeOK, NEW w \in Workers, Dies(w)
    PROVE  TypeProc' /\ TypeStore'
<1>1. TypeProc'
  BY DEF TypeOK, TypeProc, Dies, Steps
<1>2. TypeStore'
  <2>1. <<>> \in Seq(Keys) /\ Len(<<>>) = 0 /\ Zero \in [Keys -> Nat]
    BY DEF Zero
  <2> QED
    BY <2>1, ConstantsAssumption DEF TypeOK, TypeStore, Dies
<1> QED
  BY <1>1, <1>2

\* Every reachable state of the worker loop is well-typed, a process has a
\* current delivery exactly while it is inside _process_message, and its claim
\* store never outgrows max_items.
THEOREM TypeCorrect == Spec => []TypeOK
<1> USE ConstantsAssumption
<1>1. Init => TypeOK
  BY DEF Init, TypeOK, TypeSqs, TypeProc, TypeStore, TypeRecords, TypeBudgets,
         Places, Steps, TaskStatus, Zero
<1>2. TypeOK /\ [Next]_vars => TypeOK'
  <2> SUFFICES ASSUME TypeOK, [Next]_vars
               PROVE  TypeOK'
    OBVIOUS
  <2> USE DEF TypeOK
  <2>1. ASSUME NEW m \in Msgs, Send(m) PROVE TypeOK'
    <3>1. TypeSqs'
      BY <2>1 DEF Send, TypeSqs, Places, sqs
    <3>2. TypeProc'
      BY <2>1 DEF Send, TypeProc, proc
    <3>3. TypeStore'
      BY <2>1 DEF Send, TypeStore, proc
    <3>4. TypeRecords'
      BY <2>1 DEF Send, TypeRecords, records
    <3>5. TypeBudgets'
      BY <2>1 DEF Send, TypeBudgets, budgets
    <3> QED
      BY <3>1, <3>2, <3>3, <3>4, <3>5
  <2>2. ASSUME NEW m \in Msgs, Expire(m) PROVE TypeOK'
    <3>1. TypeSqs'
      BY <2>2 DEF Expire, TypeSqs, Places, sqs
    <3>2. TypeProc'
      BY <2>2 DEF Expire, TypeProc, proc
    <3>3. TypeStore'
      BY <2>2 DEF Expire, TypeStore, proc
    <3>4. TypeRecords'
      BY <2>2 DEF Expire, TypeRecords, records
    <3>5. TypeBudgets'
      BY <2>2 DEF Expire, TypeBudgets, budgets
    <3> QED
      BY <3>1, <3>2, <3>3, <3>4, <3>5
  <2>3. ASSUME NEW w \in Workers, Receive(w) PROVE TypeOK'
    <3>1. TypeSqs'
      BY <2>3 DEF Receive, TypeSqs, Places, Bumped, sqs
    <3>2. TypeProc'
      <4>1. \A m \in Msgs : Bumped(m) \in 1..MaxAttempts
        BY DEF TypeSqs, Bumped
      <4>2. PICK S \in SUBSET Msgs :
              batch' = [batch EXCEPT ![w] = {[msg |-> m, count |-> Bumped(m)] : m \in S}]
        BY <2>3 DEF Receive
      <4>3. {[msg |-> m, count |-> Bumped(m)] : m \in S} \subseteq Delivery
        BY <4>1 DEF Delivery
      <4>4. batch' \in [Workers -> SUBSET Delivery]
        BY <4>2, <4>3 DEF TypeProc
      <4> QED
        BY <2>3, <4>4 DEF Receive, TypeProc, Steps
    <3>3. TypeStore'
      BY <2>3 DEF Receive, TypeStore, proc
    <3>4. TypeRecords'
      BY <2>3 DEF Receive, TypeRecords, records
    <3>5. TypeBudgets'
      BY <2>3 DEF Receive, TypeBudgets, budgets
    <3> QED
      BY <3>1, <3>2, <3>3, <3>4, <3>5
  <2>4. ASSUME NEW w \in Workers, EndBatch(w) PROVE TypeOK'
    <3>1. TypeSqs'
      BY <2>4 DEF EndBatch, TypeSqs, sqs
    <3>2. TypeProc'
      BY <2>4 DEF EndBatch, TypeProc, Steps, proc
    <3>3. TypeStore'
      BY <2>4 DEF EndBatch, TypeStore, proc
    <3>4. TypeRecords'
      BY <2>4 DEF EndBatch, TypeRecords, records
    <3>5. TypeBudgets'
      BY <2>4 DEF EndBatch, TypeBudgets, budgets
    <3> QED
      BY <3>1, <3>2, <3>3, <3>4, <3>5
  <2>5. ASSUME NEW w \in Workers, Stop(w) PROVE TypeOK'
    <3>1. TypeSqs'
      BY <2>5 DEF Stop, TypeSqs, sqs
    <3>2. TypeProc'
      BY <2>5 DEF Stop, TypeProc, Steps, Dies, proc
    <3>3. TypeStore'
      BY <2>5 DEF Stop, TypeStore, Dies, Zero, proc
    <3>4. TypeRecords'
      BY <2>5 DEF Stop, TypeRecords, records
    <3>5. TypeBudgets'
      BY <2>5 DEF Stop, TypeBudgets, budgets
    <3> QED
      BY <3>1, <3>2, <3>3, <3>4, <3>5
  <2>6. ASSUME NEW w \in Workers, Restart(w) PROVE TypeOK'
    <3>1. TypeSqs'
      BY <2>6 DEF Restart, TypeSqs, sqs
    <3>2. TypeProc'
      BY <2>6 DEF Restart, TypeProc, Steps, proc
    <3>3. TypeStore'
      BY <2>6 DEF Restart, TypeStore, proc
    <3>4. TypeRecords'
      BY <2>6 DEF Restart, TypeRecords, records
    <3>5. TypeBudgets'
      BY <2>6 DEF Restart, TypeBudgets, budgets
    <3> QED
      BY <3>1, <3>2, <3>3, <3>4, <3>5
  <2>7. ASSUME NEW w \in Workers, Reject(w) PROVE TypeOK'
    <3>0. \A d \in batch[w] : /\ d \in Delivery /\ d.msg \in Msgs
                              /\ TaskOf[d.msg] \in Tasks /\ d # None
      BY BatchDelivery
    <3>1. TypeSqs'
      BY <2>7, <3>0 DEF Reject, TypeSqs, DeleteMessage, Places, sqs
    <3>2. TypeProc'
      BY <2>7, DiesTyped DEF Reject, TypeProc
    <3>3. TypeStore'
      BY <2>7, DiesTyped DEF Reject, TypeStore
    <3>4. TypeRecords'
      BY <2>7 DEF Reject, TypeRecords, records
    <3>5. TypeBudgets'
      BY <2>7, <3>0 DEF Reject, TypeBudgets, Raises, budgets
    <3> QED
      BY <3>1, <3>2, <3>3, <3>4, <3>5
  <2>8. ASSUME NEW w \in Workers, Begin(w) PROVE TypeOK'
    <3>0. \A d \in batch[w] : /\ d \in Delivery /\ d.msg \in Msgs
                              /\ TaskOf[d.msg] \in Tasks /\ d # None
      BY BatchDelivery
    <3>1. TypeSqs'
      BY <2>8 DEF Begin, TypeSqs, sqs
    <3>2. TypeProc'
      BY <2>8, <3>0 DEF Begin, TypeProc, Steps, Goto, proc
    <3>3. TypeStore'
      BY <2>8 DEF Begin, TypeStore, proc
    <3>4. TypeRecords'
      BY <2>8, <3>0 DEF Begin, TypeRecords, TaskStatus, records
    <3>5. TypeBudgets'
      BY <2>8, <3>0 DEF Begin, TypeBudgets, Raises, budgets
    <3> QED
      BY <3>1, <3>2, <3>3, <3>4, <3>5
  <2>9. ASSUME NEW w \in Workers, Claim(w) PROVE TypeOK'
    <3>0. /\ cur[w] \in Delivery /\ cur[w] # None /\ cur[w].msg \in Msgs
          /\ Key(w) \in Keys /\ TaskOf[cur[w].msg] \in Tasks
      BY <2>9, CurrentDelivery DEF Claim
    <3>1. TypeSqs'
      BY <2>9 DEF Claim, TypeSqs, sqs
    <3>2. TypeProc'
      BY <2>9, <3>0 DEF Claim, TypeProc, Steps, Goto, proc
    <3>3. TypeStore'
      <4>1. /\ Remember(seen[w], Key(w)) \in Seq(Keys)
            /\ Len(Remember(seen[w], Key(w))) <= MaxItems
        BY <3>0, RememberType DEF TypeStore
      <4>2. seen' \in [Workers -> Seq(Keys)] /\ \A v \in Workers : Len(seen'[v]) <= MaxItems
        BY <2>9, <4>1 DEF Claim, TypeStore
      <4>3. runs' \in [Workers -> [Keys -> Nat]] /\ evicted' \in [Workers -> [Keys -> Nat]]
        BY <2>9, <3>0 DEF Claim, TypeStore
      <4> QED
        BY <4>2, <4>3 DEF TypeStore
    <3>4. TypeRecords'
      BY <2>9 DEF Claim, TypeRecords, records
    <3>5. TypeBudgets'
      BY <2>9 DEF Claim, TypeBudgets, budgets
    <3> QED
      BY <3>1, <3>2, <3>3, <3>4, <3>5
  <2>10. ASSUME NEW w \in Workers, Duplicate(w) PROVE TypeOK'
    <3>0. /\ cur[w] \in Delivery /\ cur[w] # None /\ cur[w].msg \in Msgs
          /\ Key(w) \in Keys /\ TaskOf[cur[w].msg] \in Tasks
      BY <2>10, CurrentDelivery DEF Duplicate
    <3>1. TypeSqs'
      BY <2>10, <3>0 DEF Duplicate, TypeSqs, DeleteMessage, Places, sqs
    <3>2. TypeProc'
      BY <2>10, <3>0 DEF Duplicate, TypeProc, Steps, Goto, Return, proc
    <3>3. TypeStore'
      BY <2>10 DEF Duplicate, TypeStore, proc
    <3>4. TypeRecords'
      BY <2>10 DEF Duplicate, TypeRecords, records
    <3>5. TypeBudgets'
      BY <2>10, <3>0 DEF Duplicate, TypeBudgets, Raises, budgets
    <3> QED
      BY <3>1, <3>2, <3>3, <3>4, <3>5
  <2>11. ASSUME NEW w \in Workers, Handle(w) PROVE TypeOK'
    <3>0. /\ cur[w] \in Delivery /\ cur[w] # None /\ cur[w].msg \in Msgs
          /\ Key(w) \in Keys /\ TaskOf[cur[w].msg] \in Tasks
      BY <2>11, CurrentDelivery DEF Handle
    <3>1. TypeSqs'
      BY <2>11 DEF Handle, TypeSqs, sqs
    <3>2. TypeProc'
      BY <2>11, <3>0 DEF Handle, TypeProc, Steps, Goto, proc
    <3>3. TypeStore'
      BY <2>11 DEF Handle, TypeStore, proc
    <3>4. TypeRecords'
      BY <2>11, <3>0 DEF Handle, TypeRecords, records
    <3>5. TypeBudgets'
      BY <2>11 DEF Handle, TypeBudgets, budgets
    <3> QED
      BY <3>1, <3>2, <3>3, <3>4, <3>5
  <2>12. ASSUME NEW w \in Workers, Complete(w) PROVE TypeOK'
    <3>0. /\ cur[w] \in Delivery /\ cur[w] # None /\ cur[w].msg \in Msgs
          /\ Key(w) \in Keys /\ TaskOf[cur[w].msg] \in Tasks
      BY <2>12, CurrentDelivery DEF Complete
    <3>1. TypeSqs'
      BY <2>12 DEF Complete, TypeSqs, sqs
    <3>2. TypeProc'
      BY <2>12, <3>0 DEF Complete, TypeProc, Steps, Goto, proc
    <3>3. TypeStore'
      BY <2>12 DEF Complete, TypeStore, proc
    <3>4. TypeRecords'
      BY <2>12, <3>0 DEF Complete, TypeRecords, Record, TaskStatus, AuditStatus, records
    <3>5. TypeBudgets'
      BY <2>12, <3>0 DEF Complete, TypeBudgets, Record, Raises, budgets
    <3> QED
      BY <3>1, <3>2, <3>3, <3>4, <3>5
  <2>13. ASSUME NEW w \in Workers, Delete(w) PROVE TypeOK'
    <3>0. /\ cur[w] \in Delivery /\ cur[w] # None /\ cur[w].msg \in Msgs
          /\ Key(w) \in Keys /\ TaskOf[cur[w].msg] \in Tasks
      BY <2>13, CurrentDelivery DEF Delete
    <3>1. TypeSqs'
      BY <2>13, <3>0 DEF Delete, TypeSqs, DeleteMessage, Places, sqs
    <3>2. TypeProc'
      BY <2>13, <3>0 DEF Delete, TypeProc, Steps, Goto, Return, proc
    <3>3. TypeStore'
      BY <2>13 DEF Delete, TypeStore, proc
    <3>4. TypeRecords'
      BY <2>13 DEF Delete, TypeRecords, records
    <3>5. TypeBudgets'
      BY <2>13, <3>0 DEF Delete, TypeBudgets, Raises, budgets
    <3> QED
      BY <3>1, <3>2, <3>3, <3>4, <3>5
  <2>14. ASSUME NEW w \in Workers, Exhausted(w) PROVE TypeOK'
    <3>0. /\ cur[w] \in Delivery /\ cur[w] # None /\ cur[w].msg \in Msgs
          /\ Key(w) \in Keys /\ TaskOf[cur[w].msg] \in Tasks
      BY <2>14, CurrentDelivery DEF Exhausted
    <3>1. TypeSqs'
      BY <2>14 DEF Exhausted, TypeSqs, sqs
    <3>2. TypeProc'
      BY <2>14, <3>0 DEF Exhausted, TypeProc, Steps, Goto, proc
    <3>3. TypeStore'
      BY <2>14 DEF Exhausted, TypeStore, proc
    <3>4. TypeRecords'
      BY <2>14, <3>0 DEF Exhausted, TypeRecords, Record, TaskStatus, AuditStatus, records
    <3>5. TypeBudgets'
      BY <2>14, <3>0 DEF Exhausted, TypeBudgets, Record, Raises, budgets
    <3> QED
      BY <3>1, <3>2, <3>3, <3>4, <3>5
  <2>15. ASSUME NEW w \in Workers, Fail(w) PROVE TypeOK'
    <3>0. /\ cur[w] \in Delivery /\ cur[w] # None /\ cur[w].msg \in Msgs
          /\ Key(w) \in Keys /\ TaskOf[cur[w].msg] \in Tasks
      BY <2>15, CurrentDelivery DEF Fail
    <3>1. TypeSqs'
      BY <2>15 DEF Fail, TypeSqs, sqs
    <3>2. TypeProc'
      BY <2>15, <3>0 DEF Fail, TypeProc, Steps, Goto, proc
    <3>3. TypeStore'
      BY <2>15 DEF Fail, TypeStore, proc
    <3>4. TypeRecords'
      BY <2>15, <3>0 DEF Fail, TypeRecords, Record, TaskStatus, AuditStatus, records
    <3>5. TypeBudgets'
      BY <2>15, <3>0 DEF Fail, TypeBudgets, Record, Raises, budgets
    <3> QED
      BY <3>1, <3>2, <3>3, <3>4, <3>5
  <2>16. ASSUME NEW w \in Workers, LeaveForRedrive(w) PROVE TypeOK'
    <3>0. /\ cur[w] \in Delivery /\ cur[w] # None /\ cur[w].msg \in Msgs
          /\ Key(w) \in Keys /\ TaskOf[cur[w].msg] \in Tasks
      BY <2>16, CurrentDelivery DEF LeaveForRedrive
    <3>1. TypeSqs'
      BY <2>16 DEF LeaveForRedrive, TypeSqs, sqs
    <3>2. TypeProc'
      BY <2>16, <3>0 DEF LeaveForRedrive, TypeProc, Steps, Goto, Return, proc
    <3>3. TypeStore'
      BY <2>16 DEF LeaveForRedrive, TypeStore, proc
    <3>4. TypeRecords'
      BY <2>16 DEF LeaveForRedrive, TypeRecords, records
    <3>5. TypeBudgets'
      BY <2>16 DEF LeaveForRedrive, TypeBudgets, budgets
    <3> QED
      BY <3>1, <3>2, <3>3, <3>4, <3>5
  <2>17. ASSUME NEW w \in Workers, Shed(w) PROVE TypeOK'
    <3>0. /\ cur[w] \in Delivery /\ cur[w] # None /\ cur[w].msg \in Msgs
          /\ Key(w) \in Keys /\ TaskOf[cur[w].msg] \in Tasks
      BY <2>17, CurrentDelivery DEF Shed
    <3>1. TypeSqs'
      BY <2>17 DEF Shed, TypeSqs, sqs
    <3>2. TypeProc'
      BY <2>17, <3>0 DEF Shed, TypeProc, Steps, Goto, proc
    <3>3. TypeStore'
      BY <2>17 DEF Shed, TypeStore, proc
    <3>4. TypeRecords'
      BY <2>17, <3>0 DEF Shed, TypeRecords, records
    <3>5. TypeBudgets'
      BY <2>17, <3>0 DEF Shed, TypeBudgets, Raises, budgets
    <3> QED
      BY <3>1, <3>2, <3>3, <3>4, <3>5
  <2>18. ASSUME NEW w \in Workers, Discard(w) PROVE TypeOK'
    <3>0. /\ cur[w] \in Delivery /\ cur[w] # None /\ cur[w].msg \in Msgs
          /\ Key(w) \in Keys /\ TaskOf[cur[w].msg] \in Tasks
      BY <2>18, CurrentDelivery DEF Discard
    <3>1. TypeSqs'
      BY <2>18, <3>0 DEF Discard, TypeSqs, DeleteOrDie, DeleteMessage, Places, sqs
    <3>2. TypeProc'
      BY <2>18, <3>0 DEF Discard, TypeProc, DeleteOrDie, Steps, Goto, Return, Dies, proc
    <3>3. TypeStore'
      BY <2>18, DiesTyped DEF Discard, TypeStore, DeleteOrDie
    <3>4. TypeRecords'
      BY <2>18 DEF Discard, TypeRecords, records
    <3>5. TypeBudgets'
      BY <2>18, <3>0 DEF Discard, TypeBudgets, DeleteOrDie, Raises, budgets
    <3> QED
      BY <3>1, <3>2, <3>3, <3>4, <3>5
  <2>19. ASSUME NEW w \in Workers, Signal(w) PROVE TypeOK'
    <3>1. TypeSqs'
      BY <2>19 DEF Signal, TypeSqs, sqs
    <3>2. TypeProc'
      BY <2>19 DEF Signal, TypeProc, Steps, proc
    <3>3. TypeStore'
      BY <2>19 DEF Signal, TypeStore, proc
    <3>4. TypeRecords'
      BY <2>19 DEF Signal, TypeRecords, records
    <3>5. TypeBudgets'
      BY <2>19 DEF Signal, TypeBudgets, budgets
    <3> QED
      BY <3>1, <3>2, <3>3, <3>4, <3>5
  <2>20. ASSUME NEW w \in Workers, Crash(w) PROVE TypeOK'
    <3>1. TypeSqs'
      BY <2>20 DEF Crash, TypeSqs, sqs
    <3>2. TypeProc'
      BY <2>20 DEF Crash, TypeProc, Steps, Dies, proc
    <3>3. TypeStore'
      BY <2>20 DEF Crash, TypeStore, Dies, Zero, proc
    <3>4. TypeRecords'
      BY <2>20 DEF Crash, TypeRecords, records
    <3>5. TypeBudgets'
      BY <2>20 DEF Crash, TypeBudgets, budgets
    <3> QED
      BY <3>1, <3>2, <3>3, <3>4, <3>5
  <2>21. CASE UNCHANGED vars
    BY <2>21 DEF vars, sqs, proc, records, budgets,
                  TypeSqs, TypeProc, TypeStore, TypeRecords, TypeBudgets
  <2> QED
    BY <2>1, <2>2, <2>3, <2>4, <2>5, <2>6, <2>7, <2>8,
       <2>9, <2>10, <2>11, <2>12, <2>13, <2>14, <2>15, <2>16,
       <2>17, <2>18, <2>19, <2>20, <2>21
    DEF Next, Loop, Process
<1> QED
  BY <1>1, <1>2, PTL DEF Spec

-----------------------------------------------------------------------------
(* Handler runs against the claim store. *)

\* Only a claim and the death of a process touch what it knows of past runs.
LEMMA StoreSteps ==
    ASSUME [Next]_vars
    PROVE  \/ UNCHANGED <<seen, runs, evicted>>
           \/ \E w \in Workers : Claim(w) \/ Dies(w)
<1>1. CASE UNCHANGED vars
  BY <1>1 DEF vars, proc
<1>2. ASSUME NEW m \in Msgs, Send(m) \/ Expire(m)
      PROVE  UNCHANGED <<seen, runs, evicted>>
  BY <1>2 DEF Send, Expire, proc
<1>3. ASSUME NEW w \in Workers, Loop(w) \/ Signal(w) \/ Crash(w)
      PROVE  UNCHANGED <<seen, runs, evicted>> \/ Claim(w) \/ Dies(w)
  BY <1>3 DEF Loop, Process, Signal, Crash, Receive, EndBatch, Stop, Restart,
              Reject, Begin, Duplicate, Handle, Complete, Delete, Exhausted,
              Fail, LeaveForRedrive, Shed, Discard, DeleteOrDie
<1> QED
  BY <1>1, <1>2, <1>3 DEF Next

\* RunsAccounted is inductive relative to the type invariant.
LEMMA RunsAccountedStep ==
    ASSUME TypeOK, RunsAccounted, [Next]_vars
    PROVE  RunsAccounted'
<1>1. CASE UNCHANGED <<seen, runs, evicted>>
  BY <1>1 DEF RunsAccounted
<1>2. ASSUME NEW w \in Workers, Dies(w)
      PROVE  RunsAccounted'
  <2>1. /\ seen' = [seen EXCEPT ![w] = <<>>]
        /\ runs' = [runs EXCEPT ![w] = Zero]
        /\ evicted' = [evicted EXCEPT ![w] = Zero]
    BY <1>2 DEF Dies
  <2>2. ASSUME NEW v \in Workers
        PROVE  /\ Distinct(seen'[v])
               /\ \A k \in Keys :
                    runs'[v][k] = evicted'[v][k]
                                  + (IF k \in Elems(seen'[v]) THEN 1 ELSE 0)
    <3>1. CASE v = w
      <4>1. seen'[v] = <<>> /\ runs'[v] = Zero /\ evicted'[v] = Zero
        BY <2>1, <3>1 DEF TypeOK, TypeStore
      <4> QED
        BY <4>1 DEF Distinct, Elems, Zero
    <3>2. CASE v # w
      <4>1. seen'[v] = seen[v] /\ runs'[v] = runs[v] /\ evicted'[v] = evicted[v]
        BY <2>1, <3>2 DEF TypeOK, TypeStore
      <4> QED
        BY <4>1 DEF RunsAccounted
    <3> QED
      BY <3>1, <3>2
  <2> QED
    BY <2>2 DEF RunsAccounted
<1>3. ASSUME NEW w \in Workers, Claim(w)
      PROVE  RunsAccounted'
  <2> DEFINE s == seen[w]
             k0 == Key(w)
  <2>1. /\ k0 \in Keys /\ k0 \notin Elems(s)
        /\ s \in Seq(Keys) /\ Len(s) <= MaxItems /\ Distinct(s)
    BY <1>3, CurrentDelivery DEF Claim, TypeOK, TypeStore, RunsAccounted
  <2>2. /\ Distinct(Remember(s, k0))
        /\ Len(s) < MaxItems => Elems(Remember(s, k0)) = Elems(s) \cup {k0}
        /\ Len(s) >= MaxItems =>
             /\ Head(s) \in Elems(s)
             /\ Elems(Remember(s, k0)) = (Elems(s) \ {Head(s)}) \cup {k0}
    BY <2>1, RememberFacts
  <2>3. /\ seen' = [seen EXCEPT ![w] = Remember(s, k0)]
        /\ runs' = [runs EXCEPT ![w][k0] = @ + 1]
        /\ evicted' = IF Len(s) < MaxItems THEN evicted
                      ELSE [evicted EXCEPT ![w][Head(s)] = @ + 1]
    BY <1>3 DEF Claim
  <2>4. ASSUME NEW v \in Workers
        PROVE  /\ Distinct(seen'[v])
               /\ \A k \in Keys :
                    runs'[v][k] = evicted'[v][k]
                                  + (IF k \in Elems(seen'[v]) THEN 1 ELSE 0)
    <3>1. CASE v # w
      <4>1. seen'[v] = seen[v] /\ runs'[v] = runs[v] /\ evicted'[v] = evicted[v]
        BY <2>3, <3>1 DEF TypeOK, TypeStore
      <4> QED
        BY <4>1 DEF RunsAccounted
    <3>2. CASE v = w
      <4>1. seen'[v] = Remember(s, k0)
        BY <2>3, <3>2 DEF TypeOK, TypeStore
      <4>2. ASSUME NEW k \in Keys
            PROVE  runs'[v][k] = evicted'[v][k]
                                 + (IF k \in Elems(Remember(s, k0)) THEN 1 ELSE 0)
        <5>1. /\ runs[w][k] = evicted[w][k] + (IF k \in Elems(s) THEN 1 ELSE 0)
              /\ runs[w][k] \in Nat /\ evicted[w][k] \in Nat
          BY DEF RunsAccounted, TypeOK, TypeStore
        <5>2. runs'[w][k] = IF k = k0 THEN runs[w][k] + 1 ELSE runs[w][k]
          BY <2>1, <2>3 DEF TypeOK, TypeStore
        <5>3. CASE Len(s) < MaxItems
          BY <5>1, <5>2, <5>3, <2>1, <2>2, <2>3, <3>2
        <5>4. CASE ~(Len(s) < MaxItems)
          <6>0. Len(s) >= MaxItems
            BY <5>4, <2>1, ConstantsAssumption
          <6>1. /\ Head(s) \in Elems(s) /\ Head(s) # k0
                /\ Elems(Remember(s, k0)) = (Elems(s) \ {Head(s)}) \cup {k0}
            BY <6>0, <2>1, <2>2
          <6>2. evicted'[w][k] = IF k = Head(s) THEN evicted[w][k] + 1
                                 ELSE evicted[w][k]
            BY <5>4, <2>3 DEF TypeOK, TypeStore
          <6> QED
            BY <5>1, <5>2, <6>1, <6>2, <2>1, <3>2
        <5> QED
          BY <5>3, <5>4
      <4> QED
        BY <4>1, <4>2, <2>2
    <3> QED
      BY <3>1, <3>2
  <2> QED
    BY <2>4 DEF RunsAccounted
<1> QED
  BY <1>1, <1>2, <1>3, StoreSteps

\* However many processes share the queue and whatever fails, a process runs
\* the handler for a key once, plus once per eviction of that key (first_seen).
THEOREM OneRun == Spec => []OneRunPerBoot
<1>1. Init => RunsAccounted
  BY DEF Init, RunsAccounted, Distinct, Elems, Zero
<1>2. TypeOK /\ RunsAccounted /\ [Next]_vars => RunsAccounted'
  BY RunsAccountedStep
<1>3. TypeOK /\ RunsAccounted => OneRunPerBoot
  BY DEF RunsAccounted, OneRunPerBoot, TypeOK, TypeStore
<1> QED
  BY <1>1, <1>2, <1>3, TypeCorrect, PTL DEF Spec

-----------------------------------------------------------------------------
(* No authentic message is lost without a trace. *)

\* Audit records are never withdrawn.
LEMMA AuditGrows ==
    ASSUME [Next]_vars, NEW k, Audited(k)
    PROVE  Audited(k)'
<1>1. audit \subseteq audit' /\ auditLost \subseteq auditLost'
  <2>1. CASE UNCHANGED vars
    BY <2>1 DEF vars, records
  <2>2. ASSUME NEW m \in Msgs, Send(m) \/ Expire(m)
        PROVE  UNCHANGED <<audit, auditLost>>
    BY <2>2 DEF Send, Expire, records
  <2>3. ASSUME NEW w \in Workers, Loop(w) \/ Signal(w) \/ Crash(w)
        PROVE  audit \subseteq audit' /\ auditLost \subseteq auditLost'
    BY <2>3 DEF Loop, Process, Signal, Crash, Receive, EndBatch, Stop, Restart,
                Reject, Begin, Claim, Duplicate, Handle, Complete, Delete,
                Exhausted, Fail, LeaveForRedrive, Shed, Discard, Record, records
  <2> QED
    BY <2>1, <2>2, <2>3 DEF Next
<1> QED
  BY <1>1 DEF Audited

\* Recording how a run ended makes its key audited.
LEMMA RecordAudits ==
    ASSUME NEW w \in Workers, NEW s \in AuditStatus, Record(w, s), UNCHANGED cur
    PROVE  Audited(Key(w))'
  BY DEF Record, Audited, Key

\* One process's part of ClaimsAudited.
ClaimsOf(w) ==
    /\ \A k \in Elems(seen[w]) :
         Audited(k) \/ (pc[w] \in Working /\ Key(w) = k)
    /\ pc[w] \in {"delete", "ceiling", "discard"} => Audited(Key(w))

\* A process that does not move keeps its part of ClaimsAudited.
LEMMA ClaimsStay ==
    ASSUME [Next]_vars, NEW w \in Workers, ClaimsOf(w),
           pc'[w] = pc[w], cur'[w] = cur[w], seen'[w] = seen[w]
    PROVE  ClaimsOf(w)'
  BY AuditGrows DEF ClaimsOf, Key

\* A step of one process leaves every other process where it is.
LEMMA OthersStay ==
    ASSUME TypeOK, NEW w \in Workers, NEW v \in Workers, v # w,
           Loop(w) \/ Signal(w) \/ Crash(w)
    PROVE  pc'[v] = pc[v] /\ cur'[v] = cur[v] /\ seen'[v] = seen[v]
<1> USE DEF TypeOK, TypeProc, TypeStore
<1>1. CASE Receive(w) \/ EndBatch(w) \/ Restart(w) \/ Signal(w)
  BY <1>1 DEF Receive, EndBatch, Restart, Signal
<1>2. CASE Stop(w) \/ Crash(w) \/ Reject(w)
  BY <1>2 DEF Stop, Crash, Reject, Dies
<1>3. CASE Begin(w) \/ Claim(w) \/ Handle(w) \/ Complete(w) \/ Exhausted(w) \/ Fail(w)
  BY <1>3 DEF Begin, Claim, Handle, Complete, Exhausted, Fail, Goto
<1>4. CASE Duplicate(w) \/ Delete(w) \/ LeaveForRedrive(w)
  BY <1>4 DEF Duplicate, Delete, LeaveForRedrive, Return, Goto
<1>5. CASE Shed(w) \/ Discard(w)
  BY <1>5 DEF Shed, Discard, DeleteOrDie, Dies, Return, Goto
<1> QED
  BY <1>1, <1>2, <1>3, <1>4, <1>5 DEF Loop, Process

\* A dead process claims nothing.
LEMMA DeadClaimsNothing ==
    ASSUME TypeOK, NEW w \in Workers, Dies(w)
    PROVE  ClaimsOf(w)'
<1>1. seen'[w] = <<>> /\ pc'[w] = "down"
  BY DEF Dies, TypeOK, TypeProc, TypeStore
<1> QED
  BY <1>1 DEF ClaimsOf, Elems

\* Every step of a process keeps its own part of ClaimsAudited.
LEMMA ClaimsMove ==
    ASSUME TypeOK, RunsAccounted, [Next]_vars, NEW w \in Workers, ClaimsOf(w),
           Loop(w) \/ Signal(w) \/ Crash(w)
    PROVE  ClaimsOf(w)'
<1> USE DEF TypeOK, TypeProc, TypeStore
<1>1. CASE Receive(w) \/ EndBatch(w) \/ Restart(w) \/ Begin(w)
  <2>1. /\ seen' = seen
        /\ pc[w] \in {"poll", "next", "down"}
        /\ pc'[w] \in {"next", "poll", "claim"}
    BY <1>1 DEF Receive, EndBatch, Restart, Begin, Goto
  <2> QED
    BY <2>1, AuditGrows DEF ClaimsOf, Working
<1>2. CASE Signal(w)
  BY <1>2, ClaimsStay DEF Signal
<1>3. CASE Stop(w) \/ Crash(w)
  BY <1>3, DeadClaimsNothing DEF Stop, Crash
<1>4. CASE Reject(w)
  BY <1>4, ClaimsStay, DeadClaimsNothing DEF Reject
<1>5. CASE Claim(w)
  <2>1. Key(w) \in Keys /\ seen[w] \in Seq(Keys) /\ Len(seen[w]) <= MaxItems
        /\ Key(w) \notin Elems(seen[w]) /\ Distinct(seen[w])
    BY <1>5, CurrentDelivery DEF Claim, RunsAccounted
  <2>2. Elems(Remember(seen[w], Key(w))) \subseteq Elems(seen[w]) \cup {Key(w)}
    <3>1. Len(seen[w]) < MaxItems \/ Len(seen[w]) >= MaxItems
      BY <2>1, ConstantsAssumption
    <3>2. /\ Len(seen[w]) < MaxItems =>
                Elems(Remember(seen[w], Key(w))) = Elems(seen[w]) \cup {Key(w)}
          /\ Len(seen[w]) >= MaxItems =>
                Elems(Remember(seen[w], Key(w)))
                  = (Elems(seen[w]) \ {Head(seen[w])}) \cup {Key(w)}
      BY <2>1, RememberFacts
    <3> QED
      BY <3>1, <3>2
  <2>3. /\ seen'[w] = Remember(seen[w], Key(w))
        /\ pc[w] = "claim" /\ pc'[w] = "handle" /\ Key(w)' = Key(w)
    BY <1>5 DEF Claim, Goto, Key
  <2>4. \A k \in Elems(seen[w]) : Audited(k)'
    BY <2>3, AuditGrows DEF ClaimsOf, Working
  <2> QED
    BY <2>2, <2>3, <2>4 DEF ClaimsOf, Working
<1>6. CASE Duplicate(w)
  <2>1. pc[w] = "claim" /\ seen'[w] = seen[w] /\ pc'[w] \in {"next", "except"}
    BY <1>6 DEF Duplicate, Return, Goto
  <2> QED
    BY <2>1, AuditGrows DEF ClaimsOf, Working
<1>7. CASE Handle(w)
  <2>1. /\ pc[w] = "handle" /\ seen'[w] = seen[w] /\ Key(w)' = Key(w)
        /\ pc'[w] \in {"complete", "exhausted", "except"}
    BY <1>7 DEF Handle, Goto, Key
  <2> QED
    BY <2>1, AuditGrows DEF ClaimsOf, Working
<1>8. CASE Complete(w) \/ Exhausted(w) \/ Fail(w)
  <2>1. Audited(Key(w))' /\ cur' = cur /\ seen' = seen
        /\ pc'[w] \in {"delete", "discard", "ceiling"}
    BY <1>8, RecordAudits DEF Complete, Exhausted, Fail, AuditStatus, Goto
  <2>2. Key(w)' = Key(w)
    BY <2>1 DEF Key
  <2> QED
    BY <2>1, <2>2, AuditGrows DEF ClaimsOf, Working
<1>9. CASE Delete(w)
  <2>1. /\ pc[w] = "delete" /\ seen' = seen /\ pc'[w] \in {"next", "except"}
        /\ Audited(Key(w))
    BY <1>9 DEF Delete, Return, Goto, ClaimsOf
  <2> QED
    BY <2>1, AuditGrows DEF ClaimsOf, Working
<1>10. CASE LeaveForRedrive(w)
  <2>1. pc[w] = "ceiling" /\ seen' = seen /\ pc'[w] = "next"
    BY <1>10 DEF LeaveForRedrive, Return, Goto
  <2> QED
    BY <2>1, AuditGrows DEF ClaimsOf, Working
<1>11. CASE Shed(w)
  <2>1. /\ pc[w] = "ceiling" /\ seen' = seen /\ pc'[w] = "discard"
        /\ Key(w)' = Key(w) /\ Audited(Key(w))
    BY <1>11 DEF Shed, Goto, Key, ClaimsOf
  <2> QED
    BY <2>1, AuditGrows DEF ClaimsOf, Working
<1>12. CASE Discard(w)
  <2>1. CASE Dies(w)
    BY <2>1, DeadClaimsNothing
  <2>2. CASE ~Dies(w)
    <3>1. pc[w] = "discard" /\ seen' = seen /\ pc'[w] = "next"
      BY <1>12, <2>2 DEF Discard, DeleteOrDie, Return, Goto
    <3> QED
      BY <3>1, AuditGrows DEF ClaimsOf, Working
  <2> QED
    BY <2>1, <2>2
<1> QED
  BY <1>1, <1>2, <1>3, <1>4, <1>5, <1>6, <1>7, <1>8, <1>9, <1>10, <1>11, <1>12
  DEF Loop, Process

\* A message disappears from the queue only through a delete, and the key of a
\* valid message that is deleted is audited by then.
LEMMA DeletesAreAudited ==
    ASSUME TypeOK, [Next]_vars, ClaimsAudited, DeletedIsAudited
    PROVE  DeletedIsAudited'
<1> USE DEF TypeOK, TypeSqs
<1> SUFFICES ASSUME NEW m \in Msgs, queue'[m] = "gone", Valid(m), queue[m] # "gone"
             PROVE  Audited(KeyOf[m])
  BY AuditGrows DEF DeletedIsAudited, Valid
<1>1. ~UNCHANGED vars /\ Next
  BY DEF vars, sqs
<1>2. ~\E n \in Msgs : Send(n) \/ Expire(n)
  BY DEF Send, Expire
<1>3. PICK w \in Workers : Loop(w) \/ Signal(w) \/ Crash(w)
  BY <1>1, <1>2 DEF Next
<1>4. ~UNCHANGED queue
  OBVIOUS
<1>5. Reject(w) \/ Duplicate(w) \/ Delete(w) \/ Discard(w)
  <2>1. ~Receive(w)
    BY DEF Receive
  <2> QED
    BY <1>3, <1>4, <2>1 DEF Loop, Process, Signal, Crash, EndBatch, Stop, Restart,
       Begin, Claim, Handle, Complete, Exhausted, Fail, LeaveForRedrive, Shed, sqs
<1>6. CASE Reject(w)
  BY <1>6, <1>4 DEF Reject, DeleteMessage
<1>7. CASE Duplicate(w)
  <2>1. m = cur[w].msg
    BY <1>7, <1>4 DEF Duplicate, DeleteMessage
  <2>2. pc[w] = "claim" /\ Key(w) \in Elems(seen[w])
    BY <1>7 DEF Duplicate
  <2> QED
    BY <2>1, <2>2 DEF ClaimsAudited, Working, Key
<1>8. CASE Delete(w) \/ Discard(w)
  <2>1. m = cur[w].msg
    BY <1>8, <1>4 DEF Delete, Discard, DeleteOrDie, DeleteMessage
  <2>2. pc[w] \in {"delete", "discard"}
    BY <1>8 DEF Delete, Discard
  <2> QED
    BY <2>1, <2>2 DEF ClaimsAudited, Key
<1> QED
  BY <1>5, <1>6, <1>7, <1>8

\* No authentic message leaves the queue before a run for its key is in the
\* audit ledger, with any number of processes and at every crash point.
THEOREM NothingDeletedUnaudited == Spec => []DeletedIsAudited
<1>1. Init => RunsAccounted /\ ClaimsAudited /\ DeletedIsAudited
  BY DEF Init, RunsAccounted, Distinct, Elems, Zero, ClaimsAudited, DeletedIsAudited
<1>2. TypeOK /\ RunsAccounted /\ [Next]_vars => RunsAccounted'
  BY RunsAccountedStep
<1>3. TypeOK /\ RunsAccounted /\ ClaimsAudited /\ [Next]_vars => ClaimsAudited'
  <2> SUFFICES ASSUME TypeOK, RunsAccounted, ClaimsAudited, [Next]_vars,
                      NEW v \in Workers
               PROVE  ClaimsOf(v)'
    BY DEF ClaimsAudited, ClaimsOf
  <2>0. ClaimsOf(v)
    BY DEF ClaimsAudited, ClaimsOf
  <2>1. CASE UNCHANGED vars \/ \E m \in Msgs : Send(m) \/ Expire(m)
    BY <2>0, <2>1, ClaimsStay DEF vars, Send, Expire, proc
  <2>2. ASSUME NEW w \in Workers, Loop(w) \/ Signal(w) \/ Crash(w)
        PROVE  ClaimsOf(v)'
    <3>1. CASE v = w
      BY <2>0, <2>2, <3>1, ClaimsMove
    <3>2. CASE v # w
      BY <2>0, <2>2, <3>2, OthersStay, ClaimsStay
    <3> QED
      BY <3>1, <3>2
  <2> QED
    BY <2>1, <2>2 DEF Next
<1>4. TypeOK /\ ClaimsAudited /\ DeletedIsAudited /\ [Next]_vars => DeletedIsAudited'
  BY DeletesAreAudited
<1> QED
  BY <1>1, <1>2, <1>3, <1>4, TypeCorrect, PTL DEF Spec

=============================================================================

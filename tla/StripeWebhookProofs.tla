------------------------ MODULE StripeWebhookProofs ------------------------
(***************************************************************************)
(* Proofs about StripeWebhook, for any number of instances, events,        *)
(* customers, deliveries, crashes and faults.                              *)
(***************************************************************************)
EXTENDS StripeWebhook, FiniteSetTheorems, TLAPS

\* What an event says, and the event a busy instance handles.
LEMMA InfoType ==
    ASSUME NEW e \in Events
    PROVE  /\ Info[e] \in EventInfo
           /\ Info[e].email \in Customers \cup {None}
           /\ AutoFulfil(e) => Checkout(e) /\ Settled(e)
  BY WebhookAssumption DEF EventInfo, AutoFulfil, Checkout, Settled

-----------------------------------------------------------------------------
(* Types. *)

LEMMA CurrentEvent ==
    ASSUME TypeOK, NEW i \in Instances, pc[i] # "idle"
    PROVE  ev[i] \in Events /\ ev[i] # None
  BY WebhookAssumption DEF TypeOK, TypeHandler

\* The effect of the two ways a request can end.
LEMMA LeaveType ==
    ASSUME TypeHandler, NEW i \in Instances, Leave(i)
    PROVE  TypeHandler'
  BY DEF TypeHandler, Leave, Goto, Steps, Who, Checkout

LEMMA StepType ==
    ASSUME TypeHandler, NEW i \in Instances, pc[i] # "idle", NEW step \in Steps \ {"idle"},
           Goto(i, step), UNCHANGED ev,
           read' \in [Instances -> CustomerState \cup {"absent"}],
           step \in {"create", "advance", "failed", "receipt", "fulfil"} =>
               Checkout(ev[i]) /\ Who(i) \in Customers
    PROVE  TypeHandler'
  BY DEF TypeHandler, Goto, Who, Checkout

LEMMA TryType ==
    ASSUME TypeCount, NEW e \in Events, NEW k \in Effects, Try(e, k),
           UNCHANGED <<takeovers, opened, crashes>>
    PROVE  TypeCount'
  <1>1. done' \in [Events -> [Effects -> Nat]]
    BY DEF TypeCount, Try
  <1>2. faults' \in Nat
    BY DEF TypeCount, Try, Fails
  <1> QED
    BY <1>1, <1>2 DEF TypeCount

LEMMA TypeInit == Init => TypeOK
  BY WebhookAssumption DEF Init, TypeOK, TypeStripe, TypeLedger, TypeHandler,
     TypeStore, TypeCount, Steps, Effects, Thread, CustomerState

LEMMA TypeNext == TypeOK /\ [Next]_vars => TypeOK'
  <1> SUFFICES ASSUME TypeOK, [Next]_vars PROVE TypeOK'
    OBVIOUS
  <1> USE DEF TypeOK
  <1>1. ASSUME NEW i \in Instances, NEW e \in Events, Deliver(i, e) PROVE TypeOK'
    BY <1>1, WebhookAssumption DEF Deliver, TypeStripe, TypeLedger, TypeHandler, TypeStore, TypeCount,
       Steps, ledgerVars, countVars, Who, Checkout
  <1>2. ASSUME NEW e \in Events, Expire(e) PROVE TypeOK'
    BY <1>2 DEF Expire, TypeStripe, TypeLedger, TypeHandler, TypeStore, TypeCount,
       stripeVars, handlerVars, countVars, Who
  <1>3. ASSUME NEW i \in Instances, Crash(i) PROVE TypeOK'
    <2>1. TypeHandler'
      BY <1>3, LeaveType DEF Crash
    <2> QED
      BY <1>3, <2>1 DEF Crash, TypeStripe, TypeLedger, TypeStore, TypeCount,
         stripeVars, ledgerVars, countVars
  <1>4. ASSUME NEW i \in Instances, Handler(i) PROVE TypeOK'
    <2>1. ev[i] \in Events
      BY <1>4, CurrentEvent DEF Handler, Scan, Claim, Lost, Age, ClaimAgain, Reclaim,
         Plain, Lookup, Create, Advance, StoreFailed, Receipt, Fulfil, Record, Revenue,
         DispatchCrm
    <2>2. CASE Scan(i)
      <3>1. TypeHandler'
        BY <2>2, LeaveType, StepType DEF Scan, Answer, Steps, Working, TypeHandler
      <3> QED
        BY <2>1, <2>2, <3>1 DEF Scan, Answer, Fails, TypeStripe, TypeLedger, TypeStore,
           TypeCount, ledgerVars, countVars
    <2>3. CASE Claim(i)
      <3>1. TypeHandler'
        BY <2>3, LeaveType, StepType DEF Claim, Answer, ClaimOpen, Steps, Working, TypeHandler
      <3> QED
        BY <2>1, <2>3, <3>1 DEF Claim, Answer, ClaimOpen, Fails, TypeStripe, TypeLedger, TypeStore,
           TypeCount, ledgerVars, countVars
    <2>4. CASE Lost(i)
      <3>1. TypeHandler'
        BY <2>4, LeaveType, StepType DEF Lost, Answer, Steps, Working, TypeHandler
      <3> QED
        BY <2>1, <2>4, <3>1 DEF Lost, Answer, Fails, TypeStripe, TypeLedger, TypeStore,
           TypeCount, ledgerVars, countVars
    <2>5. CASE Age(i)
      <3>1. TypeHandler'
        BY <2>5, LeaveType, StepType DEF Age, Answer, ClaimOpen, Steps, Working, TypeHandler
      <3> QED
        BY <2>1, <2>5, <3>1 DEF Age, Answer, ClaimOpen, Fails, TypeStripe, TypeLedger, TypeStore,
           TypeCount, ledgerVars, countVars
    <2>6. CASE ClaimAgain(i)
      <3>1. TypeHandler'
        BY <2>6, LeaveType, StepType DEF ClaimAgain, Answer, ClaimOpen, Steps, Working, TypeHandler
      <3>2. opened' \in [Events -> Nat]
        BY <2>1, <2>6 DEF ClaimAgain, ClaimOpen, TypeCount
      <3>3. faults' \in Nat
        BY <2>6 DEF ClaimAgain, ClaimOpen, Fails, TypeCount
      <3>4. TypeCount'
        BY <2>6, <3>2, <3>3 DEF ClaimAgain, TypeCount
      <3> QED
        BY <2>1, <2>6, <3>1, <3>4 DEF ClaimAgain, Answer, ClaimOpen, TypeStripe, TypeLedger,
           TypeStore, ledgerVars
    <2>7. CASE Reclaim(i)
      <3>1. TypeHandler'
        BY <2>7, LeaveType, StepType DEF Reclaim, Answer, Steps, Working, TypeHandler
      <3>2. TypeLedger'
        BY <2>1, <2>7 DEF Reclaim, TypeLedger
      <3>3. TypeCount'
        <4>1. takeovers' \in [Events -> Nat]
          BY <2>1, <2>7 DEF Reclaim, TypeCount
        <4>2. faults' \in Nat
          BY <2>7 DEF Reclaim, Fails, TypeCount
        <4> QED
          BY <2>7, <4>1, <4>2 DEF Reclaim, TypeCount
      <3> QED
        BY <2>1, <2>7, <3>1, <3>2, <3>3 DEF Reclaim, Answer, TypeStripe, TypeStore
    <2>8. CASE Plain(i)
      <3>1. TypeHandler'
        BY <2>8, LeaveType, StepType DEF Plain, Answer, Steps, Working, TypeHandler
      <3>2. TypeLedger' /\ TypeCount'
        BY <2>1, <2>8 DEF Plain, AppendRecord, PlainStatus, RecordStatus, Fails, TypeLedger,
           TypeCount, countVars
      <3> QED
        BY <2>1, <2>8, <3>1, <3>2 DEF Plain, Answer, TypeStripe, TypeStore
    <2>9. CASE Lookup(i)
      <3>1. Checkout(ev[i]) /\ Who(i) \in Customers
        BY <2>1, <2>9, InfoType DEF Lookup, Who
      <3>2. read' \in [Instances -> CustomerState \cup {"absent"}]
        BY <2>9, <3>1 DEF Lookup, TypeStore, TypeHandler
      <3>3. TypeHandler'
        BY <2>9, <3>1, <3>2, StepType DEF Lookup, Steps, Working
      <3> QED
        BY <2>9, <3>3 DEF Lookup, Fails, TypeStripe, TypeLedger, TypeStore, TypeCount,
           stripeVars, ledgerVars, countVars
    <2>10. CASE Create(i)
      <3>1. Checkout(ev[i]) /\ Who(i) \in Customers
        BY <2>10 DEF Create, TypeHandler
      <3>2. state' \in [Customers -> CustomerState \cup {"absent"}]
        BY <2>10, <3>1 DEF Create, Merge, TypeStore, CustomerState
      <3>3. read' \in [Instances -> CustomerState \cup {"absent"}]
        BY <2>10, <3>1 DEF Create, TypeStore, TypeHandler, CustomerState
      <3>4. TypeHandler'
        BY <2>10, <3>1, <3>3, StepType DEF Create, Steps, Working
      <3> QED
        BY <2>10, <3>2, <3>4 DEF Create, Fails, TypeStripe, TypeLedger, TypeStore, TypeCount,
           stripeVars, ledgerVars, countVars
    <2>11. CASE Advance(i)
      <3>1. Checkout(ev[i]) /\ Who(i) \in Customers
        BY <2>11 DEF Advance, TypeHandler
      <3>2. Wanted(ev[i], read[i]) # read[i] => Wanted(ev[i], read[i]) \in CustomerState
        BY DEF Wanted, CustomerState
      <3>3. state' \in [Customers -> CustomerState \cup {"absent"}]
        BY <2>11, <3>1, <3>2 DEF Advance, AdvanceState, TypeStore
      <3>4. TypeHandler'
        BY <2>11, <3>1, StepType DEF Advance, Steps, Working, TypeHandler
      <3> QED
        BY <2>11, <3>3, <3>4 DEF Advance, Fails, TypeStripe, TypeLedger, TypeStore, TypeCount,
           stripeVars, ledgerVars, countVars
    <2>12. CASE StoreFailed(i)
      <3>1. TypeHandler'
        BY <2>12, LeaveType DEF StoreFailed, Answer
      <3>2. TypeLedger' /\ TypeCount'
        BY <2>1, <2>12 DEF StoreFailed, AppendRecord, RecordStatus, Fails, TypeLedger, TypeCount, countVars
      <3> QED
        BY <2>1, <2>12, <3>1, <3>2 DEF StoreFailed, Answer, TypeStripe, TypeStore
    <2>13. CASE Receipt(i)
      <3>1. TypeHandler'
        BY <2>13, StepType DEF Receipt, Steps, Working, TypeHandler
      <3>2. TypeCount'
        BY <2>1, <2>13, TryType DEF Receipt, Effects
      <3> QED
        BY <2>13, <3>1, <3>2 DEF Receipt, TypeStripe, TypeLedger, TypeStore, stripeVars, ledgerVars
    <2>14. CASE Fulfil(i)
      <3>1. TypeHandler'
        BY <2>14, StepType DEF Fulfil, Steps, Working, TypeHandler
      <3>2. TypeCount'
        BY <2>1, <2>14 DEF Fulfil, Effects, TypeCount
      <3>3. TypeStore'
        <4>1. CASE ~AutoFulfil(ev[i])
          BY <2>14, <4>1 DEF Fulfil, TypeStore
        <4>2. CASE AutoFulfil(ev[i])
          <5> DEFINE new == [at |-> i, ev |-> ev[i], n |-> done'[ev[i]]["fulfil"],
                             step |-> "find", read |-> "absent"]
          <5>1. new \in Thread
            BY <2>1, <3>2 DEF Thread, TypeCount, Effects
          <5>2. AutoFulfil(new.ev) /\ Buyer(new) \in Customers
            BY <2>14, <4>2 DEF Fulfil, Buyer, Who, TypeHandler
          <5>3. threads' = threads \cup {new} /\ UNCHANGED state
            BY <2>14, <4>2 DEF Fulfil
          <5> QED
            BY <5>1, <5>2, <5>3 DEF TypeStore
        <4> QED
          BY <4>1, <4>2
      <3> QED
        BY <2>1, <2>14, <3>1, <3>2, <3>3 DEF Fulfil, TypeStripe, TypeLedger, stripeVars, ledgerVars
    <2>15. CASE Record(i)
      <3>1. TypeHandler'
        BY <2>15, StepType DEF Record, Steps, Working, TypeHandler
      <3>2. TypeLedger' /\ TypeCount'
        BY <2>1, <2>15 DEF Record, AppendRecord, RecordStatus, Fails, TypeLedger, TypeCount, countVars
      <3> QED
        BY <2>15, <3>1, <3>2 DEF Record, TypeStripe, TypeStore, stripeVars
    <2>16. CASE Revenue(i)
      <3>1. TypeHandler'
        BY <2>16, LeaveType, StepType DEF Revenue, Answer, Steps, Working, TypeHandler
      <3>2. TypeCount'
        BY <2>1, <2>16, TryType DEF Revenue, Effects, TypeCount
      <3> QED
        BY <2>1, <2>16, <3>1, <3>2 DEF Revenue, Answer, TypeStripe, TypeLedger, TypeStore, ledgerVars
    <2>17. CASE DispatchCrm(i)
      <3>1. TypeHandler'
        BY <2>17, LeaveType DEF DispatchCrm, Answer
      <3>2. TypeCount'
        BY <2>1, <2>17, TryType DEF DispatchCrm, Effects
      <3> QED
        BY <2>1, <2>17, <3>1, <3>2 DEF DispatchCrm, Answer, TypeStripe, TypeLedger, TypeStore, ledgerVars
    <2> QED
      BY <1>4, <2>2, <2>3, <2>4, <2>5, <2>6, <2>7, <2>8, <2>9, <2>10, <2>11, <2>12, <2>13, <2>14, <2>15, <2>16, <2>17 DEF Handler
  <1>5. ASSUME NEW t \in threads, FulfilThread(t) PROVE TypeOK'
    <2>1. /\ t \in Thread /\ t.ev \in Events /\ Buyer(t) \in Customers /\ AutoFulfil(t.ev)
      BY DEF TypeStore, Thread
    <2>2. ASSUME NEW step \in {"find", "start", "deliver"},
                 NEW r \in CustomerState \cup {"absent"}, Becomes(t, step, r)
          PROVE  /\ threads' \subseteq Thread
                 /\ \A u \in threads' : AutoFulfil(u.ev) /\ Buyer(u) \in Customers
      BY <2>1, <2>2 DEF Becomes, Thread, TypeStore, Buyer
    <2>3. ASSUME Finish(t)
          PROVE  /\ records' \in [Events -> SUBSET RecordStatus]
                 /\ threads' \subseteq threads
      BY <2>1, <2>3 DEF Finish, TypeLedger, RecordStatus
    <2>4. CASE Find(t)
      BY <2>1, <2>2, <2>3, <2>4 DEF Find, Fails, CustomerState, TypeStripe, TypeLedger, TypeHandler,
         TypeStore, TypeCount, stripeVars, handlerVars, countVars, Who
    <2>5. CASE StartDelivery(t)
      BY <2>1, <2>2, <2>3, <2>5 DEF StartDelivery, AdvanceState, Fails, CustomerState, Thread, TypeStripe, TypeLedger,
         TypeHandler, TypeStore, TypeCount, stripeVars, handlerVars, countVars, Who
    <2>6. CASE CompleteDelivery(t)
      BY <2>1, <2>2, <2>3, <2>6 DEF CompleteDelivery, AdvanceState, Fails, CustomerState, TypeStripe,
         TypeLedger, TypeHandler, TypeStore, TypeCount, stripeVars, handlerVars, countVars, Who
    <2> QED
      BY <1>5, <2>4, <2>5, <2>6 DEF FulfilThread
  <1>6. CASE UNCHANGED vars
    BY <1>6 DEF vars, stripeVars, ledgerVars, handlerVars, countVars, TypeStripe, TypeLedger,
       TypeHandler, TypeStore, TypeCount, Who
  <1> QED
    BY <1>1, <1>2, <1>3, <1>4, <1>5, <1>6 DEF Next

\* Every reachable state is well-typed: an instance has an event exactly while
\* it serves a request, only checkouts with an address reach the customer
\* store, and only settled whitelisted sales have a fulfilment thread.
THEOREM TypeCorrect == Spec => []TypeOK
  BY TypeInit, TypeNext, PTL DEF Spec

-----------------------------------------------------------------------------
(***************************************************************************)
(* The claim protocol.  A marker that is not fresh has only deliveries     *)
(* behind it whose claim failed open; the first takeover finds an expired  *)
(* one; and for each effect, what was done and the deliveries that have it *)
(* still before them share one allowance: the claim, the takeovers and the *)
(* claims that failed open.                                                *)
(***************************************************************************)

Due(e, k) == {i \in Instances : ev[i] = e /\ pc[i] \in Ahead[k]}

Most(e) ==
    opened[e] + (IF reservation[e] # "fresh" THEN 0
                 ELSE IF takeovers[e] > 1 THEN takeovers[e] ELSE 1)
Allowance(e) == (IF reservation[e] = "none" THEN 0 ELSE 1) + takeovers[e] + opened[e]

LosersSeeMarker(e) ==
    \A i \in Instances :
        ev[i] = e /\ pc[i] \in {"lost", "age", "again", "reclaim"} => reservation[e] # "none"
UnclaimedUntaken(e) == reservation[e] = "none" => takeovers[e] = 0
FirstTakeoverExpired(e) ==
    \A i \in Instances :
        ev[i] = e /\ pc[i] = "reclaim" /\ takeovers[e] = 0 => reservation[e] = "expired"
OwnersCounted(e) == Cardinality(Owners(e)) <= Most(e)
EffectsCounted(e) ==
    \A k \in Effects : done[e][k] + Cardinality(Due(e, k)) <= Allowance(e)
ClaimInv(e) ==
    /\ LosersSeeMarker(e)
    /\ UnclaimedUntaken(e)
    /\ FirstTakeoverExpired(e)
    /\ OwnersCounted(e)
    /\ EffectsCounted(e)

\* A delivery moves on without touching the marker or an effect of e: it does
\* not handle e, has not claimed it, or stays its owner.
Moves(i, e) ==
    ev'[i] = e =>
        \/ pc'[i] \in {"scan", "claim"}
        \/ pc'[i] \in {"lost", "age", "again"} /\ reservation[e] # "none"
        \/ /\ ev[i] = e
           /\ pc[i] \in Working
           /\ pc'[i] \in Working
           /\ \A k \in Effects : pc'[i] \in Ahead[k] => pc[i] \in Ahead[k]

Others(i) == \A j \in Instances \ {i} : pc'[j] = pc[j] /\ ev'[j] = ev[j]

\* Owners and those with an effect before them are finitely many.
LEMMA Countable ==
    ASSUME NEW e \in Events
    PROVE  /\ IsFiniteSet(Owners(e)) /\ Cardinality(Owners(e)) \in Nat
           /\ IsFiniteSet(Owners(e)') /\ Cardinality(Owners(e)') \in Nat
           /\ \A k \in Effects :
                /\ IsFiniteSet(Due(e, k)) /\ Cardinality(Due(e, k)) \in Nat
                /\ IsFiniteSet(Due(e, k)') /\ Cardinality(Due(e, k)') \in Nat
  <1>1. Owners(e) \in SUBSET Instances /\ Owners(e)' \in SUBSET Instances
    BY DEF Owners
  <1>2. \A k \in Effects : Due(e, k) \in SUBSET Instances /\ Due(e, k)' \in SUBSET Instances
    BY DEF Due
  <1>3. \A S \in SUBSET Instances : IsFiniteSet(S) /\ Cardinality(S) \in Nat
    BY WebhookAssumption, FS_Subset, FS_CardinalityType
  <1> QED
    BY <1>1, <1>2, <1>3

\* The counts of an event are numbers.
LEMMA Numbers ==
    ASSUME TypeOK, NEW e \in Events
    PROVE  /\ takeovers[e] \in Nat /\ opened[e] \in Nat
           /\ Most(e) \in Nat /\ Allowance(e) \in Nat
           /\ \A k \in Effects : done[e][k] \in Nat
  BY DEF TypeOK, TypeCount, Most, Allowance

\* No delivery of e became an owner or got an effect before it that it had not.
LEMMA NoMore ==
    ASSUME NEW e \in Events, NEW i \in Instances, Others(i),
           ev'[i] = e => \/ pc'[i] \notin Working
                         \/ /\ ev[i] = e /\ pc[i] \in Working
                            /\ \A k \in Effects : pc'[i] \in Ahead[k] => pc[i] \in Ahead[k]
    PROVE  /\ Owners(e)' \subseteq Owners(e)
           /\ Cardinality(Owners(e)') <= Cardinality(Owners(e))
           /\ \A k \in Effects : /\ Due(e, k)' \subseteq Due(e, k)
                                 /\ Cardinality(Due(e, k)') <= Cardinality(Due(e, k))
  <1>1. Owners(e)' \subseteq Owners(e)
    BY DEF Owners, Owner, Others
  <1>2. \A k \in Effects : Due(e, k)' \subseteq Due(e, k)
    BY DEF Due, Others, Ahead, Effects, Working
  <1>3. \A S, T : IsFiniteSet(T) /\ S \subseteq T => Cardinality(S) <= Cardinality(T)
    BY FS_Subset
  <1> QED
    BY <1>1, <1>2, <1>3, Countable

LEMMA Quiet ==
    ASSUME TypeOK, NEW e \in Events, ClaimInv(e), NEW i \in Instances, Others(i), Moves(i, e),
           reservation'[e] = reservation[e], takeovers'[e] = takeovers[e],
           done'[e] = done[e], opened'[e] = opened[e]
    PROVE  ClaimInv(e)'
  <1>1. LosersSeeMarker(e)' /\ FirstTakeoverExpired(e)'
    BY DEF ClaimInv, LosersSeeMarker, FirstTakeoverExpired, Working, Others, Moves
  <1>2. UnclaimedUntaken(e)' /\ Most(e)' = Most(e) /\ Allowance(e)' = Allowance(e)
    BY DEF ClaimInv, UnclaimedUntaken, Most, Allowance
  <1>3. /\ Cardinality(Owners(e)') <= Cardinality(Owners(e))
        /\ \A k \in Effects : Cardinality(Due(e, k)') <= Cardinality(Due(e, k))
    BY NoMore DEF Moves, Working
  <1>4. OwnersCounted(e)'
    BY <1>2, <1>3, Countable, Numbers DEF ClaimInv, OwnersCounted
  <1>5. ASSUME NEW k \in Effects
        PROVE  done'[e][k] + Cardinality(Due(e, k)') <= Allowance(e)'
    <2>1. done[e][k] + Cardinality(Due(e, k)) <= Allowance(e)
      BY DEF ClaimInv, EffectsCounted
    <2> QED
      BY <1>2, <1>3, <2>1, Countable, Numbers
  <1>6. EffectsCounted(e)'
    BY <1>5 DEF EffectsCounted
  <1> QED
    BY <1>1, <1>2, <1>4, <1>6 DEF ClaimInv

\* An owner of e performs an effect of e and moves past it.
LEMMA Performed ==
    ASSUME TypeOK, NEW e \in Events, ClaimInv(e), NEW i \in Instances, Others(i),
           NEW k \in Effects, Owner(i, e), pc[i] \in Ahead[k],
           UNCHANGED <<reservation, takeovers, opened>>,
           done' = [done EXCEPT ![e][k] = @ + 1],
           ev'[i] = e => pc'[i] \in Working /\ pc'[i] \notin Ahead[k] /\
                         \A l \in Effects : pc'[i] \in Ahead[l] => pc[i] \in Ahead[l]
    PROVE  ClaimInv(e)'
  <1>1. LosersSeeMarker(e)' /\ FirstTakeoverExpired(e)'
    BY DEF ClaimInv, LosersSeeMarker, FirstTakeoverExpired, Working, Others
  <1>2. UnclaimedUntaken(e)' /\ Most(e)' = Most(e) /\ Allowance(e)' = Allowance(e)
    BY DEF ClaimInv, UnclaimedUntaken, Most, Allowance
  <1>3. /\ Cardinality(Owners(e)') <= Cardinality(Owners(e))
        /\ \A l \in Effects : /\ Due(e, l)' \subseteq Due(e, l)
                              /\ Cardinality(Due(e, l)') <= Cardinality(Due(e, l))
    BY NoMore DEF Owner
  <1>4. Cardinality(Due(e, k)') <= Cardinality(Due(e, k)) - 1
    <2>1. i \in Due(e, k) /\ i \notin Due(e, k)'
      BY DEF Due, Owner
    <2>2. /\ IsFiniteSet(Due(e, k) \ {i})
          /\ Cardinality(Due(e, k) \ {i}) = Cardinality(Due(e, k)) - 1
      BY <2>1, Countable, FS_RemoveElement
    <2>3. Due(e, k)' \subseteq Due(e, k) \ {i}
      BY <1>3, <2>1
    <2> QED
      BY <2>2, <2>3, FS_Subset
  <1>5. OwnersCounted(e)'
    BY <1>2, <1>3, Countable, Numbers DEF ClaimInv, OwnersCounted
  <1>6. done'[e][k] = done[e][k] + 1 /\ \A l \in Effects \ {k} : done'[e][l] = done[e][l]
    BY DEF TypeOK, TypeCount
  <1>7. ASSUME NEW l \in Effects
        PROVE  done'[e][l] + Cardinality(Due(e, l)') <= Allowance(e)'
    <2>1. done[e][l] + Cardinality(Due(e, l)) <= Allowance(e)
      BY DEF ClaimInv, EffectsCounted
    <2>2. CASE l = k
      BY <1>2, <1>4, <1>6, <2>1, <2>2, Countable, Numbers
    <2>3. CASE l # k
      BY <1>2, <1>3, <1>6, <2>1, <2>3, Countable, Numbers
    <2> QED
      BY <2>2, <2>3
  <1>8. EffectsCounted(e)'
    BY <1>7 DEF EffectsCounted
  <1> QED
    BY <1>1, <1>2, <1>5, <1>8 DEF ClaimInv

\* A delivery of e gets past the claim: what may be done has grown with it.
LEMMA Enters ==
    ASSUME TypeOK, NEW e \in Events, ClaimInv(e), NEW i \in Instances, Others(i),
           ev[i] = e, pc[i] \notin Working, ev'[i] = e, pc'[i] = "work", done' = done,
           LosersSeeMarker(e)', UnclaimedUntaken(e)', FirstTakeoverExpired(e)',
           Most(e)' \in Nat, Allowance(e)' \in Nat,
           Cardinality(Owners(e)) + 1 <= Most(e)', Allowance(e)' = Allowance(e) + 1
    PROVE  ClaimInv(e)'
  <1>1. i \notin Owners(e) /\ Owners(e)' = Owners(e) \cup {i}
    BY DEF Owners, Owner, Working, Others
  <1>2. Cardinality(Owners(e)') = Cardinality(Owners(e)) + 1
    BY <1>1, Countable, FS_AddElement
  <1>3. OwnersCounted(e)'
    BY <1>2, Countable DEF OwnersCounted
  <1>4. ASSUME NEW k \in Effects
        PROVE  done'[e][k] + Cardinality(Due(e, k)') <= Allowance(e)'
    <2>1. i \notin Due(e, k) /\ Due(e, k)' = Due(e, k) \cup {i}
      BY DEF Due, Others, Ahead, Effects, Working
    <2>2. Cardinality(Due(e, k)') = Cardinality(Due(e, k)) + 1
      BY <2>1, Countable, FS_AddElement
    <2>3. done[e][k] + Cardinality(Due(e, k)) <= Allowance(e)
      BY DEF ClaimInv, EffectsCounted
    <2> QED
      BY <2>2, <2>3, Countable, Numbers
  <1>5. EffectsCounted(e)'
    BY <1>4 DEF EffectsCounted
  <1> QED
    BY <1>3, <1>5 DEF ClaimInv

LEMMA ClaimInit == Init => \A e \in Events : ClaimInv(e)
  <1> SUFFICES ASSUME Init, NEW e \in Events PROVE ClaimInv(e)
    OBVIOUS
  <1>1. Owners(e) = {} /\ \A k \in Effects : Due(e, k) = {}
    BY DEF Init, Owners, Owner, Working, Due, Ahead, Effects
  <1>2. Cardinality(Owners(e)) = 0 /\ \A k \in Effects : Cardinality(Due(e, k)) = 0
    BY <1>1, FS_EmptySet
  <1>3. Most(e) = 0 /\ Allowance(e) = 0 /\ \A k \in Effects : done[e][k] = 0
    BY DEF Init, Most, Allowance
  <1>4. OwnersCounted(e) /\ EffectsCounted(e)
    BY <1>2, <1>3 DEF OwnersCounted, EffectsCounted
  <1> QED
    BY <1>4 DEF Init, ClaimInv, LosersSeeMarker, UnclaimedUntaken, FirstTakeoverExpired

\* A request of another event, or one that ends, cannot disturb e.
LEMMA LeaveMoves ==
    ASSUME TypeOK, NEW e \in Events, NEW i \in Instances, Leave(i)
    PROVE  Others(i) /\ Moves(i, e)
  BY WebhookAssumption DEF Leave, Goto, Others, Moves, TypeOK, TypeHandler

LEMMA GotoMoves ==
    ASSUME TypeOK, NEW i \in Instances, NEW step, Goto(i, step), UNCHANGED ev
    PROVE  Others(i) /\ pc'[i] = step /\ ev'[i] = ev[i]
  BY DEF Goto, Others, TypeOK, TypeHandler

\* A claim that fails open adds to every allowance.
LEMMA OpensUp ==
    ASSUME TypeOK, NEW e \in Events, ClaimInv(e), NEW i \in Instances, ClaimOpen(i),
           pc[i] \in {"claim", "again"}, UNCHANGED <<reservation, takeovers, done>>
    PROVE  ClaimInv(e)'
  <1>1. Others(i) /\ pc'[i] = "work" /\ ev'[i] = ev[i]
    BY GotoMoves DEF ClaimOpen
  <1>2. CASE ev[i] # e
    <2>1. opened'[e] = opened[e]
      BY <1>2 DEF ClaimOpen, TypeOK, TypeCount
    <2> QED
      BY <1>1, <1>2, <2>1, Quiet DEF Moves
  <1>3. CASE ev[i] = e
    <2>1. opened'[e] = opened[e] + 1
      BY <1>3 DEF ClaimOpen, TypeOK, TypeCount
    <2>2. Most(e)' = Most(e) + 1 /\ Allowance(e)' = Allowance(e) + 1
      BY <2>1, Numbers DEF Most, Allowance
    <2>3. Cardinality(Owners(e)) + 1 <= Most(e)'
      BY <2>2, Countable, Numbers DEF ClaimInv, OwnersCounted
    <2>4. LosersSeeMarker(e)' /\ UnclaimedUntaken(e)' /\ FirstTakeoverExpired(e)'
      BY <1>1 DEF Others, ClaimInv, LosersSeeMarker, UnclaimedUntaken, FirstTakeoverExpired
    <2>5. pc[i] \notin Working
      BY DEF Working
    <2> QED
      BY <1>1, <1>3, <2>2, <2>3, <2>4, <2>5, Enters, Numbers
  <1> QED
    BY <1>2, <1>3

\* Nothing that concerns e changes.
LEMMA Stays ==
    ASSUME NEW e \in Events, ClaimInv(e), UNCHANGED <<pc, ev, takeovers, opened, done>>,
           reservation'[e] = reservation[e]
    PROVE  ClaimInv(e)'
  <1>1. /\ Owners(e)' = Owners(e) /\ Most(e)' = Most(e) /\ Allowance(e)' = Allowance(e)
        /\ \A k \in Effects : Due(e, k)' = Due(e, k)
    BY DEF Owners, Owner, Most, Allowance, Due
  <1>2. OwnersCounted(e)' /\ EffectsCounted(e)'
    BY <1>1 DEF ClaimInv, OwnersCounted, EffectsCounted
  <1> QED
    BY <1>2 DEF ClaimInv, LosersSeeMarker, UnclaimedUntaken, FirstTakeoverExpired

LEMMA ClaimNext ==
    ASSUME TypeOK, NEW e \in Events, ClaimInv(e), [Next]_vars
    PROVE  ClaimInv(e)'
  <1>1. ASSUME NEW i \in Instances, NEW f \in Events, Deliver(i, f) PROVE ClaimInv(e)'
    BY <1>1, Quiet DEF Deliver, ledgerVars, countVars, Others, Moves, TypeOK, TypeHandler
  <1>2. ASSUME NEW f \in Events, Expire(f) PROVE ClaimInv(e)'
    <2>1. UNCHANGED <<pc, ev, takeovers, opened, done>>
      BY <1>2 DEF Expire, handlerVars, countVars
    <2>2. CASE f = e
      <3>1. reservation'[e] = "expired" /\ reservation[e] = "fresh" /\ Owners(e) = {}
        BY <1>2, <2>2 DEF Expire, Owners, TypeOK, TypeLedger
      <3>2. Owners(e)' = {} /\ Most(e)' = opened[e]
        BY <2>1, <3>1 DEF Owners, Owner, Most, TypeOK, TypeCount
      <3>3. OwnersCounted(e)'
        BY <3>2, FS_EmptySet, Numbers DEF OwnersCounted
      <3>4. Allowance(e)' = Allowance(e) /\ \A k \in Effects : Due(e, k)' = Due(e, k)
        BY <2>1, <3>1 DEF Allowance, Due
      <3>5. EffectsCounted(e)'
        BY <2>1, <3>4 DEF EffectsCounted, ClaimInv
      <3> QED
        BY <2>1, <3>1, <3>3, <3>5 DEF ClaimInv, LosersSeeMarker, UnclaimedUntaken, FirstTakeoverExpired
    <2>3. CASE f # e
      <3>1. reservation'[e] = reservation[e]
        BY <1>2, <2>3 DEF Expire, TypeOK, TypeLedger
      <3> QED
        BY <2>1, <3>1, Stays
    <2> QED
      BY <2>2, <2>3
  <1>3. ASSUME NEW i \in Instances, Crash(i) PROVE ClaimInv(e)'
    BY <1>3, Quiet, LeaveMoves DEF Crash, ledgerVars, countVars
  <1>4. ASSUME NEW i \in Instances, Handler(i) PROVE ClaimInv(e)'
    <2>1. ev[i] \in Events
      BY <1>4, CurrentEvent DEF Handler, Scan, Claim, Lost, Age, ClaimAgain, Reclaim,
         Plain, Lookup, Create, Advance, StoreFailed, Receipt, Fulfil, Record, Revenue,
         DispatchCrm
    <2>2. CASE Scan(i)
      BY <2>2, Quiet, LeaveMoves, GotoMoves DEF Scan, Answer, Moves, ledgerVars, countVars
    <2>3. CASE Claim(i)
      <3>1. CASE reservation[ev[i]] # "none" /\ Goto(i, "lost") /\ UNCHANGED <<ev, reservation, opened>>
        BY <2>3, <3>1, Quiet, GotoMoves DEF Claim, Moves
      <3>2. CASE ClaimOpen(i) /\ UNCHANGED reservation
        BY <2>3, <3>2, OpensUp DEF Claim
      <3>3. CASE /\ reservation[ev[i]] = "none"
                 /\ reservation' = [reservation EXCEPT ![ev[i]] = "fresh"]
                 /\ Goto(i, "work")
                 /\ UNCHANGED <<ev, opened>>
        <4>1. Others(i) /\ pc'[i] = "work" /\ ev'[i] = ev[i]
          BY <3>3, GotoMoves
        <4>2. CASE ev[i] = e
          <5>1. reservation'[e] = "fresh" /\ UNCHANGED <<takeovers, done, opened>>
            BY <2>1, <2>3, <3>3, <4>2 DEF Claim, TypeOK, TypeLedger
          <5>2. reservation[e] = "none" /\ takeovers[e] = 0 /\ Cardinality(Owners(e)) <= opened[e]
            BY <3>3, <4>2, Numbers DEF ClaimInv, UnclaimedUntaken, OwnersCounted, Most
          <5>3. Most(e)' = opened[e] + 1 /\ Allowance(e)' = Allowance(e) + 1
            BY <5>1, <5>2, Numbers DEF Most, Allowance
          <5>4. LosersSeeMarker(e)' /\ UnclaimedUntaken(e)' /\ FirstTakeoverExpired(e)'
            BY <4>1, <5>1, <5>2
               DEF Others, ClaimInv, LosersSeeMarker, UnclaimedUntaken, FirstTakeoverExpired
          <5>5. pc[i] \notin Working
            BY <2>3 DEF Claim, Working
          <5>6. Cardinality(Owners(e)) + 1 <= Most(e)'
            BY <5>2, <5>3, Countable, Numbers
          <5> QED
            BY <4>1, <4>2, <5>1, <5>3, <5>4, <5>5, <5>6, Enters, Numbers
        <4>3. CASE ev[i] # e
          BY <2>1, <2>3, <3>3, <4>1, <4>3, Quiet DEF Claim, Moves, TypeOK, TypeLedger
        <4> QED
          BY <4>2, <4>3
      <3> QED
        BY <2>3, <3>1, <3>2, <3>3 DEF Claim
    <2>4. CASE Lost(i)
      <3>1. pc[i] = "lost"
        BY <2>4 DEF Lost
      <3>2. ev[i] = e => reservation[e] # "none"
        BY <3>1 DEF ClaimInv, LosersSeeMarker
      <3> QED
        BY <2>4, <3>2, Quiet, LeaveMoves, GotoMoves DEF Lost, Answer, Moves, ledgerVars, countVars
    <2>5. CASE Age(i)
      <3>1. UNCHANGED <<reservation, takeovers, opened, done>>
        BY <2>5 DEF Age, ledgerVars, countVars
      <3>2. CASE Answer(i)
        BY <3>1, <3>2, Quiet, LeaveMoves DEF Answer
      <3>3. CASE Goto(i, "again") /\ UNCHANGED ev
        <4>1. ev[i] = e => reservation[e] # "none"
          BY <2>5 DEF Age, ClaimInv, LosersSeeMarker
        <4> QED
          BY <3>1, <3>3, <4>1, Quiet, GotoMoves DEF Moves
      <3>4. CASE reservation[ev[i]] = "expired" /\ Goto(i, "reclaim") /\ UNCHANGED ev
        <4>1. Others(i) /\ pc'[i] = "reclaim" /\ ev'[i] = ev[i]
          BY <3>4, GotoMoves
        <4>2. CASE ev[i] = e
          <5>1. /\ Cardinality(Owners(e)') <= Cardinality(Owners(e))
                /\ \A k \in Effects : Cardinality(Due(e, k)') <= Cardinality(Due(e, k))
            BY <4>1, NoMore DEF Working
          <5>2. Most(e)' = Most(e) /\ Allowance(e)' = Allowance(e)
            BY <3>1 DEF Most, Allowance
          <5>3. OwnersCounted(e)'
            BY <5>1, <5>2, Countable, Numbers DEF ClaimInv, OwnersCounted
          <5>4. ASSUME NEW k \in Effects
                PROVE  done'[e][k] + Cardinality(Due(e, k)') <= Allowance(e)'
            <6>1. done[e][k] + Cardinality(Due(e, k)) <= Allowance(e)
              BY DEF ClaimInv, EffectsCounted
            <6> QED
              BY <3>1, <5>1, <5>2, <6>1, Countable, Numbers
          <5>5. LosersSeeMarker(e)' /\ UnclaimedUntaken(e)' /\ FirstTakeoverExpired(e)'
            BY <3>1, <3>4, <4>1, <4>2
               DEF Others, ClaimInv, LosersSeeMarker, UnclaimedUntaken, FirstTakeoverExpired
          <5> QED
            BY <5>3, <5>4, <5>5 DEF ClaimInv, EffectsCounted
        <4>3. CASE ev[i] # e
          BY <3>1, <4>1, <4>3, Quiet DEF Moves
        <4> QED
          BY <4>2, <4>3
      <3> QED
        BY <2>5, <3>2, <3>3, <3>4 DEF Age
    <2>6. CASE ClaimAgain(i)
      <3>1. CASE Answer(i) /\ UNCHANGED opened
        BY <2>6, <3>1, Quiet, LeaveMoves DEF ClaimAgain, Answer, ledgerVars
      <3>2. CASE ClaimOpen(i)
        BY <2>6, <3>2, OpensUp DEF ClaimAgain, ledgerVars
      <3> QED
        BY <2>6, <3>1, <3>2 DEF ClaimAgain
    <2>7. CASE Reclaim(i)
      <3>1. CASE Answer(i) /\ UNCHANGED <<reservation, takeovers>>
        BY <2>7, <3>1, Quiet, LeaveMoves DEF Reclaim, Answer
      <3>2. CASE /\ reservation' = [reservation EXCEPT ![ev[i]] = "fresh"]
                 /\ takeovers' = [takeovers EXCEPT ![ev[i]] = @ + 1]
                 /\ Goto(i, "work")
                 /\ UNCHANGED ev
        <4>1. Others(i) /\ pc'[i] = "work" /\ ev'[i] = ev[i]
          BY <3>2, GotoMoves
        <4>2. CASE ev[i] # e
          BY <2>1, <2>7, <3>2, <4>1, <4>2, Quiet DEF Reclaim, Moves, TypeOK, TypeLedger, TypeCount
        <4>3. CASE ev[i] = e
          <5>1. /\ reservation'[e] = "fresh" /\ takeovers'[e] = takeovers[e] + 1
                /\ UNCHANGED <<done, opened>> /\ pc[i] = "reclaim" /\ takeovers[e] \in Nat
            BY <2>1, <2>7, <3>2, <4>3 DEF Reclaim, TypeOK, TypeLedger, TypeCount
          <5>2. reservation[e] # "none"
            BY <4>3, <5>1 DEF ClaimInv, LosersSeeMarker
          <5>3. Allowance(e)' = Allowance(e) + 1
            BY <5>1, <5>2, Numbers DEF Allowance
          <5>4. Most(e) + 1 <= Most(e)' /\ Most(e)' \in Nat
            <6>1. CASE takeovers[e] = 0
              <7>1. reservation[e] = "expired"
                BY <4>3, <5>1, <6>1 DEF ClaimInv, FirstTakeoverExpired
              <7> QED
                BY <5>1, <6>1, <7>1, Numbers DEF Most
            <6>2. CASE takeovers[e] > 0
              BY <5>1, <6>2, Numbers DEF Most
            <6> QED
              BY <5>1, <6>1, <6>2
          <5>5. Cardinality(Owners(e)) + 1 <= Most(e)'
            BY <5>4, Countable, Numbers DEF ClaimInv, OwnersCounted
          <5>6. LosersSeeMarker(e)' /\ UnclaimedUntaken(e)' /\ FirstTakeoverExpired(e)'
            BY <4>1, <5>1 DEF Others, ClaimInv, LosersSeeMarker, UnclaimedUntaken, FirstTakeoverExpired
          <5>7. pc[i] \notin Working
            BY <5>1 DEF Working
          <5> QED
            BY <4>1, <4>3, <5>1, <5>3, <5>4, <5>5, <5>6, <5>7, Enters, Numbers
        <4> QED
          BY <4>2, <4>3
      <3> QED
        BY <2>7, <3>1, <3>2 DEF Reclaim
    <2>8. CASE Plain(i)
      <3>1. UNCHANGED <<reservation, takeovers, opened, done>>
        BY <2>8 DEF Plain, countVars
      <3>2. CASE Answer(i)
        BY <3>1, <3>2, Quiet, LeaveMoves DEF Answer
      <3>3. CASE Goto(i, "revenue") /\ UNCHANGED ev
        BY <2>8, <3>1, <3>3, Quiet, GotoMoves DEF Plain, Moves, Working, Ahead, Effects
      <3> QED
        BY <2>8, <3>2, <3>3 DEF Plain
    <2>9. CASE Lookup(i) \/ Create(i) \/ Advance(i) \/ Record(i)
      BY <2>9, Quiet, GotoMoves DEF Lookup, Create, Advance, Record, Moves, Working, Ahead,
         Effects, ledgerVars, countVars
    <2>10. CASE StoreFailed(i)
      BY <2>10, Quiet, LeaveMoves DEF StoreFailed, Answer, countVars
    <2>11. CASE Receipt(i)
      <3>1. Others(i) /\ pc[i] = "receipt" /\ pc'[i] = "fulfil" /\ ev'[i] = ev[i]
        BY <2>11, GotoMoves DEF Receipt
      <3>2. CASE ev[i] # e \/ UNCHANGED done
        <4>1. done'[e] = done[e]
          BY <2>1, <2>11, <3>2 DEF Receipt, Try, TypeOK, TypeCount
        <4> QED
          BY <2>11, <3>1, <4>1, Quiet DEF Receipt, Moves, Working, Ahead, Effects, ledgerVars
      <3>3. CASE ev[i] = e /\ done' = [done EXCEPT ![e]["receipt"] = @ + 1]
        <4>1. Owner(i, e) /\ "receipt" \in Effects /\ pc[i] \in Ahead["receipt"]
          BY <3>1, <3>3 DEF Owner, Working, Ahead, Effects
        <4>2. /\ "fulfil" \in Working /\ "fulfil" \notin Ahead["receipt"]
              /\ \A l \in Effects : "fulfil" \in Ahead[l] => "receipt" \in Ahead[l]
          BY DEF Working, Ahead, Effects
        <4>3. UNCHANGED <<reservation, takeovers, opened>>
          BY <2>11 DEF Receipt, ledgerVars
        <4> QED
          BY <3>1, <3>3, <4>1, <4>2, <4>3, Performed
      <3> QED
        BY <2>11, <3>2, <3>3 DEF Receipt, Try
    <2>12. CASE Fulfil(i)
      <3>1. Others(i) /\ pc[i] = "fulfil" /\ pc'[i] = "record" /\ ev'[i] = ev[i]
        BY <2>12, GotoMoves DEF Fulfil
      <3>2. CASE ev[i] # e \/ UNCHANGED done
        <4>1. done'[e] = done[e]
          BY <2>1, <2>12, <3>2 DEF Fulfil, TypeOK, TypeCount
        <4> QED
          BY <2>12, <3>1, <4>1, Quiet DEF Fulfil, Moves, Working, Ahead, Effects, ledgerVars
      <3>3. CASE ev[i] = e /\ done' = [done EXCEPT ![e]["fulfil"] = @ + 1]
        <4>1. Owner(i, e) /\ "fulfil" \in Effects /\ pc[i] \in Ahead["fulfil"]
          BY <3>1, <3>3 DEF Owner, Working, Ahead, Effects
        <4>2. /\ "record" \in Working /\ "record" \notin Ahead["fulfil"]
              /\ \A l \in Effects : "record" \in Ahead[l] => "fulfil" \in Ahead[l]
          BY DEF Working, Ahead, Effects
        <4>3. UNCHANGED <<reservation, takeovers, opened>>
          BY <2>12 DEF Fulfil, ledgerVars
        <4> QED
          BY <3>1, <3>3, <4>1, <4>2, <4>3, Performed
      <3> QED
        BY <2>12, <3>2, <3>3 DEF Fulfil
    <2>13. CASE Revenue(i)
      <3>1. /\ Others(i) /\ pc[i] = "revenue"
            /\ ev'[i] = e => ev[i] = e /\ pc'[i] = "crm"
        BY <2>13, GotoMoves, LeaveMoves, WebhookAssumption DEF Revenue, Answer, Leave, TypeOK, TypeHandler
      <3>2. CASE ev[i] # e \/ UNCHANGED done
        <4>1. done'[e] = done[e]
          BY <2>1, <2>13, <3>2 DEF Revenue, Try, TypeOK, TypeCount
        <4> QED
          BY <2>13, <3>1, <4>1, Quiet DEF Revenue, Moves, Working, Ahead, Effects, ledgerVars
      <3>3. CASE ev[i] = e /\ done' = [done EXCEPT ![e]["revenue"] = @ + 1]
        <4>1. Owner(i, e) /\ "revenue" \in Effects /\ pc[i] \in Ahead["revenue"]
          BY <3>1, <3>3 DEF Owner, Working, Ahead, Effects
        <4>2. /\ "crm" \in Working /\ "crm" \notin Ahead["revenue"]
              /\ \A l \in Effects : "crm" \in Ahead[l] => "revenue" \in Ahead[l]
          BY DEF Working, Ahead, Effects
        <4>3. UNCHANGED <<reservation, takeovers, opened>>
          BY <2>13 DEF Revenue, ledgerVars
        <4> QED
          BY <3>1, <3>3, <4>1, <4>2, <4>3, Performed
      <3> QED
        BY <2>13, <3>2, <3>3 DEF Revenue, Try
    <2>14. CASE DispatchCrm(i)
      <3>1. /\ Others(i) /\ pc[i] = "crm" /\ ev'[i] # e
        BY <2>14, LeaveMoves, WebhookAssumption DEF DispatchCrm, Answer, Leave, TypeOK, TypeHandler
      <3>2. CASE ev[i] # e \/ UNCHANGED done
        <4>1. done'[e] = done[e]
          BY <2>1, <2>14, <3>2 DEF DispatchCrm, Try, TypeOK, TypeCount
        <4> QED
          BY <2>14, <3>1, <4>1, Quiet DEF DispatchCrm, Moves, ledgerVars
      <3>3. CASE ev[i] = e /\ done' = [done EXCEPT ![e]["crm"] = @ + 1]
        BY <2>14, <3>1, <3>3, Performed DEF DispatchCrm, Owner, Working, Ahead, Effects, ledgerVars
      <3> QED
        BY <2>14, <3>2, <3>3 DEF DispatchCrm, Try
    <2> QED
      BY <1>4, <2>2, <2>3, <2>4, <2>5, <2>6, <2>7, <2>8, <2>9, <2>10, <2>11, <2>12,
         <2>13, <2>14 DEF Handler
  <1>5. ASSUME NEW t \in threads, FulfilThread(t) PROVE ClaimInv(e)'
    <2>1. UNCHANGED <<reservation, handlerVars, countVars>>
      BY <1>5 DEF FulfilThread, Find, StartDelivery, CompleteDelivery
    <2> QED
      BY <2>1, Stays DEF handlerVars, countVars
  <1>6. CASE UNCHANGED vars
    BY <1>6, Stays DEF vars, ledgerVars, handlerVars, countVars
  <1> QED
    BY <1>1, <1>2, <1>3, <1>4, <1>5, <1>6 DEF Next

LEMMA ClaimProtocol == Spec => [](\A e \in Events : ClaimInv(e))
  <1>1. TypeOK /\ (\A e \in Events : ClaimInv(e)) /\ [Next]_vars =>
            (\A e \in Events : ClaimInv(e))'
    BY ClaimNext
  <1> QED
    BY ClaimInit, TypeCorrect, <1>1, PTL DEF Spec

\* For any number of instances, retries, crashes and faults, at most one delivery of
\* an event is past the claim at a time, and one more for every claim that failed
\* open and every takeover after the first.
THEOREM OwnersBounded == Spec => []OwnersPaid
  <1>1. ASSUME TypeOK, \A e \in Events : ClaimInv(e) PROVE OwnersPaid
    <2>1. ASSUME NEW e \in Events
          PROVE  Cardinality(Owners(e))
                     <= opened[e] + (IF takeovers[e] > 1 THEN takeovers[e] ELSE 1)
      <3>1. Cardinality(Owners(e)) <= Most(e)
        BY <1>1 DEF ClaimInv, OwnersCounted
      <3> QED
        BY <1>1, <3>1, Countable, Numbers DEF Most
    <2> QED
      BY <2>1 DEF OwnersPaid
  <1> QED
    BY ClaimProtocol, TypeCorrect, <1>1, PTL

\* Whatever crashes and fails, each receipt, fulfilment, revenue row and CRM job of
\* an event happens at most once more than the event was taken over or a claim of it
\* failed open.
THEOREM EffectsBounded == Spec => []EffectsPaid
  <1>1. ASSUME TypeOK, \A e \in Events : ClaimInv(e) PROVE EffectsPaid
    <2>1. ASSUME NEW e \in Events, NEW k \in Effects
          PROVE  done[e][k] <= 1 + takeovers[e] + opened[e]
      <3>1. done[e][k] + Cardinality(Due(e, k)) <= Allowance(e)
        BY <1>1 DEF ClaimInv, EffectsCounted
      <3> QED
        BY <1>1, <3>1, Countable, Numbers DEF Allowance
    <2> QED
      BY <2>1 DEF EffectsPaid
  <1> QED
    BY ClaimProtocol, TypeCorrect, <1>1, PTL

-----------------------------------------------------------------------------
(***************************************************************************)
(* The claim protocol implements EventClaims: of its steps, those past the *)
(* claim are steps of a turn, the three ways past the claim begin one, and *)
(* all others change nothing that EventClaims speaks of.                   *)
(***************************************************************************)

\* EventClaims counts as FiniteSets does.
LEMMA SameCardinality == \A S : Claims!Cardinality(S) = Cardinality(S)
  BY DEF Claims!Cardinality, Cardinality

\* What a step of instance i does to the turns.
LEMMA TurnChange ==
    ASSUME NEW i \in Instances, Others(i)
    PROVE  /\ Turn' = [Turn EXCEPT ![i] = IF pc'[i] \in Working THEN ev'[i] ELSE None]
           /\ Todo' = [Todo EXCEPT ![i] = {k \in Effects : pc'[i] \in Ahead[k]}]
  BY DEF Turn, Todo, Others

\* Only a delivery past the claim has effects before it.
LEMMA AheadWorking == \A k \in Effects : Ahead[k] \subseteq Working
  BY DEF Ahead, Effects, Working

\* A delivery that is not past the claim before or after a step leaves the turns.
LEMMA NoTurn ==
    ASSUME NEW i \in Instances, Others(i), pc[i] \notin Working, pc'[i] \notin Working,
           UNCHANGED <<Claimed, takeovers, opened, done>>
    PROVE  UNCHANGED Claims!claimVars
  <1>1. Turn' = Turn
    BY DEF Turn, Others
  <1>2. Todo' = Todo
    BY AheadWorking DEF Todo, Others
  <1> QED
    BY <1>1, <1>2 DEF Claims!claimVars

\* A step that leaves the handlers alone leaves the turns alone.
LEMMA TurnsStay ==
    ASSUME UNCHANGED <<Claimed, pc, ev, takeovers, opened, done>>
    PROVE  UNCHANGED Claims!claimVars
  BY DEF Claims!claimVars, Turn, Todo

\* A delivery that gets past the claim begins a turn.
LEMMA TurnBegins ==
    ASSUME NEW i \in Instances, pc[i] \notin Working, Goto(i, "work"), UNCHANGED <<ev, done>>,
           TypeOK
    PROVE  Claims!Begin(i, ev[i])
  <1>1. Others(i) /\ pc'[i] = "work" /\ ev'[i] = ev[i]
    BY GotoMoves
  <1>2. (\A k \in Effects : "work" \in Ahead[k]) /\ "work" \in Working
    BY DEF Ahead, Effects, Working
  <1>3. Turn' = [Turn EXCEPT ![i] = ev[i]] /\ Todo' = [Todo EXCEPT ![i] = Effects]
    <2>1. {k \in Effects : pc'[i] \in Ahead[k]} = Effects
      BY <1>1, <1>2
    <2> QED
      BY <1>1, <1>2, <2>1, TurnChange
  <1>4. Turn[i] = None
    BY DEF Turn
  <1> QED
    BY <1>3, <1>4 DEF Claims!Begin

\* A delivery past the claim uses its turn: it moves past the effects it performs,
\* never back before one.
LEMMA TurnProceeds ==
    ASSUME TypeOK, NEW i \in Instances, pc[i] \in Working, Others(i),
           UNCHANGED <<Claimed, takeovers, opened>>,
           \/ pc'[i] \in Working /\ ev'[i] = ev[i]
           \/ pc'[i] = "idle",
           \A k \in Effects : pc'[i] \in Ahead[k] => pc[i] \in Ahead[k],
           \/ UNCHANGED done
           \/ \E k \in Effects : /\ pc[i] \in Ahead[k] /\ pc'[i] \notin Ahead[k]
                                 /\ done' = [done EXCEPT ![ev[i]][k] = @ + 1]
    PROVE  Claims!Proceed(i)
  <1> DEFINE left == {k \in Effects : pc'[i] \in Ahead[k]}
  <1>1. Turn[i] = ev[i] /\ Todo[i] = {k \in Effects : pc[i] \in Ahead[k]}
    BY DEF Turn, Todo
  <1>2. ev[i] # None
    <2>1. pc[i] # "idle"
      BY DEF Working
    <2> QED
      BY <2>1, CurrentEvent
  <1>3. left \in SUBSET Todo[i] /\ Todo' = [Todo EXCEPT ![i] = left]
    BY <1>1, TurnChange
  <1>4. \/ UNCHANGED done
        \/ \E k \in Todo[i] \ left : done' = [done EXCEPT ![Turn[i]][k] = @ + 1]
    BY <1>1
  <1>5. UNCHANGED Turn \/ (left = {} /\ Turn' = [Turn EXCEPT ![i] = None])
    <2>1. CASE pc'[i] \in Working /\ ev'[i] = ev[i]
      BY <2>1 DEF Turn, Others
    <2>2. CASE pc'[i] = "idle"
      <3>1. pc'[i] \notin Working
        BY <2>2 DEF Working
      <3>2. left = {}
        BY <3>1, AheadWorking
      <3> QED
        BY <3>1, <3>2, TurnChange
    <2> QED
      BY <2>1, <2>2
  <1> HIDE DEF left
  <1> QED
    BY <1>1, <1>2, <1>3, <1>4, <1>5 DEF Claims!Proceed

LEMMA TurnsInit == Init => Claims!ClaimsInit
  <1> SUFFICES ASSUME Init PROVE Claims!ClaimsInit
    OBVIOUS
  <1>1. Claimed = {} /\ Turn = [i \in Instances |-> None]
    BY DEF Init, Claimed, Turn, Working
  <1>2. Todo = [i \in Instances |-> {}]
    BY DEF Init, Todo, Ahead, Effects
  <1> QED
    BY <1>1, <1>2 DEF Init, Claims!ClaimsInit

\* The steps at which effects are still to come.
LEMMA OrderOfEffects ==
    /\ \A k \in Effects : /\ {"idle", "failed"} \cap Ahead[k] = {}
                          /\ {"work", "create", "advance"} \subseteq Ahead[k]
                          /\ "record" \in Ahead[k] <=> k \in {"revenue", "crm"}
                          /\ "revenue" \in Ahead[k] <=> k \in {"revenue", "crm"}
    /\ {"work", "create", "advance", "failed", "receipt", "fulfil", "record", "revenue", "crm"}
           = Working
    /\ Effects = {"receipt", "fulfil", "revenue", "crm"}
  BY DEF Ahead, Effects, Working

\* Every step is a step of EventClaims or leaves what it speaks of alone.
LEMMA TurnsNext ==
    ASSUME TypeOK, \A e \in Events : ClaimInv(e), [Next]_vars
    PROVE  Claims!ClaimsNext \/ UNCHANGED Claims!claimVars
  <1>1. ASSUME NEW i \in Instances, NEW e \in Events, Deliver(i, e)
        PROVE  UNCHANGED Claims!claimVars
    <2>1. Others(i) /\ pc[i] \notin Working /\ pc'[i] \notin Working
      BY <1>1 DEF Deliver, Others, Working, TypeOK, TypeHandler
    <2> QED
      BY <1>1, <2>1, NoTurn DEF Deliver, Claimed, ledgerVars, countVars
  <1>2. ASSUME NEW e \in Events, Expire(e)
        PROVE  UNCHANGED Claims!claimVars
    <2>1. Claimed' = Claimed
      BY <1>2 DEF Expire, Claimed, TypeOK, TypeLedger
    <2> QED
      BY <1>2, <2>1, TurnsStay DEF Expire, handlerVars, countVars
  <1>3. ASSUME NEW t \in threads, FulfilThread(t)
        PROVE  UNCHANGED Claims!claimVars
    <2>1. UNCHANGED <<reservation, handlerVars, countVars>>
      BY <1>3 DEF FulfilThread, Find, StartDelivery, CompleteDelivery
    <2> QED
      BY <2>1, TurnsStay DEF Claimed, handlerVars, countVars
  \* A request that ends before or after the claim.
  <1>4. ASSUME NEW i \in Instances, Leave(i)
        PROVE  Others(i) /\ pc'[i] = "idle"
    BY <1>4 DEF Leave, Goto, Others, TypeOK, TypeHandler
  <1>5. ASSUME NEW i \in Instances, Leave(i), UNCHANGED <<reservation, takeovers, opened, done>>
        PROVE  Claims!Proceed(i) \/ UNCHANGED Claims!claimVars
    <2>1. Others(i) /\ pc'[i] = "idle" /\ "idle" \notin Working
      BY <1>4, <1>5 DEF Working
    <2>2. \A k \in Effects : "idle" \notin Ahead[k]
      BY OrderOfEffects
    <2>3. UNCHANGED <<Claimed, takeovers, opened, done>>
      BY <1>5 DEF Claimed
    <2>4. CASE pc[i] \in Working
      BY <2>1, <2>2, <2>3, <2>4, TurnProceeds
    <2>5. CASE pc[i] \notin Working
      BY <2>1, <2>3, <2>5, NoTurn
    <2> QED
      BY <2>4, <2>5
  <1>6. ASSUME NEW i \in Instances, Crash(i)
        PROVE  Claims!Proceed(i) \/ UNCHANGED Claims!claimVars
    BY <1>5, <1>6 DEF Crash, ledgerVars, countVars
  \* A delivery that is still on its way to the claim.
  <1>7. ASSUME NEW i \in Instances, NEW step \in {"claim", "lost", "age", "again", "reclaim"},
               Goto(i, step), pc[i] \in {"scan", "claim", "lost", "age"},
               UNCHANGED <<ev, reservation, takeovers, opened, done>>
        PROVE  UNCHANGED Claims!claimVars
    <2>1. Others(i) /\ pc[i] \notin Working /\ pc'[i] \notin Working
      BY <1>7, GotoMoves DEF Working
    <2> QED
      BY <1>7, <2>1, NoTurn DEF Claimed
  <1>8. ASSUME NEW i \in Instances, ClaimOpen(i), pc[i] \in {"claim", "again"},
               UNCHANGED <<reservation, takeovers, done>>
        PROVE  Claims!ClaimsNext
    <2>1. pc[i] \notin Working /\ ev[i] \in Events
      BY <1>8, CurrentEvent DEF Working
    <2>2. Claims!Begin(i, ev[i])
      BY <1>8, <2>1, TurnBegins DEF ClaimOpen
    <2>3. Claims!FailOpen(i, ev[i])
      BY <1>8, <2>2 DEF ClaimOpen, Claimed, Claims!FailOpen
    <2> QED
      BY <2>1, <2>3 DEF Claims!ClaimsNext
  <1>9. ASSUME NEW i \in Instances, Claim(i)
        PROVE  Claims!ClaimsNext \/ UNCHANGED Claims!claimVars
    <2>1. pc[i] = "claim" /\ pc[i] \notin Working /\ ev[i] \in Events
      BY <1>9, CurrentEvent DEF Claim, Working
    <2>2. UNCHANGED <<takeovers, done>>  \/ ClaimOpen(i)
      BY <1>9 DEF Claim
    <2>3. CASE ClaimOpen(i) /\ UNCHANGED reservation
      BY <1>8, <1>9, <2>1, <2>3 DEF Claim, ClaimOpen
    <2>4. CASE /\ reservation[ev[i]] # "none" /\ Goto(i, "lost")
               /\ UNCHANGED <<ev, reservation, opened>>
      BY <1>7, <1>9, <2>1, <2>4 DEF Claim
    <2>5. CASE /\ reservation[ev[i]] = "none"
               /\ reservation' = [reservation EXCEPT ![ev[i]] = "fresh"]
               /\ Goto(i, "work")
               /\ UNCHANGED <<ev, opened>>
      <3>1. UNCHANGED <<takeovers, opened, done>>
        BY <1>9, <2>5 DEF Claim
      <3>2. ev[i] \notin Claimed /\ Claimed' = Claimed \cup {ev[i]}
        BY <2>1, <2>5 DEF Claimed, TypeOK, TypeLedger
      <3>3. Claims!Begin(i, ev[i])
        BY <2>1, <2>5, <3>1, TurnBegins
      <3>4. Claims!First(i, ev[i])
        BY <3>1, <3>2, <3>3 DEF Claims!First
      <3> QED
        BY <2>1, <3>4 DEF Claims!ClaimsNext
    <2> QED
      BY <1>9, <2>3, <2>4, <2>5 DEF Claim
  <1>10. ASSUME NEW i \in Instances, Reclaim(i)
         PROVE  Claims!ClaimsNext \/ UNCHANGED Claims!claimVars
    <2>1. pc[i] = "reclaim" /\ pc[i] \notin Working /\ ev[i] \in Events
      BY <1>10, CurrentEvent DEF Reclaim, Working
    <2>2. CASE Answer(i) /\ UNCHANGED <<reservation, takeovers>>
      <3>1. Claims!Proceed(i) \/ UNCHANGED Claims!claimVars
        BY <1>5, <1>10, <2>2 DEF Reclaim, Answer
      <3> QED
        BY <3>1 DEF Claims!ClaimsNext
    <2>3. CASE /\ reservation' = [reservation EXCEPT ![ev[i]] = "fresh"]
               /\ takeovers' = [takeovers EXCEPT ![ev[i]] = @ + 1]
               /\ Goto(i, "work")
               /\ UNCHANGED ev
      <3> DEFINE e == ev[i]
      <3>1. UNCHANGED <<opened, done>> /\ ClaimInv(e)
        BY <1>10, <2>1 DEF Reclaim
      <3>2. e \in Claimed /\ Claimed' = Claimed
        <4>1. reservation[e] # "none"
          BY <2>1, <3>1 DEF ClaimInv, LosersSeeMarker
        <4> QED
          BY <2>1, <2>3, <4>1 DEF Claimed, TypeOK, TypeLedger
      <3>3. takeovers[e] = 0 => Cardinality(Claims!AtWork(e)) <= opened[e]
        <4> SUFFICES ASSUME takeovers[e] = 0
                     PROVE  Cardinality(Claims!AtWork(e)) <= opened[e]
          OBVIOUS
        <4>1. reservation[e] = "expired"
          BY <2>1, <3>1 DEF ClaimInv, FirstTakeoverExpired
        <4>2. Most(e) = opened[e]
          BY <2>1, <4>1, Numbers DEF Most
        <4>3. Claims!AtWork(e) = Owners(e)
          BY <2>1, WebhookAssumption DEF Claims!AtWork, Owners, Owner, Turn
        <4> QED
          BY <3>1, <4>2, <4>3 DEF ClaimInv, OwnersCounted
      <3>4. Claims!Begin(i, e)
        BY <2>1, <2>3, <3>1, TurnBegins
      <3>5. Claims!TakeOver(i, e)
        <4>1. takeovers' = [takeovers EXCEPT ![e] = @ + 1] /\ UNCHANGED <<Claimed, opened>>
          BY <2>3, <3>1, <3>2
        <4> HIDE DEF e
        <4> QED
          BY <3>2, <3>3, <3>4, <4>1, SameCardinality DEF Claims!TakeOver
      <3> QED
        BY <2>1, <3>5 DEF Claims!ClaimsNext
    <2> QED
      BY <1>10, <2>2, <2>3 DEF Reclaim
  \* The steps of a turn that perform no effect.
  <1>11. ASSUME NEW i \in Instances, NEW step \in Working,
                pc[i] \in Working, Goto(i, step),
                \A k \in Effects : step \in Ahead[k] => pc[i] \in Ahead[k],
                UNCHANGED <<ev, reservation, takeovers, opened, done>>
         PROVE  Claims!Proceed(i)
    <2>1. Others(i) /\ pc'[i] = step /\ ev'[i] = ev[i]
      BY <1>11, GotoMoves
    <2> QED
      BY <1>11, <2>1, TurnProceeds DEF Claimed
  \* The steps of a turn that may perform the effect k, and may be its last.
  <1>12. ASSUME NEW i \in Instances, NEW k \in Effects,
                pc[i] \in Working, pc[i] \in Ahead[k],
                \/ Leave(i)
                \/ \E step \in Working \ Ahead[k] :
                      /\ Goto(i, step) /\ UNCHANGED ev
                      /\ \A l \in Effects : step \in Ahead[l] => pc[i] \in Ahead[l],
                UNCHANGED <<reservation, takeovers, opened>>,
                UNCHANGED done \/ done' = [done EXCEPT ![ev[i]][k] = @ + 1]
         PROVE  Claims!Proceed(i)
    <2>1. UNCHANGED <<Claimed, takeovers, opened>>
      BY <1>12 DEF Claimed
    <2>2. /\ Others(i) /\ pc'[i] \notin Ahead[k]
          /\ pc'[i] = "idle" \/ (pc'[i] \in Working /\ ev'[i] = ev[i])
          /\ \A l \in Effects : pc'[i] \in Ahead[l] => pc[i] \in Ahead[l]
      BY <1>4, <1>12, GotoMoves, OrderOfEffects
    <2> QED
      BY <1>12, <2>1, <2>2, TurnProceeds
  <1>13. ASSUME NEW i \in Instances, Handler(i)
         PROVE  Claims!ClaimsNext \/ UNCHANGED Claims!claimVars
    <2>1. CASE Scan(i) \/ Lost(i) \/ Age(i)
      <3>1. UNCHANGED <<reservation, takeovers, opened, done>>
        BY <2>1 DEF Scan, Lost, Age, ledgerVars, countVars
      <3>2. \/ Leave(i)
            \/ \E step \in {"claim", "age", "again", "reclaim"} : Goto(i, step) /\ UNCHANGED ev
        BY <2>1 DEF Scan, Lost, Age, Answer
      <3>3. pc[i] \in {"scan", "lost", "age"}
        BY <2>1 DEF Scan, Lost, Age
      <3>4. Claims!Proceed(i) \/ UNCHANGED Claims!claimVars
        BY <1>5, <1>7, <3>1, <3>2, <3>3
      <3> QED
        BY <3>4 DEF Claims!ClaimsNext
    <2>2. CASE Claim(i) \/ Reclaim(i)
      BY <1>9, <1>10, <2>2
    <2>3. CASE ClaimAgain(i)
      <3>1. CASE ClaimOpen(i)
        BY <1>8, <2>3, <3>1 DEF ClaimAgain, ledgerVars
      <3>2. CASE Answer(i) /\ UNCHANGED opened
        <4>1. Claims!Proceed(i) \/ UNCHANGED Claims!claimVars
          BY <1>5, <2>3, <3>2 DEF ClaimAgain, Answer, ledgerVars
        <4> QED
          BY <4>1 DEF Claims!ClaimsNext
      <3> QED
        BY <2>3, <3>1, <3>2 DEF ClaimAgain
    <2>4. CASE Plain(i)
      <3>1. UNCHANGED <<reservation, takeovers, opened, done>> /\ pc[i] = "work"
        BY <2>4 DEF Plain, countVars
      <3>2. Leave(i) \/ (Goto(i, "revenue") /\ UNCHANGED ev)
        BY <2>4 DEF Plain, Answer
      <3>3. Claims!Proceed(i) \/ UNCHANGED Claims!claimVars
        BY <1>5, <1>11, <3>1, <3>2, OrderOfEffects
      <3> QED
        BY <3>3 DEF Claims!ClaimsNext
    <2>5. CASE Lookup(i) \/ Create(i) \/ Advance(i) \/ Record(i)
      <3>1. UNCHANGED <<ev, reservation, takeovers, opened, done>>
        BY <2>5 DEF Lookup, Create, Advance, Record, ledgerVars, countVars
      <3>2. \/ /\ pc[i] \in {"work", "create", "advance"}
               /\ \E step \in {"create", "advance", "failed", "receipt", "record"} : Goto(i, step)
            \/ pc[i] = "record" /\ Goto(i, "revenue")
        BY <2>5 DEF Lookup, Create, Advance, Record
      <3>3. Claims!Proceed(i)
        BY <1>11, <3>1, <3>2, OrderOfEffects
      <3> QED
        BY <3>3 DEF Claims!ClaimsNext
    <2>6. CASE StoreFailed(i)
      <3>1. Claims!Proceed(i) \/ UNCHANGED Claims!claimVars
        BY <1>5, <2>6 DEF StoreFailed, Answer, countVars
      <3> QED
        BY <3>1 DEF Claims!ClaimsNext
    <2>7. CASE Receipt(i)
      <3>1. /\ pc[i] = "receipt" /\ Goto(i, "fulfil")
            /\ UNCHANGED <<ev, reservation, takeovers, opened>>
            /\ UNCHANGED done \/ done' = [done EXCEPT ![ev[i]]["receipt"] = @ + 1]
        BY <2>7 DEF Receipt, Try, ledgerVars
      <3>2. /\ "receipt" \in Effects /\ "receipt" \in Working /\ "receipt" \in Ahead["receipt"]
            /\ "fulfil" \in Working \ Ahead["receipt"]
            /\ \A l \in Effects : "fulfil" \in Ahead[l] => "receipt" \in Ahead[l]
        BY DEF Effects, Working, Ahead
      <3>3. Claims!Proceed(i)
        BY <1>12, <3>1, <3>2
      <3> QED
        BY <3>3 DEF Claims!ClaimsNext
    <2>8. CASE Fulfil(i)
      <3>1. /\ pc[i] = "fulfil" /\ Goto(i, "record")
            /\ UNCHANGED <<ev, reservation, takeovers, opened>>
            /\ UNCHANGED done \/ done' = [done EXCEPT ![ev[i]]["fulfil"] = @ + 1]
        BY <2>8 DEF Fulfil, ledgerVars
      <3>2. /\ "fulfil" \in Effects /\ "fulfil" \in Working /\ "fulfil" \in Ahead["fulfil"]
            /\ "record" \in Working \ Ahead["fulfil"]
            /\ \A l \in Effects : "record" \in Ahead[l] => "fulfil" \in Ahead[l]
        BY DEF Effects, Working, Ahead
      <3>3. Claims!Proceed(i)
        BY <1>12, <3>1, <3>2
      <3> QED
        BY <3>3 DEF Claims!ClaimsNext
    <2>9. CASE Revenue(i)
      <3>1. /\ pc[i] = "revenue"
            /\ Leave(i) \/ (Goto(i, "crm") /\ UNCHANGED ev)
            /\ UNCHANGED <<reservation, takeovers, opened>>
            /\ UNCHANGED done \/ done' = [done EXCEPT ![ev[i]]["revenue"] = @ + 1]
        BY <2>9 DEF Revenue, Try, Answer, ledgerVars
      <3>2. /\ "revenue" \in Effects /\ "revenue" \in Working /\ "revenue" \in Ahead["revenue"]
            /\ "crm" \in Working \ Ahead["revenue"]
            /\ \A l \in Effects : "crm" \in Ahead[l] => "revenue" \in Ahead[l]
        BY DEF Effects, Working, Ahead
      <3>3. Claims!Proceed(i)
        BY <1>12, <3>1, <3>2
      <3> QED
        BY <3>3 DEF Claims!ClaimsNext
    <2>10. CASE DispatchCrm(i)
      <3>1. /\ pc[i] = "crm" /\ Leave(i)
            /\ UNCHANGED <<reservation, takeovers, opened>>
            /\ UNCHANGED done \/ done' = [done EXCEPT ![ev[i]]["crm"] = @ + 1]
        BY <2>10 DEF DispatchCrm, Try, Answer, ledgerVars
      <3>2. "crm" \in Effects /\ "crm" \in Working /\ "crm" \in Ahead["crm"]
        BY DEF Effects, Working, Ahead
      <3>3. Claims!Proceed(i)
        BY <1>12, <3>1, <3>2
      <3> QED
        BY <3>3 DEF Claims!ClaimsNext
    <2> QED
      BY <1>13, <2>1, <2>2, <2>3, <2>4, <2>5, <2>6, <2>7, <2>8, <2>9, <2>10 DEF Handler
  <1>14. CASE UNCHANGED vars
    <2>1. UNCHANGED <<Claimed, pc, ev, takeovers, opened, done>>
      BY <1>14 DEF vars, Claimed, ledgerVars, handlerVars, countVars
    <2> QED
      BY <2>1, TurnsStay
  <1> QED
    BY <1>1, <1>2, <1>3, <1>6, <1>13, <1>14 DEF Next, Claims!ClaimsNext

\* For any number of instances, events, deliveries, crashes and faults, the ledger's
\* claims, ages, second scans and takeovers implement the abstract claim: whoever is
\* past the claim has a turn, the first takeover comes when the claimant is gone, and
\* effects happen in a turn only, each at most once.
THEOREM ClaimKept == Spec => TakesTurns
  <1> DEFINE Inv == \A e \in Events : ClaimInv(e)
  <1>1. TypeOK /\ Inv /\ [Next]_vars => [Claims!ClaimsNext]_(Claims!claimVars)
    BY TurnsNext
  <1> HIDE DEF Inv
  <1>2. Spec => []Inv
    BY ClaimProtocol DEF Inv
  <1> QED
    BY <1>1, <1>2, TypeCorrect, TurnsInit, PTL DEF Spec, TakesTurns, Claims!ClaimsSpec

-----------------------------------------------------------------------------
(* Funds before deliveries. *)

\* The inductive invariant: whatever a handler or a thread works on has been
\* received, and a customer state it has read, stale or not, was true once.
EventsReceived ==
    /\ \A i \in Instances : ev[i] # None => sends[ev[i]] > 0
    /\ \A t \in threads : sends[t.ev] > 0
ReadsFounded ==
    \A i \in Instances :
        pc[i] \in {"create", "advance"} /\ read[i] \in PastPaid => Entitled(Who(i))
FundsInv == NothingBeforeFunds /\ EventsReceived /\ ReadsFounded

\* A sale that entitles to a delivery is a settled sale.
LEMMA EntitledBought == ASSUME NEW c, Entitled(c) PROVE Bought(c)
  BY InfoType DEF Entitled, Bought, AutoFulfil, Settled

\* What was received stays received.
LEMMA StillReceived ==
    ASSUME NEW c, \A e \in Events : sends[e] > 0 => sends'[e] > 0
    PROVE  /\ Bought(c) => Bought(c)'
           /\ Entitled(c) => Entitled(c)'
           /\ Subscribed(c) => Subscribed(c)'
  BY DEF Bought, Entitled, Subscribed, Received

LEMMA FundsInit == Init => FundsInv
  BY DEF Init, FundsInv, NothingBeforeFunds, EventsReceived, ReadsFounded, PastPaid

\* A step that leaves the customers alone, and in which no instance reads one.
LEMMA FundsQuiet ==
    ASSUME FundsInv, \A e \in Events : sends[e] > 0 => sends'[e] > 0, UNCHANGED state,
           EventsReceived',
           \A i \in Instances : pc'[i] \in {"create", "advance"} /\ read'[i] \in PastPaid =>
               pc[i] \in {"create", "advance"} /\ read'[i] = read[i] /\ ev'[i] = ev[i]
    PROVE  FundsInv'
  <1>1. NothingBeforeFunds'
    BY StillReceived DEF FundsInv, NothingBeforeFunds
  <1>2. ReadsFounded'
    BY StillReceived DEF FundsInv, ReadsFounded, Who
  <1> QED
    BY <1>1, <1>2 DEF FundsInv

\* A step that puts one customer into a state that it has the funds for.
LEMMA FundsAdvance ==
    ASSUME FundsInv, TypeOK, NEW c \in Customers, NEW to, AdvanceState(c, to), UNCHANGED sends,
           EventsReceived', to \in {"paid"} \cup PastPaid => Bought(c),
           to \in PastPaid => Entitled(c), to = "renewed" => Subscribed(c),
           \A i \in Instances : pc'[i] \in {"create", "advance"} =>
               pc[i] \in {"create", "advance"} /\ read'[i] = read[i] /\ ev'[i] = ev[i]
    PROVE  FundsInv'
  <1>1. NothingBeforeFunds'
    BY StillReceived DEF FundsInv, NothingBeforeFunds, AdvanceState, TypeOK, TypeStore
  <1>2. ReadsFounded'
    BY StillReceived DEF FundsInv, ReadsFounded, Who
  <1> QED
    BY <1>1, <1>2 DEF FundsInv

LEMMA FundsNext ==
    ASSUME TypeOK, FundsInv, [Next]_vars
    PROVE  FundsInv'
  <1>1. ASSUME NEW i \in Instances, NEW e \in Events, Deliver(i, e) PROVE FundsInv'
    <2>1. \A f \in Events : sends[f] > 0 => sends'[f] > 0
      BY <1>1 DEF Deliver, TypeOK, TypeStripe
    <2>2. EventsReceived'
      <3>1. sends'[e] > 0
        BY <1>1 DEF Deliver, TypeOK, TypeStripe
      <3> QED
        BY <1>1, <2>1, <3>1 DEF Deliver, FundsInv, EventsReceived, TypeOK, TypeStore, TypeHandler, Thread
    <2> QED
      BY <1>1, <2>1, <2>2, FundsQuiet DEF Deliver, TypeOK, TypeHandler
  <1>2. ASSUME NEW e \in Events, Expire(e) PROVE FundsInv'
    BY <1>2, FundsQuiet DEF Expire, FundsInv, EventsReceived, stripeVars, handlerVars
  <1>3. ASSUME NEW i \in Instances, Crash(i) PROVE FundsInv'
    <2>1. EventsReceived'
      BY <1>3 DEF Crash, Leave, FundsInv, EventsReceived, stripeVars, TypeOK, TypeHandler
    <2> QED
      BY <1>3, <2>1, FundsQuiet DEF Crash, Leave, Goto, stripeVars, TypeOK, TypeHandler
  <1>4. ASSUME NEW i \in Instances, Handler(i) PROVE FundsInv'
    <2> DEFINE Plains == \/ Scan(i) \/ Claim(i) \/ Lost(i) \/ Age(i) \/ ClaimAgain(i) \/ Reclaim(i)
                         \/ Plain(i) \/ StoreFailed(i) \/ Receipt(i) \/ Fulfil(i) \/ Record(i)
                         \/ Revenue(i) \/ DispatchCrm(i)
    <2>1. ev[i] \in Events /\ ev[i] # None /\ sends[ev[i]] > 0
      BY <1>4, CurrentEvent DEF Handler, Scan, Claim, Lost, Age, ClaimAgain, Reclaim,
         Plain, Lookup, Create, Advance, StoreFailed, Receipt, Fulfil, Record, Revenue,
         DispatchCrm, FundsInv, EventsReceived
    <2>2. UNCHANGED sends
      BY <1>4 DEF Handler, Scan, Claim, Lost, Age, ClaimAgain, Reclaim,
         Plain, Lookup, Create, Advance, StoreFailed, Receipt, Fulfil, Record, Revenue,
         DispatchCrm, stripeVars
    <2>3. UNCHANGED ev \/ ev' = [ev EXCEPT ![i] = None]
      BY <1>4 DEF Handler, Scan, Claim, Lost, Age, ClaimAgain, Reclaim,
         Plain, Lookup, Create, Advance, StoreFailed, Receipt, Fulfil, Record, Revenue,
         DispatchCrm, ClaimOpen, Answer, Leave
    <2>4. \A t \in threads' : t \in threads \/ t.ev = ev[i]
      BY <1>4 DEF Handler, Scan, Claim, Lost, Age, ClaimAgain, Reclaim,
         Plain, Lookup, Create, Advance, StoreFailed, Receipt, Fulfil, Record, Revenue,
         DispatchCrm
    <2>5. EventsReceived'
      BY <2>1, <2>2, <2>3, <2>4 DEF FundsInv, EventsReceived, TypeOK, TypeHandler
    <2>6. CASE Plains
      <3>1. UNCHANGED state
        BY <2>6 DEF Scan, Claim, Lost, Age, ClaimAgain, Reclaim, Plain, StoreFailed, Receipt,
           Fulfil, Record, Revenue, DispatchCrm
      <3>2. \E step \in Steps \ {"create", "advance"} : pc' = [pc EXCEPT ![i] = step]
        BY <2>6 DEF Scan, Claim, Lost, Age, ClaimAgain, Reclaim, Plain, StoreFailed, Receipt,
           Fulfil, Record, Revenue, DispatchCrm, ClaimOpen, Answer, Leave, Goto, Steps, Working
      <3>3. \A j \in Instances \ {i} : read'[j] = read[j] /\ ev'[j] = ev[j]
        BY <2>6 DEF Scan, Claim, Lost, Age, ClaimAgain, Reclaim, Plain, StoreFailed, Receipt,
           Fulfil, Record, Revenue, DispatchCrm, ClaimOpen, Answer, Leave, TypeOK, TypeHandler
      <3> QED
        BY <2>2, <2>5, <3>1, <3>2, <3>3, FundsQuiet DEF TypeOK, TypeHandler
    <2>7. CASE Lookup(i)
      <3>1. Who(i) \in Customers
        BY <2>1, <2>7, InfoType DEF Lookup, Who
      <3>2. state[Who(i)] \in PastPaid => Entitled(Who(i))
        BY <3>1 DEF FundsInv, NothingBeforeFunds
      <3>3. read'[i] \in PastPaid => read'[i] = state[Who(i)]
        BY <2>7 DEF Lookup, TypeOK, TypeHandler, PastPaid
      <3>4. ReadsFounded'
        <4>1. \A j \in Instances : Who(j)' = Who(j) /\ (Entitled(Who(j)) => Entitled(Who(j))')
          BY <2>2, <2>7, StillReceived DEF Lookup, Who
        <4>2. \A j \in Instances \ {i} : read'[j] = read[j] /\ pc'[j] = pc[j]
          BY <2>7 DEF Lookup, Goto, TypeOK, TypeHandler
        <4> QED
          BY <3>2, <3>3, <4>1, <4>2 DEF ReadsFounded, FundsInv
      <3>5. NothingBeforeFunds'
        BY <2>2, <2>7, StillReceived DEF Lookup, FundsInv, NothingBeforeFunds
      <3> QED
        BY <2>5, <3>4, <3>5 DEF FundsInv
    <2>8. CASE Create(i)
      <3>1. Who(i) \in Customers
        BY <2>8 DEF Create, TypeOK, TypeHandler
      <3>2. state[Who(i)] \in PastPaid => Entitled(Who(i))
        BY <3>1 DEF FundsInv, NothingBeforeFunds
      <3>3. read'[i] \in PastPaid => read'[i] = state[Who(i)] \/ (read'[i] = read[i] /\ pc[i] = "create")
        BY <2>8 DEF Create, TypeOK, TypeHandler, PastPaid
      <3>4. ReadsFounded'
        <4>1. \A j \in Instances : Who(j)' = Who(j) /\ (Entitled(Who(j)) => Entitled(Who(j))')
          BY <2>2, <2>8, StillReceived DEF Create, Who
        <4>2. \A j \in Instances \ {i} : read'[j] = read[j] /\ pc'[j] = pc[j]
          BY <2>8 DEF Create, Goto, TypeOK, TypeHandler
        <4> QED
          BY <3>2, <3>3, <4>1, <4>2 DEF ReadsFounded, FundsInv
      <3>5. \A c \in Customers : state'[c] = state[c] \/ state'[c] = "prospect"
        BY <2>8, <3>1 DEF Create, Merge, TypeOK, TypeStore
      <3>6. NothingBeforeFunds'
        BY <2>2, <3>5, StillReceived DEF FundsInv, NothingBeforeFunds, PastPaid
      <3> QED
        BY <2>5, <3>4, <3>6 DEF FundsInv
    <2>9. CASE Advance(i)
      <3>1. /\ pc[i] = "advance" /\ Who(i) \in Customers
            /\ \A j \in Instances : pc'[j] \in {"create", "advance"} => pc'[j] = pc[j]
            /\ UNCHANGED <<read, ev, sends>>
        BY <2>9 DEF Advance, Goto, TypeOK, TypeHandler, stripeVars
      <3>2. CASE UNCHANGED state
        BY <2>5, <3>1, <3>2, FundsQuiet
      <3>3. CASE /\ Wanted(ev[i], read[i]) # read[i]
                 /\ AdvanceState(Who(i), Wanted(ev[i], read[i]))
        <4>1. \/ /\ Wanted(ev[i], read[i]) = "paid"
                 /\ Info[ev[i]].kind = "payment" /\ Settled(ev[i])
              \/ /\ Wanted(ev[i], read[i]) = "renewed"
                 /\ read[i] = "delivered"
                 /\ Info[ev[i]].kind = "subscription" /\ Settled(ev[i])
          BY <3>3 DEF Wanted
        <4>2. CASE Wanted(ev[i], read[i]) = "paid"
          <5>1. Bought(Who(i))
            BY <2>1, <4>1, <4>2 DEF Bought, Received, Who
          <5> QED
            BY <2>5, <3>1, <3>3, <4>2, <5>1, FundsAdvance DEF PastPaid
        <4>3. CASE Wanted(ev[i], read[i]) = "renewed"
          <5>1. Subscribed(Who(i))
            BY <2>1, <4>1, <4>3 DEF Subscribed, Received, Who
          <5>2. Entitled(Who(i)) /\ Bought(Who(i))
            BY <3>1, <4>1, <4>3, EntitledBought DEF FundsInv, ReadsFounded, PastPaid
          <5> QED
            BY <2>5, <3>1, <3>3, <4>3, <5>1, <5>2, FundsAdvance
        <4> QED
          BY <4>1, <4>2, <4>3
      <3> QED
        BY <2>9, <3>2, <3>3 DEF Advance
    <2> QED
      BY <1>4, <2>6, <2>7, <2>8, <2>9 DEF Handler
  <1>5. ASSUME NEW t \in threads, FulfilThread(t) PROVE FundsInv'
    <2>1. Buyer(t) \in Customers /\ AutoFulfil(t.ev) /\ t.ev \in Events
      BY DEF TypeOK, TypeStore, Thread
    <2>2. Entitled(Buyer(t)) /\ Bought(Buyer(t))
      BY <2>1, EntitledBought DEF FundsInv, EventsReceived, Entitled, Received, Buyer
    <2>3. UNCHANGED <<sends, pc, ev, read>> /\ \A u \in threads' : u.ev = t.ev \/ u \in threads
      BY <1>5 DEF FulfilThread, Find, StartDelivery, CompleteDelivery, Becomes, Finish,
         stripeVars, handlerVars, TypeOK, TypeStore, Thread
    <2>4. EventsReceived'
      BY <2>3 DEF FundsInv, EventsReceived
    <2>5. \/ UNCHANGED state
          \/ AdvanceState(Buyer(t), "in_delivery")
          \/ AdvanceState(Buyer(t), "delivered")
      BY <1>5 DEF FulfilThread, Find, StartDelivery, CompleteDelivery
    <2>6. CASE UNCHANGED state
      BY <2>3, <2>4, <2>6, FundsQuiet
    <2>7. CASE AdvanceState(Buyer(t), "in_delivery")
      BY <2>1, <2>2, <2>3, <2>4, <2>7, FundsAdvance
    <2>8. CASE AdvanceState(Buyer(t), "delivered")
      BY <2>1, <2>2, <2>3, <2>4, <2>8, FundsAdvance
    <2> QED
      BY <2>5, <2>6, <2>7, <2>8
  <1>6. CASE UNCHANGED vars
    BY <1>6, FundsQuiet DEF vars, stripeVars, handlerVars, FundsInv, EventsReceived
  <1> QED
    BY <1>1, <1>2, <1>3, <1>4, <1>5, <1>6 DEF Next

\* No customer is counted as paid, delivered to or renewed before the funds for
\* it have settled, for any set of events, instances and customers and however
\* stale the states are that handlers and threads act on.
THEOREM NoDeliveryBeforeFunds == Spec => []NothingBeforeFunds
  <1>1. TypeOK /\ FundsInv /\ [Next]_vars => FundsInv'
    BY FundsNext
  <1>2. FundsInv => NothingBeforeFunds
    BY DEF FundsInv
  <1> QED
    BY FundsInit, TypeCorrect, <1>1, <1>2, PTL DEF Spec

=============================================================================

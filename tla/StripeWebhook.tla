--------------------------- MODULE StripeWebhook ---------------------------
(***************************************************************************)
(* Stripe webhook processing (backend/finance/webhook.py) over the event   *)
(* ledger and its claim markers (backend/common/persistence.py,            *)
(* backend/common/firestore_ledger.py), the customer store                 *)
(* (backend/memory/customers.py) and the fulfilment thread a settled       *)
(* payment starts (backend/fulfill.py).                                    *)
(*                                                                         *)
(* Stripe delivers each event at least once, to any of several instances.  *)
(* An instance scans the ledger for a record of the event, reserves the    *)
(* event by an atomic claim, runs the side effects, and appends the        *)
(* record.  Instances crash at any point; a reservation whose owner is     *)
(* gone expires after a TTL and can be taken over.                         *)
(***************************************************************************)
EXTENDS Naturals, FiniteSets

CONSTANTS
    Instances,     \* finance instances able to receive a delivery
    Events,        \* Stripe events
    Customers,     \* customers, by e-mail address
    Info,          \* what each event says: see EventInfo
    MaxSends,      \* bound: deliveries of each event
    MaxCrashes,    \* bound: instance crashes
    MaxFaults,     \* bound: store, ledger, mail and gateway calls that fail
    Patient,       \* TRUE: Stripe's retries come no earlier than the claim TTL
    None

\* kind: which branch of handle_stripe_webhook the event takes ("test" is a
\* test-mode event in production).  settled: payment_status is "paid", is
\* "no_payment_required" ("free"), or neither ("pending"); of a renewal, whether
\* the invoice has an amount.  offer: the offer is whitelisted for
\* auto-fulfilment and its URL, currency and amount qualify.
EventInfo ==
    [kind : {"payment", "subscription", "funnel", "renewal", "other", "test"},
     email : Customers \cup {None},
     settled : {"paid", "free", "pending"},
     offer : BOOLEAN]

ASSUME WebhookAssumption ==
    /\ Info \in [Events -> EventInfo]
    /\ MaxSends \in [Events -> Nat]
    /\ MaxCrashes \in Nat
    /\ MaxFaults \in Nat
    /\ Patient \in BOOLEAN
    /\ IsFiniteSet(Instances)
    /\ None \notin Customers
    /\ None \notin Events

VARIABLES
    sends,        \* Stripe: deliveries of each event so far
    acked,        \* Stripe: events answered with 200
    reservation,  \* claim markers: none, fresh, or older than the TTL
    records,      \* the event ledger: process_status values recorded per event
    state,        \* the customer store: current_state, or "absent"
    pc,           \* per instance: where the request handler is
    ev,           \* per instance: the event it handles
    read,         \* per instance: customer.current_state as the handler holds it
    threads,      \* running auto-fulfil threads
    takeovers,    \* deliveries that went on through reclaim_expired, per event
    opened,       \* deliveries whose claim failed open, per event
    done,         \* side effects that happened, per event and kind
    crashes, faults   \* what is left of the bounds

stripeVars == <<sends, acked>>
ledgerVars == <<reservation, records>>
handlerVars == <<pc, ev, read>>
countVars == <<takeovers, opened, done>>
vars == <<stripeVars, ledgerVars, state, handlerVars, threads, countVars,
          crashes, faults>>

\* The states this part of the system moves a customer through; "prospect"
\* also stands for "contacted", which the code treats alike.
CustomerState == {"prospect", "paid", "in_delivery", "delivered", "renewed"}
\* The states owned by the fulfil orchestrator.
PastPaid == {"in_delivery", "delivered", "renewed"}
RecordStatus == {"ignored", "funnel_signal", "renewal", "failed", "processed",
                 "auto_fulfill"}
\* The effects outside the ledger and the customer store: the receipt e-mail,
\* the auto-fulfil thread, the payment.received row and the CRM close-the-loop
\* job.  The handler reaches them in this order.
Effects == {"receipt", "fulfil", "revenue", "crm"}
Thread == [at : Instances, ev : Events, n : Nat, step : {"find", "start", "deliver"},
           read : CustomerState \cup {"absent"}]

\* The deliveries past the claim, up to the answer.
Working == {"work", "create", "advance", "failed", "receipt", "fulfil", "record",
            "revenue", "crm"}
Steps == {"idle", "scan", "claim", "lost", "age", "again", "reclaim"} \cup Working

Checkout(e) == Info[e].kind \in {"payment", "subscription"}
\* payment_status in _FULFILL_PAYMENT_STATUSES
Settled(e) == Info[e].settled \in {"paid", "free"}
\* auto_fulfill_scheduled
AutoFulfil(e) == Info[e].kind = "payment" /\ Info[e].offer /\ Info[e].settled = "paid"

Owner(i, e) == ev[i] = e /\ pc[i] \in Working

\* The steps at which a delivery has an effect still before it.
Ahead ==
    [receipt |-> {"work", "create", "advance", "receipt"},
     fulfil  |-> {"work", "create", "advance", "receipt", "fulfil"},
     revenue |-> {"work", "create", "advance", "receipt", "fulfil", "record", "revenue"},
     crm     |-> {"work", "create", "advance", "receipt", "fulfil", "record", "revenue", "crm"}]

Init ==
    /\ sends = [e \in Events |-> 0]
    /\ acked = {}
    /\ reservation = [e \in Events |-> "none"]
    /\ records = [e \in Events |-> {}]
    /\ state = [c \in Customers |-> "absent"]
    /\ pc = [i \in Instances |-> "idle"]
    /\ ev = [i \in Instances |-> None]
    /\ read = [i \in Instances |-> "absent"]
    /\ threads = {}
    /\ takeovers = [e \in Events |-> 0]
    /\ opened = [e \in Events |-> 0]
    /\ done = [e \in Events |-> [k \in Effects |-> 0]]
    /\ crashes = MaxCrashes
    /\ faults = MaxFaults

-----------------------------------------------------------------------------
(* Stripe, time and crashes. *)

\* Stripe delivers an event, for the first time, as a retry or once too often.
\* A patient Stripe waits until no answer is outstanding and no reservation of
\* the event can still be fresh.
Deliver(i, e) ==
    /\ pc[i] = "idle"
    /\ sends[e] < MaxSends[e]
    /\ Patient => reservation[e] # "fresh" /\ \A j \in Instances : ev[j] # e
    /\ sends' = [sends EXCEPT ![e] = @ + 1]
    /\ pc' = [pc EXCEPT ![i] = "scan"]
    /\ ev' = [ev EXCEPT ![i] = e]
    /\ UNCHANGED <<acked, ledgerVars, state, read, threads, countVars, crashes, faults>>

\* _CLAIM_TTL_SECONDS pass.  The TTL "must comfortably exceed the longest a
\* single webhook can legitimately take", so no owner is still at work.
Expire(e) ==
    /\ reservation[e] = "fresh"
    /\ \A i \in Instances : ~Owner(i, e)
    /\ reservation' = [reservation EXCEPT ![e] = "expired"]
    /\ UNCHANGED <<stripeVars, records, state, handlerVars, threads, countVars,
                   crashes, faults>>

Goto(i, step) == pc' = [pc EXCEPT ![i] = step]

\* Mutant: the request's event is not forgotten when the request ends.
LeaveHoldingEvent(i) ==
    /\ Goto(i, "idle")
    /\ read' = [read EXCEPT ![i] = "absent"]
    /\ UNCHANGED ev

\* The request is over, whatever Stripe is told.
Leave(i) ==
    /\ Goto(i, "idle")
    /\ ev' = [ev EXCEPT ![i] = None]
    /\ read' = [read EXCEPT ![i] = "absent"]

\* The handler returns and the endpoint answers 200.
Answer(i) == acked' = acked \cup {ev[i]} /\ Leave(i)

\* An instance dies with its handler and its daemon threads; Stripe gets no
\* answer.
Crash(i) ==
    /\ pc[i] # "idle" \/ \E t \in threads : t.at = i
    /\ crashes > 0
    /\ crashes' = crashes - 1
    /\ Leave(i)
    /\ threads' = {t \in threads : t.at # i}
    /\ UNCHANGED <<stripeVars, ledgerVars, state, countVars, faults>>

\* A call to a store, the mailer or the gateway fails.
Fails == faults > 0 /\ faults' = faults - 1

-----------------------------------------------------------------------------
(* Idempotency: the ledger scan and claim_event_id. *)

\* _load_seen_event_ids: any record of the event makes the delivery a
\* duplicate.  An exception of the scan is not caught: Stripe sees a 500.
Scan(i) ==
    /\ pc[i] = "scan"
    /\ \/ records[ev[i]] # {} /\ Answer(i) /\ UNCHANGED faults
       \/ records[ev[i]] = {} /\ Goto(i, "claim") /\ UNCHANGED <<acked, ev, read, faults>>
       \/ Fails /\ Leave(i) /\ UNCHANGED acked
    /\ UNCHANGED <<sends, ledgerVars, state, threads, countVars, crashes>>

\* Mutant: the claim is a check followed by a write that anybody may win.
ClaimUnconditional(i) ==
    /\ pc[i] = "claim"
    /\ reservation' = [reservation EXCEPT ![ev[i]] = "fresh"]
    /\ Goto(i, "work")
    /\ UNCHANGED <<stripeVars, records, state, ev, read, threads, countVars, crashes, faults>>

\* The claim store is in error: ledger.claim fails open.
ClaimOpen(i) ==
    /\ Fails
    /\ opened' = [opened EXCEPT ![ev[i]] = @ + 1]
    /\ Goto(i, "work")
    /\ UNCHANGED <<acked, ev, read>>

\* ledger.claim: the creation of the marker is atomic.
Claim(i) ==
    /\ pc[i] = "claim"
    /\ \/ /\ reservation[ev[i]] = "none"
          /\ reservation' = [reservation EXCEPT ![ev[i]] = "fresh"]
          /\ Goto(i, "work")
          /\ UNCHANGED <<acked, ev, read, opened, faults>>
       \/ /\ reservation[ev[i]] # "none"
          /\ Goto(i, "lost")
          /\ UNCHANGED <<acked, ev, read, reservation, opened, faults>>
       \/ ClaimOpen(i) /\ UNCHANGED reservation
    /\ UNCHANGED <<sends, records, state, threads, takeovers, done, crashes>>

\* _terminal_record_present: a second scan, whose own failure counts as present.
Lost(i) ==
    /\ pc[i] = "lost"
    /\ \/ records[ev[i]] # {} /\ Answer(i) /\ UNCHANGED faults
       \/ records[ev[i]] = {} /\ Goto(i, "age") /\ UNCHANGED <<acked, ev, read, faults>>
       \/ Fails /\ Answer(i)
    /\ UNCHANGED <<sends, ledgerVars, state, threads, countVars, crashes>>

\* Mutant: an expired reservation is answered like a fresh one.
AgeNeverExpired(i) ==
    /\ pc[i] = "age"
    /\ Answer(i)
    /\ UNCHANGED <<sends, ledgerVars, state, threads, countVars, crashes, faults>>

\* Mutant: a reservation is taken over whatever its age.
AgeIgnored(i) ==
    /\ pc[i] = "age"
    /\ Goto(i, "reclaim")
    /\ UNCHANGED <<stripeVars, ledgerVars, state, ev, read, threads, countVars, crashes, faults>>

\* claim_age_seconds: a fresh reservation has a live owner, an expired one may
\* be taken over, an unreadable one leads to one more claim.
Age(i) ==
    /\ pc[i] = "age"
    /\ \/ reservation[ev[i]] = "fresh" /\ Answer(i) /\ UNCHANGED faults
       \/ /\ reservation[ev[i]] = "expired"
          /\ Goto(i, "reclaim")
          /\ UNCHANGED <<acked, ev, read, faults>>
       \/ Fails /\ Goto(i, "again") /\ UNCHANGED <<acked, ev, read>>
    /\ UNCHANGED <<sends, ledgerVars, state, threads, countVars, crashes>>

\* The one more claim: the marker is still there, so it loses or fails open.
ClaimAgain(i) ==
    /\ pc[i] = "again"
    /\ \/ Answer(i) /\ UNCHANGED <<opened, faults>>
       \/ ClaimOpen(i)
    /\ UNCHANGED <<sends, ledgerVars, state, threads, takeovers, done, crashes>>

\* reclaim_expired stamps the marker with the present time.  It looks at the
\* marker's existence, not at its age.
Reclaim(i) ==
    /\ pc[i] = "reclaim"
    /\ \/ /\ reservation' = [reservation EXCEPT ![ev[i]] = "fresh"]
          /\ takeovers' = [takeovers EXCEPT ![ev[i]] = @ + 1]
          /\ Goto(i, "work")
          /\ UNCHANGED <<acked, ev, read, faults>>
       \/ Fails /\ Answer(i) /\ UNCHANGED <<reservation, takeovers>>
    /\ UNCHANGED <<sends, records, state, threads, opened, done, crashes>>

-----------------------------------------------------------------------------
(* handle_stripe_webhook past the claim. *)

\* append_event_record is best-effort: the ledger may refuse the row.
AppendRecord(e, status) ==
    \/ records' = [records EXCEPT ![e] = @ \cup {status}] /\ UNCHANGED faults
    \/ Fails /\ UNCHANGED records

\* An effect of the event, or a failure of the call that the code swallows.
Try(e, k) ==
    \/ done' = [done EXCEPT ![e][k] = @ + 1] /\ UNCHANGED faults
    \/ Fails /\ UNCHANGED done

\* The process_status of an event that leaves customers alone.
PlainStatus(e) ==
    CASE Info[e].kind = "funnel" -> "funnel_signal"
      [] Info[e].kind = "renewal" -> "renewal"
      [] Checkout(e) -> "failed"
      [] OTHER -> "ignored"

\* Test-mode, funnel, renewal and unknown events, and a checkout without an
\* e-mail address: recorded and, but for a renewal's revenue, done with.
Plain(i) ==
    /\ pc[i] = "work"
    /\ ~Checkout(ev[i]) \/ Info[ev[i]].email = None
    /\ AppendRecord(ev[i], PlainStatus(ev[i]))
    /\ \/ Info[ev[i]].kind = "renewal" /\ Goto(i, "revenue") /\ UNCHANGED <<acked, ev, read>>
       \/ Info[ev[i]].kind # "renewal" /\ Answer(i)
    /\ UNCHANGED <<sends, reservation, state, threads, countVars, crashes>>

Who(i) == Info[ev[i]].email

\* get_by_email; a failing read returns None, exactly like an unknown address.
Lookup(i) ==
    /\ pc[i] = "work"
    /\ Checkout(ev[i])
    /\ Who(i) # None
    /\ \/ read' = [read EXCEPT ![i] = state[Who(i)]] /\ UNCHANGED faults
       \/ Fails /\ read' = [read EXCEPT ![i] = "absent"]
    /\ Goto(i, "create")
    /\ UNCHANGED <<stripeVars, ledgerVars, state, ev, threads, countVars, crashes>>

\* The MERGE of create_customer creates the node or leaves it alone.
Merge(c) == state' = [state EXCEPT ![c] = IF @ = "absent" THEN "prospect" ELSE @]

\* create_customer when the lookup found nobody: it looks again, merges the
\* node if it still finds nobody (or its read fails too), and then returns a
\* customer in INITIAL_STATE.  Its writes may raise before or after the merge.
Create(i) ==
    /\ pc[i] = "create"
    /\ \/ /\ read[i] # "absent"
          /\ Goto(i, "advance")
          /\ UNCHANGED <<state, read, faults>>
       \/ /\ read[i] = "absent"
          /\ state[Who(i)] # "absent"
          /\ read' = [read EXCEPT ![i] = state[Who(i)]]
          /\ Goto(i, "advance")
          /\ UNCHANGED <<state, faults>>
       \/ /\ read[i] = "absent"
          /\ \/ state[Who(i)] = "absent" /\ UNCHANGED faults
             \/ state[Who(i)] # "absent" /\ Fails
          /\ Merge(Who(i))
          /\ read' = [read EXCEPT ![i] = "prospect"]
          /\ Goto(i, "advance")
       \/ /\ read[i] = "absent"
          /\ Fails
          /\ UNCHANGED state \/ Merge(Who(i))
          /\ Goto(i, "failed")
          /\ UNCHANGED read
    /\ UNCHANGED <<stripeVars, ledgerVars, ev, threads, countVars, crashes>>

\* Mutant: payment_status is not looked at.
WantedUnsettled(e, s) ==
    CASE Info[e].kind = "payment" /\ s = "prospect" -> "paid"
      [] Info[e].kind = "subscription" /\ s = "delivered" -> "renewed"
      [] OTHER -> s

\* The state a checkout wants for its customer, given the state it has read.
Wanted(e, s) ==
    CASE Info[e].kind = "payment" /\ s = "prospect" /\ Settled(e) -> "paid"
      [] Info[e].kind = "subscription" /\ s = "delivered" /\ Settled(e) -> "renewed"
      [] OTHER -> s

\* CustomerStore.advance_state: the node gets the new state, whatever it has.
AdvanceState(c, to) == state' = [state EXCEPT ![c] = to]

\* The receipt and the fulfilment are for one-time payments only.
Advance(i) ==
    LET to == Wanted(ev[i], read[i])
        onwards == Goto(i, IF Info[ev[i]].kind = "payment" THEN "receipt" ELSE "record")
    IN  /\ pc[i] = "advance"
        /\ \/ to = read[i] /\ onwards /\ UNCHANGED <<state, faults>>
           \/ to # read[i] /\ AdvanceState(Who(i), to) /\ onwards /\ UNCHANGED faults
           \/ to # read[i] /\ Fails /\ Goto(i, "failed") /\ UNCHANGED state
        /\ UNCHANGED <<stripeVars, ledgerVars, ev, read, threads, countVars, crashes>>

\* except: customer_store_failure is recorded and answered like a success.
StoreFailed(i) ==
    /\ pc[i] = "failed"
    /\ AppendRecord(ev[i], "failed")
    /\ Answer(i)
    /\ UNCHANGED <<sends, reservation, state, threads, countVars, crashes>>

\* send_payment_receipt never raises.
Receipt(i) ==
    /\ pc[i] = "receipt"
    /\ Try(ev[i], "receipt")
    /\ Goto(i, "fulfil")
    /\ UNCHANGED <<stripeVars, ledgerVars, state, ev, read, threads, takeovers,
                   opened, crashes>>

\* _schedule_auto_fulfill starts a daemon thread in this process.
Fulfil(i) ==
    /\ pc[i] = "fulfil"
    /\ \/ /\ AutoFulfil(ev[i])
          /\ done' = [done EXCEPT ![ev[i]]["fulfil"] = @ + 1]
          /\ threads' = threads \cup {[at |-> i, ev |-> ev[i], n |-> done'[ev[i]]["fulfil"],
                                       step |-> "find", read |-> "absent"]}
       \/ ~AutoFulfil(ev[i]) /\ UNCHANGED <<done, threads>>
    /\ Goto(i, "record")
    /\ UNCHANGED <<stripeVars, ledgerVars, state, ev, read, takeovers, opened, crashes, faults>>

\* The terminal record.
Record(i) ==
    /\ pc[i] = "record"
    /\ AppendRecord(ev[i], "processed")
    /\ Goto(i, "revenue")
    /\ UNCHANGED <<stripeVars, reservation, state, ev, read, threads, countVars, crashes>>

\* The payment.received row of a settled checkout or a renewal.
Revenue(i) ==
    /\ pc[i] = "revenue"
    /\ \/ Settled(ev[i]) /\ Try(ev[i], "revenue")
       \/ ~Settled(ev[i]) /\ UNCHANGED <<done, faults>>
    /\ \/ Checkout(ev[i]) /\ Goto(i, "crm") /\ UNCHANGED <<acked, ev, read>>
       \/ ~Checkout(ev[i]) /\ Answer(i)
    /\ UNCHANGED <<sends, ledgerVars, state, threads, takeovers, opened, crashes>>

\* The close-the-loop dispatch to the CRM, best-effort, and the 200.
DispatchCrm(i) ==
    /\ pc[i] = "crm"
    /\ Try(ev[i], "crm")
    /\ Answer(i)
    /\ UNCHANGED <<sends, ledgerVars, state, threads, takeovers, opened, crashes>>

-----------------------------------------------------------------------------
(* The auto-fulfil thread: fulfill_customer for the customer of the event.  *)

Buyer(t) == Info[t.ev].email
Becomes(t, step, r) == threads' = (threads \ {t}) \cup {[t EXCEPT !.step = step, !.read = r]}

\* The thread ends, appending its own row under the event's id.
Finish(t) ==
    /\ records' = [records EXCEPT ![t.ev] = @ \cup {"auto_fulfill"}]
    /\ threads' = threads \ {t}

\* Step 1.  The customer exists, since the handler created it; a failing read
\* makes it look new, and so does not end the run.
Find(t) ==
    /\ t.step = "find"
    /\ \/ Becomes(t, "start", state[Buyer(t)]) /\ UNCHANGED <<records, faults>>
       \/ Fails /\ Becomes(t, "start", "prospect") /\ UNCHANGED records
       \/ Fails /\ Finish(t)
    /\ UNCHANGED <<stripeVars, reservation, state, handlerVars, countVars, crashes>>

\* Step 2: advance to in_delivery unless the customer was there or past it.
StartDelivery(t) ==
    /\ t.step = "start"
    /\ \/ /\ t.read \in PastPaid
          /\ Becomes(t, "deliver", t.read)
          /\ UNCHANGED <<state, records, faults>>
       \/ /\ t.read \notin PastPaid
          /\ AdvanceState(Buyer(t), "in_delivery")
          /\ Becomes(t, "deliver", t.read)
          /\ UNCHANGED <<records, faults>>
       \/ /\ t.read \notin PastPaid
          /\ Fails
          /\ Finish(t)
          /\ UNCHANGED state
    /\ UNCHANGED <<stripeVars, reservation, handlerVars, countVars, crashes>>

\* Steps 3 to 5: audit, e-mail and the advance to delivered, or a failing step;
\* or the row of the outcome is refused.
CompleteDelivery(t) ==
    /\ t.step = "deliver"
    /\ \/ AdvanceState(Buyer(t), "delivered") /\ Finish(t) /\ UNCHANGED faults
       \/ Fails /\ Finish(t) /\ UNCHANGED state
       \/ /\ Fails
          /\ AdvanceState(Buyer(t), "delivered")
          /\ threads' = threads \ {t}
          /\ UNCHANGED records
    /\ UNCHANGED <<stripeVars, reservation, handlerVars, countVars, crashes>>

-----------------------------------------------------------------------------
Handler(i) ==
    \/ Scan(i) \/ Claim(i) \/ Lost(i) \/ Age(i) \/ ClaimAgain(i) \/ Reclaim(i)
    \/ Plain(i) \/ Lookup(i) \/ Create(i) \/ Advance(i) \/ StoreFailed(i)
    \/ Receipt(i) \/ Fulfil(i) \/ Record(i) \/ Revenue(i) \/ DispatchCrm(i)

FulfilThread(t) == Find(t) \/ StartDelivery(t) \/ CompleteDelivery(t)

Next ==
    \/ \E i \in Instances, e \in Events : Deliver(i, e)
    \/ \E e \in Events : Expire(e)
    \/ \E i \in Instances : Handler(i) \/ Crash(i)
    \/ \E t \in threads : FulfilThread(t)

Spec == Init /\ [][Next]_vars

\* Handlers and threads run on, time passes, and Stripe delivers an event
\* until it has been answered.
Fairness ==
    /\ \A i \in Instances : WF_vars(Handler(i))
    /\ WF_vars(\E t \in threads : FulfilThread(t))
    /\ \A e \in Events : WF_vars(Expire(e))
    /\ \A e \in Events : WF_vars(e \notin acked /\ \E i \in Instances : Deliver(i, e))

FairSpec == Spec /\ Fairness

-----------------------------------------------------------------------------
(* Properties. *)

TypeStripe == sends \in [Events -> Nat] /\ acked \subseteq Events

TypeLedger ==
    /\ reservation \in [Events -> {"none", "fresh", "expired"}]
    /\ records \in [Events -> SUBSET RecordStatus]

TypeHandler ==
    /\ pc \in [Instances -> Steps]
    /\ ev \in [Instances -> Events \cup {None}]
    /\ read \in [Instances -> CustomerState \cup {"absent"}]
    /\ \A i \in Instances : ev[i] = None <=> pc[i] = "idle"
    /\ \A i \in Instances :
        pc[i] \in {"create", "advance", "failed", "receipt", "fulfil"} =>
            Checkout(ev[i]) /\ Who(i) \in Customers

TypeStore ==
    /\ state \in [Customers -> CustomerState \cup {"absent"}]
    /\ threads \subseteq Thread
    /\ \A t \in threads : AutoFulfil(t.ev) /\ Buyer(t) \in Customers

TypeCount ==
    /\ takeovers \in [Events -> Nat]
    /\ opened \in [Events -> Nat]
    /\ done \in [Events -> [Effects -> Nat]]
    /\ crashes \in Nat
    /\ faults \in Nat

\* The types of the variables, part by part.
TypeOK == TypeStripe /\ TypeLedger /\ TypeHandler /\ TypeStore /\ TypeCount

\* However the deliveries interleave and wherever instances crash, at most one
\* delivery of an event is past the claim at a time, and one more for every claim
\* that failed open and every takeover after the first, which alone can be sure to
\* find nobody at work (claim_event_id).
Owners(e) == {i \in Instances : Owner(i, e)}
OwnersPaid ==
    \A e \in Events :
        Cardinality(Owners(e)) <= opened[e] + (IF takeovers[e] > 1 THEN takeovers[e] ELSE 1)

\* Each side effect of an event (receipt, auto-fulfilment, revenue row, CRM job)
\* happens at most once, and at most once more for every takeover and every claim
\* that failed open, whatever crashes and fails: what the claim before the side
\* effects is for (handle_stripe_webhook).
EffectsPaid ==
    \A e \in Events, k \in Effects : done[e][k] <= 1 + takeovers[e] + opened[e]

\* The claim protocol, with its marker, its ages and its second looks left out.
Claimed == {e \in Events : reservation[e] # "none"}
Turn == [i \in Instances |-> IF pc[i] \in Working THEN ev[i] ELSE None]
Todo == [i \in Instances |-> {k \in Effects : pc[i] \in Ahead[k]}]

Claims == INSTANCE EventClaims WITH claimed <- Claimed, turn <- Turn, todo <- Todo

\* Every delivery past the claim has a turn that the marker, a takeover or a claim
\* that failed open gave it, the first takeover comes when the claimant has gone, and
\* side effects happen only in a turn and at most once in each (claim_event_id,
\* handle_stripe_webhook).
TakesTurns == Claims!ClaimsSpec

\* What has been received from Stripe for a customer: a settled sale, one that
\* entitles to a delivery, a settled subscription.
Received(e, c) == sends[e] > 0 /\ Info[e].email = c
Bought(c) == \E e \in Events : Received(e, c) /\ Info[e].kind = "payment" /\ Settled(e)
Entitled(c) == \E e \in Events : Received(e, c) /\ AutoFulfil(e)
Subscribed(c) == \E e \in Events : Received(e, c) /\ Info[e].kind = "subscription" /\ Settled(e)

\* No customer is counted as paid, delivered to or renewed on funds that have
\* not settled, however sales, subscriptions and fulfilment threads race and
\* whatever stale state they act on (handle_stripe_webhook, fulfill_customer).
NothingBeforeFunds ==
    \A c \in Customers :
        /\ state[c] \in {"paid"} \cup PastPaid => Bought(c)
        /\ state[c] \in PastPaid => Entitled(c)
        /\ state[c] = "renewed" => Subscribed(c)

\* What webhook.py says of the reservation: "a claim-then-crash never
\* permanently drops a paid event".  Every event that was delivered is
\* eventually recorded.
NeverDropped == \A e \in Events : sends[e] > 0 ~> records[e] # {}

=============================================================================

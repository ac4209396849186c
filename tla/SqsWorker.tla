----------------------------- MODULE SqsWorker -----------------------------
(***************************************************************************)
(* The SQS consumer loop every workcell's sidecar runs:                    *)
(* backend/common/worker_base.py (BaseSqsWorker), with the in-process      *)
(* duplicate suppression of backend/common/idempotency.py, the message     *)
(* authenticity policy of backend/common/queue_signing.py and the SQS      *)
(* calls of backend/common/aws_runtime.py.                                 *)
(*                                                                         *)
(* Several worker processes poll one queue.  SQS itself is external: a     *)
(* received message becomes invisible, reappears when its visibility       *)
(* timeout runs out, and is only sure to be deleted through its most       *)
(* recent receipt handle.  Processes crash, are stopped and are started    *)
(* again; the suppression store lives in process memory and dies with it.  *)
(***************************************************************************)
EXTENDS Naturals, Sequences, FiniteSets

CONSTANTS
    Workers,       \* worker processes polling the queue
    Msgs,          \* messages put on the queue
    Keys,          \* idempotency keys (envelope.idempotency_key or service:task_id)
    Tasks,         \* rows of the task-state table
    KeyOf,         \* Msgs -> Keys
    TaskOf,        \* Msgs -> Tasks
    Body,          \* Msgs -> {"signed", "unsigned", "poison"}
    EnforceHmac,   \* SAMUS_SQS_REQUIRE_HMAC
    MaxItems,      \* IdempotencyStore(max_items)
    MaxAttempts,   \* MAX_HANDLER_ATTEMPTS
    MaxBatch,      \* receive_messages(max_count)
    MaxCrashes,    \* bound: crashes and SIGTERMs in a behaviour
    MaxSlow,       \* bound: visibility timeouts that hit a message still being worked on
    MaxFaults,     \* bound: DynamoDB, SQS and ledger calls that raise
    None           \* no current delivery, no receipt

ASSUME ConstantsAssumption ==
    /\ KeyOf \in [Msgs -> Keys]
    /\ TaskOf \in [Msgs -> Tasks]
    /\ Body \in [Msgs -> {"signed", "unsigned", "poison"}]
    /\ EnforceHmac \in BOOLEAN
    /\ MaxItems \in Nat \ {0}
    /\ MaxAttempts \in Nat \ {0}
    /\ MaxBatch \in Nat \ {0}
    /\ MaxCrashes \in Nat
    /\ MaxSlow \in Nat
    /\ MaxFaults \in Nat
    /\ None \notin Workers
    /\ None \notin [msg : Msgs, count : 1..MaxAttempts]

VARIABLES
    queue,      \* SQS: where each message is
    receives,   \* SQS: ApproximateReceiveCount, saturating at MaxAttempts
    receipt,    \* SQS: the worker holding the message's latest receipt handle
    pc,         \* per process: the step of _process_message it is in
    batch,      \* per process: deliveries received and not yet looked at
    cur,        \* per process: the delivery being processed, or None
    stopping,   \* per process: stop_event
    seen,       \* per process: the keys of the IdempotencyStore, oldest first
    taskState,  \* the DynamoDB task-state table
    audit,      \* audit ledger records, as <<key, status>>
    auditLost,  \* keys one of whose audit appends raised OSError
    dlq,        \* keys recorded in the dead-letter ledger
    dlqLost,    \* keys whose dead-letter record could not be written
    runs,       \* handler runs per process since it booted, per key
    evicted,    \* keys pushed out of a full store, per process since it booted
    crashes, slow, faults   \* what is left of the bounds

sqs == <<queue, receives, receipt>>
proc == <<pc, batch, cur, stopping, seen, runs, evicted>>
records == <<taskState, audit, auditLost, dlq, dlqLost>>
budgets == <<crashes, slow, faults>>
vars == <<sqs, proc, records, budgets>>

Delivery == [msg : Msgs, count : 1..MaxAttempts]
Places == {"unsent", "visible", "inflight", "gone"}
Steps == {"down", "poll", "next", "claim", "handle", "complete", "delete",
          "exhausted", "except", "ceiling", "discard"}
TaskStatus == {"none", "processing", "completed", "failed", "budget_exhausted"}
AuditStatus == {"completed", "failed", "budget_exhausted"}

Valid(m) == Body[m] = "signed" \/ (Body[m] = "unsigned" /\ ~EnforceHmac)

Elems(s) == {s[i] : i \in 1..Len(s)}

Zero == [k \in Keys |-> 0]

Init ==
    /\ queue = [m \in Msgs |-> "unsent"]
    /\ receives = [m \in Msgs |-> 0]
    /\ receipt = [m \in Msgs |-> None]
    /\ pc = [w \in Workers |-> "poll"]
    /\ batch = [w \in Workers |-> {}]
    /\ cur = [w \in Workers |-> None]
    /\ stopping = [w \in Workers |-> FALSE]
    /\ seen = [w \in Workers |-> <<>>]
    /\ taskState = [t \in Tasks |-> "none"]
    /\ audit = {}
    /\ auditLost = {}
    /\ dlq = {}
    /\ dlqLost = {}
    /\ runs = [w \in Workers |-> Zero]
    /\ evicted = [w \in Workers |-> Zero]
    /\ crashes = MaxCrashes
    /\ slow = MaxSlow
    /\ faults = MaxFaults

-----------------------------------------------------------------------------
(* The queue. *)

\* A producer (gateway/sqs_dispatch.py) puts a message on the queue.
Send(m) ==
    /\ queue[m] = "unsent"
    /\ queue' = [queue EXCEPT ![m] = "visible"]
    /\ UNCHANGED <<receives, receipt, proc, records, budgets>>

Held(m) ==
    \E w \in Workers :
        \/ \E d \in batch[w] : d.msg = m
        \/ cur[w] # None /\ cur[w].msg = m

\* The visibility timeout of a message runs out: freely when no process holds
\* the delivery any more, and while one still does at most MaxSlow times.
Expire(m) ==
    /\ queue[m] = "inflight"
    /\ Held(m) => slow > 0
    /\ slow' = IF Held(m) THEN slow - 1 ELSE slow
    /\ queue' = [queue EXCEPT ![m] = "visible"]
    /\ UNCHANGED <<receives, receipt, proc, records, crashes, faults>>

\* delete_message through the receipt handle w was given: a stale handle is
\* accepted but may leave the message where it is.
DeleteMessage(w, m) ==
    \/ queue' = [queue EXCEPT ![m] = "gone"]
    \/ receipt[m] # w /\ UNCHANGED queue

-----------------------------------------------------------------------------
(* The poll loop of one process. *)

Bumped(m) == IF receives[m] < MaxAttempts THEN receives[m] + 1 ELSE MaxAttempts

\* receive_messages: SQS hands out up to MaxBatch visible messages at once.
Receive(w) ==
    /\ pc[w] = "poll"
    /\ ~stopping[w]
    /\ \E S \in SUBSET {m \in Msgs : queue[m] = "visible"} :
        /\ S # {}
        /\ Cardinality(S) <= MaxBatch
        /\ queue' = [m \in Msgs |-> IF m \in S THEN "inflight" ELSE queue[m]]
        /\ receives' = [m \in Msgs |-> IF m \in S THEN Bumped(m) ELSE receives[m]]
        /\ receipt' = [m \in Msgs |-> IF m \in S THEN w ELSE receipt[m]]
        /\ batch' = [batch EXCEPT ![w] = {[msg |-> m, count |-> Bumped(m)] : m \in S}]
    /\ pc' = [pc EXCEPT ![w] = "next"]
    /\ UNCHANGED <<cur, stopping, seen, runs, evicted, records, budgets>>

\* The batch is finished, or stop_event breaks out of it: back to the loop test.
EndBatch(w) ==
    /\ pc[w] = "next"
    /\ batch[w] = {} \/ stopping[w]
    /\ batch' = [batch EXCEPT ![w] = {}]
    /\ pc' = [pc EXCEPT ![w] = "poll"]
    /\ UNCHANGED <<sqs, cur, stopping, seen, runs, evicted, records, budgets>>

\* Mutant: the store of claimed keys outlives the process that claimed them.
DiesKeepingClaims(w) ==
    /\ pc' = [pc EXCEPT ![w] = "down"]
    /\ batch' = [batch EXCEPT ![w] = {}]
    /\ cur' = [cur EXCEPT ![w] = None]
    /\ stopping' = [stopping EXCEPT ![w] = FALSE]
    /\ UNCHANGED <<seen, runs, evicted>>

\* The process is gone, and with it everything it kept in memory.
Dies(w) ==
    /\ pc' = [pc EXCEPT ![w] = "down"]
    /\ batch' = [batch EXCEPT ![w] = {}]
    /\ cur' = [cur EXCEPT ![w] = None]
    /\ stopping' = [stopping EXCEPT ![w] = FALSE]
    /\ seen' = [seen EXCEPT ![w] = <<>>]
    /\ runs' = [runs EXCEPT ![w] = Zero]
    /\ evicted' = [evicted EXCEPT ![w] = Zero]

\* SIGTERM or SIGINT sets stop_event; the loop notices it between messages.
Signal(w) ==
    /\ pc[w] # "down"
    /\ ~stopping[w]
    /\ crashes > 0
    /\ crashes' = crashes - 1
    /\ stopping' = [stopping EXCEPT ![w] = TRUE]
    /\ UNCHANGED <<sqs, pc, batch, cur, seen, runs, evicted, records, slow, faults>>

\* run_forever returns because stop_event is set.
Stop(w) ==
    /\ pc[w] = "poll"
    /\ stopping[w]
    /\ Dies(w)
    /\ UNCHANGED <<sqs, records, budgets>>

\* The process is killed at any point (deployment, out of memory, host loss).
Crash(w) ==
    /\ pc[w] # "down"
    /\ crashes > 0
    /\ crashes' = crashes - 1
    /\ Dies(w)
    /\ UNCHANGED <<sqs, records, slow, faults>>

\* The container platform starts the process again, with an empty store.
Restart(w) ==
    /\ pc[w] = "down"
    /\ pc' = [pc EXCEPT ![w] = "poll"]
    /\ UNCHANGED <<sqs, batch, cur, stopping, seen, runs, evicted, records, budgets>>

-----------------------------------------------------------------------------
(* _process_message, one action per stretch between two effects that other *)
(* processes can observe.                                                  *)

Key(w) == KeyOf[cur[w].msg]

\* An external call raises; the bound says how often that may happen.
Raises == faults > 0 /\ faults' = faults - 1

\* The two best-effort writes that record how a run ended: put_item on the
\* task-state table and ledger.append(audit).  Their exceptions are swallowed.
Record(w, status) ==
    LET put == taskState' = [taskState EXCEPT ![TaskOf[cur[w].msg]] = status]
        append == audit' = audit \cup {<<Key(w), status>>}
    IN  \/ put /\ append /\ UNCHANGED <<auditLost, faults>>
        \/ Raises /\ append /\ UNCHANGED <<taskState, auditLost>>
        \/ Raises /\ put /\ auditLost' = auditLost \cup {Key(w)} /\ UNCHANGED audit

Goto(w, step) == pc' = [pc EXCEPT ![w] = step]

\* _process_message returns and the loop moves on to the rest of the batch.
Return(w) ==
    /\ cur' = [cur EXCEPT ![w] = None]
    /\ Goto(w, "next")

\* Steps 1 and 1b reject the message: deleted unread, and an exception of the
\* delete escapes run_forever and ends the process.
Reject(w) ==
    /\ pc[w] = "next"
    /\ ~stopping[w]
    /\ \E d \in batch[w] :
        /\ ~Valid(d.msg)
        /\ \/ /\ DeleteMessage(w, d.msg)
              /\ batch' = [batch EXCEPT ![w] = @ \ {d}]
              /\ UNCHANGED <<pc, cur, stopping, seen, runs, evicted, faults>>
           \/ /\ Raises
              /\ Dies(w)
              /\ UNCHANGED queue
    /\ UNCHANGED <<receives, receipt, records, crashes, slow>>

\* Step 2: a valid message is taken up and its task marked as processing.
Begin(w) ==
    /\ pc[w] = "next"
    /\ ~stopping[w]
    /\ \E d \in batch[w] :
        /\ Valid(d.msg)
        /\ batch' = [batch EXCEPT ![w] = @ \ {d}]
        /\ cur' = [cur EXCEPT ![w] = d]
        /\ \/ /\ taskState' = [taskState EXCEPT ![TaskOf[d.msg]] = "processing"]
              /\ UNCHANGED faults
           \/ Raises /\ UNCHANGED taskState
    /\ Goto(w, "claim")
    /\ UNCHANGED <<sqs, stopping, seen, runs, evicted, audit, auditLost, dlq,
                   dlqLost, crashes, slow>>

\* Mutant: a full store is not trimmed.
RememberUntrimmed(s, k) == Append(s, k)

\* Mutant: a full store drops the key just claimed instead of the oldest one.
RememberDropsNew(s, k) == IF Len(s) < MaxItems THEN Append(s, k) ELSE s

\* IdempotencyStore.first_seen records a key it does not hold, dropping the
\* oldest one when the store is full.
Remember(s, k) == IF Len(s) < MaxItems THEN Append(s, k) ELSE Append(Tail(s), k)

\* Step 3, first delivery this process sees: claim the key and call handle().
Claim(w) ==
    /\ pc[w] = "claim"
    /\ Key(w) \notin Elems(seen[w])
    /\ seen' = [seen EXCEPT ![w] = Remember(@, Key(w))]
    /\ evicted' = IF Len(seen[w]) < MaxItems THEN evicted
                  ELSE [evicted EXCEPT ![w][Head(seen[w])] = @ + 1]
    /\ runs' = [runs EXCEPT ![w][Key(w)] = @ + 1]
    /\ Goto(w, "handle")
    /\ UNCHANGED <<sqs, batch, cur, stopping, records, budgets>>

\* Mutant: a duplicate is skipped but not deleted.
DuplicateLeft(w) ==
    /\ pc[w] = "claim"
    /\ Key(w) \in Elems(seen[w])
    /\ Return(w)
    /\ UNCHANGED <<sqs, batch, stopping, seen, runs, evicted, records, budgets>>

\* Step 3, a key the process has seen: the message is deleted unhandled.  The
\* delete is inside the try, so its exception is handled as a failed run.
Duplicate(w) ==
    /\ pc[w] = "claim"
    /\ Key(w) \in Elems(seen[w])
    /\ \/ DeleteMessage(w, cur[w].msg) /\ Return(w) /\ UNCHANGED faults
       \/ /\ Raises
          /\ Goto(w, "except")
          /\ UNCHANGED <<queue, cur>>
    /\ UNCHANGED <<receives, receipt, batch, stopping, seen, runs, evicted,
                   records, crashes, slow>>

\* Step 5: handle() returns, runs out of action tokens, or raises.
Handle(w) ==
    /\ pc[w] = "handle"
    /\ \E step \in {"complete", "exhausted", "except"} : Goto(w, step)
    /\ UNCHANGED <<sqs, batch, cur, stopping, seen, runs, evicted, records, budgets>>

\* Step 6: completed state, SNS event (not modelled) and audit record.
Complete(w) ==
    /\ pc[w] = "complete"
    /\ Record(w, "completed")
    /\ Goto(w, "delete")
    /\ UNCHANGED <<sqs, batch, cur, stopping, seen, runs, evicted, dlq, dlqLost,
                   crashes, slow>>

\* Step 6, the delete; a raising delete lands in the except branch as well.
Delete(w) ==
    /\ pc[w] = "delete"
    /\ \/ DeleteMessage(w, cur[w].msg) /\ Return(w) /\ UNCHANGED faults
       \/ /\ Raises
          /\ Goto(w, "except")
          /\ UNCHANGED <<queue, cur>>
    /\ UNCHANGED <<receives, receipt, batch, stopping, seen, runs, evicted,
                   records, crashes, slow>>

\* A delete outside every try: it works, or its exception ends the process.
DeleteOrDie(w) ==
    \/ /\ DeleteMessage(w, cur[w].msg)
       /\ Return(w)
       /\ UNCHANGED <<batch, stopping, seen, runs, evicted, faults>>
    \/ /\ Raises
       /\ Dies(w)
       /\ UNCHANGED queue

\* except BudgetExhausted: recorded here, then deleted and never retried.
Exhausted(w) ==
    /\ pc[w] = "exhausted"
    /\ Record(w, "budget_exhausted")
    /\ Goto(w, "discard")
    /\ UNCHANGED <<sqs, batch, cur, stopping, seen, runs, evicted, dlq, dlqLost,
                   crashes, slow>>

Discard(w) ==
    /\ pc[w] = "discard"
    /\ DeleteOrDie(w)
    /\ UNCHANGED <<receives, receipt, records, crashes, slow>>

\* except Exception: failed state and audit record.
Fail(w) ==
    /\ pc[w] = "except"
    /\ Record(w, "failed")
    /\ Goto(w, "ceiling")
    /\ UNCHANGED <<sqs, batch, cur, stopping, seen, runs, evicted, dlq, dlqLost,
                   crashes, slow>>

\* Below the ceiling the message is left for SQS to deliver again.
LeaveForRedrive(w) ==
    /\ pc[w] = "ceiling"
    /\ cur[w].count < MaxAttempts
    /\ Return(w)
    /\ UNCHANGED <<sqs, batch, stopping, seen, runs, evicted, records, budgets>>

\* At the ceiling it is recorded in the dead-letter ledger (best-effort), then
\* deleted.
Shed(w) ==
    /\ pc[w] = "ceiling"
    /\ cur[w].count >= MaxAttempts
    /\ \/ dlq' = dlq \cup {Key(w)} /\ UNCHANGED <<dlqLost, faults>>
       \/ Raises /\ dlqLost' = dlqLost \cup {Key(w)} /\ UNCHANGED dlq
    /\ Goto(w, "discard")
    /\ UNCHANGED <<sqs, batch, cur, stopping, seen, runs, evicted, taskState,
                   audit, auditLost, crashes, slow>>

Process(w) ==
    \/ Reject(w) \/ Begin(w) \/ Claim(w) \/ Duplicate(w) \/ Handle(w)
    \/ Complete(w) \/ Delete(w) \/ Exhausted(w) \/ Fail(w)
    \/ LeaveForRedrive(w) \/ Shed(w) \/ Discard(w)

Loop(w) == Receive(w) \/ EndBatch(w) \/ Stop(w) \/ Restart(w) \/ Process(w)

Next ==
    \/ \E m \in Msgs : Send(m) \/ Expire(m)
    \/ \E w \in Workers : Loop(w) \/ Signal(w) \/ Crash(w)

Spec == Init /\ [][Next]_vars

\* SQS redelivers, the platform restarts workers, and a running worker keeps
\* running: every process and the queue's clock take the steps they can.
Fairness ==
    /\ \A w \in Workers : WF_vars(Loop(w))
    /\ \A m \in Msgs : WF_vars(~Held(m) /\ Expire(m))

FairSpec == Spec /\ Fairness

-----------------------------------------------------------------------------
(* Properties. *)

TypeSqs ==
    /\ queue \in [Msgs -> Places]
    /\ receives \in [Msgs -> 0..MaxAttempts]
    /\ receipt \in [Msgs -> Workers \cup {None}]

TypeProc ==
    /\ pc \in [Workers -> Steps]
    /\ batch \in [Workers -> SUBSET Delivery]
    /\ cur \in [Workers -> Delivery \cup {None}]
    /\ stopping \in [Workers -> BOOLEAN]
    /\ \A w \in Workers : cur[w] = None <=> pc[w] \in {"down", "poll", "next"}

TypeStore ==
    /\ seen \in [Workers -> Seq(Keys)]
    /\ runs \in [Workers -> [Keys -> Nat]]
    /\ evicted \in [Workers -> [Keys -> Nat]]
    /\ \A w \in Workers : Len(seen[w]) <= MaxItems

TypeRecords ==
    /\ taskState \in [Tasks -> TaskStatus]
    /\ audit \subseteq Keys \X AuditStatus
    /\ auditLost \subseteq Keys
    /\ dlq \subseteq Keys
    /\ dlqLost \subseteq Keys

TypeBudgets == crashes \in Nat /\ slow \in Nat /\ faults \in Nat

\* The types of the variables, part by part.
TypeOK == TypeSqs /\ TypeProc /\ TypeStore /\ TypeRecords /\ TypeBudgets

\* A key has an audit record, or one that the ledger refused.
Audited(k) == k \in auditLost \/ \E s \in AuditStatus : <<k, s>> \in audit

\* No authentic message leaves the queue before a handler run for its key has
\* ended and been put in the audit ledger: not through the duplicate path, not
\* when a process dies between the claim and the record, not when two
\* processes work on the same key (_process_message).
DeletedIsAudited ==
    \A m \in Msgs : (queue[m] = "gone" /\ Valid(m)) => Audited(KeyOf[m])

\* A process runs the handler at most once for a key, plus once for every time
\* its full IdempotencyStore dropped that key (first_seen).
OneRunPerBoot ==
    \A w \in Workers, k \in Keys : runs[w][k] <= 1 + evicted[w][k]

\* No message is worked on for ever: once visible it is eventually deleted,
\* however its handler behaves (the infinite-loop ceiling of worker_base.py).
QueueDrains == \A m \in Msgs : queue[m] = "visible" ~> queue[m] = "gone"

\* What worker_base.py says of failures: "Below the ceiling we do NOT delete -
\* normal SQS redrive gives transient failures their retries".  So a message
\* is gone only once its task completed, ran out of budget, or was
\* dead-lettered.
NoSilentLoss ==
    \A m \in Msgs :
        (queue[m] = "gone" /\ Valid(m)) =>
            \/ <<KeyOf[m], "completed">> \in audit
            \/ <<KeyOf[m], "budget_exhausted">> \in audit
            \/ KeyOf[m] \in dlq \cup dlqLost \cup auditLost

=============================================================================

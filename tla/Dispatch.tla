------------------------------ MODULE Dispatch ------------------------------
(***************************************************************************)
(* How work reaches a target service over HTTP: the gateway's dispatch     *)
(* (backend/gateway/service.py and the /dispatch route of                  *)
(* backend/gateway/app.py), the signed POST with its retries and circuit   *)
(* (backend/common/http_client.py, backend/common/retry.py), the           *)
(* target's nonce check (backend/common/middleware.py), the dead letters   *)
(* (backend/common/dlq.py) and their replay                                *)
(* (backend/common/replay_worker.py, backend/entropy/diagnostics.py).      *)
(*                                                                         *)
(* A caller signs a request once and posts it up to 1 + Retries times.  A  *)
(* post that timed out may still arrive, in any order, and an answer may   *)
(* come too late.  There is one target service, so one circuit in each     *)
(* process.                                                                *)
(***************************************************************************)
EXTENDS Naturals, Sequences

CONSTANTS
    Handlers,     \* /dispatch requests the gateway serves at a time
    Replayers,    \* diagnostics requests the entropy service serves at a time
    Tasks,        \* pieces of work
    Retries,      \* per caller: max_retries (3 in a dispatch, 2 in a replay)
    Threshold,    \* CircuitState.threshold
    RingSize,     \* NonceStore max_items
    Limit,        \* limit of replay_gateway_dlq
    MaxAsked,     \* bound: dispatch requests
    MaxCalls,     \* bound: signed requests for one task
    MaxFaults     \* bound: posts that fail, time out or break off, and restarts

Callers == Handlers \cup Replayers

ASSUME DispatchAssumption ==
    /\ Handlers \cap Replayers = {}
    /\ Retries \in [Callers -> Nat]
    /\ Threshold \in Nat \ {0}
    /\ RingSize \in Nat \ {0}
    /\ Limit \in Nat
    /\ MaxAsked \in Nat
    /\ MaxCalls \in Nat
    /\ MaxFaults \in Nat

VARIABLES
    asked,      \* dispatch requests so far
    req,        \* per handler: the number of its request
    circuit,    \* per process: its CircuitState for the target
    pc,         \* per caller: no request, about to post, waiting
    call,       \* per caller: the signed request it posts, or a handler posted last
    left,       \* per caller: retries left
    reply,      \* per caller: the answer that has come for the present post
    told,       \* per handler: what its client was answered
    calls,      \* per task: requests signed for it
    wire,       \* posts under way
    ring,       \* the target: nonces it remembers, oldest first
    runs,       \* the target: how often it has run each request's work
    dlq,        \* the failures ledger, oldest record first
    archive,    \* replayed_archive: pairs of a letter's id and a status
    orphans,    \* per replayer: ids of letters still to remediate
    batch,      \* per replayer: letters still to replay
    store,      \* GLOBAL_IDEMPOTENCY_STORE of the entropy process
    accepted,   \* history: replays of a letter the target accepted, per replayer
    forgotten,  \* history: how often the target has forgotten each nonce
    through,    \* history: posts of a caller through its open circuit
    restarts,   \* history: restarts of the entropy process
    faults      \* failing posts and restarts so far

callVars == <<circuit, pc, call, left, reply, calls, through>>
targetVars == <<ring, runs, forgotten>>
replayVars == <<archive, orphans, batch, store, accepted>>
countVars == <<asked, req, faults, restarts>>
vars == <<countVars, callVars, told, wire, targetVars, dlq, replayVars>>

Processes == {"gateway", "entropy"}
Proc(c) == IF c \in Handlers THEN "gateway" ELSE "entropy"

\* A request and its nonce are named by the task and a number.
Calls == Tasks \X (1..MaxCalls)
\* A request leads to at most one dead letter, whose event_id is its number.
Ids == 1..MaxAsked
Letter == [id : Ids, task : Tasks]

\* open_until: zero, in the future, or past.
Gates == {"closed", "open", "due"}
\* failures is not counted beyond the threshold.
Circuit == [failures : 0..Threshold, gate : Gates]
Closed == [failures |-> 0, gate |-> "closed"]

Post == [by : Callers, call : Calls, left : Nat]
Answers == {"none", "ok", "error"}
\* "upstream" is the 502 of a dead letter, "raised" an exception of the
\* handler, "refused" an answer given before the target is called.
Told == Answers \cup {"upstream", "raised", "refused"}

Init ==
    /\ asked = 0
    /\ req = [h \in Handlers |-> 0]
    /\ circuit = [p \in Processes |-> Closed]
    /\ pc = [c \in Callers |-> "idle"]
    /\ call = [c \in Callers |-> <<>>]
    /\ left = [c \in Callers |-> 0]
    /\ reply = [c \in Callers |-> "none"]
    /\ told = [h \in Handlers |-> "none"]
    /\ calls = [t \in Tasks |-> 0]
    /\ wire = {}
    /\ ring = <<>>
    /\ runs = [k \in Calls |-> 0]
    /\ dlq = <<>>
    /\ archive = {}
    /\ orphans = [r \in Replayers |-> {}]
    /\ batch = [r \in Replayers |-> <<>>]
    /\ store = {}
    /\ accepted = [r \in Replayers |-> [l \in Ids |-> 0]]
    /\ forgotten = [k \in Calls |-> 0]
    /\ through = [c \in Callers |-> 0]
    /\ faults = 0
    /\ restarts = 0

-----------------------------------------------------------------------------
(* CircuitState. *)

\* Nobody starts a call while the circuit is open.
CanCall(p) == circuit[p].gate # "open"

\* record_failure: it stays tripped until a success, so that the first failure
\* after the recovery time opens it again.
Failed(s) ==
    IF s.failures + 1 >= Threshold
    THEN [failures |-> Threshold, gate |-> "open"]
    ELSE [s EXCEPT !.failures = @ + 1]

\* The posts of p's callers are counted from the opening of its circuit.
Forget(p) == through' = [c \in Callers |-> IF Proc(c) = p THEN 0 ELSE through[c]]

RecordFailure(p) ==
    /\ circuit' = [circuit EXCEPT ![p] = Failed(@)]
    /\ UNCHANGED through

RecordSuccess(p) == circuit' = [circuit EXCEPT ![p] = Closed] /\ Forget(p)

\* recovery_seconds pass.
Recover(p) ==
    /\ circuit[p].gate = "open"
    /\ circuit' = [circuit EXCEPT ![p].gate = "due"]
    /\ Forget(p)
    /\ UNCHANGED <<countVars, pc, call, left, reply, calls, told, wire,
                   targetVars, dlq, replayVars>>

-----------------------------------------------------------------------------
(* Requests to dispatch. *)

\* _build_signed_request: one timestamp, nonce and signature for every attempt.
Sign(c, t) ==
    /\ calls[t] < MaxCalls
    /\ calls' = [calls EXCEPT ![t] = @ + 1]
    /\ call' = [call EXCEPT ![c] = <<t, calls[t] + 1>>]
    /\ left' = [left EXCEPT ![c] = Retries[c]]
    /\ reply' = [reply EXCEPT ![c] = "none"]
    /\ pc' = [pc EXCEPT ![c] = "post"]
    /\ UNCHANGED <<circuit, through>>

\* The handler answers its client.
Tell(h, answer) == told' = [told EXCEPT ![h] = answer]

\* A new record in the failures ledger.
EnqueueFailure(n, t) == dlq' = Append(dlq, [id |-> n, task |-> t])

\* POST /dispatch: an invalid envelope, an unknown target, a missing key or
\* simulation is refused; an open circuit is an upstream failure at once.
Request(h, t) ==
    /\ pc[h] = "idle"
    /\ asked < MaxAsked
    /\ asked' = asked + 1
    /\ req' = [req EXCEPT ![h] = asked + 1]
    /\ \/ Tell(h, "refused") /\ UNCHANGED <<callVars, dlq>>
       \/ CanCall("gateway") /\ Sign(h, t) /\ Tell(h, "none") /\ UNCHANGED dlq
       \/ /\ ~CanCall("gateway")
          /\ EnqueueFailure(asked + 1, t)
          /\ Tell(h, "upstream")
          /\ UNCHANGED callVars
    /\ UNCHANGED <<wire, targetVars, replayVars, faults, restarts>>

-----------------------------------------------------------------------------
(* retry_request, for handlers and replayers alike. *)

\* client.post: the circuit is not looked at again.
Send(c) ==
    /\ pc[c] = "post"
    /\ pc' = [pc EXCEPT ![c] = "wait"]
    /\ wire' = wire \cup {[by |-> c, call |-> call[c], left |-> left[c]]}
    /\ through' = [through EXCEPT ![c] = IF circuit[Proc(c)].gate = "open" THEN @ + 1 ELSE @]
    /\ UNCHANGED <<countVars, circuit, call, left, reply, calls, told,
                   targetVars, dlq, replayVars>>

\* mark_replayed for the letter r is at, which is then done with.
MarkReplayed(r, status) ==
    /\ archive' = archive \cup {<<Head(batch[r]).id, status>>}
    /\ batch' = [batch EXCEPT ![r] = Tail(@)]

\* dispatch_to_target: the failure becomes a dead letter and a 502.
\* _replay_one: the replay failed.
GiveUp(c) ==
    \/ /\ c \in Handlers
       /\ EnqueueFailure(req[c], call[c][1])
       /\ Tell(c, "upstream")
       /\ UNCHANGED replayVars
    \/ /\ c \in Replayers
       /\ MarkReplayed(c, "replay_failed")
       /\ UNCHANGED <<told, dlq, orphans, store, accepted>>

\* The call is over.
Return(c) ==
    /\ pc' = [pc EXCEPT ![c] = "idle"]
    /\ left' = [left EXCEPT ![c] = 0]
    /\ reply' = [reply EXCEPT ![c] = "none"]
    /\ call' = [call EXCEPT ![c] = IF c \in Replayers THEN <<>> ELSE @]

\* Mutant: the attempts are not counted.
AttemptFailedUncounted(c) ==
    /\ RecordFailure(Proc(c))
    /\ reply' = [reply EXCEPT ![c] = "none"]
    /\ pc' = [pc EXCEPT ![c] = "post"]
    /\ UNCHANGED <<left, call, told, dlq, replayVars>>

\* A timeout or a refused connection: back off and post again, or give up.
AttemptFailed(c) ==
    /\ RecordFailure(Proc(c))
    /\ \/ /\ left[c] > 0
          /\ left' = [left EXCEPT ![c] = @ - 1]
          /\ reply' = [reply EXCEPT ![c] = "none"]
          /\ pc' = [pc EXCEPT ![c] = "post"]
          /\ UNCHANGED <<call, told, dlq, replayVars>>
       \/ left[c] = 0 /\ Return(c) /\ GiveUp(c)

\* A fault, among the ones the bound allows.
Fault == faults < MaxFaults /\ faults' = faults + 1

\* No connection: the post never leaves.
Unreachable(c) ==
    /\ pc[c] = "post"
    /\ Fault
    /\ AttemptFailed(c)
    /\ UNCHANGED <<asked, req, restarts, calls, wire, targetVars>>

\* The post is late, or its answer is.
Timeout(c) ==
    /\ pc[c] = "wait"
    /\ Fault
    /\ AttemptFailed(c)
    /\ UNCHANGED <<asked, req, restarts, calls, wire, targetVars>>

\* Any other exception is counted and raised at once.  dispatch_to_target does
\* not catch it: the client sees a 500 and there is no dead letter.
BreakOff(c) ==
    /\ pc[c] = "wait"
    /\ Fault
    /\ RecordFailure(Proc(c))
    /\ Return(c)
    /\ \/ c \in Handlers /\ Tell(c, "raised") /\ UNCHANGED replayVars
       \/ /\ c \in Replayers
          /\ MarkReplayed(c, "replay_failed")
          /\ UNCHANGED <<told, orphans, store, accepted>>
    /\ UNCHANGED <<asked, req, restarts, calls, wire, targetVars, dlq>>

\* Mutant: the replay trusts any answer.
ReplayedAnyway(r) ==
    /\ store' = store \cup {Head(batch[r]).id}
    /\ accepted' = [accepted EXCEPT ![r][Head(batch[r]).id] = @ + 1]
    /\ MarkReplayed(r, "replayed")
    /\ UNCHANGED orphans

\* What _replay_one does with an answer.
Replayed(r) ==
    /\ \/ /\ reply[r] = "ok"
          /\ store' = store \cup {Head(batch[r]).id}
          /\ accepted' = [accepted EXCEPT ![r][Head(batch[r]).id] = @ + 1]
          /\ MarkReplayed(r, "replayed")
       \/ /\ reply[r] = "error"
          /\ MarkReplayed(r, "replay_failed")
          /\ UNCHANGED <<store, accepted>>
    /\ UNCHANGED orphans

\* Whatever its status, an answer counts as a success of the call.
Answered(c) ==
    /\ pc[c] = "wait"
    /\ reply[c] # "none"
    /\ RecordSuccess(Proc(c))
    /\ Return(c)
    /\ \/ c \in Handlers /\ Tell(c, reply[c]) /\ UNCHANGED replayVars
       \/ c \in Replayers /\ Replayed(c) /\ UNCHANGED told
    /\ UNCHANGED <<countVars, calls, wire, targetVars, dlq>>

-----------------------------------------------------------------------------
(* The target: VerifyHMACMiddleware, then the work. *)

Remembers(k) == \E n \in 1..Len(ring) : ring[n] = k

\* The target forgets these nonces.
ForgetNonces(S) ==
    forgotten' = [k \in Calls |-> IF k \in S THEN forgotten[k] + 1 ELSE forgotten[k]]

\* Mutant: a nonce is looked up but not kept.
SeenButNotKept(k) == UNCHANGED <<ring, forgotten>>

\* NonceStore.seen keeps the nonce and drops the oldest one over RingSize.
Keep(k) ==
    \/ /\ Len(ring) < RingSize
       /\ ring' = Append(ring, k)
       /\ UNCHANGED forgotten
    \/ /\ Len(ring) = RingSize
       /\ ring' = Append(Tail(ring), k)
       /\ ForgetNonces({Head(ring)})

\* A post arrives: a known nonce is answered 401, a new one is kept and the
\* work is done or fails.  The answer counts if its post is still waited for.
Arrive(m) ==
    /\ wire' = wire \ {m}
    /\ \E answer \in {"ok", "error"} :
          /\ \/ Remembers(m.call) /\ answer = "error" /\ UNCHANGED targetVars
             \/ /\ ~Remembers(m.call)
                /\ Keep(m.call)
                /\ runs' = [runs EXCEPT ![m.call] = IF answer = "ok" THEN @ + 1 ELSE @]
          /\ reply' = [reply EXCEPT ![m.by] =
                IF pc[m.by] = "wait" /\ call[m.by] = m.call /\ left[m.by] = m.left
                THEN answer ELSE @]
    /\ UNCHANGED <<countVars, circuit, pc, call, left, calls, through, told, dlq, replayVars>>

\* The target starts again with an empty NonceStore.
RestartTarget ==
    /\ Fault
    /\ ForgetNonces({ring[n] : n \in 1..Len(ring)})
    /\ ring' = <<>>
    /\ UNCHANGED <<asked, req, restarts, callVars, told, wire, runs, dlq, replayVars>>

\* Mutant: the restarted process goes on with its requests.
RestartKeepsRequests(p) ==
    /\ Fault
    /\ RecordSuccess(p)
    /\ orphans' = [r \in Replayers |-> {}]
    /\ batch' = [r \in Replayers |-> <<>>]
    /\ store' = {}
    /\ restarts' = restarts + 1
    /\ UNCHANGED <<asked, req, pc, call, left, reply, calls, told, wire,
                   targetVars, dlq, archive, accepted>>

\* A calling process starts again: its circuit, its requests and, of the
\* entropy service, what it had replayed are gone.
Restart(p) ==
    /\ Fault
    /\ RecordSuccess(p)
    /\ pc' = [c \in Callers |-> IF Proc(c) = p THEN "idle" ELSE pc[c]]
    /\ left' = [c \in Callers |-> IF Proc(c) = p THEN 0 ELSE left[c]]
    /\ reply' = [c \in Callers |-> IF Proc(c) = p THEN "none" ELSE reply[c]]
    /\ told' = [h \in Handlers |-> IF p = "gateway" THEN "none" ELSE told[h]]
    /\ \/ p = "gateway" /\ UNCHANGED <<orphans, batch, store, restarts>>
       \/ /\ p = "entropy"
          /\ orphans' = [r \in Replayers |-> {}]
          /\ batch' = [r \in Replayers |-> <<>>]
          /\ store' = {}
          /\ restarts' = restarts + 1
    /\ UNCHANGED <<asked, req, call, calls, wire, targetVars,
                   dlq, archive, accepted>>

-----------------------------------------------------------------------------
(* Dead letters: detect_orphan_tasks and replay_gateway_dlq. *)

Archived(l) == \E status \in {"replayed", "replay_failed", "skipped"} : <<l, status>> \in archive

\* The letters past the TTL that no replay has touched: the older ones first.
DetectOrphans(r) ==
    /\ pc[r] = "idle" /\ orphans[r] = {} /\ batch[r] = <<>>
    /\ \E n \in 1..Len(dlq) :
          /\ orphans' = [orphans EXCEPT ![r] =
                            {l \in {dlq[i].id : i \in 1..n} : ~Archived(l)}]
          /\ orphans'[r] # {}
    /\ UNCHANGED <<countVars, callVars, told, wire, targetVars, dlq, archive, batch, store, accepted>>

\* read_pending: the last Limit letters, whatever became of them.
First == IF Len(dlq) > Limit THEN Len(dlq) - Limit + 1 ELSE 1

\* Mutant: the ledger is read from its start.
PendingOldest == SubSeq(dlq, 1, IF Len(dlq) > Limit THEN Limit ELSE Len(dlq))

Pending == SubSeq(dlq, First, Len(dlq))

\* _remediate_orphan replays the whole tail, once for each orphan.
Remediate(r) ==
    /\ batch[r] = <<>>
    /\ \E l \in orphans[r] : orphans' = [orphans EXCEPT ![r] = @ \ {l}]
    /\ batch' = [batch EXCEPT ![r] = Pending]
    /\ UNCHANGED <<countVars, callVars, told, wire, targetVars, dlq, archive, store, accepted>>

\* Mutant: what was replayed is not remembered.
ReplayKeyNever(l) == FALSE

\* GLOBAL_IDEMPOTENCY_STORE.exists
ReplayKey(l) == l \in store

\* _replay_one up to its request.  The target may have gone from gateway_urls.
ReplayOne(r) ==
    /\ pc[r] = "idle" /\ batch[r] # <<>>
    /\ \/ /\ ReplayKey(Head(batch[r]).id)
          /\ batch' = [batch EXCEPT ![r] = Tail(@)]
          /\ UNCHANGED <<callVars, archive>>
       \/ /\ ~ReplayKey(Head(batch[r]).id)
          /\ \/ MarkReplayed(r, "skipped") /\ UNCHANGED callVars
             \/ ~CanCall("entropy") /\ MarkReplayed(r, "replay_failed") /\ UNCHANGED callVars
             \/ /\ CanCall("entropy")
                /\ Sign(r, Head(batch[r]).task)
                /\ UNCHANGED <<archive, batch>>
    /\ UNCHANGED <<countVars, told, wire, targetVars, dlq, orphans, store, accepted>>

-----------------------------------------------------------------------------
Caller(c) == Send(c) \/ Unreachable(c) \/ Timeout(c) \/ BreakOff(c) \/ Answered(c)

Replayer(r) == DetectOrphans(r) \/ Remediate(r) \/ ReplayOne(r)

\* What happens besides new requests.
Deliver ==
    \/ \E c \in Callers : Caller(c)
    \/ \E r \in Replayers : Replayer(r)
    \/ \E m \in wire : Arrive(m)
    \/ RestartTarget
    \/ \E p \in Processes : Recover(p) \/ Restart(p)

Next == Deliver \/ \E h \in Handlers, t \in Tasks : Request(h, t)

Spec == Init /\ [][Next]_vars

\* Callers and replayers run on, posts arrive unless they are lost, and the
\* diagnostics are run again and again.
Fairness ==
    /\ \A c \in Callers : WF_vars(Caller(c))
    /\ \A r \in Replayers : WF_vars(Replayer(r))
    /\ WF_vars(\E m \in wire : Arrive(m))

FairSpec == Spec /\ Fairness

-----------------------------------------------------------------------------
(* Properties. *)

\* The types of the variables; a handler at work has a request and a replayer a
\* letter, and both have signed what they post.
TypeOK ==
    /\ asked \in 0..MaxAsked
    /\ req \in [Handlers -> 0..MaxAsked]
    /\ \A h \in Handlers : pc[h] # "idle" => req[h] \in Ids
    /\ \A r \in Replayers : pc[r] # "idle" => batch[r] # <<>>
    /\ circuit \in [Processes -> Circuit]
    /\ pc \in [Callers -> {"idle", "post", "wait"}]
    /\ call \in [Callers -> Calls \cup {<<>>}]
    /\ \A c \in Callers : pc[c] # "idle" => call[c] \in Calls
    /\ left \in [Callers -> Nat]
    /\ reply \in [Callers -> Answers]
    /\ told \in [Handlers -> Told]
    /\ calls \in [Tasks -> 0..MaxCalls]
    /\ wire \subseteq Post
    /\ ring \in Seq(Calls)
    /\ runs \in [Calls -> Nat]
    /\ dlq \in Seq(Letter)
    /\ archive \subseteq Ids \X {"replayed", "replay_failed", "skipped"}
    /\ orphans \in [Replayers -> SUBSET Ids]
    /\ batch \in [Replayers -> Seq(Letter)]
    /\ store \subseteq Ids
    /\ accepted \in [Replayers -> [Ids -> Nat]]
    /\ forgotten \in [Calls -> Nat]
    /\ through \in [Callers -> Nat]
    /\ faults \in 0..MaxFaults
    /\ restarts \in Nat

\* Whatever is retried, late, out of order or replayed, the target runs the
\* work of a signed request at most once, and once more for each time it has
\* forgotten the nonce, by a restart or by more requests than its ring holds
\* (signed_post_json signs outside the retry loop, NonceStore.seen).
RunsPaid == \A k \in Calls : runs[k] <= 1 + forgotten[k]

\* Nobody is told of work that did not happen: a dispatch answered with the
\* target's success has run, and so has the task of a dead letter archived as
\* replayed, although a late answer of an earlier post, a nonce rejection or a
\* failed run can be what a caller sees (dispatch_to_target, _replay_one).
AnswersTrue ==
    /\ \A h \in Handlers : told[h] = "ok" => runs[call[h]] > 0
    /\ \A i \in 1..Len(dlq) :
          <<dlq[i].id, "replayed">> \in archive =>
              \E n \in 1..MaxCalls : runs[<<dlq[i].task, n>>] > 0

\* The retry loop does not look at the circuit again, so posts go through an
\* open one: but no more of each caller than one call makes, since nobody
\* starts another call until it has recovered (retry_request).
ThroughOpenBounded == \A c \in Callers : through[c] <= Retries[c] + 1

\* A process gets each dead letter accepted at most once in its life by each
\* replay it runs, however often the letter is read again (the replay: key of
\* _replay_one).
AcceptedOncePerLife ==
    \A r \in Replayers, l \in Ids : accepted[r][l] <= 1 + restarts

\* A dead letter that stays among the last Limit is eventually replayed,
\* skipped or marked as failed, whatever crashes in between
\* (detect_orphan_tasks, replay_gateway_dlq).
LettersHandled ==
    \A l \in Ids :
        <>[](\E i \in First..Len(dlq) : dlq[i].id = l) => <>Archived(l)

=============================================================================

--------------------------- MODULE DispatchProofs ---------------------------
(***************************************************************************)
(* What dispatch, retry and replay guarantee for any number of callers and *)
(* tasks, whatever is lost, late or restarted.                             *)
(***************************************************************************)
EXTENDS Dispatch, SequenceTheorems, TLAPS

-----------------------------------------------------------------------------
(* How the steps of a call fall together. *)

\* A failed attempt that is followed by another.
Retry(c) ==
    /\ pc[c] # "idle"
    /\ Fault
    /\ RecordFailure(Proc(c))
    /\ left[c] > 0
    /\ left' = [left EXCEPT ![c] = @ - 1]
    /\ reply' = [reply EXCEPT ![c] = "none"]
    /\ pc' = [pc EXCEPT ![c] = "post"]
    /\ UNCHANGED <<call, told, dlq, replayVars, asked, req, restarts, calls, wire, targetVars>>

\* The end of a call, for better or worse.
Over(c) ==
    /\ pc[c] # "idle"
    /\ Return(c)
    /\ \/ Fault /\ RecordFailure(Proc(c))
       \/ UNCHANGED faults /\ RecordSuccess(Proc(c))
    /\ UNCHANGED <<asked, req, restarts, calls, wire, targetVars>>

\* What the end of a dispatch tells and leaves behind.
DispatchOver(h) ==
    /\ h \in Handlers
    /\ Over(h)
    /\ UNCHANGED replayVars
    /\ \/ EnqueueFailure(req[h], call[h][1]) /\ Tell(h, "upstream")
       \/ UNCHANGED dlq /\ Tell(h, "raised")
       \/ reply[h] # "none" /\ UNCHANGED dlq /\ Tell(h, reply[h])

\* What the end of a replay leaves behind.
ReplayOver(r) ==
    /\ r \in Replayers
    /\ Over(r)
    /\ UNCHANGED <<told, dlq, orphans>>
    /\ \/ MarkReplayed(r, "replay_failed") /\ UNCHANGED <<store, accepted>>
       \/ /\ reply[r] = "ok"
          /\ store' = store \cup {Head(batch[r]).id}
          /\ accepted' = [accepted EXCEPT ![r][Head(batch[r]).id] = @ + 1]
          /\ MarkReplayed(r, "replayed")

LEMMA CallerKinds ==
  ASSUME NEW c \in Callers, Caller(c)
  PROVE  Send(c) \/ Retry(c) \/ DispatchOver(c) \/ ReplayOver(c)
<1>1. CASE Send(c)
  BY <1>1
<1>2. CASE Unreachable(c) \/ Timeout(c)
  <2>1. /\ pc[c] # "idle" /\ Fault /\ RecordFailure(Proc(c))
        /\ UNCHANGED <<asked, req, restarts, calls, wire, targetVars>>
        /\ \/ /\ left[c] > 0
              /\ left' = [left EXCEPT ![c] = @ - 1]
              /\ reply' = [reply EXCEPT ![c] = "none"]
              /\ pc' = [pc EXCEPT ![c] = "post"]
              /\ UNCHANGED <<call, told, dlq, replayVars>>
           \/ left[c] = 0 /\ Return(c) /\ GiveUp(c)
    BY <1>2 DEF Unreachable, Timeout, AttemptFailed
  <2>2. CASE Return(c) /\ GiveUp(c)
    BY <2>1, <2>2 DEF GiveUp, Over, DispatchOver, ReplayOver
  <2> QED BY <2>1, <2>2 DEF Retry
<1>3. CASE BreakOff(c)
  BY <1>3 DEF BreakOff, Over, DispatchOver, ReplayOver
<1>4. CASE Answered(c)
  <2>1. Over(c) /\ UNCHANGED dlq /\ reply[c] # "none"
    BY <1>4 DEF Answered, Over, countVars
  <2>2. CASE c \in Handlers /\ Tell(c, reply[c]) /\ UNCHANGED replayVars
    BY <2>1, <2>2 DEF DispatchOver
  <2>3. CASE c \in Replayers /\ Replayed(c) /\ UNCHANGED told
    BY <2>1, <2>3 DEF Replayed, ReplayOver
  <2> QED BY <1>4, <2>2, <2>3 DEF Answered
<1> QED BY <1>1, <1>2, <1>3, <1>4 DEF Caller

LEMMA Split ==
  ASSUME Next
  PROVE  \/ \E c \in Callers : Send(c) \/ Retry(c) \/ DispatchOver(c) \/ ReplayOver(c)
         \/ \E r \in Replayers : DetectOrphans(r) \/ Remediate(r) \/ ReplayOne(r)
         \/ \E m \in wire : Arrive(m)
         \/ RestartTarget
         \/ \E p \in Processes : Recover(p) \/ Restart(p)
         \/ \E h \in Handlers, t \in Tasks : Request(h, t)
BY CallerKinds DEF Next, Deliver, Replayer

-----------------------------------------------------------------------------
(* Type correctness. *)

LEMMA ProcType ==
  ASSUME NEW c \in Callers
  PROVE  Proc(c) \in Processes
BY DEF Proc, Processes

LEMMA HandlerType == Handlers \subseteq Callers /\ Replayers \subseteq Callers
BY DEF Callers

LEMMA CircuitTypes ==
  /\ Closed \in Circuit
  /\ \A s \in Circuit : Failed(s) \in Circuit /\ [s EXCEPT !.gate = "due"] \in Circuit
<1>1. Closed \in Circuit
  BY DispatchAssumption DEF Closed, Circuit, Gates
<1>2. ASSUME NEW s \in Circuit
      PROVE  Failed(s) \in Circuit /\ [s EXCEPT !.gate = "due"] \in Circuit
  <2>1. s.failures \in 0..Threshold /\ s.gate \in Gates
    BY DEF Circuit
  <2>2. CASE s.failures + 1 >= Threshold
    BY <2>1, <2>2, DispatchAssumption DEF Failed, Circuit, Gates
  <2>3. CASE ~(s.failures + 1 >= Threshold)
    <3>1. s.failures + 1 \in 0..Threshold
      BY <2>1, <2>3, DispatchAssumption
    <3> QED BY <2>1, <2>3, <3>1 DEF Failed, Circuit, Gates
  <2> QED BY <2>2, <2>3
<1> QED BY <1>1, <1>2

\* What a success or a failure records.
LEMMA RecordTypes ==
  ASSUME TypeOK, NEW p \in Processes, RecordFailure(p) \/ RecordSuccess(p)
  PROVE  circuit' \in [Processes -> Circuit] /\ through' \in [Callers -> Nat]
<1>1. circuit \in [Processes -> Circuit] /\ through \in [Callers -> Nat] /\ circuit[p] \in Circuit
  BY DEF TypeOK
<1>2. CASE RecordFailure(p)
  BY <1>1, <1>2, CircuitTypes DEF RecordFailure
<1>3. CASE RecordSuccess(p)
  BY <1>1, <1>3, CircuitTypes DEF RecordSuccess, Forget
<1> QED BY <1>2, <1>3

LEMMA FaultType ==
  ASSUME TypeOK, Fault
  PROVE  faults' \in 0..MaxFaults
BY DispatchAssumption DEF Fault, TypeOK

LEMMA SignTypes ==
  ASSUME TypeOK, NEW c \in Callers, NEW t \in Tasks, Sign(c, t)
  PROVE  /\ circuit' \in [Processes -> Circuit] /\ through' \in [Callers -> Nat]
         /\ pc' \in [Callers -> {"idle", "post", "wait"}]
         /\ call' \in [Callers -> Calls \cup {<<>>}]
         /\ left' \in [Callers -> Nat] /\ reply' \in [Callers -> Answers]
         /\ calls' \in [Tasks -> 0..MaxCalls]
         /\ <<t, calls[t] + 1>> \in Calls
         /\ call'[c] = <<t, calls[t] + 1>> /\ pc'[c] = "post"
         /\ \A b \in Callers : b # c => pc'[b] = pc[b] /\ call'[b] = call[b]
<1>1. calls[t] \in 0..MaxCalls /\ calls[t] < MaxCalls /\ calls[t] + 1 \in 1..MaxCalls
  BY DispatchAssumption DEF TypeOK, Sign
<1>2. <<t, calls[t] + 1>> \in Calls
  BY <1>1 DEF Calls
<1>3. Retries[c] \in Nat /\ "none" \in Answers
  BY DispatchAssumption DEF Answers
<1>4. calls' \in [Tasks -> 0..MaxCalls]
  BY <1>1, DispatchAssumption DEF TypeOK, Sign
<1>5. left' \in [Callers -> Nat] /\ reply' \in [Callers -> Answers]
  BY <1>3 DEF TypeOK, Sign
<1>6. /\ pc' \in [Callers -> {"idle", "post", "wait"}] /\ pc'[c] = "post"
      /\ \A b \in Callers : b # c => pc'[b] = pc[b]
  BY DEF TypeOK, Sign
<1>7. /\ call' \in [Callers -> Calls \cup {<<>>}] /\ call'[c] = <<t, calls[t] + 1>>
      /\ \A b \in Callers : b # c => call'[b] = call[b]
  BY <1>2 DEF TypeOK, Sign
<1>8. circuit' \in [Processes -> Circuit] /\ through' \in [Callers -> Nat]
  BY DEF TypeOK, Sign
<1> QED BY <1>2, <1>4, <1>5, <1>6, <1>7, <1>8

LEMMA ReturnTypes ==
  ASSUME TypeOK, NEW c \in Callers, Return(c)
  PROVE  /\ pc' \in [Callers -> {"idle", "post", "wait"}]
         /\ call' \in [Callers -> Calls \cup {<<>>}]
         /\ left' \in [Callers -> Nat] /\ reply' \in [Callers -> Answers]
         /\ pc'[c] = "idle"
         /\ \A b \in Callers : b # c => pc'[b] = pc[b] /\ call'[b] = call[b]
         /\ c \notin Replayers => call' = call
<1>1. pc' \in [Callers -> {"idle", "post", "wait"}] /\ left' \in [Callers -> Nat] /\ pc'[c] = "idle"
      /\ \A b \in Callers : b # c => pc'[b] = pc[b]
  BY DEF TypeOK, Return
<1>2. reply' \in [Callers -> Answers]
  BY DEF TypeOK, Return, Answers
<1>3. /\ call' \in [Callers -> Calls \cup {<<>>}]
      /\ \A b \in Callers : b # c => call'[b] = call[b]
      /\ c \notin Replayers => call' = call
  BY DEF TypeOK, Return
<1> QED BY <1>1, <1>2, <1>3

\* Letters in a sequence of letters.
Among(s) == {s[i] : i \in 1..Len(s)}

LEMMA SequenceFacts ==
  ASSUME NEW S, NEW s \in Seq(S)
  PROVE  /\ Len(s) \in Nat
         /\ \A i \in 1..Len(s) : s[i] \in S
         /\ \A x \in S : Append(s, x) \in Seq(S) /\ Among(Append(s, x)) = Among(s) \cup {x}
         /\ s # <<>> => /\ Tail(s) \in Seq(S) /\ Among(Tail(s)) \subseteq Among(s)
                        /\ Head(s) \in Among(s) /\ Head(s) \in S
                        /\ Among(s) \subseteq Among(Tail(s)) \cup {Head(s)}
<1>1. Len(s) \in Nat /\ \A i \in 1..Len(s) : s[i] \in S
  OBVIOUS
<1>2. ASSUME NEW x \in S
      PROVE  Append(s, x) \in Seq(S) /\ Among(Append(s, x)) = Among(s) \cup {x}
  <2>1. /\ Append(s, x) \in Seq(S) /\ Len(Append(s, x)) = Len(s) + 1
        /\ \A i \in 1..Len(s) : Append(s, x)[i] = s[i]
        /\ Append(s, x)[Len(s) + 1] = x
    BY AppendProperties
  <2>2. 1..Len(Append(s, x)) = (1..Len(s)) \cup {Len(s) + 1}
    BY <1>1, <2>1
  <2> QED BY <2>1, <2>2 DEF Among
<1>3. ASSUME s # <<>>
      PROVE  /\ Tail(s) \in Seq(S) /\ Among(Tail(s)) \subseteq Among(s)
             /\ Head(s) \in Among(s) /\ Head(s) \in S
             /\ Among(s) \subseteq Among(Tail(s)) \cup {Head(s)}
  <2>1. /\ Len(s) >= 1 /\ Head(s) = s[1]
        /\ Tail(s) \in Seq(S) /\ Len(Tail(s)) = Len(s) - 1
        /\ \A i \in 1..Len(Tail(s)) : Tail(s)[i] = s[i + 1]
    BY <1>1, <1>3, HeadTailProperties, EmptySeq
  <2>2. \A i \in 1..Len(Tail(s)) : i + 1 \in 1..Len(s)
    BY <1>1, <2>1
  <2>3. \A i \in 2..Len(s) : i - 1 \in 1..Len(Tail(s)) /\ Tail(s)[i - 1] = s[i]
    BY <1>1, <2>1
  <2>4. 1 \in 1..Len(s) /\ \A i \in 1..Len(s) : i = 1 \/ i \in 2..Len(s)
    BY <1>1, <2>1
  <2> QED BY <1>1, <2>1, <2>2, <2>3, <2>4 DEF Among
<1> QED BY <1>1, <1>2, <1>3

\* The tail of the ledger holds letters of the ledger.
LEMMA PendingLetters ==
  ASSUME TypeOK
  PROVE  Pending \in Seq(Letter) /\ Among(Pending) \subseteq Among(dlq)
<1>1. dlq \in Seq(Letter) /\ Len(dlq) \in Nat /\ \A i \in 1..Len(dlq) : dlq[i] \in Letter
  BY DEF TypeOK
<1>2. First \in 1..(Len(dlq) + 1)
  BY <1>1, DispatchAssumption DEF First
<1>3. \A i \in First..Len(dlq) : dlq[i] \in Letter
  BY <1>1, <1>2
<1>4. /\ SubSeq(dlq, First, Len(dlq)) \in Seq(Letter)
      /\ Len(SubSeq(dlq, First, Len(dlq))) =
            IF First <= Len(dlq) THEN Len(dlq) - First + 1 ELSE 0
      /\ \A i \in 1..(Len(dlq) - First + 1) : SubSeq(dlq, First, Len(dlq))[i] = dlq[First + i - 1]
  BY <1>1, <1>2, <1>3, SubSeqProperties
<1>5. \A i \in 1..Len(Pending) : i \in 1..(Len(dlq) - First + 1) /\ First + i - 1 \in 1..Len(dlq)
  BY <1>1, <1>2, <1>4 DEF Pending
<1> QED BY <1>4, <1>5 DEF Pending, Among

\* A letter is done with.
LEMMA MarkTypes ==
  ASSUME TypeOK, NEW r \in Replayers, batch[r] # <<>>,
         NEW status \in {"replayed", "replay_failed", "skipped"}, MarkReplayed(r, status)
  PROVE  /\ archive' \subseteq Ids \X {"replayed", "replay_failed", "skipped"}
         /\ batch' \in [Replayers -> Seq(Letter)]
         /\ batch'[r] = Tail(batch[r])
         /\ \A q \in Replayers : q # r => batch'[q] = batch[q]
         /\ Head(batch[r]) \in Among(batch[r]) /\ Head(batch[r]) \in Letter
         /\ Head(batch[r]).id \in Ids
         /\ Among(Tail(batch[r])) \subseteq Among(batch[r])
<1>1. batch[r] \in Seq(Letter)
  BY DEF TypeOK
<1>2. /\ Tail(batch[r]) \in Seq(Letter) /\ Head(batch[r]) \in Among(batch[r])
      /\ Head(batch[r]) \in Letter /\ Among(Tail(batch[r])) \subseteq Among(batch[r])
  BY <1>1, SequenceFacts
<1>3. Head(batch[r]).id \in Ids
  BY <1>2 DEF Letter
<1>4. archive' \subseteq Ids \X {"replayed", "replay_failed", "skipped"}
  BY <1>3 DEF TypeOK, MarkReplayed
<1>5. /\ batch' \in [Replayers -> Seq(Letter)] /\ batch'[r] = Tail(batch[r])
      /\ \A q \in Replayers : q # r => batch'[q] = batch[q]
  BY <1>2 DEF TypeOK, MarkReplayed
<1> QED BY <1>2, <1>3, <1>4, <1>5

LEMMA RingTypes ==
  ASSUME TypeOK, NEW k \in Calls, Keep(k)
  PROVE  ring' \in Seq(Calls) /\ forgotten' \in [Calls -> Nat]
<1>1. ring \in Seq(Calls) /\ forgotten \in [Calls -> Nat]
  BY DEF TypeOK
<1>2. CASE ring' = Append(ring, k) /\ UNCHANGED forgotten
  BY <1>1, <1>2
<1>3. CASE /\ Len(ring) = RingSize /\ ring' = Append(Tail(ring), k)
           /\ ForgetNonces({Head(ring)})
  <2>1. ring # <<>>
    BY <1>1, <1>3, DispatchAssumption
  <2>2. Tail(ring) \in Seq(Calls)
    BY <1>1, <2>1, SequenceFacts
  <2> QED BY <1>1, <1>3, <2>2 DEF ForgetNonces
<1> QED BY <1>2, <1>3 DEF Keep

LEMMA TypedInit == Init => TypeOK
<1> SUFFICES ASSUME Init PROVE TypeOK
  OBVIOUS
<1>1. asked \in 0..MaxAsked /\ req \in [Handlers -> 0..MaxAsked] /\ faults \in 0..MaxFaults
  BY DispatchAssumption DEF Init
<1>2. circuit \in [Processes -> Circuit] /\ restarts \in Nat
  BY CircuitTypes DEF Init
<1>3. /\ pc \in [Callers -> {"idle", "post", "wait"}]
      /\ \A c \in Callers : pc[c] = "idle"
      /\ call \in [Callers -> Calls \cup {<<>>}]
      /\ left \in [Callers -> Nat] /\ through \in [Callers -> Nat]
      /\ reply \in [Callers -> Answers] /\ told \in [Handlers -> Told]
  BY DEF Init, Answers, Told
<1>4. calls \in [Tasks -> 0..MaxCalls] /\ runs \in [Calls -> Nat] /\ wire \subseteq Post
  BY DispatchAssumption DEF Init
<1>5. /\ ring \in Seq(Calls) /\ dlq \in Seq(Letter) /\ archive = {}
      /\ orphans \in [Replayers -> SUBSET Ids] /\ store \subseteq Ids
      /\ forgotten \in [Calls -> Nat]
  BY DEF Init
<1>6. batch \in [Replayers -> Seq(Letter)]
  BY DEF Init
<1>7. accepted \in [Replayers -> [Ids -> Nat]]
  BY DEF Init
<1> QED BY <1>1, <1>2, <1>3, <1>4, <1>5, <1>6, <1>7, HandlerType DEF TypeOK

\* The conjuncts of TypeOK that say what a caller at work holds.
AtWork ==
    /\ \A h \in Handlers : pc[h] # "idle" => req[h] \in Ids
    /\ \A r \in Replayers : pc[r] # "idle" => batch[r] # <<>>
    /\ \A c \in Callers : pc[c] # "idle" => call[c] \in Calls

LEMMA TypedStep == TypeOK /\ [Next]_vars => TypeOK'
<1> SUFFICES ASSUME TypeOK, [Next]_vars
             PROVE  TypeOK'
  OBVIOUS
<1> USE HandlerType
<1>1. ASSUME NEW c \in Callers, Send(c)
      PROVE  TypeOK'
  <2>1. call[c] \in Calls /\ left[c] \in Nat
    BY <1>1 DEF Send, TypeOK
  <2>2. wire' \subseteq Post
    BY <1>1, <2>1 DEF Send, TypeOK, Post
  <2>3. through' \in [Callers -> Nat]
    BY <1>1 DEF Send, TypeOK
  <2>4. /\ pc' \in [Callers -> {"idle", "post", "wait"}]
        /\ \A b \in Callers : pc'[b] # "idle" => pc[b] # "idle"
    BY <1>1 DEF Send, TypeOK
  <2> QED BY <1>1, <2>2, <2>3, <2>4
          DEF Send, TypeOK, countVars, targetVars, replayVars
<1>2. ASSUME NEW c \in Callers, Retry(c)
      PROVE  TypeOK'
  <2>1. circuit' \in [Processes -> Circuit] /\ through' \in [Callers -> Nat]
    BY <1>2, ProcType, RecordTypes DEF Retry
  <2>2. faults' \in 0..MaxFaults
    BY <1>2, FaultType DEF Retry
  <2>3. left' \in [Callers -> Nat]
    BY <1>2 DEF Retry, TypeOK
  <2>4. /\ pc' \in [Callers -> {"idle", "post", "wait"}]
        /\ \A b \in Callers : pc'[b] # "idle" => pc[b] # "idle"
    BY <1>2 DEF Retry, TypeOK
  <2>5. reply' \in [Callers -> Answers]
    BY <1>2 DEF Retry, TypeOK, Answers
  <2> QED BY <1>2, <2>1, <2>2, <2>3, <2>4, <2>5 DEF Retry, TypeOK, targetVars, replayVars
<1>3. ASSUME NEW c \in Callers, Over(c)
      PROVE  /\ circuit' \in [Processes -> Circuit] /\ through' \in [Callers -> Nat]
             /\ faults' \in 0..MaxFaults
             /\ \A b \in Callers : pc'[b] # "idle" => b # c /\ pc[b] # "idle" /\ call'[b] = call[b]
  <2>1. circuit' \in [Processes -> Circuit] /\ through' \in [Callers -> Nat]
    BY <1>3, ProcType, RecordTypes DEF Over
  <2>2. faults' \in 0..MaxFaults
    BY <1>3, FaultType DEF Over, TypeOK
  <2> QED BY <1>3, <2>1, <2>2, ReturnTypes DEF Over
<1>4. ASSUME NEW c \in Callers, DispatchOver(c)
      PROVE  TypeOK'
  <2>1. Over(c) /\ c \in Handlers
    BY <1>4 DEF DispatchOver
  <2>2. told' \in [Handlers -> Told]
    BY <1>4, <2>1 DEF DispatchOver, Tell, TypeOK, Told, Answers
  <2>3. dlq' \in Seq(Letter)
    <3>1. req[c] \in Ids /\ call[c] \in Calls
      BY <2>1 DEF Over, TypeOK
    <3>2. [id |-> req[c], task |-> call[c][1]] \in Letter
      BY <3>1 DEF Letter, Calls
    <3>3. dlq \in Seq(Letter)
      BY DEF TypeOK
    <3> QED BY <1>4, <3>2, <3>3, SequenceFacts DEF DispatchOver, EnqueueFailure
  <2>4. AtWork'
    BY <1>3, <1>4, <2>1 DEF DispatchOver, Over, AtWork, TypeOK, replayVars
  <2> QED BY <1>3, <1>4, <2>1, <2>2, <2>3, <2>4, ReturnTypes
          DEF DispatchOver, Over, TypeOK, AtWork, targetVars, replayVars
<1>5. ASSUME NEW c \in Callers, ReplayOver(c)
      PROVE  TypeOK'
  <2>1. Over(c) /\ c \in Replayers /\ batch[c] # <<>>
    BY <1>5 DEF ReplayOver, Over, TypeOK
  <2>2. /\ archive' \subseteq Ids \X {"replayed", "replay_failed", "skipped"}
        /\ batch' \in [Replayers -> Seq(Letter)]
        /\ \A q \in Replayers : q # c => batch'[q] = batch[q]
        /\ Head(batch[c]).id \in Ids
    BY <1>5, <2>1, MarkTypes DEF ReplayOver
  <2>3. store' \subseteq Ids
    BY <1>5, <2>2 DEF ReplayOver, TypeOK
  <2>4. accepted' \in [Replayers -> [Ids -> Nat]]
    <3>1. accepted \in [Replayers -> [Ids -> Nat]]
      BY DEF TypeOK
    <3>2. [accepted EXCEPT ![c][Head(batch[c]).id] = @ + 1] \in [Replayers -> [Ids -> Nat]]
      BY <2>1, <2>2, <3>1
    <3> QED BY <1>5, <3>1, <3>2 DEF ReplayOver
  <2>5. AtWork'
    BY <1>3, <2>1, <2>2 DEF Over, AtWork, TypeOK
  <2> QED BY <1>3, <1>5, <2>1, <2>2, <2>3, <2>4, <2>5, ReturnTypes
          DEF ReplayOver, Over, TypeOK, AtWork, targetVars
<1>6. ASSUME NEW r \in Replayers, DetectOrphans(r)
      PROVE  TypeOK'
  <2>1. orphans' \in [Replayers -> SUBSET Ids]
    <3>1. PICK n \in 1..Len(dlq) :
              orphans' = [orphans EXCEPT ![r] = {l \in {dlq[i].id : i \in 1..n} : ~Archived(l)}]
      BY <1>6 DEF DetectOrphans
    <3>2. \A i \in 1..n : dlq[i].id \in Ids
      <4>1. \A i \in 1..n : dlq[i] \in Letter
        BY DEF TypeOK
      <4> QED BY <4>1 DEF Letter
    <3> QED BY <3>1, <3>2 DEF TypeOK
  <2> QED BY <1>6, <2>1 DEF DetectOrphans, TypeOK, countVars, callVars, targetVars
<1>7. ASSUME NEW r \in Replayers, Remediate(r)
      PROVE  TypeOK'
  <2>1. /\ batch' \in [Replayers -> Seq(Letter)]
        /\ \A q \in Replayers : batch[q] # <<>> => batch'[q] # <<>>
    BY <1>7, PendingLetters DEF Remediate, TypeOK
  <2>2. orphans' \in [Replayers -> SUBSET Ids]
    BY <1>7 DEF Remediate, TypeOK
  <2> QED BY <1>7, <2>1, <2>2 DEF Remediate, TypeOK, countVars, callVars, targetVars
<1>8. ASSUME NEW r \in Replayers, ReplayOne(r)
      PROVE  TypeOK'
  <2>1. /\ pc[r] = "idle" /\ batch[r] # <<>> /\ batch[r] \in Seq(Letter)
        /\ Tail(batch[r]) \in Seq(Letter) /\ Head(batch[r]) \in Letter
        /\ UNCHANGED <<countVars, told, wire, targetVars, dlq, orphans, store, accepted>>
    BY <1>8, SequenceFacts DEF ReplayOne, TypeOK
  <2>2. CASE /\ UNCHANGED callVars
             /\ archive' \subseteq Ids \X {"replayed", "replay_failed", "skipped"}
             /\ batch' \in [Replayers -> Seq(Letter)]
             /\ \A q \in Replayers : q # r => batch'[q] = batch[q]
    BY <2>1, <2>2 DEF TypeOK, countVars, callVars, targetVars
  <2>3. CASE batch' = [batch EXCEPT ![r] = Tail(@)] /\ UNCHANGED <<callVars, archive>>
    BY <2>1, <2>2, <2>3 DEF TypeOK
  <2>4. CASE UNCHANGED callVars /\ \E status \in {"skipped", "replay_failed"} : MarkReplayed(r, status)
    BY <2>1, <2>2, <2>4, MarkTypes
  <2>5. CASE Sign(r, Head(batch[r]).task) /\ UNCHANGED <<archive, batch>>
    <3>1. Head(batch[r]).task \in Tasks
      BY <2>1 DEF Letter
    <3>2. AtWork'
      BY <2>1, <2>5, <3>1, SignTypes, DispatchAssumption DEF AtWork, TypeOK, countVars
    <3> QED BY <2>1, <2>5, <3>1, <3>2, SignTypes DEF TypeOK, AtWork, countVars, targetVars
  <2> QED BY <1>8, <2>3, <2>4, <2>5 DEF ReplayOne
<1>9. ASSUME NEW m \in wire, Arrive(m)
      PROVE  TypeOK'
  <2>1. m \in Post /\ m.call \in Calls /\ m.by \in Callers /\ wire' \subseteq Post
    BY <1>9 DEF Arrive, TypeOK, Post
  <2>2. PICK answer \in {"ok", "error"} :
          /\ \/ Remembers(m.call) /\ answer = "error" /\ UNCHANGED targetVars
             \/ /\ ~Remembers(m.call)
                /\ Keep(m.call)
                /\ runs' = [runs EXCEPT ![m.call] = IF answer = "ok" THEN @ + 1 ELSE @]
          /\ reply' = [reply EXCEPT ![m.by] =
                IF pc[m.by] = "wait" /\ call[m.by] = m.call /\ left[m.by] = m.left
                THEN answer ELSE @]
    BY <1>9 DEF Arrive
  <2>3. /\ ring' \in Seq(Calls) /\ forgotten' \in [Calls -> Nat]
        /\ runs' \in [Calls -> Nat]
    <3>1. CASE UNCHANGED targetVars
      BY <3>1 DEF TypeOK, targetVars
    <3>2. CASE /\ Keep(m.call)
               /\ runs' = [runs EXCEPT ![m.call] = IF answer = "ok" THEN @ + 1 ELSE @]
      <4>1. runs \in [Calls -> Nat]
        BY DEF TypeOK
      <4>2. runs' \in [Calls -> Nat]
        BY <2>1, <3>2, <4>1
      <4> QED BY <2>1, <3>2, <4>2, RingTypes
    <3> QED BY <2>2, <3>1, <3>2
  <2>4. reply' \in [Callers -> Answers]
    <3>1. answer \in Answers
      BY DEF Answers
    <3> QED BY <2>1, <2>2, <3>1 DEF TypeOK
  <2> QED BY <1>9, <2>1, <2>3, <2>4 DEF Arrive, TypeOK, countVars, replayVars
<1>10. CASE RestartTarget
  <2>1. ring' \in Seq(Calls) /\ forgotten' \in [Calls -> Nat]
    BY <1>10 DEF RestartTarget, ForgetNonces, TypeOK
  <2>2. faults' \in 0..MaxFaults
    BY <1>10, FaultType DEF RestartTarget
  <2> QED BY <1>10, <2>1, <2>2 DEF RestartTarget, TypeOK, callVars, replayVars
<1>11. ASSUME NEW p \in Processes, Recover(p)
       PROVE  TypeOK'
  <2>1. through' \in [Callers -> Nat]
    BY <1>11 DEF Recover, Forget, TypeOK
  <2>2. circuit' \in [Processes -> Circuit]
    <3>1. circuit \in [Processes -> Circuit] /\ circuit[p] \in Circuit
      BY DEF TypeOK
    <3>2. circuit' = [circuit EXCEPT ![p] = [circuit[p] EXCEPT !.gate = "due"]]
      BY <1>11, <3>1 DEF Recover
    <3> QED BY <3>1, <3>2, CircuitTypes
  <2> QED BY <1>11, <2>1, <2>2 DEF Recover, TypeOK, countVars, targetVars, replayVars
<1>12. ASSUME NEW p \in Processes, Restart(p)
       PROVE  TypeOK'
  <2>1. circuit' \in [Processes -> Circuit] /\ through' \in [Callers -> Nat]
    BY <1>12, RecordTypes DEF Restart
  <2>2. faults' \in 0..MaxFaults
    BY <1>12, FaultType DEF Restart
  <2>3. /\ pc' \in [Callers -> {"idle", "post", "wait"}] /\ left' \in [Callers -> Nat]
        /\ \A c \in Callers : pc'[c] # "idle" => pc[c] # "idle" /\ Proc(c) # p
    BY <1>12 DEF Restart, TypeOK
  <2>4. reply' \in [Callers -> Answers] /\ told' \in [Handlers -> Told]
    BY <1>12 DEF Restart, TypeOK, Answers, Told
  <2>5. orphans' \in [Replayers -> SUBSET Ids] /\ store' \subseteq Ids /\ restarts' \in Nat
    <3>1. CASE UNCHANGED <<orphans, batch, store, restarts>>
      BY <3>1 DEF TypeOK
    <3>2. CASE orphans' = [r \in Replayers |-> {}] /\ store' = {} /\ restarts' = restarts + 1
      BY <3>2 DEF TypeOK
    <3> QED BY <1>12, <3>1, <3>2 DEF Restart
  <2>6. batch' \in [Replayers -> Seq(Letter)]
    <3>1. CASE UNCHANGED batch
      BY <3>1 DEF TypeOK
    <3>2. CASE batch' = [r \in Replayers |-> <<>>]
      BY <3>2
    <3> QED BY <1>12, <3>1, <3>2 DEF Restart
  <2>7. \A r \in Replayers : pc'[r] # "idle" => batch'[r] # <<>>
    BY <1>12, <2>3, DispatchAssumption DEF Restart, TypeOK, Proc
  <2> QED BY <1>12, <2>1, <2>2, <2>3, <2>4, <2>5, <2>6, <2>7 DEF Restart, TypeOK, targetVars
<1>13. ASSUME NEW h \in Handlers, NEW t \in Tasks, Request(h, t)
       PROVE  TypeOK'
  <2>1. /\ asked' \in 0..MaxAsked /\ asked + 1 \in Ids
        /\ req' \in [Handlers -> 0..MaxAsked] /\ req'[h] = asked + 1
        /\ \A g \in Handlers : g # h => req'[g] = req[g]
    BY <1>13, DispatchAssumption DEF Request, TypeOK, Ids
  <2>2. pc[h] = "idle" /\ UNCHANGED <<wire, targetVars, replayVars, faults, restarts>>
    BY <1>13 DEF Request
  <2>3. told' \in [Handlers -> Told]
    BY <1>13 DEF Request, Tell, TypeOK, Told, Answers
  <2>4. CASE UNCHANGED callVars /\ dlq' \in Seq(Letter)
    <3>1. AtWork'
      BY <2>1, <2>2, <2>4 DEF AtWork, TypeOK, callVars, replayVars
    <3> QED BY <2>1, <2>2, <2>3, <2>4, <3>1 DEF TypeOK, AtWork, callVars, targetVars, replayVars
  <2>5. CASE UNCHANGED callVars /\ (UNCHANGED dlq \/ EnqueueFailure(asked + 1, t))
    <3>1. [id |-> asked + 1, task |-> t] \in Letter /\ dlq \in Seq(Letter)
      BY <2>1 DEF Letter, TypeOK
    <3> QED BY <2>4, <2>5, <3>1, SequenceFacts DEF EnqueueFailure
  <2>6. CASE Sign(h, t) /\ UNCHANGED dlq
    <3>0. /\ pc'[h] = "post" /\ call'[h] \in Calls
          /\ \A b \in Callers : b # h => pc'[b] = pc[b] /\ call'[b] = call[b]
      BY <2>6, SignTypes
    <3>1. AtWork'
      <4>1. \A g \in Handlers : pc'[g] # "idle" => req'[g] \in Ids
        BY <2>1, <3>0 DEF TypeOK
      <4>2. \A r \in Replayers : pc'[r] # "idle" => batch'[r] # <<>>
        BY <2>2, <3>0, DispatchAssumption DEF TypeOK, replayVars
      <4>3. \A c \in Callers : pc'[c] # "idle" => call'[c] \in Calls
        BY <3>0 DEF TypeOK
      <4> QED BY <4>1, <4>2, <4>3 DEF AtWork
    <3> QED BY <2>1, <2>2, <2>3, <2>6, <3>1, SignTypes DEF TypeOK, AtWork, targetVars, replayVars
  <2> QED BY <1>13, <2>5, <2>6 DEF Request
<1>14. CASE UNCHANGED vars
  BY <1>14 DEF vars, TypeOK, countVars, callVars, targetVars, replayVars
<1> QED BY <1>1, <1>2, <1>4, <1>5, <1>6, <1>7, <1>8, <1>9, <1>10, <1>11, <1>12, <1>13, <1>14, Split

\* The variables keep their types, whatever is lost, late or restarted.
THEOREM TypeCorrect == Spec => []TypeOK
BY TypedInit, TypedStep, PTL DEF Spec

-----------------------------------------------------------------------------
(***************************************************************************)
(* Runs of a request.  A post is let in only while its nonce is not in the *)
(* ring, and a nonce leaves the ring only by being forgotten: the runs of  *)
(* a request are its forgettings, and one if the ring still holds it.      *)
(***************************************************************************)

Held(k) == IF k \in Among(ring) THEN 1 ELSE 0

Kept == \A k \in Calls : runs[k] <= forgotten[k] + Held(k)

LEMMA KeptInit == Init => Kept
BY DEF Init, Kept, Held

\* What is in the ring stays there or is forgotten once more.
LEMMA KeepKeeps ==
  ASSUME TypeOK, NEW k \in Calls, Keep(k)
  PROVE  /\ Held(k)' = 1
         /\ \A c \in Calls : forgotten'[c] \in Nat /\ forgotten[c] <= forgotten'[c]
         /\ \A c \in Calls : forgotten[c] + Held(c) <= forgotten'[c] + Held(c)'
<1>1. ring \in Seq(Calls) /\ forgotten \in [Calls -> Nat]
  BY DEF TypeOK
<1>2. CASE ring' = Append(ring, k) /\ UNCHANGED forgotten
  <2>1. Among(ring') = Among(ring) \cup {k}
    BY <1>1, <1>2, SequenceFacts
  <2> QED BY <1>1, <1>2, <2>1 DEF Held, Among
<1>3. CASE /\ Len(ring) = RingSize /\ ring' = Append(Tail(ring), k)
           /\ ForgetNonces({Head(ring)})
  <2>1. ring # <<>>
    BY <1>1, <1>3, DispatchAssumption
  <2>2. Tail(ring) \in Seq(Calls) /\ Among(ring) \subseteq Among(Tail(ring)) \cup {Head(ring)}
    BY <1>1, <2>1, SequenceFacts
  <2>3. Among(ring') = Among(Tail(ring)) \cup {k}
    BY <1>3, <2>2, SequenceFacts
  <2>4. \A c \in Calls : forgotten'[c] = IF c = Head(ring) THEN forgotten[c] + 1 ELSE forgotten[c]
    BY <1>3 DEF ForgetNonces
  <2>5. \A c \in Calls : c # Head(ring) /\ c \in Among(ring) => c \in Among(ring')
    BY <2>2, <2>3
  <2>6. Among(ring)' = Among(ring')
    BY DEF Among
  <2> QED BY <1>1, <2>3, <2>4, <2>5, <2>6 DEF Held
<1> QED BY <1>2, <1>3 DEF Keep

LEMMA KeptStep == TypeOK /\ Kept /\ [Next]_vars => Kept'
<1> SUFFICES ASSUME TypeOK, Kept, [Next]_vars
             PROVE  Kept'
  OBVIOUS
<1>1. CASE UNCHANGED targetVars
  BY <1>1 DEF targetVars, Kept, Held, Among
<1>2. ASSUME NEW m \in wire, Arrive(m)
      PROVE  Kept'
  <2>1. /\ m.call \in Calls
        /\ runs \in [Calls -> Nat] /\ forgotten \in [Calls -> Nat]
    BY DEF TypeOK, Post
  <2>2. CASE UNCHANGED targetVars
    BY <1>1, <2>2
  <2>3. CASE /\ ~Remembers(m.call) /\ Keep(m.call)
             /\ \E answer \in {"ok", "error"} :
                   runs' = [runs EXCEPT ![m.call] = IF answer = "ok" THEN @ + 1 ELSE @]
    <3>1. Held(m.call) = 0
      BY <2>3 DEF Remembers, Held, Among
    <3>2. /\ runs'[m.call] \in {runs[m.call], runs[m.call] + 1}
          /\ \A k \in Calls : k # m.call => runs'[k] = runs[k]
      BY <2>1, <2>3
    <3> SUFFICES ASSUME NEW k \in Calls
                 PROVE  runs'[k] <= forgotten'[k] + Held(k)'
      BY DEF Kept, Held
    <3>3. /\ runs[k] <= forgotten[k] + Held(k)
          /\ Held(k) \in {0, 1} /\ Held(k)' \in {0, 1}
      BY DEF Kept, Held
    <3>4. CASE k = m.call
      BY <2>1, <2>3, <3>1, <3>2, <3>3, <3>4, KeepKeeps
    <3>5. CASE k # m.call
      BY <2>1, <2>3, <3>2, <3>3, <3>5, KeepKeeps
    <3> QED BY <3>4, <3>5
  <2> QED BY <1>2, <2>2, <2>3 DEF Arrive
<1>3. CASE RestartTarget
  <2> SUFFICES ASSUME NEW k \in Calls
               PROVE  runs'[k] <= forgotten'[k] + Held(k)'
    BY DEF Kept, Held
  <2>1. forgotten'[k] = forgotten[k] + Held(k) /\ runs'[k] = runs[k]
    BY <1>3 DEF RestartTarget, ForgetNonces, Held, Among, TypeOK
  <2>2. Held(k)' \in {0, 1} /\ Held(k) \in {0, 1}
    BY DEF Held
  <2>3. runs[k] \in Nat /\ forgotten[k] \in Nat /\ runs[k] <= forgotten[k] + Held(k)
    BY DEF TypeOK, Kept
  <2> QED BY <2>1, <2>2, <2>3
<1>4. [Next]_vars => \/ UNCHANGED targetVars
                     \/ \E m \in wire : Arrive(m)
                     \/ RestartTarget
  <2>1. CASE UNCHANGED vars
    BY <2>1 DEF vars
  <2>2. CASE Next
    BY <2>2, Split DEF Send, Retry, DispatchOver, ReplayOver, Over, DetectOrphans, Remediate,
                       ReplayOne, Recover, Restart, Request
  <2> QED BY <2>1, <2>2
<1> QED BY <1>1, <1>2, <1>3, <1>4

\* For every number of callers, retries, replays and late posts the target runs
\* a signed request once, and once more for each time it forgot the nonce
\* (NonceStore.seen).
THEOREM Runs == Spec => []RunsPaid
<1>1. Init => TypeOK /\ Kept
  BY TypedInit, KeptInit
<1>2. TypeOK /\ Kept /\ [Next]_vars => TypeOK' /\ Kept'
  BY TypedStep, KeptStep
<1>3. TypeOK /\ Kept => RunsPaid
  <2> SUFFICES ASSUME TypeOK, Kept, NEW k \in Calls
               PROVE  runs[k] <= 1 + forgotten[k]
    BY DEF RunsPaid
  <2>1. runs[k] \in Nat /\ forgotten[k] \in Nat
    BY DEF TypeOK
  <2>2. runs[k] <= forgotten[k] + Held(k) /\ Held(k) \in {0, 1}
    BY DEF Kept, Held
  <2> QED BY <2>1, <2>2
<1> QED BY <1>1, <1>2, <1>3, PTL DEF Spec

-----------------------------------------------------------------------------
(***************************************************************************)
(* Through an open circuit.  A call begins while the circuit is not open,  *)
(* when nothing is counted; each later post takes one of its retries.      *)
(***************************************************************************)

Counted ==
    \A c \in Callers :
        /\ circuit[Proc(c)].gate # "open" => through[c] = 0
        /\ through[c] <= Retries[c] + 1
        /\ left[c] <= Retries[c]
        /\ pc[c] = "post" => through[c] + left[c] <= Retries[c]
        /\ pc[c] = "wait" => through[c] + left[c] <= Retries[c] + 1

LEMMA CountedInit == Init => Counted
BY DispatchAssumption, ProcType DEF Init, Counted, Closed

\* A failure closes no circuit, and a success forgets what went through.
LEMMA RecordCounts ==
  ASSUME TypeOK, Counted, NEW p \in Processes, RecordFailure(p) \/ RecordSuccess(p)
  PROVE  \A c \in Callers :
            /\ circuit'[Proc(c)].gate # "open" => through'[c] = 0
            /\ through'[c] <= through[c] /\ through'[c] \in Nat
<1> SUFFICES ASSUME NEW c \in Callers
             PROVE  /\ circuit'[Proc(c)].gate # "open" => through'[c] = 0
                    /\ through'[c] <= through[c] /\ through'[c] \in Nat
  OBVIOUS
<1>0. /\ circuit \in [Processes -> Circuit] /\ through[c] \in Nat /\ Proc(c) \in Processes
      /\ circuit[p] \in Circuit
      /\ circuit[Proc(c)].gate # "open" => through[c] = 0
  BY ProcType DEF TypeOK, Counted
<1>1. CASE RecordFailure(p)
  <2>1. Failed(circuit[p]).gate \in {"open", circuit[p].gate}
    BY <1>0 DEF Failed, Circuit
  <2>2. through'[c] = through[c] /\ circuit' = [circuit EXCEPT ![p] = Failed(@)]
    BY <1>1 DEF RecordFailure
  <2> QED BY <1>0, <2>1, <2>2
<1>2. CASE RecordSuccess(p)
  <2>1. through'[c] = (IF Proc(c) = p THEN 0 ELSE through[c])
        /\ circuit' = [circuit EXCEPT ![p] = Closed]
    BY <1>2 DEF RecordSuccess, Forget
  <2> QED BY <1>0, <2>1
<1> QED BY <1>1, <1>2

\* A call that is signed has all its retries, and nothing went through yet.
LEMMA SignCounts ==
  ASSUME TypeOK, Counted, NEW c \in Callers, NEW t, CanCall(Proc(c)), Sign(c, t)
  PROVE  Counted'
<1>1. through[c] = 0 /\ Retries[c] \in Nat
  BY DispatchAssumption DEF Counted, CanCall
<1>2. UNCHANGED <<circuit, through>>
      /\ left' = [left EXCEPT ![c] = Retries[c]] /\ pc' = [pc EXCEPT ![c] = "post"]
  BY DEF Sign
<1> QED BY <1>1, <1>2, ProcType DEF Counted, TypeOK

LEMMA CountedStep == TypeOK /\ Counted /\ [Next]_vars => Counted'
<1> SUFFICES ASSUME TypeOK, Counted, [Next]_vars
             PROVE  Counted'
  OBVIOUS
<1>0. /\ \A c \in Callers : through[c] \in Nat /\ left[c] \in Nat /\ Retries[c] \in Nat
      /\ Handlers \subseteq Callers /\ Replayers \subseteq Callers
  BY DispatchAssumption, HandlerType DEF TypeOK
<1>1. CASE UNCHANGED <<circuit, through, left, pc>>
  BY <1>1 DEF Counted
<1>2. ASSUME NEW c \in Callers, Send(c)
      PROVE  Counted'
  <2>1. /\ UNCHANGED <<circuit, left>> /\ pc[c] = "post" /\ pc' = [pc EXCEPT ![c] = "wait"]
        /\ through' = [through EXCEPT ![c] = IF circuit[Proc(c)].gate = "open" THEN @ + 1 ELSE @]
    BY <1>2 DEF Send
  <2> SUFFICES ASSUME NEW b \in Callers
               PROVE  /\ circuit'[Proc(b)].gate # "open" => through'[b] = 0
                      /\ through'[b] <= Retries[b] + 1
                      /\ left'[b] <= Retries[b]
                      /\ pc'[b] = "post" => through'[b] + left'[b] <= Retries[b]
                      /\ pc'[b] = "wait" => through'[b] + left'[b] <= Retries[b] + 1
    BY DEF Counted
  <2>2. CASE b # c
    <3>1. through'[b] = through[b] /\ pc'[b] = pc[b]
      BY <2>1, <2>2 DEF TypeOK
    <3> QED BY <2>1, <3>1 DEF Counted
  <2>3. CASE b = c
    <3>1. /\ through'[b] = IF circuit[Proc(b)].gate = "open" THEN through[b] + 1 ELSE through[b]
          /\ pc'[b] = "wait"
      BY <2>1, <2>3 DEF TypeOK
    <3>2. /\ circuit[Proc(b)].gate # "open" => through[b] = 0
          /\ through[b] + left[b] <= Retries[b] /\ left[b] <= Retries[b]
      BY <2>1, <2>3 DEF Counted
    <3> QED BY <1>0, <2>1, <3>1, <3>2
  <2> QED BY <2>2, <2>3
<1>3. ASSUME NEW c \in Callers, Retry(c)
      PROVE  Counted'
  <2>1. /\ left[c] > 0 /\ left' = [left EXCEPT ![c] = @ - 1]
        /\ pc' = [pc EXCEPT ![c] = "post"] /\ pc[c] \in {"post", "wait"}
    BY <1>3 DEF Retry, TypeOK
  <2>2. \A b \in Callers :
            /\ circuit'[Proc(b)].gate # "open" => through'[b] = 0
            /\ through'[b] <= through[b] /\ through'[b] \in Nat
    BY <1>3, ProcType, RecordCounts DEF Retry
  <2>3. \A b \in Callers : b # c => pc'[b] = pc[b] /\ left'[b] = left[b]
    BY <2>1 DEF TypeOK
  <2>4. pc'[c] = "post" /\ left'[c] = left[c] - 1
    BY <2>1 DEF TypeOK
  <2>5. \A b \in Callers :
            /\ through'[b] <= Retries[b] + 1
            /\ left'[b] <= Retries[b]
            /\ pc'[b] = "post" => through'[b] + left'[b] <= Retries[b]
            /\ pc'[b] = "wait" => through'[b] + left'[b] <= Retries[b] + 1
    BY <1>0, <2>1, <2>2, <2>3, <2>4 DEF Counted
  <2> QED BY <2>2, <2>5 DEF Counted
<1>4. ASSUME NEW c \in Callers, Over(c)
      PROVE  Counted'
  <2>1. \A b \in Callers :
            /\ circuit'[Proc(b)].gate # "open" => through'[b] = 0
            /\ through'[b] <= through[b] /\ through'[b] \in Nat
    BY <1>4, ProcType, RecordCounts DEF Over
  <2>2. /\ pc'[c] = "idle" /\ left'[c] = 0
        /\ \A b \in Callers : b # c => pc'[b] = pc[b] /\ left'[b] = left[b]
    BY <1>4 DEF Over, Return, TypeOK
  <2>3. \A b \in Callers :
            /\ through'[b] <= Retries[b] + 1
            /\ left'[b] <= Retries[b]
            /\ pc'[b] = "post" => through'[b] + left'[b] <= Retries[b]
            /\ pc'[b] = "wait" => through'[b] + left'[b] <= Retries[b] + 1
    BY <1>0, <2>1, <2>2 DEF Counted
  <2> QED BY <2>1, <2>3 DEF Counted
<1>5. ASSUME NEW r \in Replayers, ReplayOne(r)
      PROVE  Counted'
  <2>1. Proc(r) = "entropy"
    BY DispatchAssumption DEF Proc
  <2>2. CASE UNCHANGED callVars
    BY <1>1, <2>2 DEF callVars
  <2>3. CASE CanCall("entropy") /\ Sign(r, Head(batch[r]).task)
    BY <1>0, <2>1, <2>3, SignCounts
  <2> QED BY <1>5, <2>2, <2>3 DEF ReplayOne
<1>6. ASSUME NEW h \in Handlers, NEW t \in Tasks, Request(h, t)
      PROVE  Counted'
  <2>1. Proc(h) = "gateway"
    BY DEF Proc
  <2>2. CASE UNCHANGED callVars
    BY <1>1, <2>2 DEF callVars
  <2>3. CASE CanCall("gateway") /\ Sign(h, t)
    BY <1>0, <2>1, <2>3, SignCounts
  <2> QED BY <1>6, <2>2, <2>3 DEF Request
<1>7. ASSUME NEW p \in Processes, Recover(p)
      PROVE  Counted'
  <2>1. /\ UNCHANGED <<pc, left>>
        /\ \A c \in Callers : through'[c] = IF Proc(c) = p THEN 0 ELSE through[c]
        /\ \A q \in Processes : q # p => circuit'[q] = circuit[q]
    BY <1>7 DEF Recover, Forget, TypeOK
  <2> QED BY <1>0, <2>1, ProcType DEF Counted
<1>8. ASSUME NEW p \in Processes, Restart(p)
      PROVE  Counted'
  <2>1. \A b \in Callers :
            /\ circuit'[Proc(b)].gate # "open" => through'[b] = 0
            /\ through'[b] <= through[b] /\ through'[b] \in Nat
    BY <1>8, RecordCounts DEF Restart
  <2>2. \A b \in Callers :
            \/ pc'[b] = "idle" /\ left'[b] = 0
            \/ pc'[b] = pc[b] /\ left'[b] = left[b]
    BY <1>8 DEF Restart
  <2>3. \A b \in Callers :
            /\ through'[b] <= Retries[b] + 1
            /\ left'[b] <= Retries[b]
            /\ pc'[b] = "post" => through'[b] + left'[b] <= Retries[b]
            /\ pc'[b] = "wait" => through'[b] + left'[b] <= Retries[b] + 1
    BY <1>0, <2>1, <2>2 DEF Counted
  <2> QED BY <2>1, <2>3 DEF Counted
<1>9. CASE \/ \E r \in Replayers : DetectOrphans(r) \/ Remediate(r)
           \/ \E m \in wire : Arrive(m)
           \/ RestartTarget \/ UNCHANGED vars
  BY <1>1, <1>9 DEF DetectOrphans, Remediate, Arrive, RestartTarget, vars, callVars
<1> QED BY <1>2, <1>3, <1>4, <1>5, <1>6, <1>7, <1>8, <1>9, Split DEF DispatchOver, ReplayOver

\* For every threshold and number of retries, no caller posts more than one
\* call's worth through an open circuit (retry_request).
THEOREM ThroughOpen == Spec => []ThroughOpenBounded
<1>1. Init => TypeOK /\ Counted
  BY TypedInit, CountedInit
<1>2. TypeOK /\ Counted /\ [Next]_vars => TypeOK' /\ Counted'
  BY TypedStep, CountedStep
<1>3. TypeOK /\ Counted => ThroughOpenBounded
  BY DEF Counted, ThroughOpenBounded
<1> QED BY <1>1, <1>2, <1>3, PTL DEF Spec

-----------------------------------------------------------------------------
(***************************************************************************)
(* Once in a life.  A replay that is under way was not remembered when it  *)
(* began, and only its own replayer could have got it accepted since.      *)
(***************************************************************************)

Lives ==
    \A r \in Replayers, l \in Ids :
        /\ accepted[r][l] <= 1 + restarts
        /\ l \notin store => accepted[r][l] <= restarts
        /\ pc[r] # "idle" /\ Head(batch[r]).id = l => accepted[r][l] <= restarts

LEMMA LivesInit == Init => Lives
BY HandlerType DEF Init, Lives

LEMMA LivesStep == TypeOK /\ Lives /\ [Next]_vars => Lives'
<1> SUFFICES ASSUME TypeOK, Lives, [Next]_vars
             PROVE  Lives'
  OBVIOUS
<1> USE HandlerType
<1>0. restarts \in Nat /\ \A r \in Replayers, l \in Ids : accepted[r][l] \in Nat
  BY DEF TypeOK
<1>1. ASSUME UNCHANGED <<batch, store, accepted, restarts>>,
             \A r \in Replayers : pc'[r] # "idle" => pc[r] # "idle"
      PROVE  Lives'
  BY <1>1 DEF Lives
<1>2. ASSUME NEW c \in Callers, Send(c) \/ Retry(c) \/ DispatchOver(c)
      PROVE  Lives'
  <2>1. UNCHANGED <<batch, store, accepted, restarts>>
    BY <1>2 DEF Send, Retry, DispatchOver, Over, replayVars, countVars
  <2>2. \A r \in Replayers : pc'[r] # "idle" => pc[r] # "idle"
    BY <1>2 DEF Send, Retry, DispatchOver, Over, Return, TypeOK
  <2> QED BY <1>1, <2>1, <2>2
<1>3. ASSUME NEW c \in Callers, ReplayOver(c)
      PROVE  Lives'
  <2>1. /\ c \in Replayers /\ pc[c] # "idle" /\ batch[c] # <<>> /\ restarts' = restarts
        /\ pc'[c] = "idle" /\ \A r \in Replayers : r # c => pc'[r] = pc[r]
    BY <1>3 DEF ReplayOver, Over, Return, TypeOK
  <2>2. /\ Head(batch[c]).id \in Ids
        /\ \A r \in Replayers : r # c => batch'[r] = batch[r]
    BY <1>3, <2>1, MarkTypes DEF ReplayOver
  <2>3. CASE UNCHANGED <<store, accepted>>
    BY <2>1, <2>2, <2>3 DEF Lives
  <2>4. CASE /\ store' = store \cup {Head(batch[c]).id}
             /\ accepted' = [accepted EXCEPT ![c][Head(batch[c]).id] = @ + 1]
    <3>1. accepted[c][Head(batch[c]).id] <= restarts
      BY <2>1, <2>2 DEF Lives
    <3>2. /\ accepted'[c][Head(batch[c]).id] = accepted[c][Head(batch[c]).id] + 1
          /\ \A r \in Replayers, l \in Ids :
                r # c \/ l # Head(batch[c]).id => accepted'[r][l] = accepted[r][l]
      BY <2>1, <2>2, <2>4 DEF TypeOK
    <3> QED BY <1>0, <2>1, <2>2, <2>4, <3>1, <3>2 DEF Lives
  <2> QED BY <1>3, <2>3, <2>4 DEF ReplayOver
<1>4. ASSUME NEW r \in Replayers, DetectOrphans(r)
      PROVE  Lives'
  BY <1>1, <1>4 DEF DetectOrphans, callVars, countVars
<1>5. ASSUME NEW r \in Replayers, Remediate(r)
      PROVE  Lives'
  <2>1. /\ pc[r] = "idle" /\ UNCHANGED <<pc, store, accepted, restarts>>
        /\ \A q \in Replayers : q # r => batch'[q] = batch[q]
    BY <1>5 DEF Remediate, callVars, countVars, TypeOK
  <2> QED BY <2>1 DEF Lives
<1>6. ASSUME NEW r \in Replayers, ReplayOne(r)
      PROVE  Lives'
  <2>1. /\ pc[r] = "idle" /\ UNCHANGED <<store, accepted, restarts>>
    BY <1>6 DEF ReplayOne, countVars
  <2>2. CASE UNCHANGED callVars /\ batch' = [batch EXCEPT ![r] = Tail(@)]
    <3>1. UNCHANGED pc /\ \A q \in Replayers : q # r => batch'[q] = batch[q]
      BY <2>2 DEF callVars, TypeOK
    <3> QED BY <2>1, <3>1 DEF Lives
  <2>3. CASE /\ ~ReplayKey(Head(batch[r]).id) /\ UNCHANGED batch
             /\ Sign(r, Head(batch[r]).task)
    <3>1. \A q \in Replayers : q # r => pc'[q] = pc[q]
      BY <2>3 DEF Sign, TypeOK
    <3>2. Head(batch[r]).id \notin store
      BY <2>3 DEF ReplayKey
    <3> QED BY <2>1, <2>3, <3>1, <3>2 DEF Lives
  <2> QED BY <1>6, <2>2, <2>3 DEF ReplayOne, MarkReplayed
<1>7. ASSUME NEW h \in Handlers, NEW t \in Tasks, Request(h, t)
      PROVE  Lives'
  <2>1. UNCHANGED <<batch, store, accepted, restarts>>
    BY <1>7 DEF Request, replayVars
  <2>2. \A r \in Replayers : pc'[r] = pc[r]
    BY <1>7, DispatchAssumption DEF Request, Sign, callVars, TypeOK
  <2> QED BY <1>1, <2>1, <2>2
<1>8. ASSUME NEW p \in Processes, Restart(p)
      PROVE  Lives'
  <2>1. CASE UNCHANGED <<batch, store, restarts>>
    <3>1. UNCHANGED accepted /\ \A r \in Replayers : pc'[r] # "idle" => pc[r] # "idle"
      BY <1>8 DEF Restart
    <3> QED BY <1>1, <2>1, <3>1
  <2>2. CASE p = "entropy" /\ store' = {} /\ restarts' = restarts + 1
    <3>1. UNCHANGED accepted /\ \A r \in Replayers : pc'[r] = "idle"
      BY <1>8, <2>2, DispatchAssumption DEF Restart, Proc
    <3> QED BY <1>0, <2>2, <3>1 DEF Lives
  <2> QED BY <1>8, <2>1, <2>2 DEF Restart
<1>9. CASE \/ \E m \in wire : Arrive(m)
           \/ RestartTarget
           \/ \E p \in Processes : Recover(p)
           \/ UNCHANGED vars
  <2>1. UNCHANGED <<pc, batch, store, accepted, restarts>>
    BY <1>9 DEF Arrive, RestartTarget, Recover, vars, callVars, countVars, replayVars
  <2> QED BY <1>1, <2>1
<1> QED BY <1>2, <1>3, <1>4, <1>5, <1>6, <1>7, <1>8, <1>9, Split

\* For any number of replayers and letters, each gets a letter accepted once in
\* a life of the process (_replay_one).
THEOREM OncePerLife == Spec => []AcceptedOncePerLife
<1>1. Init => TypeOK /\ Lives
  BY TypedInit, LivesInit
<1>2. TypeOK /\ Lives /\ [Next]_vars => TypeOK' /\ Lives'
  BY TypedStep, LivesStep
<1>3. TypeOK /\ Lives => AcceptedOncePerLife
  BY DEF Lives, AcceptedOncePerLife
<1> QED BY <1>1, <1>2, <1>3, PTL DEF Spec

-----------------------------------------------------------------------------
(***************************************************************************)
(* True answers.  An answer "ok" is of the request its caller now holds,   *)
(* and that request was run; a dead letter has a number of its own; and a  *)
(* replay's request is for the task of the letter it is at.                *)
(***************************************************************************)

Ran(k) == k \in Calls /\ runs[k] > 0

Replied ==
    /\ \A c \in Callers : reply[c] = "ok" => Ran(call[c])
    /\ \A h \in Handlers : told[h] = "ok" => Ran(call[h])

Ledger ==
    /\ \A x \in Among(dlq) : x.id <= asked
    /\ \A x, y \in Among(dlq) : x.id = y.id => x = y
    /\ \A h \in Handlers : pc[h] # "idle" =>
          req[h] <= asked /\ \A x \in Among(dlq) : x.id # req[h]
    /\ \A g, h \in Handlers : g # h /\ pc[g] # "idle" /\ pc[h] # "idle" => req[g] # req[h]

Traced ==
    /\ \A r \in Replayers : Among(batch[r]) \subseteq Among(dlq)
    /\ \A e \in archive : \E x \in Among(dlq) : x.id = e[1]
    /\ \A r \in Replayers : pc[r] # "idle" => call[r][1] = Head(batch[r]).task
    /\ \A x \in Among(dlq) : <<x.id, "replayed">> \in archive =>
          \E n \in 1..MaxCalls : runs[<<x.task, n>>] > 0

\* What was run stays so.
LEMMA RunsGrow ==
  ASSUME TypeOK, [Next]_vars
  PROVE  \A k \in Calls : runs[k] > 0 => runs'[k] > 0
<1>1. CASE UNCHANGED runs
  BY <1>1
<1>2. ASSUME NEW m \in wire, Arrive(m)
      PROVE  \A k \in Calls : runs[k] > 0 => runs'[k] > 0
  <2>1. m.call \in Calls /\ runs \in [Calls -> Nat]
    BY DEF TypeOK, Post
  <2>2. CASE UNCHANGED targetVars
    BY <1>1, <2>2 DEF targetVars
  <2>3. CASE \E answer \in {"ok", "error"} :
                runs' = [runs EXCEPT ![m.call] = IF answer = "ok" THEN @ + 1 ELSE @]
    BY <2>1, <2>3
  <2> QED BY <1>2, <2>2, <2>3 DEF Arrive
<1>3. UNCHANGED runs \/ \E m \in wire : Arrive(m)
  <2>1. CASE UNCHANGED vars
    BY <2>1 DEF vars, targetVars
  <2>2. CASE Next
    BY <2>2, Split DEF Send, Retry, DispatchOver, ReplayOver, Over, DetectOrphans, Remediate,
                       ReplayOne, Recover, Restart, Request, RestartTarget, targetVars
  <2> QED BY <2>1, <2>2
<1> QED BY <1>1, <1>2, <1>3

LEMMA RepliedInit == Init => Replied
BY HandlerType DEF Init, Replied

LEMMA RepliedStep == TypeOK /\ Replied /\ [Next]_vars => Replied'
<1> SUFFICES ASSUME TypeOK, Replied, [Next]_vars
             PROVE  Replied'
  OBVIOUS
<1> USE HandlerType
<1>0. \A k : Ran(k) => Ran(k)'
  BY RunsGrow DEF Ran
<1>1. ASSUME \A c \in Callers : reply'[c] = "ok" => reply[c] = "ok" /\ call'[c] = call[c],
             \A h \in Handlers : told'[h] = "ok" =>
                 (told[h] = "ok" \/ reply[h] = "ok") /\ call'[h] = call[h]
      PROVE  Replied'
  BY <1>0, <1>1 DEF Replied
<1>2. ASSUME NEW c \in Callers, Send(c)
      PROVE  Replied'
  BY <1>1, <1>2 DEF Send
<1>3. ASSUME NEW c \in Callers, Retry(c)
      PROVE  Replied'
  BY <1>1, <1>3 DEF Retry, TypeOK
<1>4. ASSUME NEW c \in Callers, DispatchOver(c)
      PROVE  Replied'
  <2>1. Return(c) /\ c \in Handlers /\ c \notin Replayers
    BY <1>4, DispatchAssumption DEF DispatchOver, Over
  <2>2. call' = call
    BY <2>1, ReturnTypes
  <2>3. \A b \in Callers : reply'[b] = "ok" => reply[b] = "ok"
    BY <2>1 DEF Return, TypeOK
  <2>4. \A h \in Handlers : told'[h] = "ok" => told[h] = "ok" \/ reply[h] = "ok"
    BY <1>4, <2>1 DEF DispatchOver, Tell, TypeOK
  <2> QED BY <1>1, <2>2, <2>3, <2>4
<1>5. ASSUME NEW c \in Callers, ReplayOver(c)
      PROVE  Replied'
  <2>1. Return(c) /\ c \in Replayers /\ c \notin Handlers /\ told' = told
    BY <1>5, DispatchAssumption DEF ReplayOver, Over
  <2>2. /\ reply'[c] = "none"
        /\ \A b \in Callers : b # c => reply'[b] = reply[b] /\ call'[b] = call[b]
    BY <2>1 DEF Return, TypeOK
  <2> QED BY <1>1, <2>1, <2>2
<1>6. ASSUME NEW c \in Callers, NEW t, Sign(c, t), c \in Handlers => told'[c] # "ok",
             \A h \in Handlers : h # c => told'[h] = told[h]
      PROVE  Replied'
  <2>1. /\ reply'[c] = "none"
        /\ \A b \in Callers : b # c => reply'[b] = reply[b] /\ call'[b] = call[b]
    BY <1>6 DEF Sign, TypeOK
  <2> QED BY <1>1, <1>6, <2>1
<1>7. ASSUME NEW r \in Replayers, ReplayOne(r)
      PROVE  Replied'
  <2>1. told' = told
    BY <1>7 DEF ReplayOne
  <2>2. CASE UNCHANGED callVars
    BY <1>1, <2>1, <2>2 DEF callVars
  <2>3. CASE Sign(r, Head(batch[r]).task)
    BY <1>6, <2>1, <2>3, DispatchAssumption
  <2> QED BY <1>7, <2>2, <2>3 DEF ReplayOne
<1>8. ASSUME NEW h \in Handlers, NEW t \in Tasks, Request(h, t)
      PROVE  Replied'
  <2>1. told'[h] # "ok" /\ \A g \in Handlers : g # h => told'[g] = told[g]
    BY <1>8 DEF Request, Tell, TypeOK
  <2>2. CASE UNCHANGED callVars
    BY <1>1, <2>1, <2>2 DEF callVars
  <2>3. CASE Sign(h, t)
    BY <1>6, <2>1, <2>3
  <2> QED BY <1>8, <2>2, <2>3 DEF Request
<1>9. ASSUME NEW m \in wire, Arrive(m)
      PROVE  Replied'
  <2>1. m.call \in Calls /\ m.by \in Callers
    BY DEF TypeOK, Post
  <2>2. PICK answer \in {"ok", "error"} :
          /\ \/ Remembers(m.call) /\ answer = "error" /\ UNCHANGED targetVars
             \/ /\ ~Remembers(m.call)
                /\ Keep(m.call)
                /\ runs' = [runs EXCEPT ![m.call] = IF answer = "ok" THEN @ + 1 ELSE @]
          /\ reply' = [reply EXCEPT ![m.by] =
                IF pc[m.by] = "wait" /\ call[m.by] = m.call /\ left[m.by] = m.left
                THEN answer ELSE @]
    BY <1>9 DEF Arrive
  <2>3. answer = "ok" => runs'[m.call] > 0
    BY <2>1, <2>2 DEF TypeOK
  <2>4. UNCHANGED <<call, told>>
    BY <1>9 DEF Arrive
  <2>5. \A c \in Callers : reply'[c] = "ok" =>
            reply[c] = "ok" \/ (answer = "ok" /\ call[c] = m.call)
    BY <2>1, <2>2 DEF TypeOK
  <2>7. \A c \in Callers : reply'[c] = "ok" => Ran(call[c])'
    <3> SUFFICES ASSUME NEW c \in Callers, reply'[c] = "ok"
                 PROVE  Ran(call[c])'
      OBVIOUS
    <3>1. CASE reply[c] = "ok"
      <4>1. Ran(call[c]) /\ call'[c] = call[c]
        BY <2>4, <3>1 DEF Replied
      <4> QED BY <1>0, <4>1
    <3>2. CASE answer = "ok" /\ call[c] = m.call
      BY <2>1, <2>3, <2>4, <3>2 DEF Ran
    <3> QED BY <2>5, <3>1, <3>2
  <2>8. \A h \in Handlers : told'[h] = "ok" => Ran(call[h])'
    BY <1>0, <2>4 DEF Replied
  <2> QED BY <2>7, <2>8 DEF Replied
<1>10. ASSUME NEW p \in Processes, Restart(p)
       PROVE  Replied'
  BY <1>1, <1>10 DEF Restart
<1>11. CASE \/ \E r \in Replayers : DetectOrphans(r) \/ Remediate(r)
            \/ RestartTarget
            \/ \E p \in Processes : Recover(p)
            \/ UNCHANGED vars
  <2>1. UNCHANGED <<reply, call, told>>
    BY <1>11 DEF DetectOrphans, Remediate, RestartTarget, Recover, vars, callVars
  <2> QED BY <1>1, <2>1
<1> QED BY <1>2, <1>3, <1>4, <1>5, <1>7, <1>8, <1>9, <1>10, <1>11, Split

LEMMA LedgerInit == Init => Ledger /\ Traced
<1> SUFFICES ASSUME Init PROVE Ledger /\ Traced
  OBVIOUS
<1>1. Among(dlq) = {} /\ archive = {} /\ \A r \in Replayers : Among(batch[r]) = {}
  BY DEF Init, Among
<1>2. \A c \in Callers : pc[c] = "idle"
  BY DEF Init
<1> QED BY <1>1, <1>2, HandlerType DEF Ledger, Traced

\* A new letter, with a number that no other letter has.
LEMMA Enqueued ==
  ASSUME TypeOK, NEW n \in Ids, NEW t \in Tasks, EnqueueFailure(n, t)
  PROVE  /\ [id |-> n, task |-> t] \in Letter
         /\ Among(dlq') = Among(dlq) \cup {[id |-> n, task |-> t]}
<1>1. [id |-> n, task |-> t] \in Letter /\ dlq \in Seq(Letter)
  BY DEF Letter, TypeOK
<1> QED BY <1>1, SequenceFacts DEF EnqueueFailure

LEMMA LedgerStep == TypeOK /\ Ledger /\ [Next]_vars => Ledger'
<1> SUFFICES ASSUME TypeOK, Ledger, [Next]_vars
             PROVE  Ledger'
  OBVIOUS
<1> USE HandlerType
<1>0. /\ asked \in Nat /\ \A h \in Handlers : req[h] \in Nat
      /\ \A x \in Among(dlq) : x \in Letter /\ x.id \in Nat
  <2>1. \A x \in Among(dlq) : x \in Letter
    BY DEF TypeOK, Among
  <2> QED BY <2>1, DispatchAssumption DEF TypeOK, Letter, Ids
<1>1. ASSUME UNCHANGED <<dlq, asked, req>>,
             \A h \in Handlers : pc'[h] # "idle" => pc[h] # "idle"
      PROVE  Ledger'
  BY <1>1 DEF Ledger, Among
<1>2. ASSUME NEW c \in Callers, Send(c) \/ Retry(c) \/ ReplayOver(c)
      PROVE  Ledger'
  <2>1. UNCHANGED <<dlq, asked, req>>
    BY <1>2 DEF Send, Retry, ReplayOver, Over, countVars
  <2>2. \A h \in Handlers : pc'[h] # "idle" => pc[h] # "idle"
    BY <1>2 DEF Send, Retry, ReplayOver, Over, Return, TypeOK
  <2> QED BY <1>1, <2>1, <2>2
<1>3. ASSUME NEW c \in Callers, DispatchOver(c)
      PROVE  Ledger'
  <2>1. /\ c \in Handlers /\ pc[c] # "idle" /\ UNCHANGED <<asked, req>>
        /\ pc'[c] = "idle" /\ \A h \in Handlers : h # c => pc'[h] = pc[h]
    BY <1>3 DEF DispatchOver, Over, Return, TypeOK
  <2>2. CASE UNCHANGED dlq
    BY <1>1, <2>1, <2>2
  <2>3. CASE EnqueueFailure(req[c], call[c][1])
    <3>1. req[c] \in Ids /\ call[c][1] \in Tasks
      BY <2>1 DEF TypeOK, Calls
    <3> DEFINE x == [id |-> req[c], task |-> call[c][1]]
    <3>2. Among(dlq') = Among(dlq) \cup {x} /\ x.id = req[c]
      BY <2>3, <3>1, Enqueued
    <3> HIDE DEF x
    <3>3. req[c] <= asked /\ \A y \in Among(dlq) : y.id # req[c]
      BY <2>1 DEF Ledger
    <3>4. \A y \in Among(dlq') : y.id <= asked'
      BY <2>1, <3>2, <3>3 DEF Ledger
    <3>5. \A y, z \in Among(dlq') : y.id = z.id => y = z
      BY <3>2, <3>3 DEF Ledger
    <3>6. \A h \in Handlers : pc'[h] # "idle" =>
              req'[h] <= asked' /\ \A y \in Among(dlq') : y.id # req'[h]
      BY <2>1, <3>2 DEF Ledger
    <3>7. \A g, h \in Handlers : g # h /\ pc'[g] # "idle" /\ pc'[h] # "idle" => req'[g] # req'[h]
      BY <2>1 DEF Ledger
    <3> QED BY <3>4, <3>5, <3>6, <3>7 DEF Ledger, Among
  <2> QED BY <1>3, <2>2, <2>3 DEF DispatchOver
<1>4. ASSUME NEW r \in Replayers, ReplayOne(r)
      PROVE  Ledger'
  <2>1. UNCHANGED <<dlq, asked, req>>
    BY <1>4 DEF ReplayOne, countVars
  <2>2. \A h \in Handlers : pc'[h] = pc[h]
    BY <1>4, DispatchAssumption DEF ReplayOne, Sign, callVars, TypeOK
  <2> QED BY <1>1, <2>1, <2>2
<1>5. ASSUME NEW h \in Handlers, NEW t \in Tasks, Request(h, t)
      PROVE  Ledger'
  <2>1. /\ pc[h] = "idle" /\ asked' = asked + 1 /\ asked + 1 \in Ids
        /\ req'[h] = asked + 1 /\ \A g \in Handlers : g # h => req'[g] = req[g]
        /\ \A g \in Handlers : g # h => pc'[g] = pc[g]
    BY <1>5, DispatchAssumption DEF Request, Sign, callVars, TypeOK, Ids
  <2>2. \A g, f \in Handlers : g # f /\ pc'[g] # "idle" /\ pc'[f] # "idle" => req'[g] # req'[f]
    <3>1. \A g \in Handlers : g # h /\ pc'[g] # "idle" => req'[g] <= asked
      BY <2>1 DEF Ledger
    <3>2. \A g \in Handlers : g # h /\ pc'[g] # "idle" => req'[g] # req'[h]
      BY <1>0, <2>1, <3>1
    <3> QED BY <2>1, <3>2 DEF Ledger
  <2>3. CASE UNCHANGED dlq
    <3>1. \A y \in Among(dlq) : y.id <= asked' /\ y.id # asked + 1
      BY <1>0, <2>1 DEF Ledger
    <3>2. \A g \in Handlers : pc'[g] # "idle" =>
              req'[g] <= asked' /\ \A y \in Among(dlq) : y.id # req'[g]
      BY <1>0, <2>1, <3>1 DEF Ledger
    <3> QED BY <2>2, <2>3, <3>1, <3>2 DEF Ledger, Among
  <2>4. CASE UNCHANGED callVars /\ EnqueueFailure(asked + 1, t)
    <3> DEFINE x == [id |-> asked + 1, task |-> t]
    <3>1. Among(dlq') = Among(dlq) \cup {x} /\ x.id = asked + 1
      BY <2>1, <2>4, Enqueued
    <3> HIDE DEF x
    <3>2. pc' = pc
      BY <2>4 DEF callVars
    <3>3. \A y \in Among(dlq) : y.id <= asked' /\ y.id # asked + 1
      BY <1>0, <2>1 DEF Ledger
    <3>4. \A y \in Among(dlq') : y.id <= asked'
      BY <1>0, <2>1, <3>1, <3>3
    <3>5. \A y, z \in Among(dlq') : y.id = z.id => y = z
      BY <3>1, <3>3 DEF Ledger
    <3>6. \A g \in Handlers : pc'[g] # "idle" =>
              req'[g] <= asked' /\ \A y \in Among(dlq') : y.id # req'[g]
      <4> SUFFICES ASSUME NEW g \in Handlers, pc[g] # "idle"
                   PROVE  req'[g] <= asked' /\ \A y \in Among(dlq') : y.id # req'[g]
        BY <3>2
      <4>1. req'[g] = req[g] /\ req[g] <= asked /\ \A y \in Among(dlq) : y.id # req[g]
        BY <2>1 DEF Ledger
      <4> QED BY <1>0, <2>1, <3>1, <4>1
    <3> QED BY <2>2, <3>4, <3>5, <3>6 DEF Ledger, Among
  <2> QED BY <1>5, <2>3, <2>4 DEF Request
<1>6. ASSUME NEW p \in Processes, Restart(p)
      PROVE  Ledger'
  BY <1>1, <1>6 DEF Restart
<1>7. CASE \/ \E r \in Replayers : DetectOrphans(r) \/ Remediate(r)
           \/ \E m \in wire : Arrive(m)
           \/ RestartTarget
           \/ \E p \in Processes : Recover(p)
           \/ UNCHANGED vars
  <2>1. UNCHANGED <<dlq, asked, req, pc>>
    BY <1>7 DEF DetectOrphans, Remediate, Arrive, RestartTarget, Recover, vars, callVars, countVars
  <2> QED BY <1>1, <2>1
<1> QED BY <1>2, <1>3, <1>4, <1>5, <1>6, <1>7, Split

\* What the replayers hold stays in the ledger, which only grows, and by letters
\* that nothing was archived of.
LEMMA TracedKept ==
  ASSUME TypeOK, Traced, [Next]_vars,
         Among(dlq) \subseteq Among(dlq'),
         \A x \in Among(dlq') \ Among(dlq) : x \in Letter /\ \A y \in Among(dlq) : y.id # x.id,
         archive' = archive,
         \A r \in Replayers : Among(batch'[r]) \subseteq Among(dlq'),
         \A r \in Replayers : pc'[r] # "idle" => call'[r][1] = Head(batch'[r]).task
  PROVE  Traced'
<1>1. \A e \in archive' : \E x \in Among(dlq') : x.id = e[1]
  BY DEF Traced
<1>2. \A x \in Among(dlq') : <<x.id, "replayed">> \in archive' =>
          \E n \in 1..MaxCalls : runs'[<<x.task, n>>] > 0
  <2> SUFFICES ASSUME NEW x \in Among(dlq'), <<x.id, "replayed">> \in archive
               PROVE  \E n \in 1..MaxCalls : runs'[<<x.task, n>>] > 0
    OBVIOUS
  <2>1. x \in Among(dlq)
    <3>1. PICK y \in Among(dlq) : y.id = <<x.id, "replayed">>[1]
      BY DEF Traced
    <3> QED BY <3>1
  <2>2. PICK n \in 1..MaxCalls : runs[<<x.task, n>>] > 0
    BY <2>1 DEF Traced
  <2>3. x \in Letter
    BY <2>1 DEF TypeOK, Among
  <2>4. <<x.task, n>> \in Calls
    BY <2>3 DEF Calls, Letter
  <2> QED BY <2>2, <2>4, RunsGrow
<1> QED BY <1>1, <1>2 DEF Traced, Among

LEMMA TracedStep == TypeOK /\ Replied /\ Ledger /\ Traced /\ [Next]_vars => Traced'
<1> SUFFICES ASSUME TypeOK, Replied, Ledger, Traced, [Next]_vars
             PROVE  Traced'
  OBVIOUS
<1> USE HandlerType
<1>1. ASSUME UNCHANGED <<dlq, archive, batch>>,
             \A r \in Replayers : pc'[r] # "idle" => pc[r] # "idle" /\ call'[r] = call[r]
      PROVE  Traced'
  BY <1>1, TracedKept DEF Traced
<1>2. ASSUME NEW c \in Callers, Send(c) \/ Retry(c)
      PROVE  Traced'
  <2>1. UNCHANGED <<dlq, archive, batch, call>>
    BY <1>2 DEF Send, Retry, replayVars
  <2>2. \A r \in Replayers : pc'[r] # "idle" => pc[r] # "idle"
    BY <1>2 DEF Send, Retry, TypeOK
  <2> QED BY <1>1, <2>1, <2>2
<1>3. ASSUME NEW c \in Callers, DispatchOver(c)
      PROVE  Traced'
  <2>1. /\ c \in Handlers /\ c \notin Replayers /\ pc[c] # "idle" /\ Return(c)
        /\ UNCHANGED <<archive, batch>>
    BY <1>3, DispatchAssumption DEF DispatchOver, Over, replayVars
  <2>2. \A r \in Replayers : pc'[r] = pc[r] /\ call'[r] = call[r]
    BY <2>1, ReturnTypes
  <2>3. CASE UNCHANGED dlq
    BY <1>1, <2>1, <2>2, <2>3
  <2>4. CASE EnqueueFailure(req[c], call[c][1])
    <3>1. req[c] \in Ids /\ call[c][1] \in Tasks
      BY <2>1 DEF TypeOK, Calls
    <3> DEFINE x == [id |-> req[c], task |-> call[c][1]]
    <3>2. Among(dlq') = Among(dlq) \cup {x} /\ x.id = req[c] /\ x \in Letter
      BY <2>4, <3>1, Enqueued
    <3> HIDE DEF x
    <3>3. \A y \in Among(dlq) : y.id # x.id
      BY <2>1, <3>2 DEF Ledger
    <3> QED BY <2>1, <2>2, <3>2, <3>3, TracedKept DEF Traced
  <2> QED BY <1>3, <2>3, <2>4 DEF DispatchOver
<1>4. ASSUME NEW h \in Handlers, NEW t \in Tasks, Request(h, t)
      PROVE  Traced'
  <2>1. UNCHANGED <<archive, batch>>
    BY <1>4 DEF Request, replayVars
  <2>2. \A r \in Replayers : pc'[r] = pc[r] /\ call'[r] = call[r]
    BY <1>4, DispatchAssumption DEF Request, Sign, callVars, TypeOK
  <2>3. CASE UNCHANGED dlq
    BY <1>1, <2>1, <2>2, <2>3
  <2>4. CASE EnqueueFailure(asked + 1, t)
    <3>1. asked + 1 \in Ids /\ asked \in Nat
      BY <1>4, DispatchAssumption DEF Request, TypeOK, Ids
    <3> DEFINE x == [id |-> asked + 1, task |-> t]
    <3>2. Among(dlq') = Among(dlq) \cup {x} /\ x.id = asked + 1 /\ x \in Letter
      BY <2>4, <3>1, Enqueued
    <3> HIDE DEF x
    <3>3. \A y \in Among(dlq) : y.id # x.id
      <4>1. \A y \in Among(dlq) : y.id \in Nat /\ y.id <= asked
        <5>1. \A y \in Among(dlq) : y \in Letter /\ y.id <= asked
          BY DEF Ledger, TypeOK, Among
        <5> QED BY <5>1, DispatchAssumption DEF Letter, Ids
      <4> QED BY <3>1, <3>2, <4>1
    <3> QED BY <2>1, <2>2, <3>2, <3>3, TracedKept DEF Traced
  <2> QED BY <1>4, <2>3, <2>4 DEF Request
<1>5. ASSUME NEW r \in Replayers, batch[r] # <<>>,
             NEW status \in {"replayed", "replay_failed", "skipped"}, MarkReplayed(r, status),
             UNCHANGED dlq, pc'[r] = "idle",
             \A q \in Replayers : q # r => pc'[q] = pc[q] /\ call'[q] = call[q],
             status = "replayed" =>
                \E n \in 1..MaxCalls : runs[<<Head(batch[r]).task, n>>] > 0
      PROVE  Traced'
  <2>1. /\ batch'[r] = Tail(batch[r])
        /\ \A q \in Replayers : q # r => batch'[q] = batch[q]
        /\ Head(batch[r]) \in Among(dlq)
        /\ Among(Tail(batch[r])) \subseteq Among(dlq)
    BY <1>5, MarkTypes DEF Traced
  <2>2. archive' = archive \cup {<<Head(batch[r]).id, status>>}
    BY <1>5 DEF MarkReplayed
  <2>3. \A e \in archive' : \E x \in Among(dlq) : x.id = e[1]
    BY <2>1, <2>2 DEF Traced
  <2>4. \A x \in Among(dlq) : <<x.id, "replayed">> \in archive' =>
            \E n \in 1..MaxCalls : runs'[<<x.task, n>>] > 0
    <3> SUFFICES ASSUME NEW x \in Among(dlq), <<x.id, "replayed">> \in archive'
                 PROVE  \E n \in 1..MaxCalls : runs'[<<x.task, n>>] > 0
      OBVIOUS
    <3>1. \E n \in 1..MaxCalls : runs[<<x.task, n>>] > 0
      <4>1. CASE <<x.id, "replayed">> \in archive
        BY <4>1 DEF Traced
      <4>2. CASE <<x.id, "replayed">> = <<Head(batch[r]).id, status>>
        <5>1. x = Head(batch[r]) /\ status = "replayed"
          BY <2>1, <4>2 DEF Ledger
        <5> QED BY <1>5, <5>1
      <4> QED BY <2>2, <4>1, <4>2
    <3>2. x \in Letter
      BY DEF TypeOK, Among
    <3>3. \A n \in 1..MaxCalls : <<x.task, n>> \in Calls
      BY <3>2 DEF Calls, Letter
    <3> QED BY <3>1, <3>3, RunsGrow
  <2>5. \A q \in Replayers : Among(batch'[q]) \subseteq Among(dlq)
    BY <2>1 DEF Traced
  <2>6. \A q \in Replayers : pc'[q] # "idle" => call'[q][1] = Head(batch'[q]).task
    BY <1>5, <2>1 DEF Traced
  <2>7. Among(dlq') = Among(dlq)
    BY <1>5
  <2> QED BY <2>3, <2>4, <2>5, <2>6, <2>7 DEF Traced, Among
<1>6. ASSUME NEW c \in Callers, ReplayOver(c)
      PROVE  Traced'
  <2>1. /\ c \in Replayers /\ pc[c] # "idle" /\ batch[c] # <<>> /\ Return(c) /\ UNCHANGED dlq
        /\ call[c] \in Calls
    BY <1>6 DEF ReplayOver, Over, TypeOK
  <2>2. /\ pc'[c] = "idle"
        /\ \A q \in Replayers : q # c => pc'[q] = pc[q] /\ call'[q] = call[q]
    BY <2>1, ReturnTypes
  <2>3. CASE MarkReplayed(c, "replay_failed")
    BY <1>5, <2>1, <2>2, <2>3
  <2>4. CASE reply[c] = "ok" /\ MarkReplayed(c, "replayed")
    <3>1. runs[call[c]] > 0 /\ call[c][1] = Head(batch[c]).task
      BY <2>1, <2>4 DEF Replied, Ran, Traced
    <3>2. PICK n \in 1..MaxCalls : call[c] = <<Head(batch[c]).task, n>>
      BY <2>1, <3>1 DEF Calls
    <3>3. \E i \in 1..MaxCalls : runs[<<Head(batch[c]).task, i>>] > 0
      BY <3>1, <3>2
    <3> QED BY <1>5, <2>1, <2>2, <2>4, <3>3
  <2> QED BY <1>6, <2>3, <2>4 DEF ReplayOver
<1>7. ASSUME NEW r \in Replayers, Remediate(r)
      PROVE  Traced'
  <2>1. /\ pc[r] = "idle" /\ UNCHANGED <<dlq, archive, pc, call>>
        /\ batch'[r] = Pending /\ \A q \in Replayers : q # r => batch'[q] = batch[q]
    BY <1>7 DEF Remediate, callVars, TypeOK
  <2>2. \A q \in Replayers : Among(batch'[q]) \subseteq Among(dlq)
    BY <2>1, PendingLetters DEF Traced
  <2>3. \A q \in Replayers : pc'[q] # "idle" => call'[q][1] = Head(batch'[q]).task
    BY <2>1 DEF Traced
  <2> QED BY <2>1, <2>2, <2>3, TracedKept
<1>8. ASSUME NEW r \in Replayers, ReplayOne(r)
      PROVE  Traced'
  <2>1. pc[r] = "idle" /\ batch[r] # <<>> /\ batch[r] \in Seq(Letter) /\ UNCHANGED dlq
    BY <1>8 DEF ReplayOne, TypeOK
  <2>2. CASE batch' = [batch EXCEPT ![r] = Tail(@)] /\ UNCHANGED <<callVars, archive>>
    <3>1. Among(Tail(batch[r])) \subseteq Among(batch[r])
      BY <2>1, SequenceFacts
    <3>2. /\ UNCHANGED <<pc, call>> /\ batch'[r] = Tail(batch[r])
          /\ \A q \in Replayers : q # r => batch'[q] = batch[q]
      BY <2>2 DEF callVars, TypeOK
    <3>3. \A q \in Replayers : Among(batch'[q]) \subseteq Among(dlq)
      BY <3>1, <3>2 DEF Traced
    <3>4. \A q \in Replayers : pc'[q] # "idle" => call'[q][1] = Head(batch'[q]).task
      BY <2>1, <3>2 DEF Traced
    <3> QED BY <2>1, <2>2, <3>3, <3>4, TracedKept
  <2>3. CASE UNCHANGED callVars /\ \E status \in {"skipped", "replay_failed"} : MarkReplayed(r, status)
    BY <1>5, <2>1, <2>3 DEF callVars
  <2>4. CASE Sign(r, Head(batch[r]).task) /\ UNCHANGED <<archive, batch>>
    <3>0. Head(batch[r]) \in Letter
      BY <2>1, SequenceFacts
    <3>1. Head(batch[r]).task \in Tasks
      BY <3>0 DEF Letter
    <3> DEFINE t == Head(batch[r]).task
    <3>2. /\ call'[r][1] = t
          /\ \A q \in Replayers : q # r => pc'[q] = pc[q] /\ call'[q] = call[q]
      <4> HIDE DEF t
      <4>1. Sign(r, t) /\ t \in Tasks
        BY <2>4, <3>1 DEF t
      <4>2. /\ call'[r] = <<t, calls[t] + 1>>
            /\ \A b \in Callers : b # r => pc'[b] = pc[b] /\ call'[b] = call[b]
        BY <4>1, SignTypes
      <4> QED BY <4>2
    <3>3. \A q \in Replayers : pc'[q] # "idle" => call'[q][1] = Head(batch'[q]).task
      BY <2>4, <3>2 DEF Traced
    <3>4. \A q \in Replayers : Among(batch'[q]) \subseteq Among(dlq)
      BY <2>4 DEF Traced
    <3> QED BY <2>1, <2>4, <3>3, <3>4, TracedKept
  <2> QED BY <1>8, <2>2, <2>3, <2>4 DEF ReplayOne
<1>9. ASSUME NEW p \in Processes, Restart(p)
      PROVE  Traced'
  <2>1. /\ UNCHANGED <<dlq, archive, call>>
        /\ \A r \in Replayers : pc'[r] # "idle" => pc[r] # "idle"
    BY <1>9 DEF Restart
  <2>2. CASE UNCHANGED batch
    BY <1>1, <2>1, <2>2
  <2>3. CASE p = "entropy" /\ batch' = [r \in Replayers |-> <<>>]
    <3>1. \A r \in Replayers : pc'[r] = "idle" /\ Among(batch'[r]) = {}
      BY <1>9, <2>3, DispatchAssumption DEF Restart, Proc, Among
    <3> QED BY <2>1, <3>1, TracedKept
  <2> QED BY <1>9, <2>2, <2>3 DEF Restart
<1>10. CASE \/ \E r \in Replayers : DetectOrphans(r)
            \/ \E m \in wire : Arrive(m)
            \/ RestartTarget
            \/ \E p \in Processes : Recover(p)
            \/ UNCHANGED vars
  <2>1. UNCHANGED <<dlq, archive, batch, pc, call>>
    BY <1>10 DEF DetectOrphans, Arrive, RestartTarget, Recover, vars, callVars, replayVars
  <2> QED BY <1>1, <2>1
<1> QED BY <1>2, <1>3, <1>4, <1>6, <1>7, <1>8, <1>9, <1>10, Split

\* For any number of callers and letters nobody is told of work that did not
\* happen (dispatch_to_target, _replay_one).
THEOREM Truth == Spec => []AnswersTrue
<1> DEFINE Inv == TypeOK /\ Replied /\ Ledger /\ Traced
<1>1. Init => Inv
  BY TypedInit, RepliedInit, LedgerInit
<1>2. Inv /\ [Next]_vars => Inv'
  BY TypedStep, RepliedStep, LedgerStep, TracedStep
<1>3. Inv => AnswersTrue
  <2> SUFFICES ASSUME Inv PROVE AnswersTrue
    OBVIOUS
  <2>1. \A h \in Handlers : told[h] = "ok" => runs[call[h]] > 0
    BY DEF Replied, Ran
  <2>2. \A i \in 1..Len(dlq) : dlq[i] \in Among(dlq)
    BY DEF Among
  <2> QED BY <2>1, <2>2 DEF Traced, AnswersTrue
<1> HIDE DEF Inv
<1> QED BY <1>1, <1>2, <1>3, PTL DEF Spec

=============================================================================

-------------------------- MODULE LlmBudgetProofs --------------------------
(***************************************************************************)
(* What LlmBudget guarantees for every set of processes, every quota and   *)
(* every bound, and what it guarantees a workcell that one process serves. *)
(***************************************************************************)
EXTENDS LlmBudget, TLAPS

\* bill only groups three history variables.
USE DEF bill

-----------------------------------------------------------------------------
(***************************************************************************)
(* Type correctness.                                                       *)
(***************************************************************************)

\* What a new day does to a row.
LEMMA ResetFields ==
  ASSUME NEW b \in Row, day \in 0..MaxDay
  PROVE  LET r == ResetIfNewDay(b)
         IN  /\ r \in Row
             /\ r.day = day
             /\ r.used = IF b.day = day THEN b.used ELSE 0
             /\ r.errors = b.errors
             /\ r.open = b.open
<1>1. CASE b.day = day
  <2>1. ResetIfNewDay(b) = b
    BY <1>1 DEF ResetIfNewDay
  <2> QED BY <1>1, <2>1
<1>2. CASE b.day # day
  <2>1. ResetIfNewDay(b) = [b EXCEPT !.day = day, !.used = 0]
    BY <1>2 DEF ResetIfNewDay
  <2>2. [b EXCEPT !.day = day, !.used = 0] \in Row
    BY DEF Row
  <2>3. /\ [b EXCEPT !.day = day, !.used = 0].day = day
        /\ [b EXCEPT !.day = day, !.used = 0].used = 0
        /\ [b EXCEPT !.day = day, !.used = 0].errors = b.errors
        /\ [b EXCEPT !.day = day, !.used = 0].open = b.open
    BY DEF Row
  <2> QED BY <1>2, <2>1, <2>2, <2>3
<1> QED BY <1>1, <1>2

\* What can_spend does to a row: it forgets a cooldown that is over.
LEMMA LapseFields ==
  ASSUME NEW b \in Row, now \in Nat
  PROVE  LET r == Lapse(b)
         IN  /\ r \in Row
             /\ r.day = b.day
             /\ r.used = b.used
             /\ r.errors = b.errors
             /\ r.open = IF CircuitOpen(b) THEN b.open ELSE 0
BY DEF Lapse, Row

\* What record_spend does to a row.
LEMMA BookFields ==
  ASSUME NEW b \in Row, now \in Nat,
         NEW c \in [tokens : 0..MaxTokens, outcome : Outcomes]
  PROVE  LET r == Book(b, c)
         IN  /\ r \in Row
             /\ r.day = b.day
             /\ c.outcome = "error" =>
                   /\ r.used = b.used
                   /\ r.errors = b.errors + 1
                   /\ r.open = IF b.errors + 1 >= Threshold THEN now + Cooldown ELSE b.open
             /\ c.outcome # "error" =>
                   /\ r.used = b.used + c.tokens
                   /\ r.errors = 0
                   /\ r.open = 0
<1>1. /\ b.errors + 1 \in Nat
      /\ b.used + c.tokens \in Nat
      /\ now + Cooldown \in Nat
  BY BudgetAssumption DEF Row
<1>2. CASE c.outcome = "error" /\ b.errors + 1 >= Threshold
  <2> DEFINE r == [b EXCEPT !.errors = b.errors + 1, !.open = now + Cooldown]
  <2>1. Book(b, c) = r
    BY <1>2 DEF Book, Trip
  <2>2. r \in Row /\ r.day = b.day
    BY <1>1 DEF Row
  <2>3. r.used = b.used /\ r.errors = b.errors + 1 /\ r.open = now + Cooldown
    BY DEF Row
  <2> QED BY <1>2, <2>1, <2>2, <2>3
<1>3. CASE c.outcome = "error" /\ ~(b.errors + 1 >= Threshold)
  <2> DEFINE r == [b EXCEPT !.errors = b.errors + 1]
  <2>1. Book(b, c) = r
    BY <1>3 DEF Book, Trip
  <2>2. r \in Row /\ r.day = b.day
    BY <1>1 DEF Row
  <2>3. r.used = b.used /\ r.errors = b.errors + 1 /\ r.open = b.open
    BY DEF Row
  <2> QED BY <1>3, <2>1, <2>2, <2>3
<1>4. CASE c.outcome # "error"
  <2> DEFINE r == [b EXCEPT !.used = b.used + c.tokens, !.errors = 0, !.open = 0]
  <2>1. Book(b, c) = r
    BY <1>4 DEF Book
  <2>2. r \in Row /\ r.day = b.day
    BY <1>1 DEF Row
  <2>3. r.used = b.used + c.tokens /\ r.errors = 0 /\ r.open = 0
    BY DEF Row
  <2> QED BY <1>4, <2>1, <2>2, <2>3
<1> QED BY <1>2, <1>3, <1>4

\* A missing row is a row nothing was charged to.
LEMMA AbsentOK ==
  ASSUME TypeOK
  PROVE  RowOK(Absent)
<1>1. Absent \in Row
  BY BudgetAssumption DEF Absent, Row
<1>2. Absent.day = 0 /\ Absent.open = 0
  BY DEF Absent
<1> QED BY <1>1, <1>2, BudgetAssumption DEF TypeOK, RowOK, Days

\* Whatever answers, _load returns a row of today or before.
LEMMA LoadOK ==
  ASSUME TypeOK, NEW p \in Procs, NEW src \in Sources
  PROVE  RowOK(Load(p, src)) /\ Load(p, src).day # 0
<1>1. RowOK(Backing(p, src))
  BY AbsentOK DEF TypeOK, Backing
<1>2. ASSUME NEW b, RowOK(b)
      PROVE  RowOK(ResetIfNewDay(b)) /\ ResetIfNewDay(b).day # 0
  <2>1. b \in Row /\ day \in 0..MaxDay /\ day # 0
    BY <1>2, BudgetAssumption DEF TypeOK, RowOK, Days
  <2> QED BY <1>2, <2>1, ResetFields DEF RowOK, TypeOK
<1>3. Fresh(p) => RowOK(cache[p].row) /\ cache[p].row.day # 0
  BY DEF TypeOK, Fresh
<1> QED BY <1>1, <1>2, <1>3 DEF Load

\* Caching a row that is fit to be cached leaves every cache fit.
LEMMA KeepOK ==
  ASSUME TypeOK, NEW p \in Procs, NEW b, RowOK(b), Keep(p, b)
  PROVE  /\ cache' \in [Procs -> [at : 0..MaxNow, row : Row]]
         /\ \A q \in Procs : RowOK(cache'[q].row) /\ cache'[q].at <= now
         /\ reads' \in [Procs -> 0..MaxReads]
<1> DEFINE entry == [at |-> IF Fresh(p) THEN cache[p].at ELSE now, row |-> b]
<1>1. entry \in [at : 0..MaxNow, row : Row] /\ entry.at <= now /\ entry.row = b
  BY BudgetAssumption DEF TypeOK, RowOK
<1>2. cache' = [cache EXCEPT ![p] = entry]
  BY DEF Keep
<1>3. reads' \in [Procs -> 0..MaxReads]
  <2> DEFINE n == IF Fresh(p) \/ reads[p] = MaxReads THEN reads[p] ELSE reads[p] + 1
  <2>1. reads[p] \in 0..MaxReads
    BY DEF TypeOK
  <2>2. n \in 0..MaxReads
    BY <2>1, BudgetAssumption
  <2>3. reads' = [reads EXCEPT ![p] = n]
    BY DEF Keep
  <2> HIDE DEF n
  <2> QED BY <2>2, <2>3 DEF TypeOK
<1> QED BY <1>1, <1>2, <1>3 DEF TypeOK

\* Every reachable state is type correct: no copy of the budget row, in
\* DynamoDB, a file or a cache, is dated after today, and no breaker stays
\* open longer than a cooldown.
THEOREM TypeCorrect == Spec => []TypeOK
<1>1. Init => TypeOK
  BY BudgetAssumption DEF Init, TypeOK, RowOK, Row, Absent, Days, Steps, Outcomes
<1>2. TypeOK /\ [Next]_vars => TypeOK'
  <2> SUFFICES ASSUME TypeOK, [Next]_vars
               PROVE  TypeOK'
    OBVIOUS
  <2> USE BudgetAssumption
  <2>1. CASE UNCHANGED vars
    BY <2>1 DEF vars, TypeOK, RowOK
  <2>2. CASE Tick
    <3>1. now' = now + 1 /\ now' \in 0..MaxNow /\ day' \in Days /\ day <= day'
      BY <2>2 DEF Tick, TypeOK, Days
    <3>2. \A b : RowOK(b) => b \in Row /\ b.day <= day' /\ b.open <= now' + Cooldown
      BY <3>1 DEF RowOK, Row, TypeOK, Days
    <3>3. reads' \in [Procs -> 0..MaxReads] /\ spent' \in [Procs -> Nat]
      BY <2>2 DEF Tick, TypeOK
    <3> QED BY <2>2, <3>1, <3>2, <3>3 DEF Tick, TypeOK, RowOK
  <2>3. ASSUME NEW p \in Procs, Step(p)
        PROVE  TypeOK'
    <3>1. CASE Admit(p)
      <4>1. PICK src \in Sources : Reads(p, src) /\ Keep(p, Lapse(Load(p, src)))
        BY <3>1 DEF Admit
      <4>2. RowOK(Lapse(Load(p, src)))
        BY LoadOK DEF Lapse, RowOK, Row, TypeOK
      <4>3. /\ cache' \in [Procs -> [at : 0..MaxNow, row : Row]]
            /\ \A q \in Procs : RowOK(cache'[q].row) /\ cache'[q].at <= now
            /\ reads' \in [Procs -> 0..MaxReads]
        BY <4>1, <4>2, KeepOK
      <4>4. faults' \in 0..MaxFaults
        BY <4>1 DEF Reads, TypeOK
      <4>5. calls' \in 0..MaxCalls /\ pc' \in [Procs -> Steps]
        BY <3>1 DEF Admit, Goto, Steps, TypeOK
      <4> QED BY <3>1, <4>3, <4>4, <4>5 DEF Admit, TypeOK, RowOK
    <3>2. CASE Deny(p)
      <4>1. PICK src \in Sources : Reads(p, src) /\ Keep(p, Lapse(Load(p, src)))
        BY <3>2 DEF Deny
      <4>2. RowOK(Lapse(Load(p, src)))
        BY LoadOK DEF Lapse, RowOK, Row, TypeOK
      <4>3. /\ cache' \in [Procs -> [at : 0..MaxNow, row : Row]]
            /\ \A q \in Procs : RowOK(cache'[q].row) /\ cache'[q].at <= now
            /\ reads' \in [Procs -> 0..MaxReads]
        BY <4>1, <4>2, KeepOK
      <4>4. faults' \in 0..MaxFaults
        BY <4>1 DEF Reads, TypeOK
      <4> QED BY <3>2, <4>3, <4>4 DEF Deny, Goto, Steps, TypeOK, RowOK
    <3>3. CASE Refuse(p)
      BY <3>3 DEF Refuse, Goto, Steps, TypeOK, RowOK
    <3>4. ASSUME NEW n \in 0..MaxTokens, NEW o \in Outcomes, Report(p, n, o)
          PROVE  TypeOK'
      BY <3>4 DEF Report, Goto, Steps, TypeOK, RowOK
    <3>5. CASE Answer(p) \/ Error(p) \/ Reject(p)
      BY <3>4, <3>5 DEF Answer, Error, Reject, Outcomes
    <3>6. CASE RecordSpend(p)
      <4>1. PICK src \in Sources : Reads(p, src) /\ Keep(p, Book(Load(p, src), call[p]))
        BY <3>6 DEF RecordSpend
      <4>2. RowOK(Book(Load(p, src), call[p]))
        <5> DEFINE b == Load(p, src)
        <5>1. call[p].tokens \in Nat /\ now \in Nat
          BY DEF TypeOK
        <5>2. RowOK(b)
          BY LoadOK
        <5> HIDE DEF b
        <5>3. b \in Row /\ b.day <= day /\ b.open <= now + Cooldown
          BY <5>2 DEF RowOK
        <5>4. /\ Book(b, call[p]) \in Row
              /\ Book(b, call[p]).day = b.day
              /\ Book(b, call[p]).open \in {b.open, 0, now + Cooldown}
          BY <5>1, <5>3, BookFields DEF TypeOK
        <5>5. RowOK(Book(b, call[p]))
          BY <5>1, <5>3, <5>4 DEF RowOK
        <5> QED BY <5>5 DEF b
      <4>3. /\ cache' \in [Procs -> [at : 0..MaxNow, row : Row]]
            /\ \A q \in Procs : RowOK(cache'[q].row) /\ cache'[q].at <= now
            /\ reads' \in [Procs -> 0..MaxReads]
        BY <4>1, <4>2, KeepOK
      <4>4. faults' \in 0..MaxFaults
        BY <4>1 DEF Reads, TypeOK
      <4>5. since' \in [Days -> Nat] /\ streak' \in Nat /\ hold' \in Nat
        BY <3>6 DEF RecordSpend, TypeOK
      <4>6. spent' \in [Procs -> Nat]
        BY <3>6 DEF RecordSpend, TypeOK
      <4> QED BY <3>6, <4>3, <4>4, <4>5, <4>6 DEF RecordSpend, Goto, Steps, TypeOK, RowOK
    <3>7. CASE Override(p)
      <4>1. PICK src \in Sources : Reads(p, src) /\ Keep(p, Load(p, src))
        BY <3>7 DEF Override
      <4>2. /\ cache' \in [Procs -> [at : 0..MaxNow, row : Row]]
            /\ \A q \in Procs : RowOK(cache'[q].row) /\ cache'[q].at <= now
            /\ reads' \in [Procs -> 0..MaxReads]
        BY <4>1, LoadOK, KeepOK
      <4>3. faults' \in 0..MaxFaults
        BY <4>1 DEF Reads, TypeOK
      <4>4. calls' \in 0..MaxCalls /\ pc' \in [Procs -> Steps]
        BY <3>7 DEF Override, Goto, Steps, TypeOK
      <4>5. call' \in [Procs -> [tokens : 0..MaxTokens, outcome : Outcomes]]
        BY <3>7 DEF Override, Outcomes, TypeOK
      <4> QED BY <3>7, <4>2, <4>3, <4>4, <4>5 DEF Override, TypeOK, RowOK
    <3>8. CASE Save(p)
      <4>1. /\ cache' \in [Procs -> [at : 0..MaxNow, row : Row]]
            /\ \A q \in Procs : cache'[q].row = cache[q].row /\ cache'[q].at <= now
        BY <3>8 DEF Save, TypeOK
      <4>2. /\ RowOK(ddb')
            /\ file' \in [Procs -> Row]
            /\ \A q \in Procs : RowOK(file'[q])
            /\ faults' \in 0..MaxFaults
        <5>1. CASE ddb' = cache[p].row /\ UNCHANGED <<file, faults>>
          BY <5>1 DEF TypeOK
        <5>2. CASE /\ faults < MaxFaults
                   /\ faults' = faults + 1
                   /\ file' \in {file, [file EXCEPT ![p] = cache[p].row]}
                   /\ UNCHANGED ddb
          <6>1. \A q \in Procs : file'[q] \in {file[q], cache[q].row}
            BY <5>2 DEF TypeOK
          <6>2. file' \in [Procs -> Row]
            BY <5>2 DEF TypeOK
          <6> QED BY <5>2, <6>1, <6>2 DEF TypeOK
        <5> QED BY <3>8, <5>1, <5>2 DEF Save, Persist
      <4> QED BY <3>8, <4>1, <4>2 DEF Save, Goto, Steps, TypeOK, RowOK
    <3>9. CASE Restart(p)
      <4>1. /\ cache' \in [Procs -> [at : 0..MaxNow, row : Row]]
            /\ \A q \in Procs : RowOK(cache'[q].row) /\ cache'[q].at <= now
        <5>1. RowOK(Absent) /\ Absent \in Row
          BY AbsentOK DEF RowOK
        <5> HIDE DEF Absent
        <5> QED BY <3>9, <5>1 DEF Restart, TypeOK
      <4> QED BY <3>9, <4>1 DEF Restart, Goto, Steps, TypeOK, RowOK
    <3> QED BY <2>3, <3>1, <3>2, <3>3, <3>5, <3>6, <3>7, <3>8, <3>9 DEF Step
  <2> QED BY <2>1, <2>2, <2>3 DEF Next
<1> QED BY <1>1, <1>2, PTL DEF Spec

-----------------------------------------------------------------------------
(***************************************************************************)
(* Charges.  The property is inductive once rows are known to be of today  *)
(* or before: what record_spend adds to a row it adds to its day.          *)
(***************************************************************************)

\* _load returns a row that charges no more than was recorded: one that was
\* cached or stored, or one a new day has just zeroed.
LEMMA LoadCharged ==
  ASSUME TypeOK, NothingOvercharged, NEW p \in Procs, NEW src \in Sources
  PROVE  Charged(Load(p, src))
<1>1. RowOK(Backing(p, src)) /\ Charged(Backing(p, src))
  BY AbsentOK DEF TypeOK, NothingOvercharged, Backing, Charged, Absent
<1>2. Charged(ResetIfNewDay(Backing(p, src)))
  <2>1. day \in 0..MaxDay /\ Backing(p, src) \in Row /\ since[day] \in Nat
    BY <1>1, BudgetAssumption DEF TypeOK, RowOK, Days
  <2> QED BY <1>1, <2>1, ResetFields DEF Charged
<1> QED BY <1>2 DEF Load, NothingOvercharged

\* No copy of the row, in DynamoDB, a file or a cache, ever charges the
\* workcell with more tokens than were recorded since its bucket's day
\* began, for any number of processes that overwrite each other's rows, any
\* number of failing reads and writes, and any number of midnights.
THEOREM NeverOvercharged == Spec => []NothingOvercharged
<1>1. Init => NothingOvercharged
  BY DEF Init, NothingOvercharged, Charged, Absent
<1>2. TypeOK /\ TypeOK' /\ NothingOvercharged /\ [Next]_vars => NothingOvercharged'
  <2> SUFFICES ASSUME TypeOK, TypeOK', NothingOvercharged, [Next]_vars
               PROVE  NothingOvercharged'
    OBVIOUS
  <2> USE BudgetAssumption
  <2>1. CASE UNCHANGED vars \/ Tick
    BY <2>1 DEF vars, Tick, NothingOvercharged, Charged
  <2>2. ASSUME NEW p \in Procs, NEW b, Charged(b), Keep(p, b),
               UNCHANGED <<ddb, file, since>>
        PROVE  NothingOvercharged'
    BY <2>2 DEF Keep, TypeOK, NothingOvercharged, Charged
  <2>3. ASSUME NEW p \in Procs, Step(p)
        PROVE  NothingOvercharged'
    <3>1. CASE Admit(p) \/ Deny(p)
      <4>1. PICK src \in Sources : Keep(p, Lapse(Load(p, src)))
        BY <3>1 DEF Admit, Deny
      <4>2. Charged(Lapse(Load(p, src)))
        <5> DEFINE b == Load(p, src)
        <5>1. b \in Row /\ now \in Nat /\ Charged(b)
          BY LoadOK, LoadCharged DEF RowOK, TypeOK
        <5> HIDE DEF b
        <5>2. Charged(Lapse(b))
          BY <5>1, LapseFields DEF Charged
        <5> QED BY <5>2 DEF b
      <4> QED BY <2>2, <3>1, <4>1, <4>2 DEF Admit, Deny
    <3>2. CASE Refuse(p) \/ Answer(p) \/ Error(p) \/ Reject(p)
      BY <3>2 DEF Refuse, Answer, Error, Reject, Report, NothingOvercharged, Charged
    <3>3. CASE RecordSpend(p)
      <4> DEFINE n == call[p].tokens
      <4>1. PICK src \in Sources : Keep(p, Book(Load(p, src), call[p]))
        BY <3>3 DEF RecordSpend
      <4>2. n \in Nat /\ \A d \in Days : since'[d] = since[d] + (IF d <= day THEN n ELSE 0)
        BY <3>3 DEF RecordSpend, TypeOK
      <4>3. ASSUME NEW b \in Row, b.day <= day, Charged(b)
            PROVE  b.day # 0 => b.used <= since'[b.day] /\ b.used + n <= since'[b.day]
        <5> HIDE DEF n
        <5>1. b.day # 0 => b.day \in Days /\ b.used \in Nat
          BY DEF Row, Days
        <5>2. \A d \in Days : since[d] \in Nat
          BY DEF TypeOK
        <5> QED BY <4>2, <4>3, <5>1, <5>2 DEF Charged
      <4>4. Book(Load(p, src), call[p]).day # 0
              => Book(Load(p, src), call[p]).used <= since'[Book(Load(p, src), call[p]).day]
        <5> DEFINE b == Load(p, src)
        <5>1. b \in Row /\ b.day <= day /\ Charged(b)
          BY LoadOK, LoadCharged DEF RowOK
        <5>2. call[p] \in [tokens : 0..MaxTokens, outcome : Outcomes] /\ now \in Nat
          BY DEF TypeOK
        <5> HIDE DEF b
        <5>3. /\ Book(b, call[p]).day = b.day
              /\ Book(b, call[p]).used \in {b.used, b.used + n}
          BY <5>1, <5>2, BookFields
        <5>4. b.day # 0 => b.used <= since'[b.day] /\ b.used + n <= since'[b.day]
          BY <4>3, <5>1
        <5>5. Book(b, call[p]).day # 0
                => Book(b, call[p]).used <= since'[Book(b, call[p]).day]
          BY <5>3, <5>4
        <5> QED BY <5>5 DEF b
      <4>5. /\ Charged(ddb)'
            /\ \A q \in Procs : Charged(file[q])' /\ (q # p => Charged(cache[q].row)')
        BY <3>3, <4>1, <4>3 DEF RecordSpend, Keep, TypeOK, RowOK, NothingOvercharged, Charged
      <4>6. Charged(cache[p].row)'
        BY <4>1, <4>4 DEF Keep, TypeOK, Charged
      <4> QED BY <3>3, <4>5, <4>6 DEF RecordSpend, NothingOvercharged, Charged
    <3>4. CASE Override(p)
      <4>1. PICK src \in Sources : Keep(p, Load(p, src))
        BY <3>4 DEF Override
      <4> QED BY <2>2, <3>4, <4>1, LoadCharged DEF Override
    <3>5. CASE Save(p)
      <4>1. \A q \in Procs : cache'[q].row = cache[q].row
        BY <3>5 DEF Save, TypeOK
      <4>2. /\ ddb' \in {ddb, cache[p].row}
            /\ \A q \in Procs : file'[q] \in {file[q], cache[q].row}
        BY <3>5 DEF Save, Persist, TypeOK
      <4> QED BY <3>5, <4>1, <4>2 DEF Save, NothingOvercharged, Charged
    <3>6. CASE Restart(p)
      BY <3>6 DEF Restart, TypeOK, NothingOvercharged, Charged, Absent
    <3> QED BY <2>3, <3>1, <3>2, <3>3, <3>4, <3>5, <3>6 DEF Step
  <2> QED BY <2>1, <2>3 DEF Next
<1> QED BY <1>1, <1>2, TypeCorrect, PTL DEF Spec

-----------------------------------------------------------------------------
(***************************************************************************)
(* The inductive invariant of a workcell served by the one process p, as   *)
(* long as nothing failed.  The live row is the one the next save leaves   *)
(* in DynamoDB; it accounts for the day's tokens in full while it is still *)
(* yesterday's, and up to one lost bucket once it is today's.              *)
(***************************************************************************)
Live(p) == IF pc[p] = "saving" THEN cache[p].row ELSE ddb

Accounts(b) ==
    /\ b.used <= Ceiling
    /\ b.errors = streak
    /\ now < hold => b.open = hold
    /\ b.day < day => since[day] <= b.used
    /\ b.day = day => since[day] <= Ceiling + b.used

\* The row is the stored one, or was reset from it and not charged since.
Mirrors(b) ==
    /\ b.errors = streak
    /\ now < hold => b.open = hold
    /\ \/ b.day = ddb.day /\ b.used = ddb.used
       \/ /\ ddb.day < b.day
          /\ b.used = 0
          /\ \A e \in Days : e > b.day => since[e] = 0

Room(b) == b.day # 0 /\ b.used + Est <= MaxQuota

FutureUntouched == \A e \in Days : e > day => since[e] = 0

SavesARow(p) == (ddb.day = 0 => ddb = Absent) /\ (pc[p] = "saving" => cache[p].row.day # 0)

\* What a call was let through for is still there when it is recorded.
AdmittedHasRoom(p) ==
    \/ pc[p] = "admitted"
    \/ pc[p] = "recording" /\ call[p].outcome = "success"
    => Room(cache[p].row)

Undisturbed(p) ==
    /\ file[p] = Absent
    /\ Accounts(Live(p))
    /\ pc[p] # "saving" /\ cache[p].row.day # 0 => Mirrors(cache[p].row)
    /\ AdmittedHasRoom(p)
    /\ call[p].outcome # "success" => call[p].tokens = 0

SoloInv(p) == FutureUntouched /\ SavesARow(p) /\ (faults = 0 => Undisturbed(p))

\* The largest quota bounds every quota.
LEMMA MaxQuotaBounds == MaxQuota \in Nat /\ \A q \in Quotas : q <= MaxQuota
<1>1. \E q \in Quotas : \A r \in Quotas : r <= q
  BY BudgetAssumption
<1>2. MaxQuota \in Quotas /\ \A r \in Quotas : r <= MaxQuota
  BY <1>1 DEF MaxQuota
<1> QED BY <1>2, BudgetAssumption

\* Whatever the cache holds, _load returns a row that accounts for the day,
\* mirrors the stored one and has the room the cached one had.
LEMMA SoloLoad ==
  ASSUME NEW p \in Procs, TypeOK, SoloInv(p), faults = 0, pc[p] # "saving"
  PROVE  LET b == Load(p, "ddb")
         IN  Accounts(b) /\ Mirrors(b) /\ (Room(cache[p].row) => Room(b))
<1> USE BudgetAssumption
<1> DEFINE c == cache[p].row
<1>1. /\ ddb \in Row /\ ddb.day <= day
      /\ c \in Row /\ c.day <= day
      /\ day \in 0..MaxDay /\ day \in Days /\ day # 0
      /\ since[day] \in Nat /\ now \in Nat
  BY DEF TypeOK, RowOK, Days
<1>2. Accounts(ddb) /\ (c.day # 0 => Mirrors(c)) /\ FutureUntouched
  BY DEF SoloInv, Undisturbed, Live
<1>3. Est \in Nat /\ MaxQuota \in Nat /\ Ceiling \in Int
  BY MaxQuotaBounds DEF Ceiling
<1>4. CASE Fresh(p)
  <2>1. Load(p, "ddb") = c /\ c.day # 0 /\ Mirrors(c)
    BY <1>2, <1>4 DEF Load, Fresh
  <2> HIDE DEF c
  <2>2. ASSUME c.day = ddb.day, c.used = ddb.used
        PROVE  Accounts(c)
    BY <1>2, <2>1, <2>2 DEF Accounts, Mirrors
  <2>3. ASSUME ddb.day < c.day, c.used = 0, \A e \in Days : e > c.day => since[e] = 0
        PROVE  Accounts(c)
    <3>1. ddb.used \in Nat /\ ddb.day \in Nat /\ c.day \in Nat
      BY <1>1 DEF Row
    <3> QED BY <1>1, <1>2, <1>3, <2>1, <2>3, <3>1 DEF Accounts, Mirrors
  <2>4. Accounts(c)
    BY <2>1, <2>2, <2>3 DEF Mirrors
  <2> QED BY <2>1, <2>4 DEF c
<1>5. CASE ~Fresh(p)
  <2>1. Backing(p, "ddb") = ddb
    BY DEF Backing, SoloInv, Undisturbed, SavesARow
  <2> DEFINE b == Load(p, "ddb")
  <2>2. /\ b.day = day
        /\ b.used = IF ddb.day = day THEN ddb.used ELSE 0
        /\ b.errors = ddb.errors
        /\ b.open = ddb.open
    BY <1>1, <1>5, <2>1, ResetFields DEF Load
  <2> HIDE DEF b, c
  <2>3. Accounts(b) /\ Mirrors(b)
    <3>1. ddb.used \in Nat /\ ddb.day \in Nat
      BY <1>1 DEF Row
    <3>2. CASE ddb.day = day
      BY <1>2, <2>2, <3>2 DEF Accounts, Mirrors
    <3>3. CASE ddb.day # day
      BY <1>1, <1>2, <1>3, <2>2, <3>1, <3>3 DEF Accounts, Mirrors, FutureUntouched
    <3> QED BY <3>2, <3>3
  <2>4. Room(c) => Room(b)
    <3>1. ddb.used \in Nat /\ ddb.day \in Nat /\ c.day \in Nat /\ c.used \in Nat
      BY <1>1 DEF Row
    <3>2. CASE ddb.day = day
      BY <1>1, <1>2, <2>2, <3>1, <3>2 DEF Room, Mirrors
    <3>3. CASE ddb.day # day
      BY <1>1, <1>3, <2>2, <3>1, <3>3 DEF Room
    <3> QED BY <3>2, <3>3
  <2> QED BY <2>3, <2>4 DEF b, c
<1> QED BY <1>4, <1>5

\* The invariant is inductive.
LEMMA SoloStep ==
  ASSUME NEW p, Procs = {p}, TypeOK, TypeOK', SoloInv(p), [Next]_vars
  PROVE  SoloInv(p)'
<1> USE BudgetAssumption
<1>0. p \in Procs
  OBVIOUS
<1>1. /\ now \in Nat /\ day \in Days /\ day \in Nat /\ streak \in Nat /\ hold \in Nat
      /\ Est \in Nat /\ MaxTokens \in Nat /\ MaxQuota \in Nat /\ Ceiling \in Int
      /\ \A e \in Days : since[e] \in Nat
      /\ ddb \in Row /\ cache[p].row \in Row
      /\ call[p] \in [tokens : 0..MaxTokens, outcome : Outcomes]
  <2>1. MaxQuota \in Nat /\ Ceiling \in Int
    BY MaxQuotaBounds DEF Ceiling
  <2>2. day \in Days /\ \A e \in Days : since[e] \in Nat
    BY DEF TypeOK
  <2>3. day \in Nat
    BY <2>2 DEF Days
  <2> QED BY <1>0, <2>1, <2>2, <2>3 DEF TypeOK, RowOK
<1>2. CASE UNCHANGED vars
  BY <1>2 DEF vars, SoloInv, FutureUntouched, SavesARow, Undisturbed, AdmittedHasRoom, Live,
              Accounts, Mirrors, Room
<1>3. CASE Tick
  <2>1. /\ now' = now + 1
        /\ day' \in Days /\ day' \in {day, day + 1}
        /\ UNCHANGED <<ddb, file, cache, pc, call, faults, since, streak, hold>>
    BY <1>1, <1>3 DEF Tick
  <2>2. FutureUntouched' /\ SavesARow(p)'
    BY <1>1, <2>1 DEF SoloInv, FutureUntouched, SavesARow, Days
  <2>3. ASSUME NEW b \in Row, b.day <= day, Accounts(b)
        PROVE  Accounts(b)'
    <3>1. b.day \in Nat /\ b.used \in Nat
      BY DEF Row
    <3>2. CASE day' = day
      BY <1>1, <2>1, <2>3, <3>2 DEF Accounts
    <3>3. CASE day' = day + 1
      <4>1. since'[day'] = 0
        BY <1>1, <2>1, <3>3 DEF SoloInv, FutureUntouched
      <4> QED BY <1>1, <2>1, <2>3, <3>1, <3>3, <4>1 DEF Accounts
    <3> QED BY <2>1, <3>2, <3>3
  <2>4. ASSUME NEW b \in Row, Mirrors(b)
        PROVE  Mirrors(b)'
    BY <1>1, <2>1, <2>4 DEF Mirrors
  <2>5. faults' = 0 => Undisturbed(p)'
    <3> SUFFICES ASSUME faults' = 0 PROVE Undisturbed(p)'
      OBVIOUS
    <3>1. Undisturbed(p)
      BY <2>1 DEF SoloInv
    <3>2. Live(p) \in Row /\ Live(p).day <= day /\ Live(p)' = Live(p)
      BY <1>0, <1>1, <2>1 DEF Live, TypeOK, RowOK
    <3>3. Accounts(Live(p))'
      BY <2>3, <3>1, <3>2 DEF Undisturbed, Accounts
    <3> QED BY <1>1, <2>1, <2>4, <3>1, <3>3 DEF Undisturbed, AdmittedHasRoom, Room, Mirrors
  <2> QED BY <2>2, <2>5 DEF SoloInv
<1>4. CASE Step(p)
  \* What every step but a recording leaves alone.
  <2>1. ASSUME UNCHANGED <<now, day, ddb, file, since, streak, hold>>
        PROVE  /\ FutureUntouched'
               /\ \A b : Accounts(b) => Accounts(b)'
               /\ \A b : Mirrors(b) => Mirrors(b)'
    BY <2>1 DEF SoloInv, FutureUntouched, Accounts, Mirrors
  <2>2. CASE Admit(p)
    <3>1. PICK src \in Sources, quota \in Quotas :
             Reads(p, src) /\ Allowed(Load(p, src), quota) /\ Keep(p, Lapse(Load(p, src)))
      BY <2>2 DEF Admit
    <3> DEFINE b == Load(p, src)
               r == Lapse(b)
    <3>2. /\ UNCHANGED <<now, day, ddb, file, call, since, streak, hold>>
          /\ pc[p] # "saving" /\ pc'[p] = "admitted"
          /\ cache'[p].row = r
      BY <1>0, <2>2, <3>1 DEF Admit, Free, Goto, Keep, TypeOK
    <3>3. SavesARow(p)'
      BY <3>2 DEF SoloInv, SavesARow
    <3>4. ASSUME faults' = 0
          PROVE  Undisturbed(p)'
      <4>1. src = "ddb" /\ faults = 0
        BY <3>1, <3>4 DEF Reads, TypeOK
      <4>2. Accounts(ddb) /\ Mirrors(b)
        BY <1>0, <3>2, <4>1, SoloLoad DEF SoloInv, Undisturbed, Live
      <4>3. b \in Row /\ b.day # 0 /\ ~CircuitOpen(b) /\ b.used + Est <= quota
        BY <1>0, <3>1, LoadOK DEF RowOK, Allowed
      <4>4. /\ r.day = b.day /\ r.used = b.used /\ r.errors = b.errors
            /\ r.open = 0
        BY <1>1, <4>3, LapseFields
      <4> HIDE DEF b, r
      <4>5. now >= hold
        BY <1>1, <4>2, <4>3 DEF CircuitOpen, Mirrors
      <4>6. Mirrors(r)
        BY <1>1, <4>2, <4>4, <4>5 DEF Mirrors
      <4>7. Room(r)
        <5>1. quota <= MaxQuota /\ quota \in Nat /\ b.used \in Nat
          BY <4>3, MaxQuotaBounds DEF Row
        <5> QED BY <1>1, <4>3, <4>4, <5>1 DEF Room
      <4>8. Accounts(Live(p))'
        BY <2>1, <3>2, <4>2 DEF Live, Accounts
      <4>9. Mirrors(cache[p].row)' /\ Room(cache[p].row)'
        BY <2>1, <3>2, <4>6, <4>7 DEF Mirrors, Room
      <4> QED BY <3>2, <4>1, <4>8, <4>9 DEF SoloInv, Undisturbed, AdmittedHasRoom
    <3> QED BY <2>1, <3>2, <3>3, <3>4 DEF SoloInv
  <2>3. CASE Deny(p)
    <3>1. PICK src \in Sources : Reads(p, src) /\ Keep(p, Lapse(Load(p, src)))
      BY <2>3 DEF Deny
    <3> DEFINE b == Load(p, src)
               r == Lapse(b)
    <3>2. /\ UNCHANGED <<now, day, ddb, file, call, since, streak, hold>>
          /\ pc[p] # "saving" /\ pc'[p] = "idle"
          /\ cache'[p].row = r
      BY <1>0, <2>3, <3>1 DEF Deny, Free, Goto, Keep, TypeOK
    <3>3. SavesARow(p)'
      BY <3>2 DEF SoloInv, SavesARow
    <3>4. ASSUME faults' = 0
          PROVE  Undisturbed(p)'
      <4>1. src = "ddb" /\ faults = 0
        BY <3>1, <3>4 DEF Reads, TypeOK
      <4>2. Accounts(ddb) /\ Mirrors(b)
        BY <1>0, <3>2, <4>1, SoloLoad DEF SoloInv, Undisturbed, Live
      <4>3. b \in Row
        BY <1>0, LoadOK DEF RowOK
      <4>4. /\ r.day = b.day /\ r.used = b.used /\ r.errors = b.errors
            /\ r.open = IF CircuitOpen(b) THEN b.open ELSE 0
        BY <1>1, <4>3, LapseFields
      <4> HIDE DEF b, r
      <4>5. Mirrors(r)
        BY <1>1, <4>2, <4>4 DEF CircuitOpen, Mirrors
      <4>6. Accounts(Live(p))' /\ Mirrors(cache[p].row)'
        BY <2>1, <3>2, <4>2, <4>5 DEF Live, Accounts, Mirrors
      <4> QED BY <3>2, <4>1, <4>6 DEF SoloInv, Undisturbed, AdmittedHasRoom
    <3> QED BY <2>1, <3>2, <3>3, <3>4 DEF SoloInv
  <2>4. CASE Refuse(p)
    <3>1. /\ UNCHANGED <<now, day, ddb, file, cache, call, faults, since, streak, hold>>
          /\ pc[p] # "saving" /\ pc'[p] = "idle"
      BY <1>0, <2>4 DEF Refuse, Goto, TypeOK
    <3> QED BY <2>1, <3>1 DEF SoloInv, SavesARow, Undisturbed, AdmittedHasRoom, Live, Accounts, Mirrors
  <2>5. ASSUME NEW n \in 0..MaxTokens, NEW o \in Outcomes, Report(p, n, o),
               pc[p] # "saving", o # "success" => n = 0, o = "success" => pc[p] = "admitted"
        PROVE  SoloInv(p)'
    <3>1. /\ UNCHANGED <<now, day, ddb, file, cache, faults, since, streak, hold>>
          /\ pc'[p] = "recording"
          /\ call'[p].tokens = n /\ call'[p].outcome = o
      BY <1>0, <2>5 DEF Report, Goto, TypeOK
    <3>2. faults' = 0 => AdmittedHasRoom(p)'
      BY <2>5, <3>1 DEF SoloInv, Undisturbed, AdmittedHasRoom, Room
    <3> QED BY <2>1, <2>5, <3>1, <3>2 DEF SoloInv, SavesARow, Undisturbed, Live, Accounts, Mirrors
  <2>6. CASE Answer(p) \/ Error(p) \/ Reject(p)
    BY <1>1, <2>5, <2>6 DEF Answer, Error, Reject, Outcomes
  <2>7. CASE RecordSpend(p)
    <3>1. PICK src \in Sources : Reads(p, src) /\ Keep(p, Book(Load(p, src), call[p]))
      BY <2>7 DEF RecordSpend
    <3> DEFINE b == Load(p, src)
               r == Book(b, call[p])
               n == call[p].tokens
    <3>2. /\ UNCHANGED <<now, day, ddb, file, call>>
          /\ pc[p] = "recording" /\ pc'[p] = "saving"
          /\ cache'[p].row = r
      BY <1>0, <2>7, <3>1 DEF RecordSpend, Goto, Keep, TypeOK
    <3>3. /\ n \in Nat /\ n <= MaxTokens
          /\ \A e \in Days : since'[e] = IF e <= day THEN since[e] + n ELSE since[e]
      BY <1>1, <2>7 DEF RecordSpend
    <3>4. FutureUntouched'
      BY <1>1, <3>2, <3>3 DEF SoloInv, FutureUntouched, Days
    <3>5. b \in Row /\ b.day # 0
      BY <1>0, LoadOK DEF RowOK
    <3>6. /\ r \in Row /\ r.day = b.day
          /\ call[p].outcome = "error" =>
                /\ r.used = b.used
                /\ r.errors = b.errors + 1
                /\ r.open = IF b.errors + 1 >= Threshold THEN now + Cooldown ELSE b.open
          /\ call[p].outcome # "error" => r.used = b.used + n /\ r.errors = 0 /\ r.open = 0
      BY <1>1, <3>5, BookFields
    <3>7. SavesARow(p)'
      BY <3>2, <3>5, <3>6 DEF SoloInv, SavesARow
    <3>8. ASSUME faults' = 0
          PROVE  Undisturbed(p)'
      <4>1. src = "ddb" /\ faults = 0
        BY <3>1, <3>8 DEF Reads, TypeOK
      <4>2. Accounts(b) /\ (Room(cache[p].row) => Room(b))
        BY <1>0, <3>2, <4>1, SoloLoad
      <4>3. call[p].outcome = "success" => Room(b)
        BY <3>2, <4>1, <4>2 DEF SoloInv, Undisturbed, AdmittedHasRoom
      <4>4. call[p].outcome # "success" => n = 0
        BY <4>1 DEF SoloInv, Undisturbed
      <4>5. IF call[p].outcome = "error"
            THEN /\ streak' = streak + 1
                 /\ hold' = IF streak + 1 >= Threshold THEN now + Cooldown ELSE hold
            ELSE streak' = 0 /\ hold' = 0
        BY <2>7 DEF RecordSpend
      <4>6. b.used \in Nat /\ b.day \in Nat /\ r.used = b.used + n
        BY <1>1, <3>3, <3>5, <3>6, <4>4 DEF Row
      <4>7. since'[day] = since[day] + n /\ since[day] \in Nat
        BY <1>1, <3>3
      <4> HIDE DEF b, r, n
      <4>8. r.used <= Ceiling
        <5>1. CASE call[p].outcome = "success"
          <6>1. b.used + Est <= MaxQuota
            BY <4>3, <5>1 DEF Room
          <6> QED BY <1>1, <3>3, <4>6, <6>1 DEF Ceiling
        <5>2. CASE call[p].outcome # "success"
          BY <4>2, <4>4, <4>6, <5>2 DEF Accounts
        <5> QED BY <5>1, <5>2
      <4>9. r.errors = streak' /\ (now < hold' => r.open = hold')
        BY <1>1, <3>6, <4>2, <4>5 DEF Accounts
      <4>10. /\ r.day < day => since'[day] <= r.used
             /\ r.day = day => since'[day] <= Ceiling + r.used
        BY <1>1, <3>3, <3>6, <4>2, <4>6, <4>7 DEF Accounts
      <4>11. Accounts(Live(p))'
        BY <3>2, <4>8, <4>9, <4>10 DEF Live, Accounts
      <4> QED BY <3>2, <4>1, <4>11 DEF SoloInv, Undisturbed, AdmittedHasRoom
    <3> QED BY <3>4, <3>7, <3>8 DEF SoloInv
  <2>8. CASE Override(p)
    <3>1. PICK src \in Sources : Reads(p, src) /\ Keep(p, Load(p, src))
      BY <2>8 DEF Override
    <3> DEFINE b == Load(p, src)
    <3>2. /\ UNCHANGED <<now, day, ddb, file, since, streak, hold>>
          /\ pc[p] # "saving" /\ pc'[p] = "saving"
          /\ cache'[p].row = b
          /\ call'[p].tokens = 0
      BY <1>0, <2>8, <3>1 DEF Override, Free, Goto, Keep, TypeOK
    <3>3. SavesARow(p)'
      BY <1>0, <3>2, LoadOK DEF SoloInv, SavesARow
    <3>4. ASSUME faults' = 0
          PROVE  Undisturbed(p)'
      <4>1. src = "ddb" /\ faults = 0
        BY <3>1, <3>4 DEF Reads, TypeOK
      <4>2. Accounts(b)
        BY <1>0, <3>2, <4>1, SoloLoad
      <4> HIDE DEF b
      <4>3. Accounts(Live(p))'
        BY <2>1, <3>2, <4>2 DEF Live, Accounts
      <4> QED BY <3>2, <4>1, <4>3 DEF SoloInv, Undisturbed, AdmittedHasRoom
    <3> QED BY <2>1, <3>2, <3>3, <3>4 DEF SoloInv
  <2>9. CASE Save(p)
    <3> DEFINE c == cache[p].row
    <3>1. /\ UNCHANGED <<now, day, call, since, streak, hold>>
          /\ pc[p] = "saving" /\ pc'[p] \in {"idle", "returned"}
          /\ cache'[p].row = c
          /\ c.day # 0
      BY <1>0, <2>9 DEF Save, Goto, TypeOK, SoloInv, SavesARow
    <3>2. FutureUntouched' /\ SavesARow(p)'
      BY <2>9, <3>1 DEF Save, Persist, SoloInv, FutureUntouched, SavesARow
    <3>3. ASSUME faults' = 0
          PROVE  Undisturbed(p)'
      <4>1. faults = 0 /\ ddb' = c /\ UNCHANGED file
        BY <2>9, <3>3 DEF Save, Persist, TypeOK
      <4>2. Accounts(c)
        BY <3>1, <4>1 DEF SoloInv, Undisturbed, Live
      <4> HIDE DEF c
      <4>3. Accounts(Live(p))'
        BY <3>1, <4>1, <4>2 DEF Live, Accounts
      <4>4. Mirrors(cache[p].row)'
        BY <3>1, <4>1, <4>2 DEF Accounts, Mirrors
      <4> QED BY <3>1, <4>1, <4>3, <4>4 DEF SoloInv, Undisturbed, AdmittedHasRoom
    <3> QED BY <3>2, <3>3 DEF SoloInv
  <2>10. CASE Restart(p)
    <3>1. /\ UNCHANGED <<now, day, ddb, file, call, since, streak, hold>>
          /\ pc'[p] = "idle" /\ cache'[p].row.day = 0
      BY <1>0, <2>10 DEF Restart, Goto, TypeOK, Absent
    <3>2. faults' = 0 => faults = 0 /\ pc[p] # "saving"
      BY <2>10 DEF Restart, Free, TypeOK
    <3> QED BY <2>1, <3>1, <3>2 DEF SoloInv, SavesARow, Undisturbed, AdmittedHasRoom, Live, Accounts
  <2> QED BY <1>4, <2>2, <2>3, <2>4, <2>6, <2>7, <2>8, <2>9, <2>10 DEF Step
<1> QED BY <1>2, <1>3, <1>4 DEF Next

\* The invariant holds in every state of a workcell one process serves.
LEMMA SoloInvariant ==
  ASSUME NEW p, Procs = {p}
  PROVE  Spec => []SoloInv(p)
<1>1. Init => SoloInv(p)
  <2> SUFFICES ASSUME Init PROVE SoloInv(p)
    OBVIOUS
  <2>1. Ceiling \in Int /\ Ceiling >= 0
    BY MaxQuotaBounds, BudgetAssumption DEF Ceiling
  <2>2. Accounts(ddb)
    BY <2>1, BudgetAssumption DEF Init, Accounts, Absent, Days
  <2> QED BY <2>2 DEF Init, SoloInv, FutureUntouched, SavesARow, Undisturbed, AdmittedHasRoom,
                      Live, Absent, Days
<1>2. TypeOK /\ TypeOK' /\ SoloInv(p) /\ [Next]_vars => SoloInv(p)'
  BY SoloStep
<1> QED BY <1>1, <1>2, TypeCorrect, PTL DEF Spec

\* A workcell that one process serves while nothing fails is charged at most
\* two buckets a day, the one it carried over midnight and today's own.
THEOREM SoloDay ==
  ASSUME NEW p, Procs = {p}
  PROVE  Spec => []DayWithinTwice
<1>1. TypeOK /\ SoloInv(p) => DayWithinTwice
  <2> SUFFICES ASSUME TypeOK, SoloInv(p), faults = 0
               PROVE  since[day] <= 2 * Ceiling
    BY DEF DayWithinTwice
  <2>1. Accounts(Live(p))
    BY DEF SoloInv, Undisturbed
  <2>2. Live(p).used \in Nat /\ Live(p).day \in Nat /\ Live(p).day <= day
    BY DEF Live, TypeOK, RowOK, Row
  <2>3. since[day] \in Nat /\ Ceiling \in Int /\ day \in Nat
    BY MaxQuotaBounds, BudgetAssumption DEF TypeOK, Days, Ceiling
  <2> HIDE DEF Ceiling
  <2> QED BY <2>1, <2>2, <2>3 DEF Accounts
<1> QED BY <1>1, TypeCorrect, SoloInvariant, PTL

\* A workcell that one process serves while nothing fails has no call let
\* through before the cooldown is over, across cache expiries, restarts and
\* midnights.
THEOREM SoloBreaker ==
  ASSUME NEW p, Procs = {p}
  PROVE  Spec => BreakerHolds
<1>1. ASSUME TypeOK, SoloInv(p), Next,
             pc[p] # "admitted", pc'[p] = "admitted", faults' = 0
      PROVE  now >= hold
  <2>1. Admit(p)
    BY <1>1 DEF Next, Tick, Step, Deny, Refuse, Answer, Error, Reject, Report, RecordSpend,
                Override, Save, Restart, Goto, TypeOK
  <2>2. PICK src \in Sources, quota \in Quotas :
           Reads(p, src) /\ Allowed(Load(p, src), quota)
    BY <2>1 DEF Admit
  <2>3. src = "ddb" /\ faults = 0 /\ pc[p] # "saving"
    BY <1>1, <2>1, <2>2 DEF Reads, TypeOK, Admit, Free
  <2>4. Mirrors(Load(p, src)) /\ ~CircuitOpen(Load(p, src))
    BY <1>1, <2>2, <2>3, SoloLoad DEF Allowed
  <2>5. now \in Nat /\ hold \in Nat
    BY <1>1 DEF TypeOK
  <2> QED BY <2>4, <2>5 DEF Mirrors, CircuitOpen
<1>2. TypeOK /\ SoloInv(p) /\ [Next]_vars
        => [NoCallInCooldown]_vars
  BY <1>1 DEF NoCallInCooldown
<1> QED BY <1>2, TypeCorrect, SoloInvariant, PTL DEF Spec, BreakerHolds

-----------------------------------------------------------------------------
(***************************************************************************)
(* One quota for each read.  What a process spent is one Ceiling for each  *)
(* of its reads and what its cached row was charged with; a process whose  *)
(* cache is empty has used that part up.  The room that a call was let     *)
(* through for is in the process's own cache, which no other process       *)
(* changes, so the argument needs neither a lone process nor a working     *)
(* store.                                                                  *)
(***************************************************************************)
Carried(p) ==
    IF cache[p].row.day # 0 /\ cache[p].row.used <= Ceiling
    THEN cache[p].row.used
    ELSE Ceiling

Account(p) == reads[p] < MaxReads => spent[p] <= reads[p] * Ceiling + Carried(p)

PaidInv(p) ==
    /\ AdmittedHasRoom(p)
    /\ call[p].outcome # "success" => call[p].tokens = 0
    /\ Account(p)

\* The ceiling is a number of tokens, and one call fits under it when a check
\* can let a call through at all.
LEMMA CeilingBounds ==
  /\ Ceiling \in Nat
  /\ Est <= MaxQuota => MaxTokens <= Ceiling
  /\ \A b \in Row : Room(b) => Est <= MaxQuota
<1>1. MaxQuota \in Nat /\ Est \in Nat /\ MaxTokens \in Nat /\ Est <= MaxTokens
  BY MaxQuotaBounds, BudgetAssumption
<1>2. \A b \in Row : b.used \in Nat
  BY DEF Row
<1> QED BY <1>1, <1>2 DEF Ceiling, Room

\* Caching a row that t tokens were booked on keeps the account: a fresh cache
\* carries them, and a read past the cache pays for what was carried before.
LEMMA KeepAccount ==
  ASSUME TypeOK, NEW p \in Procs, Account(p),
         NEW b \in Row, b.day # 0, NEW t \in Nat, Keep(p, b),
         spent'[p] = IF reads'[p] < MaxReads THEN spent[p] + t ELSE spent[p],
         t <= b.used, t <= Ceiling,
         Fresh(p) => b.used = cache[p].row.used + t,
         Fresh(p) /\ t # 0 => b.used <= Ceiling
  PROVE  Account(p)'
<1>1. /\ reads[p] \in Nat /\ reads[p] <= MaxReads /\ MaxReads \in Nat
      /\ spent[p] \in Nat /\ Ceiling \in Nat
      /\ b.used \in Nat /\ cache[p].row.used \in Nat
  BY CeilingBounds, BudgetAssumption DEF TypeOK, Row
<1>2. /\ cache'[p].row = b
      /\ reads'[p] = IF Fresh(p) \/ reads[p] = MaxReads THEN reads[p] ELSE reads[p] + 1
  BY DEF Keep, TypeOK
<1>3. Carried(p)' = IF b.used <= Ceiling THEN b.used ELSE Ceiling
  BY <1>2 DEF Carried, Ceiling, MaxQuota
<1>4. /\ reads[p] * Ceiling \in Nat
      /\ (reads[p] + 1) * Ceiling = reads[p] * Ceiling + Ceiling
  BY <1>1
<1>5. Carried(p) \in Nat /\ Carried(p) <= Ceiling
  BY <1>1 DEF Carried
<1>6. SUFFICES ASSUME reads'[p] < MaxReads
               PROVE  spent[p] + t <= reads'[p] * Ceiling + Carried(p)'
  BY DEF Account, Ceiling, MaxQuota
<1>7. reads[p] < MaxReads /\ spent[p] <= reads[p] * Ceiling + Carried(p)
  BY <1>1, <1>2, <1>6 DEF Account
<1> HIDE DEF Ceiling
<1>8. CASE Fresh(p)
  <2>1. cache[p].row.day # 0 /\ reads'[p] = reads[p] /\ b.used = cache[p].row.used + t
    BY <1>2, <1>8 DEF Fresh
  <2>2. Carried(p) + t <= Carried(p)'
    <3>1. CASE t = 0
      BY <1>1, <1>3, <2>1, <3>1 DEF Carried
    <3>2. CASE t # 0
      BY <1>1, <1>3, <1>8, <2>1, <3>2 DEF Carried
    <3> QED BY <3>1, <3>2
  <2>3. Carried(p)' \in Nat
    BY <1>1, <1>3
  <2> QED BY <1>1, <1>4, <1>5, <1>7, <2>1, <2>2, <2>3
<1>9. CASE ~Fresh(p)
  <2>1. reads'[p] = reads[p] + 1
    BY <1>1, <1>2, <1>6, <1>7, <1>9
  <2>2. t <= Carried(p)' /\ Carried(p)' \in Nat
    BY <1>1, <1>3
  <2>3. reads'[p] * Ceiling = reads[p] * Ceiling + Ceiling
    BY <1>4, <2>1
  <2> QED BY <1>1, <1>4, <1>5, <1>7, <2>2, <2>3
<1> QED BY <1>8, <1>9

\* The invariant is inductive: a process's own steps keep its account, and the
\* steps of the others do not touch it.
LEMMA PaidStep ==
  ASSUME TypeOK, TypeOK', NEW p \in Procs, PaidInv(p), [Next]_vars
  PROVE  PaidInv(p)'
<1> USE BudgetAssumption
<1>1. /\ now \in Nat /\ day \in Days
      /\ reads[p] \in 0..MaxReads /\ spent[p] \in Nat
      /\ cache[p].row \in Row /\ cache[p].row.used \in Nat
      /\ call[p] \in [tokens : 0..MaxTokens, outcome : Outcomes]
      /\ call[p].tokens \in Nat /\ call[p].tokens <= MaxTokens
      /\ Ceiling \in Nat
      /\ Carried(p) \in Nat /\ Carried(p) <= Ceiling
  <2>1. Ceiling \in Nat
    BY CeilingBounds
  <2>2. cache[p].row.used \in Nat
    BY DEF TypeOK, Row
  <2> HIDE DEF Ceiling
  <2> QED BY <2>1, <2>2 DEF TypeOK, RowOK, Carried
<1>2. ASSUME cache'[p].row = cache[p].row, pc'[p] = pc[p], call'[p] = call[p],
             reads'[p] = reads[p], spent'[p] = spent[p]
      PROVE  PaidInv(p)'
  BY <1>2 DEF PaidInv, AdmittedHasRoom, Account, Carried, Room, Ceiling, MaxQuota
<1>3. CASE UNCHANGED vars
  BY <1>2, <1>3 DEF vars
<1>4. CASE Tick
  <2>1. UNCHANGED <<cache, pc, call>>
    BY <1>4 DEF Tick
  <2>2. CASE UNCHANGED <<reads, spent>>
    BY <1>2, <2>1, <2>2
  <2>3. CASE reads'[p] = 0 /\ spent'[p] = 0
    <3>1. Carried(p)' = Carried(p) /\ Ceiling' = Ceiling
      BY <2>1 DEF Carried, Ceiling, MaxQuota
    <3> HIDE DEF Ceiling
    <3>2. Account(p)'
      BY <1>1, <2>3, <3>1 DEF Account
    <3> QED BY <2>1, <3>2 DEF PaidInv, AdmittedHasRoom, Room, MaxQuota
  <2> QED BY <1>4, <2>2, <2>3 DEF Tick
<1>5. ASSUME NEW q \in Procs, q # p, Step(q)
      PROVE  PaidInv(p)'
  <2>1. cache'[p] = cache[p] /\ pc'[p] = pc[p] /\ call'[p] = call[p]
    BY <1>5 DEF Step, Admit, Deny, Refuse, Answer, Error, Reject, Report, RecordSpend, Override,
                Save, Restart, Goto, Keep, TypeOK
  <2>2. reads'[p] = reads[p] /\ spent'[p] = spent[p]
    BY <1>5 DEF Step, Admit, Deny, Refuse, Answer, Error, Reject, Report, RecordSpend, Override,
                Save, Restart, Keep, TypeOK
  <2> QED BY <1>2, <2>1, <2>2
<1>6. CASE Step(p)
  \* A row cached without a charge, by can_spend or an override.
  <2>1. ASSUME NEW src \in Sources, NEW b \in Row, Keep(p, b), spent' = spent,
               b.day = Load(p, src).day, b.used = Load(p, src).used
        PROVE  Account(p)'
    <3> DEFINE t == 0
    <3>1. b.day # 0 /\ t <= b.used
      BY <2>1, LoadOK DEF Row
    <3>2. Fresh(p) => b.used = cache[p].row.used + t
      BY <1>1, <2>1 DEF Load
    <3>3. spent'[p] = IF reads'[p] < MaxReads THEN spent[p] + t ELSE spent[p]
      BY <1>1, <2>1
    <3>4. Account(p)
      BY DEF PaidInv
    <3>5. t \in Nat /\ t <= Ceiling /\ ~(t # 0)
      BY <1>1
    <3> HIDE DEF t
    <3> QED BY <2>1, <3>1, <3>2, <3>3, <3>4, <3>5, KeepAccount
  <2>2. CASE Admit(p)
    <3>1. PICK src \in Sources, quota \in Quotas :
             Allowed(Load(p, src), quota) /\ Keep(p, Lapse(Load(p, src)))
      BY <2>2 DEF Admit
    <3> DEFINE b == Load(p, src)
               r == Lapse(b)
    <3>2. b \in Row /\ b.day # 0 /\ b.used \in Nat
      BY LoadOK DEF RowOK, Row
    <3>3. r \in Row /\ r.day = b.day /\ r.used = b.used
      BY <1>1, <3>2, LapseFields
    <3>4. Account(p)'
      BY <2>1, <2>2, <3>1, <3>3 DEF Admit
    <3>5. Room(r)
      BY <3>1, <3>2, <3>3, MaxQuotaBounds DEF Allowed, Room
    <3>6. cache'[p].row = r /\ call' = call
      BY <2>2, <3>1 DEF Admit, Keep, TypeOK
    <3> HIDE DEF b, r
    <3> QED BY <3>4, <3>5, <3>6 DEF PaidInv, AdmittedHasRoom, Room, MaxQuota
  <2>3. CASE Deny(p)
    <3>1. PICK src \in Sources : Keep(p, Lapse(Load(p, src)))
      BY <2>3 DEF Deny
    <3>2. Load(p, src) \in Row
      BY LoadOK DEF RowOK
    <3>3. Account(p)'
      BY <1>1, <2>1, <2>3, <3>1, <3>2, LapseFields DEF Deny
    <3>4. pc'[p] = "idle" /\ call' = call
      BY <2>3 DEF Deny, Goto, TypeOK
    <3> QED BY <3>3, <3>4 DEF PaidInv, AdmittedHasRoom
  <2>4. CASE Refuse(p)
    <3>1. pc'[p] = "idle" /\ UNCHANGED <<cache, call, reads, spent>>
      BY <2>4 DEF Refuse, Goto, TypeOK
    <3> QED BY <3>1 DEF PaidInv, AdmittedHasRoom, Account, Carried, Ceiling, MaxQuota
  <2>5. ASSUME NEW n \in 0..MaxTokens, NEW o \in Outcomes, Report(p, n, o),
               o # "success" => n = 0, o = "success" => pc[p] = "admitted"
        PROVE  PaidInv(p)'
    <3>1. /\ pc'[p] = "recording" /\ UNCHANGED <<cache, reads, spent>>
          /\ call'[p].tokens = n /\ call'[p].outcome = o
      BY <2>5 DEF Report, Goto, TypeOK
    <3>2. AdmittedHasRoom(p)'
      BY <2>5, <3>1 DEF PaidInv, AdmittedHasRoom, Room, MaxQuota
    <3> QED BY <2>5, <3>1, <3>2 DEF PaidInv, Account, Carried, Ceiling, MaxQuota
  <2>6. CASE Answer(p) \/ Error(p) \/ Reject(p)
    BY <2>5, <2>6 DEF Answer, Error, Reject, Outcomes
  <2>7. CASE RecordSpend(p)
    <3>1. PICK src \in Sources : Keep(p, Book(Load(p, src), call[p]))
      BY <2>7 DEF RecordSpend
    <3> DEFINE b == Load(p, src)
               r == Book(b, call[p])
               n == call[p].tokens
    <3>2. /\ pc[p] = "recording" /\ pc'[p] = "saving" /\ call' = call
          /\ spent'[p] = IF reads'[p] < MaxReads THEN spent[p] + n ELSE spent[p]
      BY <2>7 DEF RecordSpend, Goto, TypeOK
    <3>3. b \in Row /\ b.day # 0 /\ b.used \in Nat
      BY LoadOK DEF RowOK, Row
    <3>4. call[p].outcome # "success" => n = 0
      BY DEF PaidInv
    <3>5. r \in Row /\ r.day = b.day /\ r.used = b.used + n
      BY <1>1, <3>3, <3>4, BookFields
    <3>6. Fresh(p) => b = cache[p].row
      BY DEF Load
    <3>7. n # 0 => Room(cache[p].row)
      BY <3>2, <3>4 DEF PaidInv, AdmittedHasRoom
    <3> HIDE DEF b, r
    <3>8. n \in Nat /\ n <= Ceiling
      BY <1>1, <3>7, CeilingBounds
    <3>9. Fresh(p) /\ n # 0 => r.used <= Ceiling
      <4>1. Room(cache[p].row) => cache[p].row.used + MaxTokens <= Ceiling
        BY <1>1, MaxQuotaBounds DEF Room, Ceiling
      <4> QED BY <1>1, <3>5, <3>6, <3>7, <4>1
    <3>10. Account(p)'
      <4>1. Keep(p, r)
        BY <3>1 DEF b, r
      <4>2. r \in Row /\ r.day # 0 /\ n <= r.used
        BY <3>3, <3>5, <3>8
      <4>3. Fresh(p) => r.used = cache[p].row.used + n
        BY <3>5, <3>6
      <4>4. Account(p)
        BY DEF PaidInv
      <4> HIDE DEF n
      <4> QED BY <3>2, <3>8, <3>9, <4>1, <4>2, <4>3, <4>4, KeepAccount
    <3> QED BY <3>2, <3>10 DEF PaidInv, AdmittedHasRoom
  <2>8. CASE Override(p)
    <3>1. PICK src \in Sources : Keep(p, Load(p, src))
      BY <2>8 DEF Override
    <3>2. Load(p, src) \in Row
      BY LoadOK DEF RowOK
    <3>3. Account(p)'
      BY <2>1, <2>8, <3>1, <3>2 DEF Override
    <3>4. pc'[p] = "saving" /\ call'[p].tokens = 0
      BY <2>8 DEF Override, Goto, TypeOK
    <3> QED BY <3>3, <3>4 DEF PaidInv, AdmittedHasRoom
  <2>9. CASE Save(p)
    <3>1. /\ cache'[p].row = cache[p].row /\ UNCHANGED <<call, reads, spent>>
          /\ pc'[p] \in {"idle", "returned"}
      BY <2>9 DEF Save, Goto, TypeOK
    <3> QED BY <3>1 DEF PaidInv, AdmittedHasRoom, Account, Carried, Ceiling, MaxQuota
  <2>10. CASE Restart(p)
    <3>1. /\ cache'[p].row.day = 0 /\ UNCHANGED <<call, reads, spent>>
          /\ pc'[p] = "idle"
      BY <2>10 DEF Restart, Goto, TypeOK, Absent
    <3>2. Carried(p)' = Ceiling /\ Ceiling' = Ceiling
      BY <3>1 DEF Carried, Ceiling, MaxQuota
    <3>3. reads[p] * Ceiling \in Nat
      BY <1>1
    <3> HIDE DEF Ceiling
    <3>4. Account(p)'
      BY <1>1, <3>1, <3>2, <3>3 DEF PaidInv, Account
    <3> QED BY <3>1, <3>4 DEF PaidInv, AdmittedHasRoom
  <2> QED BY <1>6, <2>2, <2>3, <2>4, <2>6, <2>7, <2>8, <2>9, <2>10 DEF Step
<1> QED BY <1>3, <1>4, <1>5, <1>6 DEF Next

\* However many processes serve the workcell, overwrite each other's rows, lose
\* writes, crash and restart: in a day, a process spends at most one quota for
\* each time it read the row past its cache, and one for the row it held when
\* the day began.
THEOREM QuotaPerRead == Spec => []ReadsPaid
<1> DEFINE Inv == \A p \in Procs : PaidInv(p)
<1>1. Init => Inv
  <2> SUFFICES ASSUME Init, NEW p \in Procs
               PROVE  PaidInv(p)
    OBVIOUS
  <2>1. Ceiling \in Nat
    BY CeilingBounds
  <2> HIDE DEF Ceiling
  <2> QED BY <2>1 DEF Init, PaidInv, AdmittedHasRoom, Account, Carried, Absent
<1>2. TypeOK /\ TypeOK' /\ Inv /\ [Next]_vars => Inv'
  <2> SUFFICES ASSUME TypeOK, TypeOK', Inv, [Next]_vars, NEW p \in Procs
               PROVE  PaidInv(p)'
    OBVIOUS
  <2> QED BY PaidStep
<1>3. TypeOK /\ Inv => ReadsPaid
  <2> SUFFICES ASSUME TypeOK, Inv, NEW p \in Procs, reads[p] < MaxReads
               PROVE  spent[p] <= (1 + reads[p]) * Ceiling
    BY DEF ReadsPaid
  <2>1. /\ Ceiling \in Nat /\ reads[p] \in Nat /\ spent[p] \in Nat
        /\ cache[p].row.used \in Nat
    BY CeilingBounds DEF TypeOK, Row
  <2> HIDE DEF Ceiling
  <2>2. Carried(p) \in Nat /\ Carried(p) <= Ceiling
    BY <2>1 DEF Carried
  <2>3. spent[p] <= reads[p] * Ceiling + Carried(p)
    BY DEF PaidInv, Account
  <2>4. reads[p] * Ceiling \in Nat /\ (1 + reads[p]) * Ceiling = reads[p] * Ceiling + Ceiling
    BY <2>1
  <2> QED BY <2>1, <2>2, <2>3, <2>4
<1> HIDE DEF Inv
<1> QED BY <1>1, <1>2, <1>3, TypeCorrect, PTL DEF Spec
=============================================================================

----------------------------- MODULE LlmBudget -----------------------------
(***************************************************************************)
(* The token budget of one workcell: backend/common/llm_budget.py          *)
(* (LlmBudgetStore), driven by the metered path of anthropic_messages in   *)
(* backend/common/llm_client.py.                                           *)
(*                                                                         *)
(* Every process that makes calls for the workcell (the HTTP app, the      *)
(* worker sidecar) keeps the row in a cache of its own; the row itself is  *)
(* one DynamoDB item, with a JSON file per container behind it.  A         *)
(* process makes one call at a time, and reading the row, changing it and  *)
(* writing it back are separate steps between which other processes run.   *)
(*                                                                         *)
(* The adaptive quota, its override and the freeze window only decide      *)
(* whether a call is allowed: the quota of a check is any member of        *)
(* Quotas, and a call may be refused for reasons kept elsewhere.           *)
(***************************************************************************)
EXTENDS Integers

CONSTANTS
    Procs,      \* processes making calls for the workcell
    Quotas,     \* daily quotas compute_quota and the override clamps can give
    Est,        \* estimate_tokens of a call
    MaxTokens,  \* tokens a call can really use
    Threshold,  \* circuit_breaker_threshold
    Cooldown,   \* circuit_breaker_cooldown_sec
    Ttl,        \* _cache_ttl
    MaxNow,     \* bound: ticks of the clock
    MaxDay,     \* bound: UTC days
    MaxCalls,   \* bound: calls let through, and quota overrides
    MaxReads,   \* bound: reads from behind a process's cache that are counted
    MaxFaults   \* bound: failing DynamoDB calls and crashes

ASSUME BudgetAssumption ==
    /\ Quotas \subseteq Nat
    /\ \E q \in Quotas : \A r \in Quotas : r <= q
    /\ Est \in Nat
    /\ MaxTokens \in Nat
    /\ Est <= MaxTokens
    /\ Threshold \in Nat \ {0}
    /\ Cooldown \in Nat
    /\ Ttl \in Nat
    /\ MaxNow \in Nat
    /\ MaxDay \in Nat \ {0}
    /\ MaxCalls \in Nat
    /\ MaxReads \in Nat
    /\ MaxFaults \in Nat

VARIABLES
    now,     \* the clock
    day,     \* today, in UTC; days start at 1
    ddb,     \* the workcell's DynamoDB item
    file,    \* per process: the row of its container's JSON file
    cache,   \* per process: the cached row and when it was cached
    pc,      \* per process: where its call is
    call,    \* per process: what record_spend is told about the call
    calls,   \* calls let through and overrides set so far
    faults,  \* DynamoDB failures and crashes so far
    reads,   \* history: per process, how often it read past its cache today
    spent,   \* history: per process, the tokens of today's calls
    since,   \* history: tokens recorded on a day or later
    streak,  \* history: errors recorded since the last answer
    hold     \* history: until when the breaker owes a refusal

bill == <<since, streak, hold>>
vars == <<now, day, ddb, file, cache, pc, call, calls, faults, reads, spent, bill>>

Days == 1..MaxDay

(***************************************************************************)
(* A row, as far as the properties tell rows apart.  open is               *)
(* circuit_open_until, 0 for the empty string; day 0 is no row at all.     *)
(***************************************************************************)
Row == [day : 0..MaxDay, used : Nat, errors : Nat, open : Nat]

Absent == [day |-> 0, used |-> 0, errors |-> 0, open |-> 0]

Outcomes == {"success", "failure", "error", "override"}

Steps == {"idle", "admitted", "recording", "saving", "returned"}

Init ==
    /\ now = 0
    /\ day = 1
    /\ ddb = Absent
    /\ file = [p \in Procs |-> Absent]
    /\ cache = [p \in Procs |-> [at |-> 0, row |-> Absent]]
    /\ pc = [p \in Procs |-> "idle"]
    /\ call = [p \in Procs |-> [tokens |-> 0, outcome |-> "success"]]
    /\ calls = 0
    /\ faults = 0
    /\ reads = [p \in Procs |-> 0]
    /\ spent = [p \in Procs |-> 0]
    /\ since = [d \in Days |-> 0]
    /\ streak = 0
    /\ hold = 0

-----------------------------------------------------------------------------
(***************************************************************************)
(* Reading the row.  A cached row younger than Ttl is returned as it is;   *)
(* only a row read from behind the cache is checked for a new day.  A      *)
(* read that fails looks like a missing row.                               *)
(***************************************************************************)
Fresh(p) == cache[p].row.day # 0 /\ now < cache[p].at + Ttl

\* Mutant: the bucket is stamped by a clock that is a day ahead.
ResetAhead(b) ==
    IF b.day # day THEN [b EXCEPT !.day = day + 1, !.used = 0] ELSE b

\* Mutant: a new day does not zero the counter.
ResetWithoutZero(b) == [b EXCEPT !.day = day]

\* Mutant: a new day closes the breaker.
ResetClosesBreaker(b) ==
    IF b.day # day THEN [b EXCEPT !.day = day, !.used = 0, !.errors = 0, !.open = 0] ELSE b

ResetIfNewDay(b) ==
    IF b.day # day THEN [b EXCEPT !.day = day, !.used = 0] ELSE b

\* What answers when the store is asked: DynamoDB, the file only, nothing.
Sources == {"ddb", "file", "none"}

Backing(p, src) ==
    IF src = "ddb" /\ ddb.day # 0 THEN ddb ELSE IF src = "none" THEN Absent ELSE file[p]

Load(p, src) ==
    IF Fresh(p) THEN cache[p].row ELSE ResetIfNewDay(Backing(p, src))

Reads(p, src) ==
    /\ src = "ddb" \/ (~Fresh(p) /\ faults < MaxFaults)
    /\ faults' = IF src = "ddb" THEN faults ELSE faults + 1

\* The cached object is the one the caller goes on to change.
Keep(p, b) ==
    /\ cache' = [cache EXCEPT ![p] = [at |-> IF Fresh(p) THEN @.at ELSE now, row |-> b]]
    /\ reads' = [reads EXCEPT ![p] = IF Fresh(p) \/ @ = MaxReads THEN @ ELSE @ + 1]

Goto(p, step) == pc' = [pc EXCEPT ![p] = step]

Free(p) == pc[p] \in {"idle", "returned"}

-----------------------------------------------------------------------------
(***************************************************************************)
(* can_spend: the circuit breaker first, clearing a lapsed cooldown, then  *)
(* the quota.                                                              *)
(***************************************************************************)
CircuitOpen(b) == b.open # 0 /\ now < b.open

Lapse(b) == IF CircuitOpen(b) THEN b ELSE [b EXCEPT !.open = 0]

\* Mutant: the check forgets what the call itself will use.
AllowedUnlessUsedUp(b, quota) == ~CircuitOpen(b) /\ b.used <= quota

Allowed(b, quota) == ~CircuitOpen(b) /\ b.used + Est <= quota

Admit(p) ==
    /\ Free(p)
    /\ calls < MaxCalls
    /\ calls' = calls + 1
    /\ Goto(p, "admitted")
    /\ \E src \in Sources, quota \in Quotas :
          /\ Reads(p, src)
          /\ Allowed(Load(p, src), quota)
          /\ Keep(p, Lapse(Load(p, src)))
    /\ UNCHANGED <<now, day, ddb, file, call, spent, bill>>

Deny(p) ==
    /\ Free(p)
    /\ Goto(p, "idle")
    /\ \E src \in Sources, quota \in Quotas :
          /\ Reads(p, src)
          /\ ~Allowed(Load(p, src), quota)
          /\ Keep(p, Lapse(Load(p, src)))
    /\ UNCHANGED <<now, day, ddb, file, call, calls, spent, bill>>

\* The freeze window or the broker refuses what the quota allowed.
Refuse(p) ==
    /\ pc[p] = "admitted"
    /\ Goto(p, "idle")
    /\ UNCHANGED <<now, day, ddb, file, cache, call, calls, faults, reads, spent, bill>>

\* The response, as anthropic_messages reports it to record_spend.
Report(p, tokens, outcome) ==
    /\ Goto(p, "recording")
    /\ call' = [call EXCEPT ![p] = [tokens |-> tokens, outcome |-> outcome]]
    /\ UNCHANGED <<now, day, ddb, file, cache, calls, faults, reads, spent, bill>>

Answer(p) == pc[p] = "admitted" /\ \E n \in 0..MaxTokens : Report(p, n, "success")

Error(p) == pc[p] = "admitted" /\ Report(p, 0, "error")

\* record_outcome: the caller rejects the answer it was given.
Reject(p) == pc[p] = "returned" /\ Report(p, 0, "failure")

-----------------------------------------------------------------------------
(***************************************************************************)
(* record_spend: read the row, change it in place, write it back whole.    *)
(***************************************************************************)
Trip(b) ==
    IF b.errors + 1 >= Threshold
    THEN [b EXCEPT !.errors = @ + 1, !.open = now + Cooldown]
    ELSE [b EXCEPT !.errors = @ + 1]

\* Mutant: the tokens are added to a copy of the row.
BookUncharged(b, c) ==
    IF c.outcome = "error" THEN Trip(b) ELSE [b EXCEPT !.errors = 0, !.open = 0]

Book(b, c) ==
    IF c.outcome = "error"
    THEN Trip(b)
    ELSE [b EXCEPT !.used = @ + c.tokens, !.errors = 0, !.open = 0]

RecordSpend(p) ==
    /\ pc[p] = "recording"
    /\ Goto(p, "saving")
    /\ \E src \in Sources :
          /\ Reads(p, src)
          /\ Keep(p, Book(Load(p, src), call[p]))
    /\ spent' = [spent EXCEPT ![p] = IF reads'[p] < MaxReads THEN @ + call[p].tokens ELSE @]
    /\ since' = [d \in Days |-> IF d <= day THEN since[d] + call[p].tokens ELSE since[d]]
    /\ IF call[p].outcome = "error"
       THEN /\ streak' = streak + 1
            /\ hold' = IF streak + 1 >= Threshold THEN now + Cooldown ELSE hold
       ELSE streak' = 0 /\ hold' = 0
    /\ UNCHANGED <<now, day, ddb, file, call, calls>>

\* set_quota_override, clear_quota_override: the same read and write back.
Override(p) ==
    /\ Free(p)
    /\ calls < MaxCalls
    /\ calls' = calls + 1
    /\ Goto(p, "saving")
    /\ call' = [call EXCEPT ![p] = [tokens |-> 0, outcome |-> "override"]]
    /\ \E src \in Sources :
          /\ Reads(p, src)
          /\ Keep(p, Load(p, src))
    /\ UNCHANGED <<now, day, ddb, file, spent, bill>>

\* put_item; when it fails, the JSON file; when that fails too, nothing.
Persist(p) ==
    \/ /\ ddb' = cache[p].row
       /\ UNCHANGED <<file, faults>>
    \/ /\ faults < MaxFaults
       /\ faults' = faults + 1
       /\ file' \in {file, [file EXCEPT ![p] = cache[p].row]}
       /\ UNCHANGED ddb

Save(p) ==
    /\ pc[p] = "saving"
    /\ Goto(p, IF call[p].outcome = "success" THEN "returned" ELSE "idle")
    /\ Persist(p)
    /\ cache' = [cache EXCEPT ![p].at = now]
    /\ UNCHANGED <<now, day, call, calls, reads, spent, bill>>

-----------------------------------------------------------------------------
\* The process starts again and its cache is gone; mid-call that is a crash.
Restart(p) ==
    /\ IF Free(p) THEN UNCHANGED faults ELSE faults < MaxFaults /\ faults' = faults + 1
    /\ Goto(p, "idle")
    /\ cache' = [cache EXCEPT ![p] = [at |-> now, row |-> Absent]]
    /\ UNCHANGED <<now, day, ddb, file, call, calls, reads, spent, bill>>

Tick ==
    /\ now < MaxNow
    /\ now' = now + 1
    /\ \/ UNCHANGED <<day, reads, spent>>
       \/ /\ day' = day + 1 /\ day' \in Days
          /\ reads' = [p \in Procs |-> 0]
          /\ spent' = [p \in Procs |-> 0]
    /\ UNCHANGED <<ddb, file, cache, pc, call, calls, faults, bill>>

Step(p) ==
    \/ Admit(p)
    \/ Deny(p)
    \/ Refuse(p)
    \/ Answer(p)
    \/ Error(p)
    \/ Reject(p)
    \/ RecordSpend(p)
    \/ Override(p)
    \/ Save(p)
    \/ Restart(p)

Next == Tick \/ \E p \in Procs : Step(p)

Spec == Init /\ [][Next]_vars

-----------------------------------------------------------------------------
(***************************************************************************)
(* Properties.                                                             *)
(***************************************************************************)

\* No copy of the row is from a later day than today, was cached in the
\* future, or keeps the breaker open for longer than a cooldown from now.
RowOK(b) == b \in Row /\ b.day <= day /\ b.open <= now + Cooldown

\* The types of the variables; every copy of the row is one that a load could
\* have left (RowOK).
TypeOK ==
    /\ now \in 0..MaxNow
    /\ day \in Days
    /\ RowOK(ddb)
    /\ file \in [Procs -> Row]
    /\ cache \in [Procs -> [at : 0..MaxNow, row : Row]]
    /\ \A p \in Procs : RowOK(file[p]) /\ RowOK(cache[p].row) /\ cache[p].at <= now
    /\ pc \in [Procs -> Steps]
    /\ call \in [Procs -> [tokens : 0..MaxTokens, outcome : Outcomes]]
    /\ calls \in 0..MaxCalls
    /\ faults \in 0..MaxFaults
    /\ reads \in [Procs -> 0..MaxReads]
    /\ spent \in [Procs -> Nat]
    /\ since \in [Days -> Nat]
    /\ streak \in Nat
    /\ hold \in Nat

\* However rows are cached, overwritten, lost and read back from the file:
\* no copy of the row charges the workcell with more tokens than were
\* recorded since the day of its bucket began, so yesterday's spending is
\* never carried into a bucket that says it is today's.
Charged(b) == b.day # 0 => b.used <= since[b.day]

NothingOvercharged ==
    /\ Charged(ddb)
    /\ \A p \in Procs : Charged(file[p]) /\ Charged(cache[p].row)

MaxQuota == CHOOSE q \in Quotas : \A r \in Quotas : r <= q

\* The most a check lets one bucket reach: the largest quota, and what a
\* call uses beyond its estimate.
Ceiling == (MaxQuota + MaxTokens) - Est

\* What is left of the daily quota when processes overwrite each other's rows,
\* writes are lost and caches, processes and days come and go: each process
\* spends one quota for each time it reads the row from behind its cache, and one
\* on the row it held when the day began (can_spend, record_spend, _load).
ReadsPaid ==
    \A p \in Procs : reads[p] < MaxReads => spent[p] <= (1 + reads[p]) * Ceiling

\* The quota is a daily one, but a process that is busy over midnight keeps
\* charging yesterday's bucket, and loses it when its cache expires: as long
\* as one process serves the workcell and nothing fails, a day is charged at
\* most twice the quota.
DayWithinTwice == faults = 0 => since[day] <= 2 * Ceiling

NoCallInCooldown ==
    \A p \in Procs :
        pc[p] # "admitted" /\ pc'[p] = "admitted" /\ faults' = 0 => now >= hold

\* As long as one process serves the workcell and nothing fails, no call is
\* let through until the cooldown after Threshold errors in a row is over,
\* whatever became of the cache, the process and the day in between.
BreakerHolds == [][NoCallInCooldown]_vars

\* The module's docstring: the app and the sidecar do not clobber each
\* other's counters, so once every call is recorded the item accounts for
\* every token of its day.
NoClobber ==
    (faults = 0 /\ ddb.day # 0 /\ \A p \in Procs : Free(p))
        => ddb.used = since[ddb.day]
=============================================================================

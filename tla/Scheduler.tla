----------------------------- MODULE Scheduler -----------------------------
(***************************************************************************)
(* The orchestration runner and the schedule rows it works from:           *)
(* orchestration/scheduler.py, orchestration/runner.py,                    *)
(* orchestration/models.py and the write routes of routers/schedules.py.   *)
(*                                                                         *)
(* Every API process runs one polling loop (a worker here).  A poll reads  *)
(* the schedules that are due, then handles them one after the other:      *)
(* read the row, claim it with a conditional UPDATE, run the pipeline      *)
(* outside any session, release.  Operators create, change and delete      *)
(* schedules meanwhile, and a process may die between any two steps.       *)
(*                                                                         *)
(* Timestamps are kept relative to now: dueIn is next_run_at - now, never  *)
(* below 0, and lockAge is now - locked_at, never above LockTimeout + 1.   *)
(* Those are the only things the code's comparisons can tell apart.        *)
(***************************************************************************)
EXTENDS Integers, Sequences

CONSTANTS
    Workers,        \* API processes, each with its polling loop
    Conns,          \* connections
    Rows,           \* ids of schedule rows; an id is never used twice
    Crons,          \* cron expressions: the period of the slots
    CycleLength,    \* a common multiple of Crons; the clock is kept modulo it
    LockTimeout,    \* LOCK_TIMEOUT
    Backoff,        \* BACKOFF, the delay by consecutive failure
    Reports,        \* what execute_run leaves in PipelineRun.status; "running" is
                    \* a run that raised, whose row stays as start_run wrote it
    Retries,        \* the values max_retries takes
    FailureCap,     \* consecutive_failures is not counted beyond this bound
    MaxRunTime,     \* bound: the longest time a run is in flight
    MaxCrashes,     \* bound: aborted polls and dead processes
    MaxEdits,       \* bound: operator requests
    NoWorker, NoRow, NoConn

ASSUME TimeAssumption ==
    /\ LockTimeout \in Nat
    /\ MaxRunTime \in Nat
    /\ CycleLength \in Nat \ {0}
    /\ Crons \subseteq Nat \ {0}
    /\ \A c \in Crons : CycleLength % c = 0

ASSUME RetryAssumption ==
    /\ Retries \subseteq Nat
    /\ FailureCap \in Nat
    /\ \A m \in Retries : m < FailureCap
    /\ Backoff \in Seq(Nat \ {0})
    /\ Len(Backoff) \in 1..FailureCap

ASSUME ReportAssumption ==
    /\ Reports \subseteq {"succeeded", "partial", "failed", "running"}
    /\ {"succeeded", "running"} \subseteq Reports

ASSUME NullAssumption == NoWorker \notin Workers /\ NoRow \notin Rows /\ NoConn \notin Conns

ASSUME BoundAssumption == MaxCrashes \in Nat /\ MaxEdits \in Nat

Unlocked == -1      \* locked_at IS NULL
NoTime   == -1      \* next_run_at IS NULL

RowType ==
    [state: {"unborn", "live", "deleted"}, conn: Conns \cup {NoConn},
     enabled: BOOLEAN, cron: Crons \cup {0}, maxRetries: Retries \cup {0},
     failures: 0..FailureCap, dueIn: Nat \cup {NoTime},
     lockAge: 0..(LockTimeout + 1) \cup {Unlocked},
     lockedBy: Workers \cup {NoWorker}]

Blank == [state |-> "unborn", conn |-> NoConn, enabled |-> FALSE, cron |-> 0,
          maxRetries |-> 0, failures |-> 0, dueIn |-> NoTime,
          lockAge |-> Unlocked, lockedBy |-> NoWorker]

VARIABLES
    clock,      \* now, modulo CycleLength
    conns,      \* the connections that exist
    sched,      \* the schedules table
    pc,         \* where each worker is
    due,        \* the rest of the list the worker's poll returned
    cur,        \* the row the worker is handling
    age,        \* how long the worker has held its claim
    report,     \* the status of the run the worker has just finished
    crashes, edits

vars == <<clock, conns, sched, pc, due, cur, age, report, crashes, edits>>

\* "ticking" between two rows, "fetched" after db.get, "running" from the claim
\* to the end of execute_run, "finished" until the outcome is recorded.
Phases == {"asleep", "ticking", "fetched", "running", "finished"}

TypeOK ==
    /\ clock \in 0..(CycleLength - 1)
    /\ conns \subseteq Conns
    /\ sched \in [Rows -> RowType]
    /\ \A r \in Rows : sched[r].state = "live" =>
            sched[r].conn \in conns /\ sched[r].cron \in Crons /\ sched[r].maxRetries \in Retries
    /\ pc \in [Workers -> Phases]
    /\ due \in [Workers -> SUBSET Rows]
    /\ cur \in [Workers -> Rows \cup {NoRow}]
    /\ age \in [Workers -> Nat]
    /\ report \in [Workers -> Reports]
    /\ crashes \in 0..MaxCrashes
    /\ edits \in 0..MaxEdits

Init ==
    /\ clock = 0
    /\ conns = Conns
    /\ sched = [r \in Rows |-> Blank]
    /\ pc = [w \in Workers |-> "asleep"]
    /\ due = [w \in Workers |-> {}]
    /\ cur = [w \in Workers |-> NoRow]
    /\ age = [w \in Workers |-> 0]
    /\ report = [w \in Workers |-> "succeeded"]
    /\ crashes = 0
    /\ edits = 0

-----------------------------------------------------------------------------
(* Deciding: cron slots, due schedules, the lock, the retry delay.           *)

\* The slots of cron c are its multiples; the next one is always ahead of now.
NextOccurrence(c) == c - (clock % c)

LiveRow(r) == sched[r].state = "live"

\* (mutant) a lock is never given up for dead
LockFreeNeverStale(row) == row.lockAge = Unlocked

\* due_schedules takes a row whose lock is older than the timeout for free...
LockFree(row) == row.lockAge = Unlocked \/ row.lockAge > LockTimeout

DueNow == {r \in Rows : /\ LiveRow(r)
                        /\ sched[r].enabled
                        /\ sched[r].dueIn = 0
                        /\ LockFree(sched[r])}

\* (mutants) a lock of exactly the timeout's age is stale; any lock is; none is
CanAcquireEarly(row) == row.lockAge = Unlocked \/ row.lockAge >= LockTimeout
CanAcquireAlways(row) == row.lockAge >= Unlocked
CanAcquireNeverStale(row) == row.lockAge = Unlocked

\* ... and so does the WHERE of acquire, which looks at nothing but the lock.
CanAcquire(row) == row.lockAge = Unlocked \/ row.lockAge > LockTimeout

Locked(row, w) == [row EXCEPT !.lockAge = 0, !.lockedBy = w]

CountFailure(n) == IF n < FailureCap THEN n + 1 ELSE n

RetryDelay(n) == Backoff[IF n > Len(Backoff) THEN Len(Backoff) ELSE n]

\* (mutant) one retry too many
GivesUpLate(n, row) == n > row.maxRetries + 1

\* Whether the n-th failure in a row is the one that gives up until the next slot.
GivesUp(n, row) == n > row.maxRetries

\* The row as release leaves it.
Succeeded(row) ==
    [row EXCEPT !.lockAge = Unlocked, !.lockedBy = NoWorker, !.failures = 0,
                !.dueIn = NextOccurrence(row.cron)]

Failed(row) ==
    LET n == CountFailure(row.failures)
    IN  [row EXCEPT !.lockAge = Unlocked, !.lockedBy = NoWorker, !.failures = n,
                    !.dueIn = IF GivesUp(n, row) THEN NextOccurrence(row.cron)
                                                 ELSE RetryDelay(n)]

InFlight(w) == pc[w] \in {"running", "finished"}

-----------------------------------------------------------------------------
(* Time.                                                                     *)

Closer(row) == IF row.dueIn > 0 THEN row.dueIn - 1 ELSE row.dueIn

Older(row) == IF row.lockAge \in 0..LockTimeout THEN row.lockAge + 1 ELSE row.lockAge

Aged(row) == [row EXCEPT !.dueIn = Closer(row), !.lockAge = Older(row)]

\* No run is in flight for longer than the bound MaxRunTime.
Tick ==
    /\ \A w \in Workers : InFlight(w) => age[w] < MaxRunTime
    /\ clock' = (clock + 1) % CycleLength
    /\ sched' = [r \in Rows |-> Aged(sched[r])]
    /\ age' = [w \in Workers |-> IF InFlight(w) THEN age[w] + 1 ELSE age[w]]
    /\ UNCHANGED <<conns, pc, due, cur, report, crashes, edits>>

-----------------------------------------------------------------------------
(* The polling loop.                                                         *)

\* _tick: read the due schedules in a session of its own, keep their ids.
Poll(w) ==
    /\ pc[w] = "asleep"
    /\ DueNow # {}
    /\ due' = [due EXCEPT ![w] = DueNow]
    /\ pc' = [pc EXCEPT ![w] = "ticking"]
    /\ UNCHANGED <<clock, conns, sched, cur, age, report, crashes, edits>>

\* The worker leaves its row for the next one of its list, or goes to sleep.
MoveOn(w) ==
    /\ pc' = [pc EXCEPT ![w] = IF due[w] = {} THEN "asleep" ELSE "ticking"]
    /\ cur' = [cur EXCEPT ![w] = NoRow]
    /\ age' = [age EXCEPT ![w] = 0]

\* _process_schedule: db.get(Schedule, id).  A deleted schedule is passed over.
Fetch(w, r) ==
    /\ pc[w] = "ticking"
    /\ r \in due[w]
    /\ due' = [due EXCEPT ![w] = @ \ {r}]
    /\ IF LiveRow(r)
       THEN /\ pc' = [pc EXCEPT ![w] = "fetched"]
            /\ cur' = [cur EXCEPT ![w] = r]
       ELSE /\ pc' = [pc EXCEPT ![w] = IF due[w] = {r} THEN "asleep" ELSE "ticking"]
            /\ UNCHANGED cur
    /\ UNCHANGED <<clock, conns, sched, age, report, crashes, edits>>

\* acquire's UPDATE changes the row.
Claim(w) ==
    /\ pc[w] = "fetched"
    /\ sched[cur[w]].conn \in conns
    /\ LiveRow(cur[w])
    /\ CanAcquire(sched[cur[w]])
    /\ sched' = [sched EXCEPT ![cur[w]] = Locked(@, w)]
    /\ pc' = [pc EXCEPT ![w] = "running"]
    /\ UNCHANGED <<clock, conns, due, cur, age, report, crashes, edits>>

\* acquire's UPDATE changes no row: another worker holds it, or it was deleted.
LoseClaim(w) ==
    /\ pc[w] = "fetched"
    /\ sched[cur[w]].conn \in conns
    /\ LiveRow(cur[w]) => ~CanAcquire(sched[cur[w]])
    /\ MoveOn(w)
    /\ UNCHANGED <<clock, conns, sched, due, report, crashes, edits>>

\* The connection went after the fetch, and the cascade took the row with it:
\* the write enabled = False finds no row, and the error ends the whole pass.
FindNoConnection(w) ==
    /\ pc[w] = "fetched"
    /\ sched[cur[w]].conn \notin conns
    /\ pc' = [pc EXCEPT ![w] = "asleep"]
    /\ due' = [due EXCEPT ![w] = {}]
    /\ cur' = [cur EXCEPT ![w] = NoRow]
    /\ UNCHANGED <<clock, conns, sched, age, report, crashes, edits>>

\* start_run and execute_run return or raise; only a run that returns has
\* written its status on the run row.
FinishRun(w, status) ==
    /\ pc[w] = "running"
    /\ report' = [report EXCEPT ![w] = status]
    /\ pc' = [pc EXCEPT ![w] = "finished"]
    /\ UNCHANGED <<clock, conns, sched, due, cur, age, crashes, edits>>

\* The status the runner passes to release: "failed" only if something raised.
Raised(w) == report[w] = "running"

ReleasedRow(w) == IF Raised(w) THEN Failed(sched[cur[w]]) ELSE Succeeded(sched[cur[w]])

\* A fresh session: clear the lock whoever holds it, record the outcome.
Release(w) ==
    /\ pc[w] = "finished"
    /\ sched' = IF LiveRow(cur[w]) THEN [sched EXCEPT ![cur[w]] = ReleasedRow(w)] ELSE sched
    /\ MoveOn(w)
    /\ report' = [report EXCEPT ![w] = "succeeded"]
    /\ UNCHANGED <<clock, conns, due, crashes, edits>>

\* The process dies and is started again, or an exception leaves _tick: the
\* rest of the list is forgotten, and a lock that was held stays held.
Crash(w) ==
    /\ crashes < MaxCrashes
    /\ pc[w] # "asleep"
    /\ crashes' = crashes + 1
    /\ pc' = [pc EXCEPT ![w] = "asleep"]
    /\ due' = [due EXCEPT ![w] = {}]
    /\ cur' = [cur EXCEPT ![w] = NoRow]
    /\ age' = [age EXCEPT ![w] = 0]
    /\ report' = [report EXCEPT ![w] = "succeeded"]
    /\ UNCHANGED <<clock, conns, sched, edits>>

-----------------------------------------------------------------------------
(* Operators' requests.                                                      *)

Edit == edits < MaxEdits /\ edits' = edits + 1

\* (mutant) the new plan also clears the lock
ReplannedUnlocked(row) ==
    [row EXCEPT !.dueIn = IF row.enabled THEN NextOccurrence(row.cron) ELSE NoTime,
                !.lockAge = Unlocked, !.lockedBy = NoWorker]

\* NextOccurrence of the row's own cron when it is enabled, else nothing.
Replanned(row) == [row EXCEPT !.dueIn = IF row.enabled THEN NextOccurrence(row.cron) ELSE NoTime]

Created(c, cron, enabled, retries) ==
    [Blank EXCEPT !.state = "live", !.conn = c, !.enabled = enabled,
                  !.cron = cron, !.maxRetries = retries]

Edited(row, cron, enabled, retries) ==
    [row EXCEPT !.enabled = enabled, !.cron = cron, !.maxRetries = retries]

\* POST: one schedule per connection.
CreateSchedule(c, r, cron, enabled, retries) ==
    /\ Edit
    /\ c \in conns
    /\ \A q \in Rows : LiveRow(q) => sched[q].conn # c
    /\ sched[r].state = "unborn"
    /\ sched' = [sched EXCEPT ![r] =
            Replanned(Created(c, cron, enabled, retries))]
    /\ UNCHANGED <<clock, conns, pc, due, cur, age, report, crashes>>

\* PATCH: any of the fields, and a new plan; never the lock.
UpdateSchedule(r, cron, enabled, retries) ==
    /\ Edit
    /\ LiveRow(r)
    /\ sched' = [sched EXCEPT ![r] =
            Replanned(Edited(@, cron, enabled, retries))]
    /\ UNCHANGED <<clock, conns, pc, due, cur, age, report, crashes>>

Tombstone(row) == [Blank EXCEPT !.state = "deleted", !.conn = row.conn]

DeleteSchedule(r) ==
    /\ Edit
    /\ LiveRow(r)
    /\ sched' = [sched EXCEPT ![r] = Tombstone(@)]
    /\ UNCHANGED <<clock, conns, pc, due, cur, age, report, crashes>>

\* (mutant) no cascade: the schedules of the connection stay
DeleteConnectionOnly(c) ==
    /\ Edit
    /\ c \in conns
    /\ conns' = conns \ {c}
    /\ UNCHANGED <<clock, sched, pc, due, cur, age, report, crashes>>

\* DELETE of a connection: ondelete CASCADE takes its schedule.
DeleteConnection(c) ==
    /\ Edit
    /\ c \in conns
    /\ conns' = conns \ {c}
    /\ sched' = [r \in Rows |->
            IF LiveRow(r) /\ sched[r].conn = c THEN Tombstone(sched[r]) ELSE sched[r]]
    /\ UNCHANGED <<clock, pc, due, cur, age, report, crashes>>

-----------------------------------------------------------------------------
WorkerStep(w) ==
    \/ Poll(w)
    \/ \E r \in Rows : Fetch(w, r)
    \/ Claim(w)
    \/ LoseClaim(w)
    \/ FindNoConnection(w)
    \/ \E status \in Reports : FinishRun(w, status)
    \/ Release(w)

Operator ==
    \/ \E r \in Rows, cron \in Crons, enabled \in BOOLEAN, retries \in Retries :
          \/ \E c \in Conns : CreateSchedule(c, r, cron, enabled, retries)
          \/ UpdateSchedule(r, cron, enabled, retries)
    \/ \E r \in Rows : DeleteSchedule(r)
    \/ \E c \in Conns : DeleteConnection(c)

Next ==
    \/ Tick
    \/ \E w \in Workers : WorkerStep(w) \/ Crash(w)
    \/ Operator

Spec == Init /\ [][Next]_vars

\* Time passes, and a loop whose next step is possible takes it: the poll
\* repeats forever and catches what a pass raises.  Nobody has to send requests.
FairSpec == Spec /\ WF_vars(Tick) /\ \A w \in Workers : WF_vars(WorkerStep(w))

-----------------------------------------------------------------------------
(* What the scheduler promises.                                              *)

\* "The runner must never start a run that is already running": two processes
\* never run the same schedule at once, however they interleave with each
\* other, with crashes and with edits, as long as no run outlives LOCK_TIMEOUT.
NoDoubleRun ==
    \A v, w \in Workers : InFlight(v) /\ InFlight(w) /\ cur[v] = cur[w] => v = w

\* The lock is "held while a run is in flight": the row a young run works on
\* is locked, so that a release, an edit or another claim never exposes it.
RunHoldsLock ==
    \A w \in Workers :
        InFlight(w) /\ LiveRow(cur[w]) /\ age[w] <= LockTimeout
            => sched[cur[w]].lockAge # Unlocked

\* A next_run_at between two cron slots is a retry, and only of a schedule
\* that has failed and has retries left: giving up, succeeding and editing all
\* bring the schedule back to its slots.
OffSlotOnlyToRetry ==
    \A r \in Rows :
        LiveRow(r) /\ sched[r].enabled /\ sched[r].dueIn > 0
            => \/ (clock + sched[r].dueIn) % sched[r].cron = 0
               \/ sched[r].failures \in 1..sched[r].maxRetries

\* One pipeline runs once: two workers are never running the same connection.
OneRunPerConnection ==
    \A v, w \in Workers :
        pc[v] = "running" /\ pc[w] = "running" /\ sched[cur[v]].conn = sched[cur[w]].conn => v = w

\* A worker only starts a schedule that is enabled and due at that moment.
ClaimsAreDue ==
    [][\A w \in Workers : Claim(w) => sched[cur[w]].enabled /\ sched[cur[w]].dueIn = 0]_vars

\* A run that ends "failed" counts as a failure of its schedule: it is backed
\* off, not entered as a success.
FailedRunBacksOff ==
    [][\A w \in Workers :
        Release(w) /\ report[w] = "failed" /\ LiveRow(cur[w]) => sched'[cur[w]].failures > 0]_vars

Waiting(r) == LiveRow(r) /\ sched[r].enabled /\ sched[r].dueIn = 0

\* A due schedule is eventually run, or disabled, moved or deleted: neither
\* the lock of a dead worker nor an aborted pass keeps it waiting forever.
DueIsServed == \A r \in Rows : Waiting(r) ~> ~Waiting(r)

\* A lock does not outlive its worker forever on a schedule that is enabled.
LocksEnd ==
    \A r \in Rows :
        LiveRow(r) /\ sched[r].enabled /\ sched[r].lockAge # Unlocked
            ~> ~LiveRow(r) \/ ~sched[r].enabled \/ sched[r].lockAge = Unlocked

\* The worker that is running schedule r.
Runner(r) == IF \E w \in Workers : InFlight(w) /\ cur[w] = r
             THEN CHOOSE w \in Workers : InFlight(w) /\ cur[w] = r
             ELSE NoWorker

Exclusive == INSTANCE ExclusiveRuns WITH runner <- [r \in Rows |-> Runner(r)]

\* Seen from outside, the schedules behave as ExclusiveRuns says: a run starts
\* only where none is in flight, and a worker carries one at a time.
ImplementsExclusiveRuns == Exclusive!ExSpec
=============================================================================

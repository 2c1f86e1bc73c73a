-------------------------- MODULE SchedulerProofs --------------------------
(***************************************************************************)
(* Theorems about Scheduler, for any number of workers, connections and    *)
(* schedules and any timeouts: type correctness, mutual exclusion of runs, *)
(* and the implementation of ExclusiveRuns.                                *)
(***************************************************************************)
EXTENDS Scheduler, TLAPS

-----------------------------------------------------------------------------
(* The operators on a row keep it a row.                                     *)

\* The next slot is a positive time away.
LEMMA NextOccurrenceType ==
    ASSUME clock \in Nat, NEW c \in Nat \ {0}
    PROVE  NextOccurrence(c) \in Nat \ {0}
<1>1. clock % c \in 0..(c - 1)
    OBVIOUS
<1> QED
    BY <1>1 DEF NextOccurrence

LEMMA CountFailureType ==
    ASSUME NEW n \in 0..FailureCap
    PROVE  CountFailure(n) \in 1..FailureCap \/ (FailureCap = 0 /\ CountFailure(n) = 0)
BY RetryAssumption DEF CountFailure

LEMMA RetryDelayType ==
    ASSUME NEW n \in 1..FailureCap
    PROVE  RetryDelay(n) \in Nat
<1>1. Backoff \in Seq(Nat \ {0}) /\ Len(Backoff) \in 1..FailureCap /\ FailureCap \in Nat
    BY RetryAssumption
<1>2. \A i \in 1..Len(Backoff) : Backoff[i] \in Nat
    BY <1>1
<1> QED
    BY <1>1, <1>2 DEF RetryDelay

LEMMA RowTypeOfTick ==
    ASSUME NEW row \in RowType
    PROVE  /\ Aged(row) \in RowType
           /\ Aged(row).state = row.state /\ Aged(row).conn = row.conn
           /\ Aged(row).cron = row.cron /\ Aged(row).maxRetries = row.maxRetries
<1>1. row.dueIn \in Nat \cup {NoTime} /\ row.lockAge \in 0..(LockTimeout + 1) \cup {Unlocked}
    BY DEF RowType
<1>2. Closer(row) \in Nat \cup {NoTime}
    BY <1>1 DEF Closer, NoTime
<1>3. Older(row) \in 0..(LockTimeout + 1) \cup {Unlocked}
    BY <1>1, TimeAssumption DEF Older, Unlocked
<1> QED
    BY <1>2, <1>3 DEF Aged, RowType

LEMMA RowTypeOfLocked ==
    ASSUME NEW row \in RowType, NEW w \in Workers
    PROVE  Locked(row, w) \in RowType
<1>1. 0 \in 0..(LockTimeout + 1)
    BY TimeAssumption
<1> QED
    BY <1>1 DEF Locked, RowType

LEMMA RowTypeOfRelease ==
    ASSUME NEW row \in RowType, row.cron \in Crons, clock \in Nat
    PROVE  Succeeded(row) \in RowType /\ Failed(row) \in RowType
<1>1. NextOccurrence(row.cron) \in Nat
    BY NextOccurrenceType, TimeAssumption
<1>2. FailureCap \in Nat /\ FailureCap # 0
    BY RetryAssumption
<1>3. row.failures \in 0..FailureCap
    BY DEF RowType
<1>4. CountFailure(row.failures) \in 1..FailureCap
    BY <1>2, <1>3, CountFailureType
<1>5. RetryDelay(CountFailure(row.failures)) \in Nat
    BY <1>4, RetryDelayType
<1>6. 0 \in 0..FailureCap /\ CountFailure(row.failures) \in 0..FailureCap
    BY <1>2, <1>4
<1>7. Succeeded(row) \in RowType
    BY <1>1, <1>6 DEF Succeeded, RowType
<1>8. Failed(row) \in RowType
    <2> DEFINE n == CountFailure(row.failures)
               d == IF GivesUp(n, row) THEN NextOccurrence(row.cron) ELSE RetryDelay(n)
    <2>1. d \in Nat /\ n \in 0..FailureCap
        BY <1>1, <1>5, <1>6
    <2>2. Failed(row) = [row EXCEPT !.lockAge = Unlocked, !.lockedBy = NoWorker,
                                    !.failures = n, !.dueIn = d]
        BY DEF Failed
    <2> HIDE DEF n, d
    <2> QED
        BY <2>1, <2>2 DEF RowType
<1> QED
    BY <1>7, <1>8

\* Releasing a row changes none of the fields an operator chose.
LEMMA ReleaseKeepsFields ==
    ASSUME NEW row \in RowType, NEW new \in {Succeeded(row), Failed(row)}
    PROVE  /\ new.state = row.state /\ new.conn = row.conn
           /\ new.cron = row.cron /\ new.maxRetries = row.maxRetries
<1>1. CASE new = Succeeded(row)
    BY <1>1 DEF Succeeded, RowType
<1>2. CASE new = Failed(row)
    <2> DEFINE n == CountFailure(row.failures)
               d == IF GivesUp(n, row) THEN NextOccurrence(row.cron) ELSE RetryDelay(n)
    <2>1. new = [row EXCEPT !.lockAge = Unlocked, !.lockedBy = NoWorker,
                            !.failures = n, !.dueIn = d]
        BY <1>2 DEF Failed
    <2> HIDE DEF n, d
    <2> QED
        BY <2>1 DEF RowType
<1> QED
    BY <1>1, <1>2

\* The fields a PATCH assigns.
LEMMA EditedRow ==
    ASSUME NEW row \in RowType, NEW cron \in Crons, NEW enabled \in BOOLEAN, NEW retries \in Retries
    PROVE  /\ Edited(row, cron, enabled, retries) \in RowType
           /\ Edited(row, cron, enabled, retries).cron = cron
           /\ Edited(row, cron, enabled, retries).state = row.state
           /\ Edited(row, cron, enabled, retries).conn = row.conn
           /\ Edited(row, cron, enabled, retries).maxRetries = retries
BY DEF Edited, RowType

LEMMA BlankType == Blank \in RowType
BY RetryAssumption DEF Blank, RowType

LEMMA RowTypeOfReplanned ==
    ASSUME NEW row \in RowType, row.cron \in Crons, clock \in Nat
    PROVE  Replanned(row) \in RowType
<1>1. NextOccurrence(row.cron) \in Nat
    BY NextOccurrenceType, TimeAssumption
<1> QED
    BY <1>1 DEF Replanned, RowType

LEMMA RowTypeOfTombstone ==
    ASSUME NEW row \in RowType
    PROVE  Tombstone(row) \in RowType
BY BlankType DEF Tombstone, Blank, RowType

-----------------------------------------------------------------------------
(* Type correctness.                                                         *)

\* A worker past db.get works on a row that has been created.
OnRow ==
    \A w \in Workers : pc[w] \in {"fetched", "running", "finished"}
        => cur[w] \in Rows /\ sched[cur[w]].state # "unborn"

\* What a step may do to one row, whatever else it does.
RowStep(r) ==
    /\ sched'[r] \in RowType
    /\ sched'[r].state = "live" =>
           sched'[r].conn \in conns' /\ sched'[r].cron \in Crons /\ sched'[r].maxRetries \in Retries
    /\ sched[r].state # "unborn" => sched'[r].state # "unborn"

\* Every step leaves a table of well-formed rows, and no row goes back to unborn.
LEMMA RowsStep ==
    ASSUME TypeOK, OnRow, Next
    PROVE  /\ \A r \in Rows : RowStep(r)
           /\ sched' \in [Rows -> RowType]
           /\ conns' \subseteq Conns
           /\ clock' \in 0..(CycleLength - 1)
<1> USE DEF TypeOK
<1> DEFINE Goal == /\ \A r \in Rows : RowStep(r)
                   /\ sched' \in [Rows -> RowType]
                   /\ conns' \subseteq Conns
                   /\ clock' \in 0..(CycleLength - 1)
<1>0. clock \in Nat /\ CycleLength \in Nat \ {0}
    BY TimeAssumption
<1>1. CASE Tick
    <2>1. (clock + 1) % CycleLength \in 0..(CycleLength - 1)
        BY <1>0
    <2>2. \A r \in Rows : sched'[r] = Aged(sched[r])
        BY <1>1 DEF Tick
    <2>3. ASSUME NEW r \in Rows
          PROVE  RowStep(r)
        <3>1. sched'[r] \in RowType
            BY <2>2, RowTypeOfTick
        <3>2. /\ sched'[r].state = sched[r].state /\ sched'[r].conn = sched[r].conn
              /\ sched'[r].cron = sched[r].cron /\ sched'[r].maxRetries = sched[r].maxRetries
            <4>1. sched[r] \in RowType
                OBVIOUS
            <4> QED
                BY <2>2, <4>1, RowTypeOfTick
        <3>3. conns' = conns
            BY <1>1 DEF Tick
        <3> QED
            BY <3>1, <3>2, <3>3 DEF RowStep
    <2> QED
        BY <1>1, <2>1, <2>3 DEF Tick, RowStep
<1>2. ASSUME UNCHANGED <<sched, conns, clock>> PROVE Goal
    BY <1>2 DEF RowStep
<1>3. ASSUME NEW w \in Workers, Claim(w) PROVE Goal
    <2>1. cur[w] \in Rows
        BY <1>3 DEF Claim, OnRow
    <2>2. Locked(sched[cur[w]], w) \in RowType
        BY <2>1, RowTypeOfLocked
    <2>3. sched' = [sched EXCEPT ![cur[w]] = Locked(sched[cur[w]], w)]
        BY <1>3 DEF Claim
    <2>4. /\ Locked(sched[cur[w]], w).state = sched[cur[w]].state
          /\ Locked(sched[cur[w]], w).conn = sched[cur[w]].conn
          /\ Locked(sched[cur[w]], w).cron = sched[cur[w]].cron
          /\ Locked(sched[cur[w]], w).maxRetries = sched[cur[w]].maxRetries
        BY <2>1 DEF Locked, RowType
    <2> QED
        BY <1>3, <2>1, <2>2, <2>3, <2>4 DEF Claim, RowStep
<1>4. ASSUME NEW w \in Workers, Release(w) PROVE Goal
    <2>1. cur[w] \in Rows
        BY <1>4 DEF Release, OnRow
    <2>2. CASE ~LiveRow(cur[w])
        BY <1>2, <1>4, <2>2 DEF Release
    <2>3. CASE LiveRow(cur[w])
        <3> DEFINE row == sched[cur[w]]
        <3>1. row \in RowType /\ row.cron \in Crons
            BY <2>1, <2>3 DEF LiveRow
        <3>2. ReleasedRow(w) \in RowType
            BY <3>1, <1>0, RowTypeOfRelease DEF ReleasedRow
        <3>3. /\ ReleasedRow(w).state = row.state /\ ReleasedRow(w).conn = row.conn
              /\ ReleasedRow(w).cron = row.cron /\ ReleasedRow(w).maxRetries = row.maxRetries
            BY <3>1, ReleaseKeepsFields DEF ReleasedRow
        <3>4. sched' = [sched EXCEPT ![cur[w]] = ReleasedRow(w)]
            BY <1>4, <2>3 DEF Release
        <3> QED
            BY <1>4, <2>1, <2>3, <3>2, <3>3, <3>4 DEF Release, RowStep
    <2> QED
        BY <2>2, <2>3
<1>5. ASSUME NEW c \in Conns, NEW r \in Rows, NEW cron \in Crons, NEW enabled \in BOOLEAN,
             NEW retries \in Retries, CreateSchedule(c, r, cron, enabled, retries)
      PROVE Goal
    <2> DEFINE new == Created(c, cron, enabled, retries)
    <2>1. new \in RowType /\ new.cron = cron /\ new.state = "live" /\ new.conn = c /\ new.maxRetries = retries
        BY BlankType DEF Created, RowType, Blank
    <2>2. sched' = [sched EXCEPT ![r] = Replanned(new)]
        BY <1>5 DEF CreateSchedule
    <2> HIDE DEF new
    <2>3. Replanned(new) \in RowType
        BY <2>1, <1>0, RowTypeOfReplanned
    <2>4. /\ Replanned(new).state = "live" /\ Replanned(new).conn = c
          /\ Replanned(new).cron = cron /\ Replanned(new).maxRetries = retries
        BY <2>1 DEF Replanned, RowType
    <2> QED
        BY <1>5, <2>2, <2>3, <2>4 DEF CreateSchedule, RowStep
<1>6. ASSUME NEW r \in Rows, NEW cron \in Crons, NEW enabled \in BOOLEAN,
             NEW retries \in Retries, UpdateSchedule(r, cron, enabled, retries)
      PROVE Goal
    <2> DEFINE new == Edited(sched[r], cron, enabled, retries)
    <2>1. /\ new \in RowType /\ new.cron = cron /\ new.state = sched[r].state
          /\ new.conn = sched[r].conn /\ new.maxRetries = retries
        <3>1. sched[r] \in RowType
            OBVIOUS
        <3> QED
            BY <3>1, EditedRow
    <2>2. sched' = [sched EXCEPT ![r] = Replanned(new)]
        BY <1>6 DEF UpdateSchedule
    <2> HIDE DEF new
    <2>3. Replanned(new) \in RowType
        BY <2>1, <1>0, RowTypeOfReplanned
    <2>4. /\ Replanned(new).state = sched[r].state /\ Replanned(new).conn = sched[r].conn
          /\ Replanned(new).cron = cron /\ Replanned(new).maxRetries = retries
        BY <2>1 DEF Replanned, RowType
    <2> QED
        BY <1>6, <2>2, <2>3, <2>4 DEF UpdateSchedule, RowStep, LiveRow
<1>7. ASSUME NEW row \in RowType
      PROVE  Tombstone(row) \in RowType /\ Tombstone(row).state = "deleted"
    BY RowTypeOfTombstone DEF Tombstone, Blank
<1>8. ASSUME NEW r \in Rows, DeleteSchedule(r) PROVE Goal
    <2>1. sched' = [sched EXCEPT ![r] = Tombstone(sched[r])]
        BY <1>8 DEF DeleteSchedule
    <2> QED
        BY <1>7, <1>8, <2>1 DEF DeleteSchedule, RowStep
<1>9. ASSUME NEW c \in Conns, DeleteConnection(c) PROVE Goal
    <2>1. ASSUME NEW r \in Rows PROVE RowStep(r)
        <3>1. CASE LiveRow(r) /\ sched[r].conn = c
            BY <1>7, <1>9, <3>1 DEF DeleteConnection, RowStep
        <3>2. CASE ~(LiveRow(r) /\ sched[r].conn = c)
            <4>1. sched'[r] = sched[r] /\ conns' = conns \ {c}
                BY <1>9, <3>2 DEF DeleteConnection
            <4> QED
                BY <3>2, <4>1 DEF RowStep, LiveRow
        <3> QED
            BY <3>1, <3>2
    <2> QED
        BY <1>9, <2>1 DEF DeleteConnection, RowStep
<1> QED
    BY <1>1, <1>2, <1>3, <1>4, <1>5, <1>6, <1>8, <1>9
    DEF Next, WorkerStep, Operator, Poll, Fetch, LoseClaim, FindNoConnection, FinishRun, Crash

LEMMA TypeStep ==
    ASSUME TypeOK, OnRow, [Next]_vars
    PROVE  TypeOK' /\ OnRow'
<1>1. CASE UNCHANGED vars
    BY <1>1 DEF vars, TypeOK, OnRow
<1>2. CASE Next
    <2>1. /\ \A r \in Rows : RowStep(r)
          /\ sched' \in [Rows -> RowType]
          /\ conns' \subseteq Conns
          /\ clock' \in 0..(CycleLength - 1)
        BY <1>2, RowsStep
    <2>2. /\ pc' \in [Workers -> Phases]
          /\ due' \in [Workers -> SUBSET Rows]
          /\ cur' \in [Workers -> Rows \cup {NoRow}]
          /\ report' \in [Workers -> Reports]
        BY <1>2, ReportAssumption
        DEF TypeOK, Next, WorkerStep, Operator, Tick, Poll, Fetch, Claim, LoseClaim,
            FindNoConnection, FinishRun, Release, Crash, CreateSchedule, UpdateSchedule,
            DeleteSchedule, DeleteConnection, MoveOn, DueNow, Phases
    <2>3. age' \in [Workers -> Nat]
        BY <1>2 DEF TypeOK, Next, WorkerStep, Operator, Tick, Poll, Fetch, Claim, LoseClaim,
                    FindNoConnection, FinishRun, Release, Crash, CreateSchedule, UpdateSchedule,
                    DeleteSchedule, DeleteConnection, MoveOn
    <2>4. crashes' \in 0..MaxCrashes /\ edits' \in 0..MaxEdits
        BY <1>2, BoundAssumption
        DEF TypeOK, Next, WorkerStep, Operator, Tick, Poll, Fetch, Claim, LoseClaim,
            FindNoConnection, FinishRun, Release, Crash, CreateSchedule, UpdateSchedule,
            DeleteSchedule, DeleteConnection, Edit
    <2>5. TypeOK'
        BY <2>1, <2>2, <2>3, <2>4 DEF TypeOK, RowStep
    <2>6. ASSUME NEW w \in Workers, pc'[w] \in {"fetched", "running", "finished"}
          PROVE  cur'[w] \in Rows /\ sched[cur'[w]].state # "unborn"
        BY <1>2, <2>6
        DEF OnRow, TypeOK, Next, WorkerStep, Operator, Tick, Poll, Fetch, Claim, LoseClaim,
            FindNoConnection, FinishRun, Release, Crash, CreateSchedule, UpdateSchedule,
            DeleteSchedule, DeleteConnection, MoveOn, LiveRow
    <2>7. OnRow'
        BY <2>1, <2>6 DEF OnRow, RowStep
    <2> QED
        BY <2>5, <2>7
<1> QED
    BY <1>1, <1>2

LEMMA TypeInit == Init => TypeOK /\ OnRow
<1>1. 0 \in 0..(CycleLength - 1) /\ 0 \in 0..MaxCrashes /\ 0 \in 0..MaxEdits
    BY TimeAssumption, BoundAssumption
<1>2. "succeeded" \in Reports
    BY ReportAssumption
<1> QED
    BY <1>1, <1>2, BlankType DEF Init, TypeOK, OnRow, Phases, Blank

\* Every variable keeps its type: in particular every live schedule belongs to
\* a connection that exists, which is what the ON DELETE CASCADE is for.
THEOREM TypeCorrect == Spec => [](TypeOK /\ OnRow)
<1>1. TypeOK /\ OnRow /\ [Next]_vars => (TypeOK /\ OnRow)'
    BY TypeStep
<1> QED
    BY TypeInit, <1>1, PTL DEF Spec

-----------------------------------------------------------------------------
(* Slots and retries: arithmetic modulo the period of a cron expression.     *)

LEMMA DivMod ==
    ASSUME NEW n \in Nat, NEW c \in Nat \ {0}
    PROVE  /\ n \div c \in Nat /\ n % c \in 0..(c - 1)
           /\ n = (c * (n \div c)) + (n % c)
OBVIOUS

LEMMA MultipleMod ==
    ASSUME NEW n \in Nat, NEW c \in Nat \ {0}, NEW k \in Int, n = c * k
    PROVE  n % c = 0
OBVIOUS

\* The next occurrence of a cron expression is one of its slots.
LEMMA NextOccurrenceIsSlot ==
    ASSUME clock \in Nat, NEW c \in Nat \ {0}
    PROVE  (clock + NextOccurrence(c)) % c = 0
BY DEF NextOccurrence

\* A slot that comes one nearer as the clock goes one on, also when the clock
\* starts its cycle again.
LEMMA SlotStaysSlot ==
    ASSUME NEW now \in Nat, NEW n \in Nat \ {0}, NEW c \in Nat \ {0}, NEW cycle \in Nat \ {0},
           cycle % c = 0, (now + n) % c = 0
    PROVE  (((now + 1) % cycle) + (n - 1)) % c = 0
<1> DEFINE q == (now + 1) \div cycle
           p == cycle \div c
           s == (now + n) \div c
<1>1. now + 1 = (cycle * q) + ((now + 1) % cycle) /\ q \in Nat /\ (now + 1) % cycle \in Nat
    BY DivMod
<1>2. cycle = c * p /\ p \in Nat
    BY DivMod
<1>3. now + n = c * s /\ s \in Nat
    BY DivMod
<1> HIDE DEF q, p, s
<1>4. cycle * q = c * (p * q)
    BY <1>1, <1>2
<1>5. ((now + 1) % cycle) + (n - 1) = c * (s - (p * q))
    <2>1. p * q \in Int /\ c * (s - (p * q)) = (c * s) - (c * (p * q))
        BY <1>1, <1>2, <1>3
    <2>2. ((now + 1) % cycle) + (n - 1) = (c * s) - (cycle * q)
        BY <1>1, <1>3
    <2> QED
        BY <1>4, <2>1, <2>2
<1>6. s - (p * q) \in Int /\ ((now + 1) % cycle) + (n - 1) \in Nat
    BY <1>1, <1>2, <1>3
<1> QED
    BY <1>5, <1>6, MultipleMod

\* What OffSlotOnlyToRetry says of one row at one time.
Planned(row, now) ==
    row.state = "live" /\ row.enabled /\ row.dueIn > 0
        => \/ (now + row.dueIn) % row.cron = 0
           \/ row.failures \in 1..row.maxRetries

\* The row as the end of a run leaves it waits for a slot, or for a retry it
\* has left.
LEMMA ReleasedIsPlanned ==
    ASSUME NEW row \in RowType, row.cron \in Crons, row.maxRetries \in Retries, clock \in Nat
    PROVE  Planned(Succeeded(row), clock) /\ Planned(Failed(row), clock)
<1>1. row.cron \in Nat \ {0}
    BY TimeAssumption
<1>2. NextOccurrence(row.cron) \in Nat \ {0} /\ (clock + NextOccurrence(row.cron)) % row.cron = 0
    BY <1>1, NextOccurrenceType, NextOccurrenceIsSlot
<1>3. Planned(Succeeded(row), clock)
    <2>1. /\ Succeeded(row).dueIn = NextOccurrence(row.cron)
          /\ Succeeded(row).cron = row.cron
        BY DEF Succeeded, RowType
    <2> QED
        BY <1>2, <2>1 DEF Planned
<1>4. Planned(Failed(row), clock)
    <2> DEFINE n == CountFailure(row.failures)
               d == IF GivesUp(n, row) THEN NextOccurrence(row.cron) ELSE RetryDelay(n)
    <2>1. Failed(row) = [row EXCEPT !.lockAge = Unlocked, !.lockedBy = NoWorker,
                                    !.failures = n, !.dueIn = d]
        BY DEF Failed
    <2>2. row.failures \in 0..FailureCap /\ row.maxRetries \in Nat
        BY RetryAssumption DEF RowType
    <2>3. FailureCap \in Nat /\ FailureCap # 0
        BY RetryAssumption
    <2>4. n \in 1..FailureCap
        BY <2>2, <2>3, CountFailureType
    <2>5. GivesUp(n, row) => d = NextOccurrence(row.cron)
        OBVIOUS
    <2>6. ~GivesUp(n, row) => n \in 1..row.maxRetries
        BY <2>2, <2>4 DEF GivesUp
    <2> HIDE DEF n, d
    <2>7. /\ Failed(row).dueIn = d /\ Failed(row).failures = n
          /\ Failed(row).cron = row.cron /\ Failed(row).maxRetries = row.maxRetries
        BY <2>1 DEF RowType
    <2> QED
        BY <1>2, <2>5, <2>6, <2>7 DEF Planned
<1> QED
    BY <1>3, <1>4

\* A plan that is made for an enabled row is for a slot; a row that is not
\* enabled has none.
LEMMA ReplannedIsPlanned ==
    ASSUME NEW row \in RowType, row.cron \in Crons, clock \in Nat
    PROVE  Planned(Replanned(row), clock)
<1>1. row.cron \in Nat \ {0}
    BY TimeAssumption
<1>2. (clock + NextOccurrence(row.cron)) % row.cron = 0
    BY <1>1, NextOccurrenceIsSlot
<1>3. /\ Replanned(row).cron = row.cron /\ Replanned(row).enabled = row.enabled
      /\ Replanned(row).dueIn = IF row.enabled THEN NextOccurrence(row.cron) ELSE NoTime
    BY DEF Replanned, RowType
<1> QED
    BY <1>2, <1>3 DEF Planned

\* Time brings a plan nearer and changes neither its slot nor the failures.
LEMMA AgedIsPlanned ==
    ASSUME NEW row \in RowType, row.state = "live" => row.cron \in Crons, clock \in Nat,
           Planned(row, clock)
    PROVE  Planned(Aged(row), (clock + 1) % CycleLength)
<1>1. /\ Aged(row).state = row.state /\ Aged(row).enabled = row.enabled /\ Aged(row).cron = row.cron
      /\ Aged(row).failures = row.failures /\ Aged(row).maxRetries = row.maxRetries
      /\ Aged(row).dueIn = Closer(row)
    BY DEF Aged, RowType
<1>2. SUFFICES ASSUME row.state = "live", row.enabled, Closer(row) > 0,
                      ~(row.failures \in 1..row.maxRetries)
               PROVE  (((clock + 1) % CycleLength) + Closer(row)) % row.cron = 0
    BY <1>1 DEF Planned
<1>3. row.dueIn \in Nat \ {0} /\ Closer(row) = row.dueIn - 1
    BY <1>2 DEF Closer, RowType, NoTime
<1>4. (clock + row.dueIn) % row.cron = 0
    BY <1>2, <1>3 DEF Planned
<1>5. row.cron \in Nat \ {0} /\ CycleLength \in Nat \ {0} /\ CycleLength % row.cron = 0
    BY <1>2, TimeAssumption
<1>6. (((clock + 1) % CycleLength) + (row.dueIn - 1)) % row.cron = 0
    BY <1>3, <1>4, <1>5, SlotStaysSlot
<1> QED
    BY <1>3, <1>6

LEMMA PlannedStep ==
    ASSUME TypeOK, OnRow, OffSlotOnlyToRetry, [Next]_vars
    PROVE  OffSlotOnlyToRetry'
<1> SUFFICES ASSUME NEW r \in Rows PROVE Planned(sched'[r], clock')
    BY DEF OffSlotOnlyToRetry, Planned, LiveRow
<1>1. clock \in Nat /\ sched[r] \in RowType /\ Planned(sched[r], clock)
    BY TimeAssumption DEF TypeOK, OffSlotOnlyToRetry, Planned, LiveRow
<1>2. LiveRow(r) => sched[r].cron \in Crons /\ sched[r].maxRetries \in Retries
    BY DEF TypeOK, LiveRow
<1>3. CASE Tick
    BY <1>1, <1>2, <1>3, AgedIsPlanned DEF Tick, LiveRow
<1>4. ASSUME UNCHANGED clock, sched'[r] = sched[r] PROVE Planned(sched'[r], clock')
    BY <1>1, <1>4
<1>5. ASSUME NEW w \in Workers, Claim(w) PROVE Planned(sched'[r], clock')
    <2>1. CASE r = cur[w]
        <3>1. sched'[r] = Locked(sched[r], w) /\ clock' = clock
            BY <1>5, <2>1 DEF Claim, TypeOK
        <3>2. /\ Locked(sched[r], w).state = sched[r].state
              /\ Locked(sched[r], w).enabled = sched[r].enabled
              /\ Locked(sched[r], w).cron = sched[r].cron
              /\ Locked(sched[r], w).failures = sched[r].failures
              /\ Locked(sched[r], w).maxRetries = sched[r].maxRetries
              /\ Locked(sched[r], w).dueIn = sched[r].dueIn
            BY <1>1 DEF Locked, RowType
        <3> QED
            BY <1>1, <3>1, <3>2 DEF Planned
    <2>2. CASE r # cur[w]
        BY <1>4, <1>5, <2>2 DEF Claim, TypeOK
    <2> QED
        BY <2>1, <2>2
<1>6. ASSUME NEW w \in Workers, Release(w) PROVE Planned(sched'[r], clock')
    <2>1. CASE r = cur[w] /\ LiveRow(r)
        <3>1. sched'[r] \in {Failed(sched[r]), Succeeded(sched[r])} /\ clock' = clock
            BY <1>6, <2>1 DEF Release, ReleasedRow, TypeOK
        <3> QED
            BY <1>1, <1>2, <2>1, <3>1, ReleasedIsPlanned
    <2>2. CASE ~(r = cur[w] /\ LiveRow(r))
        BY <1>4, <1>6, <2>2 DEF Release, TypeOK
    <2> QED
        BY <2>1, <2>2
<1>7. ASSUME NEW c \in Conns, NEW q \in Rows, NEW cron \in Crons, NEW enabled \in BOOLEAN,
             NEW retries \in Retries, CreateSchedule(c, q, cron, enabled, retries)
      PROVE  Planned(sched'[r], clock')
    <2> DEFINE new == Created(c, cron, enabled, retries)
    <2>1. CASE q = r
        <3>1. new \in RowType /\ new.cron = cron
            BY BlankType DEF Created, RowType, Blank
        <3>2. sched'[r] = Replanned(new) /\ clock' = clock
            BY <1>7, <2>1 DEF CreateSchedule, TypeOK
        <3> HIDE DEF new
        <3> QED
            BY <1>1, <3>1, <3>2, ReplannedIsPlanned
    <2>2. CASE q # r
        BY <1>4, <1>7, <2>2 DEF CreateSchedule, TypeOK
    <2> QED
        BY <2>1, <2>2
<1>8. ASSUME NEW q \in Rows, NEW cron \in Crons, NEW enabled \in BOOLEAN,
             NEW retries \in Retries, UpdateSchedule(q, cron, enabled, retries)
      PROVE  Planned(sched'[r], clock')
    <2> DEFINE new == Edited(sched[r], cron, enabled, retries)
    <2>1. CASE q = r
        <3>1. new \in RowType /\ new.cron = cron
            BY <1>1, EditedRow
        <3>2. sched'[r] = Replanned(new) /\ clock' = clock
            BY <1>8, <2>1 DEF UpdateSchedule, TypeOK
        <3> HIDE DEF new
        <3> QED
            BY <1>1, <3>1, <3>2, ReplannedIsPlanned
    <2>2. CASE q # r
        BY <1>4, <1>8, <2>2 DEF UpdateSchedule, TypeOK
    <2> QED
        BY <2>1, <2>2
<1>9. ASSUME UNCHANGED clock, sched'[r] \in {sched[r], Tombstone(sched[r])}
      PROVE  Planned(sched'[r], clock')
    <2>1. Tombstone(sched[r]).state = "deleted"
        BY DEF Tombstone, Blank
    <2> QED
        BY <1>4, <1>9, <2>1 DEF Planned
<1>10. ASSUME NEW q \in Rows, DeleteSchedule(q) PROVE Planned(sched'[r], clock')
    BY <1>9, <1>10 DEF DeleteSchedule, TypeOK
<1>11. ASSUME NEW c \in Conns, DeleteConnection(c) PROVE Planned(sched'[r], clock')
    BY <1>9, <1>11 DEF DeleteConnection
<1> QED
    BY <1>3, <1>4, <1>5, <1>6, <1>7, <1>8, <1>10, <1>11
    DEF vars, Next, WorkerStep, Operator, Poll, Fetch, LoseClaim, FindNoConnection, FinishRun, Crash

\* A next_run_at between two cron slots is a retry of a schedule that has
\* failed and has retries left, whatever is run, edited, missed or crashes.
THEOREM RetriesOnlyOffSlot == Spec => []OffSlotOnlyToRetry
<1>1. Init => OffSlotOnlyToRetry
    BY DEF Init, OffSlotOnlyToRetry, LiveRow, Blank
<1>2. TypeOK /\ OnRow /\ OffSlotOnlyToRetry /\ [Next]_vars => OffSlotOnlyToRetry'
    BY PlannedStep
<1> QED
    BY TypeCorrect, <1>1, <1>2, PTL DEF Spec

-----------------------------------------------------------------------------
(* Mutual exclusion.                                                         *)

\* A worker with a run in flight holds its claim no longer than a run may
\* take; any other worker has no claim to measure.
AgeBounded ==
    \A w \in Workers : IF InFlight(w) THEN age[w] <= MaxRunTime ELSE age[w] = 0

\* As long as its schedule exists, a run in flight holds the lock, and the lock
\* was taken when the run was claimed.
OwnsLock ==
    \A w \in Workers : InFlight(w) /\ LiveRow(cur[w])
        => sched[cur[w]].lockedBy = w /\ sched[cur[w]].lockAge = age[w]

IInv == TypeOK /\ OnRow /\ AgeBounded /\ OwnsLock /\ NoDoubleRun

LEMMA AgeStep ==
    ASSUME TypeOK, AgeBounded, [Next]_vars
    PROVE  AgeBounded'
BY TimeAssumption
DEF TypeOK, AgeBounded, InFlight, vars, Next, WorkerStep, Operator, Tick, Poll, Fetch, Claim,
    LoseClaim, FindNoConnection, FinishRun, Release, Crash, CreateSchedule, UpdateSchedule,
    DeleteSchedule, DeleteConnection, MoveOn

\* While no run outlives the lock, a worker cannot claim a schedule that
\* another one is running: its lock is neither free nor stale.
LEMMA ClaimIsExclusive ==
    ASSUME MaxRunTime <= LockTimeout, TypeOK, OnRow, AgeBounded, OwnsLock,
           NEW v \in Workers, NEW w \in Workers, InFlight(v), Claim(w)
    PROVE  cur[v] # cur[w]
<1> SUFFICES ASSUME cur[v] = cur[w] PROVE FALSE
    OBVIOUS
<1>1. sched[cur[w]].lockAge = age[v] /\ LiveRow(cur[w])
    BY DEF Claim, OwnsLock
<1>2. age[v] \in Nat /\ age[v] <= LockTimeout
    BY TimeAssumption DEF AgeBounded, TypeOK
<1>3. CanAcquire(sched[cur[w]])
    BY DEF Claim
<1> QED
    BY <1>1, <1>2, <1>3, TimeAssumption DEF CanAcquire, Unlocked

\* An edit keeps the lock.
LEMMA EditKeepsLock ==
    ASSUME NEW row \in RowType, NEW cron \in Crons, NEW enabled \in BOOLEAN, NEW retries \in Retries
    PROVE  /\ Replanned(Edited(row, cron, enabled, retries)).lockAge = row.lockAge
           /\ Replanned(Edited(row, cron, enabled, retries)).lockedBy = row.lockedBy
           /\ Replanned(Edited(row, cron, enabled, retries)).state = row.state
<1> DEFINE new == Edited(row, cron, enabled, retries)
<1>1. new \in RowType /\ new.state = row.state
    BY EditedRow
<1>2. new.lockAge = row.lockAge /\ new.lockedBy = row.lockedBy
    BY DEF Edited, RowType
<1> HIDE DEF new
<1>3. /\ Replanned(new).lockAge = new.lockAge /\ Replanned(new).lockedBy = new.lockedBy
      /\ Replanned(new).state = new.state
    BY <1>1 DEF Replanned, RowType
<1> QED
    BY <1>1, <1>2, <1>3 DEF new

LEMMA AgedRow ==
    ASSUME NEW row \in RowType
    PROVE  Aged(row).lockAge = Older(row) /\ Aged(row).lockedBy = row.lockedBy
BY DEF Aged, RowType

LEMMA LockedRow ==
    ASSUME NEW row \in RowType, NEW w \in Workers
    PROVE  Locked(row, w).lockAge = 0 /\ Locked(row, w).lockedBy = w
BY DEF Locked, RowType

LEMMA ExclusionStep ==
    ASSUME MaxRunTime <= LockTimeout, IInv, Next
    PROVE  OwnsLock' /\ NoDoubleRun'
<1> USE DEF IInv
<1> DEFINE Goal == OwnsLock' /\ NoDoubleRun'
<1>1. CASE Tick
    <2>1. UNCHANGED <<pc, cur>>
        BY <1>1 DEF Tick
    <2>2. ASSUME NEW w \in Workers, InFlight(w)', LiveRow(cur[w])'
          PROVE  sched'[cur'[w]].lockedBy = w /\ sched'[cur'[w]].lockAge = age'[w]
        <3>1. InFlight(w) /\ cur[w] \in Rows
            BY <2>1, <2>2 DEF InFlight, OnRow
        <3>2. sched'[cur[w]] = Aged(sched[cur[w]]) /\ sched[cur[w]] \in RowType
            BY <1>1, <3>1 DEF Tick, TypeOK
        <3>3. LiveRow(cur[w])
            BY <2>1, <2>2, <3>2, RowTypeOfTick DEF LiveRow
        <3>4. age[w] \in Nat /\ age[w] < LockTimeout /\ age'[w] = age[w] + 1
            BY <1>1, <3>1, TimeAssumption DEF Tick, TypeOK
        <3>5. sched[cur[w]].lockedBy = w /\ sched[cur[w]].lockAge = age[w]
            BY <3>1, <3>3 DEF OwnsLock
        <3>6. Older(sched[cur[w]]) = age[w] + 1
            BY <3>4, <3>5, TimeAssumption DEF Older
        <3> QED
            BY <2>1, <3>2, <3>4, <3>5, <3>6, AgedRow
    <2> QED
        BY <2>1, <2>2 DEF OwnsLock, NoDoubleRun, InFlight, LiveRow
<1>2. ASSUME NEW w \in Workers,
             \/ Poll(w) \/ (\E r \in Rows : Fetch(w, r)) \/ LoseClaim(w)
             \/ FindNoConnection(w) \/ (\E status \in Reports : FinishRun(w, status)) \/ Crash(w)
      PROVE  Goal
    <2>1. \A v \in Workers : InFlight(v)' => InFlight(v) /\ cur'[v] = cur[v] /\ age'[v] = age[v]
        BY <1>2 DEF InFlight, Poll, Fetch, LoseClaim, FindNoConnection, FinishRun, Crash, MoveOn, TypeOK
    <2>2. UNCHANGED sched
        BY <1>2 DEF Poll, Fetch, LoseClaim, FindNoConnection, FinishRun, Crash
    <2> QED
        BY <2>1, <2>2 DEF OwnsLock, NoDoubleRun, LiveRow
<1>3. ASSUME NEW w \in Workers, Claim(w) PROVE Goal
    <2>1. /\ UNCHANGED <<cur, age>>
          /\ InFlight(w)' /\ cur[w] \in Rows /\ age[w] = 0
          /\ \A v \in Workers : v # w => InFlight(v)' = InFlight(v)
        BY <1>3 DEF Claim, InFlight, OnRow, AgeBounded, TypeOK
    <2>2. \A v \in Workers : v # w /\ InFlight(v) => cur[v] # cur[w]
        BY <1>3, ClaimIsExclusive
    <2>3. sched'[cur[w]] = Locked(sched[cur[w]], w) /\ sched[cur[w]] \in RowType
        BY <1>3, <2>1 DEF Claim, TypeOK
    <2>4. \A r \in Rows : r # cur[w] => sched'[r] = sched[r]
        BY <1>3 DEF Claim, TypeOK
    <2>5. ASSUME NEW v \in Workers, InFlight(v)', LiveRow(cur[v])'
          PROVE  sched'[cur'[v]].lockedBy = v /\ sched'[cur'[v]].lockAge = age'[v]
        <3>1. CASE v = w
            BY <2>1, <2>3, <3>1, LockedRow
        <3>2. CASE v # w
            <4>1. InFlight(v) /\ cur[v] \in Rows /\ sched'[cur[v]] = sched[cur[v]]
                BY <2>1, <2>2, <2>4, <2>5, <3>2 DEF OnRow, InFlight
            <4> QED
                BY <2>1, <2>5, <4>1 DEF OwnsLock, LiveRow
        <3> QED
            BY <3>1, <3>2
    <2>6. NoDoubleRun'
        BY <2>1, <2>2 DEF NoDoubleRun
    <2> QED
        BY <2>5, <2>6 DEF OwnsLock
<1>4. ASSUME NEW w \in Workers, Release(w) PROVE Goal
    <2>1. /\ InFlight(w) /\ ~InFlight(w)' /\ cur[w] \in Rows
          /\ \A v \in Workers : v # w => InFlight(v)' = InFlight(v) /\ cur'[v] = cur[v] /\ age'[v] = age[v]
        BY <1>4 DEF Release, MoveOn, InFlight, OnRow, TypeOK
    <2>2. \A r \in Rows : r # cur[w] => sched'[r] = sched[r]
        BY <1>4 DEF Release, TypeOK
    <2>3. ASSUME NEW v \in Workers, InFlight(v)'
          PROVE  InFlight(v) /\ cur'[v] = cur[v] /\ age'[v] = age[v] /\ sched'[cur[v]] = sched[cur[v]]
        BY <2>1, <2>2, <2>3 DEF NoDoubleRun, OnRow, InFlight
    <2> QED
        BY <2>3 DEF OwnsLock, NoDoubleRun, LiveRow
<1>5. ASSUME Operator PROVE Goal
    <2>1. UNCHANGED <<pc, cur, age>>
        BY <1>5 DEF Operator, CreateSchedule, UpdateSchedule, DeleteSchedule, DeleteConnection
    <2>2. ASSUME NEW w \in Workers, InFlight(w), LiveRow(cur[w])'
          PROVE  /\ LiveRow(cur[w])
                 /\ sched'[cur[w]].lockedBy = sched[cur[w]].lockedBy
                 /\ sched'[cur[w]].lockAge = sched[cur[w]].lockAge
        <3>1. cur[w] \in Rows /\ sched[cur[w]].state # "unborn" /\ sched[cur[w]] \in RowType
            BY <2>2 DEF OnRow, InFlight, TypeOK
        <3>2. \A row \in RowType : Tombstone(row).state = "deleted"
            BY DEF Tombstone, Blank
        <3>3. ASSUME NEW r \in Rows, NEW cron \in Crons, NEW enabled \in BOOLEAN,
                     NEW retries \in Retries, UpdateSchedule(r, cron, enabled, retries)
              PROVE  /\ sched'[cur[w]].state = sched[cur[w]].state
                     /\ sched'[cur[w]].lockedBy = sched[cur[w]].lockedBy
                     /\ sched'[cur[w]].lockAge = sched[cur[w]].lockAge
            <4>1. CASE r = cur[w]
                <5>1. sched'[cur[w]] = Replanned(Edited(sched[cur[w]], cron, enabled, retries))
                    BY <3>1, <3>3, <4>1 DEF UpdateSchedule, TypeOK
                <5> QED
                    BY <3>1, <5>1, EditKeepsLock
            <4>2. CASE r # cur[w]
                BY <3>1, <3>3, <4>2 DEF UpdateSchedule, TypeOK
            <4> QED
                BY <4>1, <4>2
        <3>4. ASSUME NEW c \in Conns, NEW r \in Rows, NEW cron \in Crons, NEW enabled \in BOOLEAN,
                     NEW retries \in Retries, CreateSchedule(c, r, cron, enabled, retries)
              PROVE  sched'[cur[w]] = sched[cur[w]]
            BY <3>1, <3>4 DEF CreateSchedule, TypeOK
        <3>5. ASSUME NEW r \in Rows, DeleteSchedule(r)
              PROVE  sched'[cur[w]] = sched[cur[w]]
            BY <2>1, <2>2, <3>1, <3>2, <3>5 DEF DeleteSchedule, LiveRow, TypeOK
        <3>6. ASSUME NEW c \in Conns, DeleteConnection(c)
              PROVE  sched'[cur[w]] = sched[cur[w]]
            BY <2>1, <2>2, <3>1, <3>2, <3>6 DEF DeleteConnection, LiveRow, TypeOK
        <3> QED
            BY <1>5, <2>1, <2>2, <3>3, <3>4, <3>5, <3>6 DEF Operator, LiveRow
    <2> QED
        BY <2>1, <2>2 DEF OwnsLock, NoDoubleRun, InFlight, LiveRow
<1> QED
    BY <1>1, <1>2, <1>3, <1>4, <1>5 DEF Next, WorkerStep

LEMMA IInvInit == Init => IInv
<1>1. Init => AgeBounded /\ OwnsLock /\ NoDoubleRun
    BY DEF Init, AgeBounded, OwnsLock, NoDoubleRun, InFlight
<1> QED
    BY <1>1, TypeInit DEF IInv

LEMMA IInvStep ==
    ASSUME MaxRunTime <= LockTimeout, IInv, [Next]_vars
    PROVE  IInv'
<1>1. TypeOK' /\ OnRow'
    BY TypeStep DEF IInv
<1>2. AgeBounded'
    BY AgeStep DEF IInv
<1>3. CASE UNCHANGED vars
    BY <1>1, <1>2, <1>3 DEF IInv, vars, OwnsLock, NoDoubleRun, InFlight, LiveRow
<1>4. CASE Next
    BY <1>1, <1>2, <1>4, ExclusionStep DEF IInv
<1> QED
    BY <1>3, <1>4

\* While no run outlives LOCK_TIMEOUT, acquire's conditional UPDATE lets no two
\* processes run the same schedule at once, whatever dies or is edited meanwhile.
THEOREM MutualExclusion ==
    ASSUME MaxRunTime <= LockTimeout
    PROVE  Spec => []NoDoubleRun
<1>1. IInv /\ [Next]_vars => IInv'
    BY IInvStep
<1>2. IInv => NoDoubleRun
    BY DEF IInv
<1> QED
    BY IInvInit, <1>1, <1>2, PTL DEF Spec

\* Under the same bound the lock of a run in flight is never cleared or taken
\* over: not by a release, an edit, or a worker that reclaims stale locks.
THEOREM LockIsHeld ==
    ASSUME MaxRunTime <= LockTimeout
    PROVE  Spec => []RunHoldsLock
<1>1. IInv /\ [Next]_vars => IInv'
    BY IInvStep
<1>2. IInv => RunHoldsLock
    BY DEF IInv, TypeOK, OwnsLock, RunHoldsLock, Unlocked
<1> QED
    BY IInvInit, <1>1, <1>2, PTL DEF Spec

-----------------------------------------------------------------------------
(* The scheduler implements ExclusiveRuns.                                   *)

LEMMA RunnerOf ==
    ASSUME NoDoubleRun, NEW r \in Rows, NEW w \in Workers, InFlight(w), cur[w] = r
    PROVE  Runner(r) = w
<1>1. \A v \in Workers : InFlight(v) /\ cur[v] = r => v = w
    BY DEF NoDoubleRun
<1> QED
    BY <1>1 DEF Runner

LEMMA NoRunnerOf ==
    ASSUME NEW r \in Rows, \A w \in Workers : InFlight(w) => cur[w] # r
    PROVE  Runner(r) = NoWorker
BY DEF Runner

\* The same two facts about the state after a step.
LEMMA RunnerOfNext ==
    ASSUME NoDoubleRun', NEW r \in Rows, NEW w \in Workers, InFlight(w)', cur'[w] = r
    PROVE  Runner(r)' = w
<1>1. \A v \in Workers : InFlight(v)' /\ cur'[v] = r => v = w
    BY DEF NoDoubleRun
<1> QED
    BY <1>1 DEF Runner

LEMMA NoRunnerOfNext ==
    ASSUME NEW r \in Rows, \A w \in Workers : InFlight(w)' => cur'[w] # r
    PROVE  Runner(r)' = NoWorker
BY DEF Runner

\* A schedule that is the business of the same workers keeps its runner.
LEMMA SameRunner ==
    ASSUME NoDoubleRun, NoDoubleRun', NEW r \in Rows,
           \A w \in Workers : (InFlight(w) /\ cur[w] = r) <=> (InFlight(w)' /\ cur'[w] = r)
    PROVE  Runner(r)' = Runner(r)
<1>1. CASE \E w \in Workers : InFlight(w) /\ cur[w] = r
    <2>1. PICK w \in Workers : InFlight(w) /\ cur[w] = r
        BY <1>1
    <2>2. InFlight(w)' /\ cur'[w] = r
        BY <2>1
    <2> QED
        BY <2>1, <2>2, RunnerOf, RunnerOfNext
<1>2. CASE ~\E w \in Workers : InFlight(w) /\ cur[w] = r
    BY <1>2, NoRunnerOf, NoRunnerOfNext
<1> QED
    BY <1>1, <1>2

\* The schedules' runners, as ExclusiveRuns has them.
Mapped == [r \in Rows |-> Runner(r)]

\* A run that ends, by its release or with its process, is a Stop.
LEMMA StopStep ==
    ASSUME IInv, IInv', NEW w \in Workers, NEW r \in Rows,
           InFlight(w), cur[w] = r, ~InFlight(w)',
           \A v \in Workers : v # w => (InFlight(v)' <=> InFlight(v)) /\ cur'[v] = cur[v]
    PROVE  Exclusive!Stop(r)
<1>1. w # NoWorker
    BY NullAssumption
<1>2. Runner(r) = w
    BY RunnerOf DEF IInv
<1>3. Runner(r)' = NoWorker
    <2>1. \A v \in Workers : InFlight(v)' => cur'[v] # r
        BY DEF IInv, NoDoubleRun
    <2> QED
        BY <2>1, NoRunnerOfNext
<1>4. ASSUME NEW q \in Rows, q # r PROVE Runner(q)' = Runner(q)
    BY <1>4, SameRunner DEF IInv
<1>5. Mapped' = [Mapped EXCEPT ![r] = NoWorker]
    BY <1>3, <1>4 DEF Mapped
<1> QED
    BY <1>1, <1>2, <1>5 DEF Exclusive!Stop, Mapped

\* A claim is a Start.
LEMMA StartStep ==
    ASSUME IInv, IInv', NEW w \in Workers, NEW r \in Rows,
           ~InFlight(w), InFlight(w)', cur[w] = r, cur' = cur,
           \A v \in Workers : v # w => (InFlight(v)' <=> InFlight(v))
    PROVE  Exclusive!Start(w, r)
<1>1. Runner(r)' = w
    BY RunnerOfNext DEF IInv
<1>2. Runner(r) = NoWorker
    <2>1. \A v \in Workers : InFlight(v) => cur[v] # r
        BY DEF IInv, NoDoubleRun
    <2> QED
        BY <2>1, NoRunnerOf
<1>3. ASSUME NEW q \in Rows, q # r PROVE Runner(q)' = Runner(q)
    BY <1>3, SameRunner DEF IInv
<1>4. ASSUME NEW q \in Rows PROVE Runner(q) # w
    BY NullAssumption DEF Runner
<1>5. Mapped' = [Mapped EXCEPT ![r] = w]
    BY <1>1, <1>3 DEF Mapped
<1> QED
    BY <1>2, <1>4, <1>5 DEF Exclusive!Start, Mapped

LEMMA ImplementationStep ==
    ASSUME IInv, IInv', [Next]_vars
    PROVE  [Exclusive!ExNext]_Mapped
<1> DEFINE Same == \A w \in Workers : /\ InFlight(w)' <=> InFlight(w)
                                      /\ InFlight(w) => cur'[w] = cur[w]
<1>1. ASSUME Same PROVE Mapped' = Mapped
    <2>1. ASSUME NEW r \in Rows PROVE Runner(r)' = Runner(r)
        BY <1>1, SameRunner DEF IInv
    <2> QED
        BY <2>1 DEF Mapped
<1>2. CASE UNCHANGED vars
    BY <1>1, <1>2 DEF vars, InFlight
<1>3. CASE Tick \/ Operator
    BY <1>1, <1>3 DEF Tick, Operator, CreateSchedule, UpdateSchedule, DeleteSchedule,
                      DeleteConnection, InFlight
<1>4. ASSUME NEW w \in Workers,
             \/ Poll(w) \/ (\E r \in Rows : Fetch(w, r)) \/ LoseClaim(w) \/ FindNoConnection(w)
             \/ (\E status \in Reports : FinishRun(w, status)) \/ (Crash(w) /\ ~InFlight(w))
      PROVE  Mapped' = Mapped
    BY <1>1, <1>4 DEF IInv, TypeOK, InFlight, Poll, Fetch, LoseClaim, FindNoConnection,
                      FinishRun, Crash, MoveOn
<1>5. ASSUME NEW w \in Workers, Claim(w) PROVE Exclusive!ExNext
    <2>1. /\ ~InFlight(w) /\ InFlight(w)' /\ cur' = cur /\ cur[w] \in Rows
          /\ \A v \in Workers : v # w => (InFlight(v)' <=> InFlight(v))
        BY <1>5 DEF IInv, TypeOK, OnRow, InFlight, Claim
    <2>2. PICK r \in Rows : cur[w] = r
        BY <2>1
    <2>3. Exclusive!Start(w, r)
        BY <2>1, <2>2, StartStep
    <2> QED
        BY <2>3 DEF Exclusive!ExNext
<1>6. ASSUME NEW w \in Workers, Release(w) \/ (Crash(w) /\ InFlight(w)) PROVE Exclusive!ExNext
    <2>1. /\ InFlight(w) /\ ~InFlight(w)' /\ cur[w] \in Rows
          /\ \A v \in Workers : v # w => (InFlight(v)' <=> InFlight(v)) /\ cur'[v] = cur[v]
        BY <1>6 DEF IInv, TypeOK, OnRow, InFlight, Release, Crash, MoveOn
    <2>2. PICK r \in Rows : cur[w] = r
        BY <2>1
    <2>3. Exclusive!Stop(r)
        BY <2>1, <2>2, StopStep
    <2> QED
        BY <2>3 DEF Exclusive!ExNext
<1> QED
    BY <1>2, <1>1, <1>3, <1>4, <1>5, <1>6 DEF Next, WorkerStep, vars, InFlight, Tick, Operator,
       CreateSchedule, UpdateSchedule, DeleteSchedule, DeleteConnection

\* While no run outlives LOCK_TIMEOUT, the rows, leases, crashes and edits of the
\* scheduler implement the lock-free ExclusiveRuns.
THEOREM SchedulerImplementsExclusiveRuns ==
    ASSUME MaxRunTime <= LockTimeout
    PROVE  Spec => ImplementsExclusiveRuns
<1>1. Init => Exclusive!ExInit
    BY DEF Init, InFlight, Runner, Exclusive!ExInit
<1>2. IInv /\ [Next]_vars => IInv'
    BY IInvStep
<1>3. IInv /\ IInv' /\ [Next]_vars => [Exclusive!ExNext]_Mapped
    BY ImplementationStep
<1> QED
    BY IInvInit, <1>1, <1>2, <1>3, PTL DEF Spec, ImplementsExclusiveRuns, Exclusive!ExSpec, Mapped
=============================================================================

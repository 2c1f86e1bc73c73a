---------------------------- MODULE SchedulerMC ----------------------------
(* Small instances of Scheduler for TLC.                                     *)
EXTENDS Scheduler, TLC

\* Two backoff steps: the second is the one every later failure gets.
MCBackoff == <<1, 2>>

\* Workers, connections and row ids are interchangeable.
Symmetric == Permutations(Workers) \cup Permutations(Conns) \cup Permutations(Rows)

\* A database in which every connection already has an enabled schedule on its
\* first slot, for the questions that need no operator.
Scheduled ==
    /\ clock = 0
    /\ conns = Conns
    /\ sched \in [Rows -> {[Blank EXCEPT !.state = "live", !.conn = c, !.enabled = TRUE,
                                         !.cron = p, !.maxRetries = m, !.dueIn = p] :
                              c \in Conns, p \in Crons, m \in Retries}]
    /\ \A q, r \in Rows : sched[q].conn = sched[r].conn => q = r
    /\ pc = [w \in Workers |-> "asleep"]
    /\ due = [w \in Workers |-> {}]
    /\ cur = [w \in Workers |-> NoRow]
    /\ age = [w \in Workers |-> 0]
    /\ report = [w \in Workers |-> "succeeded"]
    /\ crashes = 0
    /\ edits = 0

ScheduledSpec == Scheduled /\ [][Next]_vars
ScheduledFairSpec == ScheduledSpec /\ WF_vars(Tick) /\ \A w \in Workers : WF_vars(WorkerStep(w))
=============================================================================

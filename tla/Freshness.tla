------------------------------ MODULE Freshness -----------------------------
(***************************************************************************)
(* How old dashboards/freshness.py lets the data of a dashboard look, as   *)
(* scheduled runs of its connection come, fail and stay away.              *)
(*                                                                         *)
(* A schedule is the set of its occurrences, in half hours; a run is a     *)
(* record of when it started and finished and how it ended.  The schedules *)
(* are regular, as "every two hours" is, and a run takes at most half of   *)
(* the time between two occurrences.                                       *)
(***************************************************************************)
EXTENDS Integers

CONSTANTS
    Gap,            \* the time between two occurrences
    Schedule,       \* the occurrences
    Horizon         \* bound: the occurrences go as far as this

ASSUME FreshnessAssumption ==
    /\ Gap \in Nat \ {0}
    /\ Horizon \in Nat /\ 2 * Gap <= Horizon
    /\ Schedule \subseteq 0..Horizon
    /\ Schedule # {}
    /\ \A t \in Schedule :
          /\ t + Gap <= Horizon => t + Gap \in Schedule
          /\ \A u \in Schedule : t < u => t + Gap <= u

VARIABLES
    clock,          \* the time
    started,        \* when the run that is going on started, or Idle
    runs            \* the runs that have ended

freshnessVars == <<clock, started, runs>>

Idle == -1

-----------------------------------------------------------------------------
(* The assessment.                                                           *)

\* The first occurrence after a time.
NextOccurrence(after) ==
    CHOOSE t \in Schedule : t > after /\ \A u \in Schedule : u > after => t <= u

\* (mutant) the gap up to the next occurrence
ExpectedIntervalToNext(finished) == NextOccurrence(finished) - finished

\* The schedule's own step: the gap between the two occurrences that follow.
ExpectedInterval(finished) ==
    NextOccurrence(NextOccurrence(finished)) - NextOccurrence(finished)

Assess(finished, asOf) ==
    LET age == asOf - finished
        interval == ExpectedInterval(finished)
    IN  IF age > 2 * interval THEN "stale"
        ELSE IF 2 * age > 3 * interval THEN "late" ELSE "fresh"

Succeeded == {r \in runs : r.status = "succeeded"}

\* Only a run that succeeded counts, and of those the last to finish.
LastFinished ==
    CHOOSE t \in {r.finished : r \in Succeeded} : \A r \in Succeeded : r.finished <= t

DashboardFreshness ==
    IF Succeeded = {} THEN "unknown" ELSE Assess(LastFinished, clock)

-----------------------------------------------------------------------------
(* The runs.                                                                 *)

Begin ==
    /\ started = Idle
    /\ clock \in Schedule
    /\ started' = clock
    /\ UNCHANGED <<clock, runs>>

Finish(status) ==
    /\ started # Idle
    /\ runs' = runs \cup {[started |-> started, finished |-> clock, status |-> status]}
    /\ started' = Idle
    /\ UNCHANGED clock

\* Half an hour passes.
Tick ==
    /\ clock + 1 + 2 * Gap <= Horizon
    /\ started # Idle => 2 * (clock + 1 - started) <= Gap
    /\ clock' = clock + 1
    /\ UNCHANGED <<started, runs>>

FreshnessInit ==
    /\ clock = 0
    /\ started = Idle
    /\ runs = {}

FreshnessNext ==
    \/ Begin
    \/ \E status \in {"succeeded", "failed"} : Finish(status)
    \/ Tick

FreshnessSpec == FreshnessInit /\ [][FreshnessNext]_freshnessVars

-----------------------------------------------------------------------------
(* What is shown.                                                            *)

Latest(r) == r \in Succeeded /\ \A q \in Succeeded : q.started <= r.started

\* Until a run has succeeded nothing is known.  From then on the data is called
\* fresh until the next run is due to have finished, and stale once two have
\* been missed or have failed; a run that failed makes nothing fresher.
FreshnessFollowsSchedule ==
    /\ DashboardFreshness = "unknown" <=> Succeeded = {}
    /\ \A r \in runs : Latest(r) =>
          /\ 2 * (clock - r.started) < 3 * Gap => DashboardFreshness = "fresh"
          /\ clock - r.started >= 3 * Gap => DashboardFreshness = "stale"
=============================================================================

--------------------------- MODULE ExclusiveRuns ---------------------------
(***************************************************************************)
(* What the lock on a schedule is for, with no lock in it: a schedule is   *)
(* run by at most one worker at a time, and a worker runs one schedule.    *)
(* The Scheduler module implements this while no run outlives the lock.    *)
(***************************************************************************)
CONSTANTS Workers, Rows, NoWorker

VARIABLE runner     \* for each schedule, the worker that is running it

ExInit == runner = [r \in Rows |-> NoWorker]

Start(w, r) ==
    /\ runner[r] = NoWorker
    /\ \A q \in Rows : runner[q] # w
    /\ runner' = [runner EXCEPT ![r] = w]

\* The run ends: its outcome is recorded, or its process dies.
Stop(r) ==
    /\ runner[r] # NoWorker
    /\ runner' = [runner EXCEPT ![r] = NoWorker]

ExNext == \E r \in Rows : Stop(r) \/ \E w \in Workers : Start(w, r)

ExSpec == ExInit /\ [][ExNext]_runner
=============================================================================

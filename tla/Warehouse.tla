----------------------------- MODULE Warehouse ------------------------------
(***************************************************************************)
(* Loads of dimensions (Scd2) through the cached engines (Engines): every  *)
(* statement of a load runs on the connection of the engine its thread     *)
(* holds, which may be opened, closed by an eviction and opened again      *)
(* between two statements.  Threads that load nothing query.               *)
(***************************************************************************)
EXTENDS Scd2, Engines

CONSTANT Loads          \* the dimension each loading thread loads

ASSUME WarehouseAssumption ==
    \E L \in SUBSET Threads :
        /\ Loads \in [L -> Tables]
        /\ \A v, w \in L : Loads[v] = Loads[w] => v = w

Loaders == DOMAIN Loads

vars == <<scdVars, engineVars>>

TypeOK == ScdTypeOK /\ EnginesTypeOK

Init == ScdInit /\ EnginesInit

Idle(w) == w \in Loaders => stage[Loads[w]] = "idle"

Engaging(w) == /\ GetEngine(w) \/ Connect(w) \/ AttachLayers(w)
               /\ UNCHANGED scdVars

StartLoad(w) ==
    /\ Attached(w)
    /\ \E cols \in Trackings : \E content \in Stagings(cols) : Stage(Loads[w], cols, content)
    /\ UNCHANGED engineVars

Load(w) ==
    /\ Attached(w)
    /\ Statement(Loads[w])
    /\ UNCHANGED engineVars

\* A statement may always fail, and on a connection without its layers it
\* does; the load fails with it.
LoadFails(w) ==
    /\ Attached(w) \/ MeetsBare(w)
    /\ FailLoad(Loads[w])
    /\ UNCHANGED engineVars

\* So does one that could not connect.
Disconnected(w) ==
    /\ AttachRaises(w)
    /\ IF Idle(w) THEN UNCHANGED scdVars ELSE FailLoad(Loads[w])

Leave(w) == Idle(w) /\ Release(w) /\ UNCHANGED scdVars

Shutdown == CloseAll /\ UNCHANGED scdVars

Next ==
    \/ \E w \in Threads : Engaging(w) \/ Disconnected(w) \/ Leave(w)
    \/ \E w \in Loaders : StartLoad(w) \/ Load(w) \/ LoadFails(w)
    \/ Shutdown

\* A thread that has asked for an engine, or is loading, goes on.
Spec ==
    /\ Init /\ [][Next]_vars
    /\ \A w \in Threads : WF_vars(Engaging(w)) /\ WF_vars(Disconnected(w))
    /\ \A w \in Loaders : WF_vars(Load(w))

\* A load that has begun comes to an end, although its engine may be evicted
\* and closed under it: its next statement finds a connection again.
LoadsEnd == \A w \in Loaders : (stage[Loads[w]] # "idle") ~> (stage[Loads[w]] = "idle")
=============================================================================

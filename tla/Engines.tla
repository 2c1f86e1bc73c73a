------------------------------ MODULE Engines -------------------------------
(***************************************************************************)
(* The cache of engines, one per tenant (engine/factory.py), and the       *)
(* connection each engine opens when it is first used (the connection      *)
(* property, ensure_layers and close of engine/duckdb_engine.py).          *)
(*                                                                         *)
(* Threads look an engine up, build one outside the lock when there is     *)
(* none, and keep what they got for as long as they work.  A full cache    *)
(* evicts the least recently used engine and closes it, in use or not.     *)
(***************************************************************************)
EXTENDS Integers, Sequences, FiniteSets, SequencesExt

CONSTANTS
    Threads,
    Tenants,
    TenantOf,           \* the tenant each thread works for
    MaxCachedEngines,
    MaxEngines          \* bound: engines built in all

ASSUME EnginesAssumption ==
    /\ TenantOf \in [Threads -> Tenants]
    /\ MaxCachedEngines \in Nat \ {0}
    /\ MaxEngines \in Nat

Engine == 1..MaxEngines
NoEngine == 0

VARIABLES
    cache,              \* the tenants that have a cached engine, least recently used first
    engineOf,           \* their engines
    built,              \* engines built so far
    connection,         \* of each engine: closed, bare (no layers yet) or attached
    connecting,         \* the thread inside each engine's lock
    holds,              \* the engine each thread has
    doing               \* where each thread is

engineVars == <<cache, engineOf, built, connection, connecting, holds, doing>>

NoThread == "nobody"

EnginesTypeOK ==
    /\ cache \in Seq(Tenants)
    /\ engineOf \in [Tenants -> Engine \cup {NoEngine}]
    /\ built \in 0..MaxEngines
    /\ connection \in [Engine -> {"closed", "bare", "attached"}]
    /\ connecting \in [Engine -> Threads \cup {NoThread}]
    /\ holds \in [Threads -> Engine \cup {NoEngine}]
    /\ doing \in [Threads -> {"idle", "building", "built", "working"}]
    /\ \A w \in Threads : doing[w] \in {"built", "working"} => holds[w] \in 1..built
    /\ \A e \in Engine : e > built => connection[e] = "closed"

EnginesInit ==
    /\ cache = <<>>
    /\ engineOf = [t \in Tenants |-> NoEngine]
    /\ built = 0
    /\ connection = [e \in Engine |-> "closed"]
    /\ connecting = [e \in Engine |-> NoThread]
    /\ holds = [w \in Threads |-> NoEngine]
    /\ doing = [w \in Threads |-> "idle"]

-----------------------------------------------------------------------------
(* get_engine.                                                               *)

IsCached(tenant) == tenant \in ToSet(cache)
MovedToEnd(tenant) ==
    LET place == CHOOSE i \in DOMAIN cache : cache[i] = tenant
    IN  Append(RemoveAt(cache, place), tenant)

\* The first critical section.
Hit(w) ==
    /\ doing[w] = "idle"
    /\ IsCached(TenantOf[w])
    /\ cache' = MovedToEnd(TenantOf[w])
    /\ holds' = [holds EXCEPT ![w] = engineOf[TenantOf[w]]]
    /\ doing' = [doing EXCEPT ![w] = "working"]
    /\ UNCHANGED <<engineOf, built, connection, connecting>>

Miss(w) ==
    /\ doing[w] = "idle"
    /\ ~IsCached(TenantOf[w])
    /\ built < MaxEngines
    /\ doing' = [doing EXCEPT ![w] = "building"]
    /\ UNCHANGED <<cache, engineOf, built, connection, connecting, holds>>

\* _build: a new engine, which connects when it is used.
Build(w) ==
    /\ doing[w] = "building"
    /\ built < MaxEngines
    /\ built' = built + 1
    /\ holds' = [holds EXCEPT ![w] = built + 1]
    /\ doing' = [doing EXCEPT ![w] = "built"]
    /\ UNCHANGED <<cache, engineOf, connection, connecting>>

\* (mutant) whoever built an engine caches it
AnotherNever(w) == FALSE

\* The second critical section: another thread may have cached one meanwhile.
Another(w) == IsCached(TenantOf[w])

\* Theirs is kept; ours, which is not connected, is closed.
Yield(w) ==
    /\ doing[w] = "built"
    /\ Another(w)
    /\ cache' = MovedToEnd(TenantOf[w])
    /\ holds' = [holds EXCEPT ![w] = engineOf[TenantOf[w]]]
    /\ doing' = [doing EXCEPT ![w] = "working"]
    /\ UNCHANGED <<engineOf, built, connection, connecting>>

Closing(tenants) ==
    [e \in Engine |-> IF \E t \in tenants : engineOf[t] = e THEN "closed" ELSE connection[e]]

\* (mutant) the cache is trimmed when it is already past its size
SurplusLate(keys) == IF Len(keys) > MaxCachedEngines + 1 THEN Len(keys) - MaxCachedEngines ELSE 0

Surplus(keys) == IF Len(keys) > MaxCachedEngines THEN Len(keys) - MaxCachedEngines ELSE 0

\* Otherwise ours is cached, and the cache brought back to its size.
Insert(w) ==
    LET tenant == TenantOf[w]
        keys == IF IsCached(tenant) THEN cache ELSE Append(cache, tenant)
        evicted == ToSet(SubSeq(keys, 1, Surplus(keys)))
    IN  /\ doing[w] = "built"
        /\ ~Another(w)
        /\ cache' = SubSeq(keys, Surplus(keys) + 1, Len(keys))
        /\ engineOf' = [engineOf EXCEPT ![tenant] = holds[w]]
        /\ connection' = Closing(evicted)
        /\ doing' = [doing EXCEPT ![w] = "working"]
        /\ UNCHANGED <<built, connecting, holds>>

-----------------------------------------------------------------------------
(* The connection.                                                           *)

Attached(w) == doing[w] = "working" /\ connection[holds[w]] = "attached"

\* The first to find no connection opens one, inside the engine's lock.
Connect(w) ==
    LET e == holds[w]
    IN  /\ doing[w] = "working"
        /\ connection[e] = "closed" /\ connecting[e] = NoThread
        /\ connection' = [connection EXCEPT ![e] = "bare"]
        /\ connecting' = [connecting EXCEPT ![e] = w]
        /\ UNCHANGED <<cache, engineOf, built, holds, doing>>

\* (mutant) the lock is left to whoever connected
LockKept(e) == connecting

LockFreed(e) == [connecting EXCEPT ![e] = NoThread]

\* ensure_layers.
AttachLayers(w) ==
    LET e == holds[w]
    IN  /\ doing[w] = "working"
        /\ connecting[e] = w /\ connection[e] = "bare"
        /\ connection' = [connection EXCEPT ![e] = "attached"]
        /\ connecting' = LockFreed(e)
        /\ UNCHANGED <<cache, engineOf, built, holds, doing>>

\* The same on a connection that an eviction has closed meanwhile: it raises.
AttachRaises(w) ==
    LET e == holds[w]
    IN  /\ doing[w] = "working"
        /\ connecting[e] = w /\ connection[e] = "closed"
        /\ connecting' = LockFreed(e)
        /\ UNCHANGED <<cache, engineOf, built, connection, holds, doing>>

\* A connection that is there is used as it is: without its layers, the
\* statement finds no catalog.
MeetsBare(w) ==
    /\ doing[w] = "working"
    /\ connection[holds[w]] = "bare"
    /\ connecting[holds[w]] # w

\* The thread is done with the engine, which stays as it is.
Release(w) ==
    /\ doing[w] = "working"
    /\ connecting[holds[w]] # w
    /\ holds' = [holds EXCEPT ![w] = NoEngine]
    /\ doing' = [doing EXCEPT ![w] = "idle"]
    /\ UNCHANGED <<cache, engineOf, built, connection, connecting>>

\* close_all, at shutdown.
CloseAll ==
    /\ cache # <<>>
    /\ connection' = Closing(ToSet(cache))
    /\ cache' = <<>>
    /\ UNCHANGED <<engineOf, built, connecting, holds, doing>>

GetEngine(w) == Hit(w) \/ Miss(w) \/ Build(w) \/ Yield(w) \/ Insert(w)

-----------------------------------------------------------------------------
\* The map never has more engines than its budget, whatever threads missed it
\* at the same time.
CacheWithinBudget ==
    /\ Len(cache) <= MaxCachedEngines
    /\ \A i, j \in DOMAIN cache : cache[i] = cache[j] => i = j

Cached == {engineOf[t] : t \in ToSet(cache)}

\* An engine that leaves the map, evicted or replaced, is closed: none is
\* dropped on the floor with its connection open.
LeavesClosed ==
    [][\A e \in Cached : e \notin Cached' => connection'[e] = "closed"]_engineVars
=============================================================================

------------------------------- MODULE Limiter ------------------------------
(***************************************************************************)
(* The sliding window of api/middleware.py: which requests of a caller are *)
(* admitted, as one process answers them one after the other.  A window is *)
(* the times of the requests admitted, oldest first; windows are kept per  *)
(* caller and limit (that of ordinary or of expensive routes), in the      *)
(* memory of the process.  dispatch awaits nothing between reading a       *)
(* window and writing it, so a request is one step.                        *)
(***************************************************************************)
EXTENDS Integers, Sequences, FiniteSets

CONSTANTS
    Limits,         \* DEFAULT_LIMIT and EXPENSIVE_LIMIT, as ordinary and expensive
    MaxWindows,     \* the number of windows past which stale ones are dropped
    Requests,       \* the requests that may come in
    Pauses,         \* how long after the last one a request may come
    MaxRequests     \* bound: requests

ASSUME LimiterAssumption ==
    /\ Limits \in [ordinary : [requests : Nat \ {0}, seconds : Nat],
                   expensive : [requests : Nat \ {0}, seconds : Nat]]
    /\ Pauses \subseteq Nat
    /\ MaxRequests \in Nat

VARIABLES
    time,           \* when the last request came in
    hits,           \* the windows, by caller and limit
    log             \* every request that came in, when, and whether it was let through

limiterVars == <<time, hits, log>>

\* The routes that cost a run or a query, by method and a part of the path.
Starting == {"POST"}
Asking == {"POST", "GET"}
ExpensiveRoutes ==
    Starting \X {"/runs", "/profile", "/relationships", "/semantic/build", "/dashboards/generate",
                 "/dashboards/"}
        \cup Asking \X {"/semantic/query", "/semantic/values", "/chat", "/explain", "/export",
                        "/preview", "/sample"}

\* A path is the set of its parts.
KindOf(request) ==
    IF \E part \in request.path : <<request.method, part>> \in ExpensiveRoutes
    THEN "expensive" ELSE "ordinary"

\* The token presented, or else the address the request was forwarded from, or
\* else the one it came from; "" where there is none.
CallerOf(request) ==
    CASE request.token # "" -> <<"caller", request.token>>
      [] request.token = "" /\ request.forwarded # "" -> <<"ip", request.forwarded>>
      [] OTHER -> <<"ip", request.address>>

WindowOf(key) == IF key \in DOMAIN hits THEN hits[key] ELSE <<>>
With(key, window) ==
    [k \in DOMAIN hits \cup {key} |-> IF k = key THEN window ELSE hits[k]]

\* Where what still counts begins: a request exactly as old as the window does.
FirstCounted(window, limit, t) ==
    CHOOSE i \in 1..(Len(window) + 1) :
        /\ i <= Len(window) => window[i] >= t - limit.seconds
        /\ \A j \in 1..(i - 1) : window[j] < t - limit.seconds

\* The window without the requests too old to count, from its oldest on.
Counted(window, limit, t) == SubSeq(window, FirstCounted(window, limit, t), Len(window))

\* (mutant) the shorter of the limits decides for every window
StaleByShortest(window, t) ==
    window = <<>> \/ \E kind \in DOMAIN Limits : t - window[Len(window)] > Limits[kind].seconds

\* Nothing in it can count any more, under whichever limit.
Stale(window, t) ==
    window = <<>> \/ \A kind \in DOMAIN Limits : t - window[Len(window)] > Limits[kind].seconds

Prune(windows, t) ==
    [k \in {j \in DOMAIN windows : ~Stale(windows[j], t)} |-> windows[k]]

Crowded(windows) == Cardinality(DOMAIN windows) > MaxWindows

\* Kinds of route that have one limit share one window.
KeyOf(request) == <<CallerOf(request), Limits[KindOf(request)]>>

\* The window a request finds, without what is too old.
Found(request, t) == Counted(WindowOf(KeyOf(request)), Limits[KindOf(request)], t)

Full(window, request) == Len(window) >= Limits[KindOf(request)].requests

\* A request over the limit is refused; the window is kept as it was found.
Refuse(request, window) == hits' = With(KeyOf(request), window)

\* Any other is counted, and stale windows are dropped when there are too many.
Admit(request, window, t) ==
    LET after == With(KeyOf(request), Append(window, t))
    IN  hits' = IF Crowded(after) THEN Prune(after, t) ELSE after

Dispatch(request, pause) ==
    LET t == time + pause
        window == Found(request, t)
    IN  /\ Len(log) < MaxRequests
        /\ time' = t
        /\ log' = Append(log, [request |-> request, at |-> t, ok |-> ~Full(window, request)])
        /\ \/ Full(window, request) /\ Refuse(request, window)
           \/ ~Full(window, request) /\ Admit(request, window, t)

LimiterInit ==
    /\ time = 0
    /\ hits = <<>>
    /\ log = <<>>

LimiterNext == \E request \in Requests, pause \in Pauses : Dispatch(request, pause)

LimiterSpec == LimiterInit /\ [][LimiterNext]_limiterVars

-----------------------------------------------------------------------------
(* What the limiter promises.                                                *)

\* What the same caller was let through with on such routes, within the
\* window before request i.
Recent(i) ==
    {j \in 1..(i - 1) :
        /\ log[j].ok
        /\ KeyOf(log[j].request) = KeyOf(log[i].request)
        /\ log[j].at >= log[i].at - Limits[KindOf(log[i].request)].seconds}

\* A request is let through exactly when its caller had fewer than the limit
\* admitted on such routes within the window before it, whatever others did
\* and whenever the windows of callers were dropped.
BudgetKept ==
    \A i \in DOMAIN log :
        log[i].ok <=> Cardinality(Recent(i)) < Limits[KindOf(log[i].request)].requests
=============================================================================

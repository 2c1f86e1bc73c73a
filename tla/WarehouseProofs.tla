-------------------------- MODULE WarehouseProofs ---------------------------
(***************************************************************************)
(* Theorems about Scd2, for any dimensions, keys and contents and any      *)
(* number of loads, however they fail; and about Warehouse, for any        *)
(* threads, tenants and sizes of the cache.  Whatever happens to the       *)
(* connections, the loads of a Warehouse are loads of Scd2, so that its    *)
(* histories keep what Scd2 promises; and the cache of engines keeps its   *)
(* budget and drops no engine without closing it.                          *)
(***************************************************************************)
EXTENDS Warehouse, SequenceTheorems, TLAPS

-----------------------------------------------------------------------------
(* What is true of a history.                                                *)

\* A dimension that does not exist has no versions.
Founded == \A t \in Tables : rows[t] # {} \/ stage[t] = "closed" => exists[t]

\* Between the two statements of a load no current version of a staged key
\* holds anything but the staged row.
NoneOutdated ==
    \A t \in Tables : stage[t] = "closed" => \A v \in rows[t] : ~Changed(t, v)

History == OneVersionAtATime /\ LoadedIsCurrent /\ NoneOutdated /\ Founded

-----------------------------------------------------------------------------
(* Types.                                                                    *)

LEMMA InitTypes == ScdInit => ScdTypeOK
  BY Scd2Assumption DEF ScdInit, ScdTypeOK, NoRows, Untracked, Stages

LEMMA StageTypes ==
  ASSUME ScdTypeOK, NEW t \in Tables, NEW cols \in Trackings, NEW content \in Stagings(cols),
         Stage(t, cols, content)
  PROVE  ScdTypeOK'
<1>1. DOMAIN content \subseteq Keys /\ \A k \in DOMAIN content : content[k] \in Hashes
  BY DEF Stagings, Hashes
<1>2. /\ staged' = [u \in Tables |-> staged'[u]]
      /\ \A u \in Tables : staged'[u] = IF u = t THEN content ELSE staged[u]
  BY DEF Stage, ScdTypeOK
<1>3. /\ \A u \in Tables : DOMAIN staged'[u] \subseteq Keys
      /\ \A u \in Tables : \A k \in DOMAIN staged'[u] : staged'[u][k] \in Hashes
  BY <1>1, <1>2 DEF ScdTypeOK
<1>4. loads' \in 0..MaxLoads
  BY Scd2Assumption DEF Stage, ScdTypeOK
<1>5. stage' \in [Tables -> Stages] /\ tracking' \in [Tables -> Trackings]
  BY DEF Stage, ScdTypeOK, Stages
<1> QED
  BY <1>2, <1>3, <1>4, <1>5 DEF Stage, ScdTypeOK

\* New versions are versions.
LEMMA FreshVersions ==
  ASSUME ScdTypeOK, NEW t \in Tables, NEW keys \in SUBSET DOMAIN staged[t], NEW at \in Nat \ {0}
  PROVE  /\ Fresh(t, keys, at) \subseteq Version
         /\ \A v \in Fresh(t, keys, at) :
                v.from = at /\ v.to = Open /\ v.key \in keys /\ v.hash = staged[t][v.key]
  BY DEF ScdTypeOK, Fresh, Version, Open

LEMMA EndedTypes ==
  ASSUME ScdTypeOK, NEW t \in Tables, Ended(t)
  PROVE  /\ stage' \in [Tables -> Stages]
         /\ staged' = [u \in Tables |-> staged'[u]]
         /\ \A u \in Tables : DOMAIN staged'[u] \subseteq Keys
         /\ \A u \in Tables : \A k \in DOMAIN staged'[u] : staged'[u][k] \in Hashes
  BY DEF ScdTypeOK, Ended, NoRows, Stages

LEMMA CreateFirstTypes ==
  ASSUME ScdTypeOK, NEW t \in Tables, CreateFirst(t)
  PROVE  ScdTypeOK'
<1>1. Now \in Nat \ {0} /\ time' = Now /\ Now = time + 1
  BY DEF ScdTypeOK, CreateFirst, Now
<1>2. /\ rows' \in [Tables -> SUBSET Version]
      /\ \A u \in Tables : \A v \in rows'[u] : v \in rows[u] \/ (v.from = Now /\ v.to = Open)
  BY <1>1, FreshVersions DEF CreateFirst, ScdTypeOK
<1>3. \A u \in Tables : \A v \in rows'[u] : v.from \in 1..time' /\ v.to \in 0..time'
  BY <1>1, <1>2 DEF ScdTypeOK, Open
<1> QED
  BY <1>1, <1>2, <1>3 DEF CreateFirst, ScdTypeOK, Stages

LEMMA CloseChangedTypes ==
  ASSUME ScdTypeOK, NEW t \in Tables, CloseChanged(t)
  PROVE  ScdTypeOK'
<1>1. Now \in Nat /\ time' = Now /\ Now = time + 1
  BY DEF ScdTypeOK, CloseChanged, Now
<1>2. rows' \in [Tables -> SUBSET Version]
  BY <1>1 DEF CloseChanged, ScdTypeOK, Version
<1>3. \A u \in Tables : \A v \in rows'[u] : v.from \in 1..time' /\ v.to \in 0..time'
  <2> SUFFICES ASSUME NEW u \in Tables, NEW v \in rows'[u]
               PROVE  v.from \in 1..time' /\ v.to \in 0..time'
    OBVIOUS
  <2>1. CASE u # t
    BY <1>1, <2>1 DEF CloseChanged, ScdTypeOK
  <2>2. CASE u = t
    <3>1. PICK w \in rows[t] : v = IF Changed(t, w) THEN [w EXCEPT !.to = Now] ELSE w
      BY <2>2 DEF CloseChanged, ScdTypeOK
    <3>2. w \in Version
      BY DEF ScdTypeOK
    <3> QED
      BY <1>1, <3>1, <3>2 DEF ScdTypeOK, Version
  <2> QED
    BY <2>1, <2>2
<1> QED
  BY <1>1, <1>2, <1>3 DEF CloseChanged, ScdTypeOK, Stages

LEMMA InsertNewTypes ==
  ASSUME ScdTypeOK, NEW t \in Tables, InsertNew(t)
  PROVE  ScdTypeOK'
<1>1. Now \in Nat \ {0} /\ time' = Now /\ Now = time + 1
  BY DEF ScdTypeOK, InsertNew, Now
<1>2. /\ rows' \in [Tables -> SUBSET Version]
      /\ \A u \in Tables : \A v \in rows'[u] : v \in rows[u] \/ (v.from = Now /\ v.to = Open)
  BY <1>1, FreshVersions DEF InsertNew, ScdTypeOK, Missing
<1>3. \A u \in Tables : \A v \in rows'[u] : v.from \in 1..time' /\ v.to \in 0..time'
  BY <1>1, <1>2 DEF ScdTypeOK, Open
<1> QED
  BY <1>1, <1>2, <1>3 DEF InsertNew, ScdTypeOK, Stages

LEMMA NextTypes == ScdTypeOK /\ [ScdNext]_scdVars => ScdTypeOK'
<1> SUFFICES ASSUME ScdTypeOK, [ScdNext]_scdVars PROVE ScdTypeOK'
  OBVIOUS
<1>1. ASSUME NEW t \in Tables, NEW cols \in Trackings, NEW content \in Stagings(cols),
             Stage(t, cols, content)
      PROVE  ScdTypeOK'
  BY <1>1, StageTypes
<1>2. ASSUME NEW t \in Tables, Statement(t) PROVE ScdTypeOK'
  <2>1. CASE CreateFirst(t)
    BY <2>1, CreateFirstTypes
  <2>2. CASE CloseChanged(t)
    BY <2>2, CloseChangedTypes
  <2>3. CASE InsertNew(t)
    BY <2>3, InsertNewTypes
  <2>4. CASE Record(t)
    BY <2>4, EndedTypes DEF Record, ScdTypeOK
  <2> QED
    BY <1>2, <2>1, <2>2, <2>3, <2>4 DEF Statement
<1>3. ASSUME NEW t \in Tables, FailLoad(t) PROVE ScdTypeOK'
  BY <1>3, EndedTypes DEF FailLoad, ScdTypeOK
<1>4. CASE UNCHANGED scdVars
  BY <1>4 DEF scdVars, ScdTypeOK
<1> QED
  BY <1>1, <1>2, <1>3, <1>4 DEF ScdNext

\* Every reachable state of the dimensions and their loads is well typed, and
\* no version begins or ends after the last statement.
THEOREM TypeCorrect == ScdSpec => []ScdTypeOK
  BY InitTypes, NextTypes, PTL DEF ScdSpec

-----------------------------------------------------------------------------
(* One version at a time.                                                    *)

LEMMA FoundedHolds ==
  ASSUME ScdTypeOK, Founded, [ScdNext]_scdVars
  PROVE  Founded'
<1>1. ASSUME NEW t \in Tables, NEW cols \in Trackings, NEW content \in Stagings(cols),
             Stage(t, cols, content)
      PROVE  Founded'
  BY <1>1 DEF Stage, Founded, ScdTypeOK
<1>2. ASSUME NEW t \in Tables, CreateFirst(t) PROVE Founded'
  BY <1>2 DEF CreateFirst, Founded, ScdTypeOK
<1>3. ASSUME NEW t \in Tables, CloseChanged(t) PROVE Founded'
  BY <1>3 DEF CloseChanged, Founded, ScdTypeOK
<1>4. ASSUME NEW t \in Tables, InsertNew(t) PROVE Founded'
  BY <1>4 DEF InsertNew, Founded, ScdTypeOK
<1>5. ASSUME NEW t \in Tables, Record(t) \/ FailLoad(t) PROVE Founded'
  BY <1>5 DEF Record, FailLoad, Ended, Founded, ScdTypeOK
<1>6. CASE UNCHANGED scdVars
  BY <1>6 DEF scdVars, Founded
<1> QED
  BY <1>1, <1>2, <1>3, <1>4, <1>5, <1>6 DEF ScdNext, Statement

LEMMA StagedHistory ==
  ASSUME ScdTypeOK, History, NEW t \in Tables, NEW cols \in Trackings,
         NEW content \in Stagings(cols), Stage(t, cols, content)
  PROVE  OneVersionAtATime' /\ LoadedIsCurrent' /\ NoneOutdated'
<1>1. \A u \in Tables : u # t => staged'[u] = staged[u] /\ stage'[u] = stage[u]
  BY DEF Stage, ScdTypeOK
<1>2. stage'[t] = "staged" /\ rows' = rows
  BY DEF Stage, ScdTypeOK
<1> QED
  BY <1>1, <1>2 DEF History, OneVersionAtATime, Apart, LoadedIsCurrent, NoneOutdated, Changed

\* A first load makes one version of each key, all of them current.
LEMMA CreatedHistory ==
  ASSUME ScdTypeOK, History, NEW t \in Tables, CreateFirst(t)
  PROVE  OneVersionAtATime' /\ LoadedIsCurrent' /\ NoneOutdated'
<1>1. /\ \A u \in Tables : u # t => rows'[u] = rows[u] /\ stage'[u] = stage[u]
      /\ rows'[t] = Fresh(t, DOMAIN staged[t], Now)
      /\ stage'[t] = "recording" /\ staged' = staged
  BY DEF CreateFirst, ScdTypeOK
<1>2. \A v, w \in rows'[t] : v.key = w.key => v = w
  BY <1>1 DEF Fresh
<1>3. \A k \in DOMAIN staged[t] :
          \E v \in rows'[t] : v.key = k /\ v.to = Open /\ v.hash = staged[t][k]
  <2> SUFFICES ASSUME NEW k \in DOMAIN staged[t]
               PROVE  \E v \in rows'[t] : v.key = k /\ v.to = Open /\ v.hash = staged[t][k]
    OBVIOUS
  <2> DEFINE v == [key |-> k, hash |-> staged[t][k], from |-> Now, to |-> Open]
  <2>1. v \in rows'[t]
    BY <1>1 DEF Fresh
  <2> QED
    BY <2>1
<1>4. OneVersionAtATime'
  BY <1>1, <1>2 DEF History, OneVersionAtATime, Apart
<1>5. LoadedIsCurrent'
  BY <1>1, <1>3 DEF History, LoadedIsCurrent
<1>6. NoneOutdated'
  BY <1>1 DEF History, NoneOutdated, Changed
<1> QED
  BY <1>4, <1>5, <1>6

\* The version of a key that is closed was its only current one.
LEMMA ClosedHistory ==
  ASSUME ScdTypeOK, History, NEW t \in Tables, CloseChanged(t)
  PROVE  OneVersionAtATime' /\ LoadedIsCurrent' /\ NoneOutdated'
<1> DEFINE New(v) == IF Changed(t, v) THEN [v EXCEPT !.to = Now] ELSE v
<1>1. /\ \A u \in Tables : u # t => rows'[u] = rows[u] /\ stage'[u] = stage[u]
      /\ rows'[t] = {New(v) : v \in rows[t]}
      /\ stage'[t] = "closed" /\ staged' = staged
  BY DEF CloseChanged, ScdTypeOK
<1>2. Now \in Nat /\ Now # Open /\ Now = time + 1
  BY DEF Now, Open, ScdTypeOK
<1>3. \A v \in rows[t] :
          /\ v \in Version
          /\ New(v).key = v.key /\ New(v).from = v.from
          /\ New(v).to = IF Changed(t, v) THEN Now ELSE v.to
  BY DEF ScdTypeOK, Version
<1>4. ASSUME NEW v \in rows[t], NEW w \in rows[t], v.key = w.key, New(v) # New(w)
      PROVE  Apart(New(v), New(w))
  <2>1. v # w
    BY <1>4
  <2>2. Apart(v, w)
    BY <1>4, <2>1 DEF History, OneVersionAtATime
  <2>3. CASE v.to # Open /\ v.to <= w.from
    <3>1. New(v).to = v.to /\ New(w).from = w.from
      BY <1>3, <2>3 DEF Changed
    <3> QED
      BY <2>3, <3>1 DEF Apart
  <2>4. CASE w.to # Open /\ w.to <= v.from
    <3>1. New(w).to = w.to /\ New(v).from = v.from
      BY <1>3, <2>4 DEF Changed
    <3> QED
      BY <2>4, <3>1 DEF Apart
  <2> QED
    BY <2>2, <2>3, <2>4 DEF Apart
<1>5. OneVersionAtATime'
  <2> SUFFICES ASSUME NEW u \in Tables, NEW x \in rows'[u], NEW y \in rows'[u],
                      x.key = y.key, x # y
               PROVE  Apart(x, y)
    BY DEF OneVersionAtATime, Apart
  <2>1. CASE u # t
    BY <1>1, <2>1 DEF History, OneVersionAtATime
  <2>2. CASE u = t
    <3>1. PICK v \in rows[t], w \in rows[t] : x = New(v) /\ y = New(w)
      BY <1>1, <2>2
    <3> QED
      BY <1>3, <1>4, <3>1
  <2> QED
    BY <2>1, <2>2
<1>6. NoneOutdated'
  <2>1. ASSUME NEW x \in rows'[t] PROVE ~Changed(t, x)'
    <3>1. PICK v \in rows[t] : x = New(v)
      BY <1>1
    <3>2. CASE Changed(t, v)
      BY <1>2, <1>3, <3>1, <3>2 DEF Changed
    <3>3. CASE ~Changed(t, v)
      BY <1>1, <3>1, <3>3 DEF Changed
    <3> QED
      BY <3>2, <3>3
  <2> QED
    BY <1>1, <2>1 DEF History, NoneOutdated, Changed
<1>7. LoadedIsCurrent'
  BY <1>1 DEF History, LoadedIsCurrent
<1> QED
  BY <1>5, <1>6, <1>7

\* What is inserted begins after everything of its key has ended.
LEMMA InsertedHistory ==
  ASSUME ScdTypeOK, History, NEW t \in Tables, InsertNew(t)
  PROVE  OneVersionAtATime' /\ LoadedIsCurrent' /\ NoneOutdated'
<1> DEFINE New == Fresh(t, Missing(t), Now)
<1>1. /\ \A u \in Tables : u # t => rows'[u] = rows[u] /\ stage'[u] = stage[u]
      /\ rows'[t] = rows[t] \cup New
      /\ stage[t] = "closed" /\ stage'[t] = "recording" /\ staged' = staged
  BY DEF InsertNew, ScdTypeOK
<1>2. \A v \in New : v.key \in Missing(t) /\ v.from = time + 1 /\ v.to = Open
  BY DEF Fresh, Now
<1>3. \A v, w \in New : v.key = w.key => v = w
  BY DEF Fresh
<1>4. ASSUME NEW v \in New, NEW w \in rows[t], v.key = w.key
      PROVE  w.to # Open /\ w.to <= v.from
  <2>1. w.to # Open
    BY <1>2, <1>4 DEF Missing
  <2>2. w.to \in 0..time /\ time \in Nat
    BY DEF ScdTypeOK
  <2> QED
    BY <1>2, <2>1, <2>2
<1>5. OneVersionAtATime'
  <2> SUFFICES ASSUME NEW u \in Tables, NEW x \in rows'[u], NEW y \in rows'[u],
                      x.key = y.key, x # y
               PROVE  Apart(x, y)
    BY DEF OneVersionAtATime, Apart
  <2>1. CASE u # t
    BY <1>1, <2>1 DEF History, OneVersionAtATime
  <2>2. CASE u = t /\ x \in rows[t] /\ y \in rows[t]
    BY <2>2 DEF History, OneVersionAtATime
  <2>3. CASE u = t /\ x \in New /\ y \in rows[t]
    BY <1>4, <2>3 DEF Apart
  <2>4. CASE u = t /\ x \in rows[t] /\ y \in New
    BY <1>4, <2>4 DEF Apart
  <2>5. CASE u = t /\ x \in New /\ y \in New
    BY <1>3, <2>5
  <2> QED
    BY <1>1, <2>1, <2>2, <2>3, <2>4, <2>5
<1>6. ASSUME NEW k \in DOMAIN staged[t]
      PROVE  \E v \in rows'[t] : v.key = k /\ v.to = Open /\ v.hash = staged[t][k]
  <2>1. CASE k \in Missing(t)
    <3> DEFINE v == [key |-> k, hash |-> staged[t][k], from |-> Now, to |-> Open]
    <3>1. v \in New
      BY <2>1 DEF Fresh
    <3> QED
      BY <1>1, <3>1
  <2>2. CASE k \notin Missing(t)
    <3>1. PICK v \in rows[t] : v.key = k /\ v.to = Open
      BY <2>2 DEF Missing
    <3>2. ~Changed(t, v)
      BY <1>1 DEF History, NoneOutdated
    <3> QED
      BY <1>1, <3>1, <3>2 DEF Changed
  <2> QED
    BY <2>1, <2>2
<1>7. LoadedIsCurrent'
  BY <1>1, <1>6 DEF History, LoadedIsCurrent
<1>8. NoneOutdated'
  BY <1>1 DEF History, NoneOutdated, Changed
<1> QED
  BY <1>5, <1>7, <1>8

LEMMA EndedHistory ==
  ASSUME ScdTypeOK, History, NEW t \in Tables, Record(t) \/ FailLoad(t)
  PROVE  OneVersionAtATime' /\ LoadedIsCurrent' /\ NoneOutdated'
<1>1. /\ \A u \in Tables : u # t => stage'[u] = stage[u] /\ staged'[u] = staged[u]
      /\ stage'[t] = "idle" /\ rows' = rows
  BY DEF Record, FailLoad, Ended, ScdTypeOK
<1> QED
  BY <1>1 DEF History, OneVersionAtATime, Apart, LoadedIsCurrent, NoneOutdated, Changed

LEMMA NextHistory == ScdTypeOK /\ History /\ [ScdNext]_scdVars => History'
<1> SUFFICES ASSUME ScdTypeOK, History, [ScdNext]_scdVars PROVE History'
  OBVIOUS
<1>1. Founded'
  BY FoundedHolds DEF History
<1>2. CASE UNCHANGED scdVars
  BY <1>2 DEF scdVars, History, OneVersionAtATime, Apart, LoadedIsCurrent, NoneOutdated, Changed, Founded
<1>3. CASE ScdNext
  <2>1. OneVersionAtATime' /\ LoadedIsCurrent' /\ NoneOutdated'
    BY <1>3, StagedHistory, CreatedHistory, ClosedHistory, InsertedHistory, EndedHistory
    DEF ScdNext, Statement
  <2> QED
    BY <1>1, <2>1 DEF History
<1> QED
  BY <1>2, <1>3

LEMMA InitHistory == ScdInit => History
  BY DEF ScdInit, History, OneVersionAtATime, LoadedIsCurrent, NoneOutdated, Founded

LEMMA HistoryHolds == ScdSpec => []History
<1>1. ScdSpec => []ScdTypeOK
  BY TypeCorrect
<1> QED
  BY <1>1, InitHistory, NextHistory, PTL DEF ScdSpec

\* However loads fail between their statements, no two versions of a key are
\* ever valid at once.
THEOREM HistoryIsOne == ScdSpec => []OneVersionAtATime
  BY HistoryHolds, PTL DEF History

\* A load that gets through leaves each of its rows current, whatever the loads
\* before it left behind.
THEOREM LoadsAreCurrent == ScdSpec => []LoadedIsCurrent
  BY HistoryHolds, PTL DEF History

-----------------------------------------------------------------------------
(* The loads of a Warehouse are loads of Scd2.                               *)

LEMMA LoadsDimensions == ASSUME NEW w \in Loaders PROVE w \in Threads /\ Loads[w] \in Tables
  BY WarehouseAssumption DEF Loaders

LEMMA StepIsScd2 == [Next]_vars => [ScdNext]_scdVars
<1> SUFFICES ASSUME [Next]_vars PROVE [ScdNext]_scdVars
  OBVIOUS
<1>1. ASSUME NEW w \in Threads, Engaging(w) \/ Disconnected(w) \/ Leave(w)
      PROVE  [ScdNext]_scdVars
  <2>1. CASE Engaging(w)
    BY <2>1 DEF Engaging
  <2>2. CASE Disconnected(w)
    <3>1. CASE Idle(w)
      BY <2>2, <3>1 DEF Disconnected
    <3>2. CASE ~Idle(w)
      BY <2>2, <3>2, LoadsDimensions DEF Disconnected, Idle, ScdNext
    <3> QED
      BY <3>1, <3>2
  <2>3. CASE Leave(w)
    BY <2>3 DEF Leave
  <2> QED
    BY <1>1, <2>1, <2>2, <2>3
<1>2. ASSUME NEW w \in Loaders, StartLoad(w) PROVE [ScdNext]_scdVars
  BY <1>2, LoadsDimensions DEF StartLoad, ScdNext
<1>3. ASSUME NEW w \in Loaders, Load(w) \/ LoadFails(w) PROVE [ScdNext]_scdVars
  BY <1>3, LoadsDimensions DEF Load, LoadFails, ScdNext
<1>4. CASE Shutdown
  BY <1>4 DEF Shutdown
<1>5. CASE UNCHANGED vars
  BY <1>5 DEF vars
<1> QED
  BY <1>1, <1>2, <1>3, <1>4, <1>5 DEF Next

\* Every behaviour of the loads through the cached engines is one of the loads
\* alone: evicting and closing an engine under a load can only fail it.
THEOREM ImplementsScd2 == Spec => ScdSpec
<1>1. Init => ScdInit
  BY DEF Init
<1> QED
  BY <1>1, StepIsScd2, PTL DEF Spec, ScdSpec

\* No two versions of a key are ever valid at once, whatever happens to the
\* connection of a load between its statements.
THEOREM WarehouseHistoryIsOne == Spec => []OneVersionAtATime
  BY ImplementsScd2, HistoryIsOne, PTL

\* A load that reaches its end leaves its rows current, over however many
\* connections its statements ran.
THEOREM WarehouseLoadsAreCurrent == Spec => []LoadedIsCurrent
  BY ImplementsScd2, LoadsAreCurrent, PTL

-----------------------------------------------------------------------------
(* The cache as a sequence.                                                  *)

NoRepeats(s) == \A i, j \in DOMAIN s : s[i] = s[j] => i = j

LEMMA RemoveAtProperties ==
  ASSUME NEW S, NEW s \in Seq(S), NEW p \in 1..Len(s)
  PROVE  /\ RemoveAt(s, p) \in Seq(S)
         /\ Len(RemoveAt(s, p)) = Len(s) - 1
         /\ \A i \in 1..(Len(s) - 1) : RemoveAt(s, p)[i] = IF i < p THEN s[i] ELSE s[i + 1]
<1>0. PICK n \in Nat : n = Len(s)
  OBVIOUS
<1>1. \A i \in 1..n : s[i] \in S
  BY <1>0
<1>2. /\ SubSeq(s, 1, p - 1) \in Seq(S)
      /\ Len(SubSeq(s, 1, p - 1)) = p - 1
      /\ \A i \in 1..(p - 1) : SubSeq(s, 1, p - 1)[i] = s[i]
  BY <1>0, <1>1
<1>3. /\ SubSeq(s, p + 1, n) \in Seq(S)
      /\ Len(SubSeq(s, p + 1, n)) = n - p
      /\ \A i \in 1..(n - p) : SubSeq(s, p + 1, n)[i] = s[i + p]
  <2>1. /\ p + 1 \in Int /\ n \in Int
        /\ \A i \in (p + 1)..n : s[i] \in S
    BY <1>0, <1>1
  <2>2. /\ SubSeq(s, p + 1, n) \in Seq(S)
        /\ Len(SubSeq(s, p + 1, n)) = IF p + 1 <= n THEN n - (p + 1) + 1 ELSE 0
        /\ \A i \in 1..(n - (p + 1) + 1) : SubSeq(s, p + 1, n)[i] = s[p + 1 + i - 1]
    BY <2>1, SubSeqProperties, Z3
  <2>3. (IF p + 1 <= n THEN n - (p + 1) + 1 ELSE 0) = n - p
    BY <1>0
  <2>4. ASSUME NEW i \in 1..(n - p) PROVE SubSeq(s, p + 1, n)[i] = s[i + p]
    <3>1. i \in 1..(n - (p + 1) + 1) /\ p + 1 + i - 1 = i + p
      BY <1>0
    <3> QED BY <2>2, <3>1
  <2> QED BY <2>2, <2>3, <2>4
<1> DEFINE before == SubSeq(s, 1, p - 1)
           after == SubSeq(s, p + 1, n)
<1>4. RemoveAt(s, p) = before \o after
  BY <1>0 DEF RemoveAt
<1> HIDE DEF before, after
<1>5. before \in Seq(S) /\ after \in Seq(S) /\ Len(before) = p - 1 /\ Len(after) = n - p
  BY <1>2, <1>3 DEF before, after
<1>6. /\ before \o after \in Seq(S) /\ Len(before \o after) = n - 1
      /\ \A i \in 1..(n - 1) : (before \o after)[i] =
              IF i <= p - 1 THEN before[i] ELSE after[i - (p - 1)]
  <2>1. /\ before \o after \in Seq(S) /\ Len(before \o after) = Len(before) + Len(after)
        /\ \A i \in 1..(Len(before) + Len(after)) : (before \o after)[i] =
                IF i <= Len(before) THEN before[i] ELSE after[i - Len(before)]
    BY <1>5, ConcatProperties
  <2>2. Len(before) + Len(after) = n - 1
    BY <1>0, <1>5
  <2> QED BY <1>5, <2>1, <2>2
<1>7. ASSUME NEW i \in 1..(n - 1)
      PROVE  (before \o after)[i] = IF i < p THEN s[i] ELSE s[i + 1]
  <2>1. CASE i < p
    BY <1>0, <1>2, <1>6, <2>1 DEF before
  <2>2. CASE ~(i < p)
    <3>1. (before \o after)[i] = after[i - (p - 1)] /\ i - (p - 1) \in 1..(n - p)
      BY <1>0, <1>6, <2>2
    <3>2. after[i - (p - 1)] = s[i - (p - 1) + p]
      BY <1>3, <3>1 DEF after
    <3>3. i - (p - 1) + p = i + 1
      BY <1>0
    <3> QED BY <2>2, <3>1, <3>2, <3>3
  <2> QED BY <2>1, <2>2
<1> QED BY <1>0, <1>4, <1>6, <1>7

\* Moving a tenant to the end of the cache permutes the cache.
LEMMA MovedPermutes ==
  ASSUME cache \in Seq(Tenants), NoRepeats(cache), NEW t \in ToSet(cache)
  PROVE  /\ MovedToEnd(t) \in Seq(Tenants)
         /\ Len(MovedToEnd(t)) = Len(cache)
         /\ NoRepeats(MovedToEnd(t))
         /\ ToSet(MovedToEnd(t)) = ToSet(cache)
<1> DEFINE moved == MovedToEnd(t)
<1>0. PICK n \in Nat : n = Len(cache) /\ DOMAIN cache = 1..n
  OBVIOUS
<1>1. PICK p \in 1..n : p = (CHOOSE i \in DOMAIN cache : cache[i] = t) /\ cache[p] = t /\ t \in Tenants
  BY <1>0 DEF ToSet
<1>2. moved = Append(RemoveAt(cache, p), t)
  BY <1>1 DEF MovedToEnd
<1> HIDE DEF moved
<1>3. /\ RemoveAt(cache, p) \in Seq(Tenants) /\ Len(RemoveAt(cache, p)) = n - 1
      /\ \A i \in 1..(n - 1) : RemoveAt(cache, p)[i] = IF i < p THEN cache[i] ELSE cache[i + 1]
  <2>1. p \in 1..Len(cache)
    BY <1>0
  <2> QED BY <1>0, <2>1, RemoveAtProperties
<1>4. /\ moved \in Seq(Tenants) /\ Len(moved) = n
      /\ \A i \in 1..n : moved[i] = IF i < n THEN RemoveAt(cache, p)[i] ELSE t
  <2> DEFINE kept == RemoveAt(cache, p)
  <2>1. moved = Append(kept, t) /\ kept \in Seq(Tenants) /\ Len(kept) = n - 1
    BY <1>2, <1>3
  <2> HIDE DEF kept
  <2>2. /\ Append(kept, t) \in Seq(Tenants) /\ Len(Append(kept, t)) = Len(kept) + 1
        /\ \A i \in 1..Len(kept) : Append(kept, t)[i] = kept[i]
        /\ Append(kept, t)[Len(kept) + 1] = t
    <3>1. t \in Tenants
      BY <1>1
    <3> QED BY <2>1, <3>1, AppendProperties
  <2>3. n - 1 + 1 = n
    OBVIOUS
  <2>4. /\ moved \in Seq(Tenants) /\ Len(moved) = n /\ moved[n] = t
        /\ \A i \in 1..(n - 1) : moved[i] = kept[i]
    BY <2>1, <2>2, <2>3
  <2>5. ASSUME NEW i \in 1..n PROVE moved[i] = IF i < n THEN kept[i] ELSE t
    <3>1. CASE i = n
      BY <2>4, <3>1
    <3>2. CASE i < n
      <4>1. i \in 1..(n - 1)
        BY <3>2
      <4> QED BY <2>4, <3>2, <4>1
    <3> QED BY <3>1, <3>2
  <2> QED BY <2>4, <2>5 DEF kept
<1> DEFINE from(i) == IF i < p THEN i ELSE IF i < n THEN i + 1 ELSE p
           to(i) == IF i < p THEN i ELSE IF i = p THEN n ELSE i - 1
<1>5. \A i \in 1..n : from(i) \in 1..n /\ to(i) \in 1..n /\ from(to(i)) = i /\ to(from(i)) = i
  OBVIOUS
<1>6. \A i \in 1..n : moved[i] = cache[from(i)]
  <2> SUFFICES ASSUME NEW i \in 1..n PROVE moved[i] = cache[from(i)]
    OBVIOUS
  <2>1. CASE i < n
    <3>1. i \in 1..(n - 1) /\ moved[i] = RemoveAt(cache, p)[i]
      BY <1>4, <2>1
    <3> QED BY <1>3, <2>1, <3>1
  <2>2. CASE i = n
    <3>1. moved[i] = t
      BY <1>4, <2>2
    <3>2. cache[from(i)] = cache[p]
      BY <2>2
    <3> QED BY <1>1, <3>1, <3>2
  <2> QED BY <2>1, <2>2
<1>8. DOMAIN moved = 1..n
  BY <1>4
<1> HIDE DEF from, to
<1>9. NoRepeats(moved)
  <2> SUFFICES ASSUME NEW i \in 1..n, NEW j \in 1..n, moved[i] = moved[j] PROVE i = j
    BY <1>8 DEF NoRepeats
  <2>1. from(i) = from(j)
    BY <1>0, <1>5, <1>6 DEF NoRepeats
  <2> QED BY <1>5, <2>1
<1>10. ToSet(moved) \subseteq ToSet(cache)
  BY <1>0, <1>5, <1>6, <1>8 DEF ToSet
<1>11. ToSet(cache) \subseteq ToSet(moved)
  <2> SUFFICES ASSUME NEW i \in 1..n PROVE cache[i] \in ToSet(moved)
    BY <1>0 DEF ToSet
  <2>1. moved[to(i)] = cache[i] /\ to(i) \in 1..n
    BY <1>5, <1>6
  <2> QED BY <1>8, <2>1 DEF ToSet
<1> QED BY <1>0, <1>4, <1>9, <1>10, <1>11 DEF moved

-----------------------------------------------------------------------------
(* Types and budget.                                                         *)

\* The engine of every cached tenant has been built.
Placed ==
    /\ \A t \in Tenants : engineOf[t] \in 0..built
    /\ \A t \in ToSet(cache) : engineOf[t] # NoEngine

EnginesInv == EnginesTypeOK /\ CacheWithinBudget /\ Placed

EngineStep ==
    \/ \E w \in Threads :
          Hit(w) \/ Miss(w) \/ Build(w) \/ Yield(w) \/ Insert(w) \/ Connect(w)
            \/ AttachLayers(w) \/ AttachRaises(w) \/ Release(w)
    \/ CloseAll
    \/ UNCHANGED engineVars

LEMMA StepOfEngines == [Next]_vars => EngineStep
  BY LoadsDimensions DEF vars, Next, EngineStep, Engaging, Disconnected, Leave, StartLoad, Load,
     LoadFails, Shutdown, GetEngine

LEMMA InitEngines == EnginesInit => EnginesInv
<1> SUFFICES ASSUME EnginesInit PROVE EnginesInv
  OBVIOUS
<1>1. cache = <<>> /\ cache \in Seq(Tenants) /\ Len(cache) = 0 /\ DOMAIN cache = {} /\ ToSet(cache) = {}
  BY DEF EnginesInit, ToSet
<1> QED BY <1>1, EnginesAssumption
     DEF EnginesInit, EnginesInv, EnginesTypeOK, CacheWithinBudget, Placed, NoEngine, Engine

\* Finding an engine in the cache, at once or after building one too many.
LEMMA FoundInCache ==
  ASSUME EnginesInv, NEW w \in Threads, Hit(w) \/ Yield(w)
  PROVE  EnginesInv' /\ ToSet(cache') = ToSet(cache)
<1>1. TenantOf[w] \in Tenants /\ TenantOf[w] \in ToSet(cache)
  BY EnginesAssumption DEF Hit, Yield, Another, IsCached
<1>2. cache \in Seq(Tenants) /\ NoRepeats(cache)
  BY DEF EnginesInv, EnginesTypeOK, CacheWithinBudget, NoRepeats
<1>3. /\ cache' \in Seq(Tenants) /\ Len(cache') = Len(cache) /\ NoRepeats(cache')
      /\ ToSet(cache') = ToSet(cache)
  BY <1>1, <1>2, MovedPermutes DEF Hit, Yield
<1>4. engineOf[TenantOf[w]] \in 1..built
  BY <1>1 DEF EnginesInv, EnginesTypeOK, Placed, NoEngine
<1>5. EnginesTypeOK'
  <2>1. holds' \in [Threads -> Engine \cup {NoEngine}] /\ built \in 0..MaxEngines
    BY <1>4, EnginesAssumption DEF Hit, Yield, EnginesInv, EnginesTypeOK, Engine
  <2>2. \A v \in Threads : doing'[v] \in {"built", "working"} => holds'[v] \in 1..built'
    BY <1>4 DEF Hit, Yield, EnginesInv, EnginesTypeOK
  <2> QED BY <1>3, <2>1, <2>2 DEF Hit, Yield, EnginesInv, EnginesTypeOK
<1>6. CacheWithinBudget'
  BY <1>3 DEF EnginesInv, CacheWithinBudget, NoRepeats
<1>7. Placed'
  BY <1>3 DEF Hit, Yield, EnginesInv, Placed
<1> QED BY <1>3, <1>5, <1>6, <1>7 DEF EnginesInv

\* Caching an engine, and evicting what is over the budget.
LEMMA InsertKeeps ==
  ASSUME EnginesInv, NEW w \in Threads, Insert(w)
  PROVE  /\ EnginesInv'
         /\ \A t \in ToSet(cache) : t # TenantOf[w]
         /\ \A t \in ToSet(cache) \ ToSet(cache') : connection'[engineOf[t]] = "closed"
<1> DEFINE t == TenantOf[w]
           keys == Append(cache, t)
           n == Len(keys)
           k == Surplus(keys)
<1>1. t \in Tenants /\ t \notin ToSet(cache)
  BY EnginesAssumption DEF Insert, Another, IsCached
<1>2. cache \in Seq(Tenants) /\ DOMAIN cache = 1..Len(cache) /\ Len(cache) \in Nat
  BY DEF EnginesInv, EnginesTypeOK
<1>3. /\ cache' = SubSeq(keys, k + 1, n)
      /\ connection' = Closing(ToSet(SubSeq(keys, 1, k)))
  BY <1>1 DEF Insert, Another
<1>4. /\ keys \in Seq(Tenants) /\ n = Len(cache) + 1
      /\ \A i \in 1..n : keys[i] = IF i = n THEN t ELSE cache[i]
  BY <1>1, <1>2
<1>5. /\ k \in 0..(n - 1) /\ n - k <= MaxCachedEngines
  BY <1>2, <1>4, EnginesAssumption DEF Surplus
<1>6. NoRepeats(keys)
  BY <1>1, <1>2, <1>4 DEF NoRepeats, ToSet, EnginesInv, CacheWithinBudget
<1> HIDE DEF keys, k
<1>7. /\ cache' \in Seq(Tenants) /\ Len(cache') = n - k /\ DOMAIN cache' = 1..(n - k)
      /\ \A i \in 1..(n - k) : cache'[i] = keys[i + k]
  BY <1>2, <1>3, <1>4, <1>5
<1>8. /\ DOMAIN SubSeq(keys, 1, k) = 1..k
      /\ \A i \in 1..k : SubSeq(keys, 1, k)[i] = keys[i]
  BY <1>2, <1>4, <1>5
<1>9. CacheWithinBudget'
  <2> SUFFICES ASSUME NEW i \in 1..(n - k), NEW j \in 1..(n - k), cache'[i] = cache'[j]
               PROVE  i = j
    BY <1>5, <1>7 DEF CacheWithinBudget
  <2>1. /\ i + k \in 1..n /\ j + k \in 1..n /\ DOMAIN keys = 1..n
        /\ keys[i + k] = keys[j + k]
    BY <1>2, <1>4, <1>5, <1>7
  <2>2. i + k = j + k
    BY <1>6, <2>1 DEF NoRepeats
  <2> QED BY <1>2, <1>4, <1>5, <2>2
<1>10. holds[w] \in 1..built
  BY DEF Insert, EnginesInv, EnginesTypeOK
<1>11. ToSet(cache') \subseteq ToSet(cache) \cup {t}
  <2> SUFFICES ASSUME NEW i \in 1..(n - k) PROVE cache'[i] \in ToSet(cache) \cup {t}
    BY <1>7 DEF ToSet
  <2>1. i + k \in 1..n
    BY <1>4, <1>5, <1>2
  <2> QED BY <1>2, <1>4, <1>7, <2>1 DEF ToSet
<1>12. Placed'
  <2>1. /\ built' = built /\ built \in Nat /\ engineOf' = [engineOf EXCEPT ![t] = holds[w]]
        /\ engineOf \in [Tenants -> Engine \cup {NoEngine}]
    BY <1>1, EnginesAssumption DEF Insert, EnginesInv, EnginesTypeOK
  <2>2. \A u \in Tenants : engineOf'[u] = IF u = t THEN holds[w] ELSE engineOf[u]
    BY <2>1
  <2>3. \A u \in Tenants : engineOf'[u] \in 0..built
    BY <1>10, <2>1, <2>2 DEF EnginesInv, Placed
  <2>4. \A u \in ToSet(cache') : engineOf'[u] # NoEngine
    <3> SUFFICES ASSUME NEW u \in ToSet(cache') PROVE engineOf'[u] # NoEngine
      OBVIOUS
    <3>1. u \in Tenants
      BY <1>7 DEF ToSet
    <3>2. u = t \/ u \in ToSet(cache)
      BY <1>11
    <3> QED BY <1>10, <2>1, <2>2, <3>1, <3>2 DEF EnginesInv, Placed, NoEngine
  <2> QED BY <2>1, <2>3, <2>4 DEF Placed
<1>13. EnginesTypeOK'
  <2>1. connection' \in [Engine -> {"closed", "bare", "attached"}]
    BY <1>3 DEF Closing, EnginesInv, EnginesTypeOK
  <2>2. \A e \in Engine : e > built' => connection'[e] = "closed"
    BY <1>3 DEF Closing, Insert, EnginesInv, EnginesTypeOK
  <2>3. engineOf' \in [Tenants -> Engine \cup {NoEngine}]
    BY <1>10 DEF Insert, EnginesInv, EnginesTypeOK, Engine
  <2>4. \A v \in Threads : doing'[v] \in {"built", "working"} => holds'[v] \in 1..built'
    BY <1>10 DEF Insert, EnginesInv, EnginesTypeOK
  <2> QED BY <1>7, <2>1, <2>2, <2>3, <2>4 DEF Insert, EnginesInv, EnginesTypeOK
<1>14. ASSUME NEW u \in ToSet(cache) \ ToSet(cache')
       PROVE  connection'[engineOf[u]] = "closed"
  <2>1. PICK i \in 1..Len(cache) : u = cache[i]
    BY <1>2 DEF ToSet
  <2>2. i \in 1..n /\ keys[i] = u
    BY <1>2, <1>4, <2>1
  <2>3. ~(i > k)
    <3> SUFFICES ASSUME i > k PROVE FALSE
      OBVIOUS
    <3>1. i - k \in 1..(n - k) /\ cache'[i - k] = u
      BY <1>2, <1>4, <1>5, <1>7, <2>2
    <3> QED BY <1>7, <3>1 DEF ToSet
  <2>4. u \in ToSet(SubSeq(keys, 1, k))
    <3>1. i \in 1..k
      BY <1>2, <1>4, <1>5, <2>2, <2>3
    <3> QED BY <1>8, <2>2, <3>1 DEF ToSet
  <2>5. engineOf[u] \in Engine
    <3>1. u \in Tenants
      BY <1>2, <2>1
    <3> QED BY <3>1 DEF EnginesInv, EnginesTypeOK, Placed
  <2> QED BY <1>3, <2>4, <2>5 DEF Closing
<1> QED BY <1>1, <1>9, <1>12, <1>13, <1>14 DEF EnginesInv

LEMMA CloseAllKeeps ==
  ASSUME EnginesInv, CloseAll
  PROVE  EnginesInv' /\ \A t \in ToSet(cache) : connection'[engineOf[t]] = "closed"
<1>1. cache' = <<>> /\ cache' \in Seq(Tenants) /\ Len(cache') = 0 /\ DOMAIN cache' = {} /\ ToSet(cache') = {}
  BY DEF CloseAll, ToSet
<1>2. \A t \in ToSet(cache) : engineOf[t] \in Engine
  <2>1. ToSet(cache) \subseteq Tenants
    BY DEF ToSet, EnginesInv, EnginesTypeOK
  <2> QED BY <2>1 DEF EnginesInv, EnginesTypeOK, Placed
<1>3. \A t \in ToSet(cache) : connection'[engineOf[t]] = "closed"
  BY <1>2 DEF CloseAll, Closing
<1>4. EnginesTypeOK'
  BY <1>1 DEF CloseAll, Closing, EnginesInv, EnginesTypeOK
<1>5. CacheWithinBudget' /\ Placed'
  BY <1>1, EnginesAssumption DEF CloseAll, EnginesInv, CacheWithinBudget, Placed
<1> QED BY <1>3, <1>4, <1>5 DEF EnginesInv

\* The steps that leave the map as it is.
LEMMA OtherSteps ==
  ASSUME EnginesInv, NEW w \in Threads,
         Miss(w) \/ Build(w) \/ Connect(w) \/ AttachLayers(w) \/ AttachRaises(w) \/ Release(w)
  PROVE  EnginesInv' /\ cache' = cache /\ engineOf' = engineOf
<1>1. cache' = cache /\ engineOf' = engineOf
  BY DEF Miss, Build, Connect, AttachLayers, AttachRaises, Release
<1>2. CacheWithinBudget'
  BY <1>1 DEF EnginesInv, CacheWithinBudget
<1>3. Placed'
  BY <1>1, EnginesAssumption DEF EnginesInv, EnginesTypeOK, Placed, Miss, Build, Connect, AttachLayers,
     AttachRaises, Release
<1>4. EnginesTypeOK'
  <2>1. CASE Miss(w)
    BY <2>1 DEF Miss, EnginesInv, EnginesTypeOK
  <2>2. CASE Build(w)
    BY <2>2, EnginesAssumption DEF Build, EnginesInv, EnginesTypeOK, Engine
  <2>3. CASE Connect(w)
    <3>1. holds[w] \in 1..built /\ built \in 0..MaxEngines /\ MaxEngines \in Nat
      BY <2>3, EnginesAssumption DEF Connect, EnginesInv, EnginesTypeOK
    <3>2. /\ connection' \in [Engine -> {"closed", "bare", "attached"}]
          /\ connecting' \in [Engine -> Threads \cup {NoThread}]
      BY <2>3 DEF Connect, EnginesInv, EnginesTypeOK
    <3>3. \A e \in Engine : e > built' => connection'[e] = "closed"
      BY <2>3, <3>1 DEF Connect, EnginesInv, EnginesTypeOK, Engine
    <3> QED BY <2>3, <3>2, <3>3 DEF Connect, EnginesInv, EnginesTypeOK
  <2>4. CASE AttachLayers(w)
    BY <2>4 DEF AttachLayers, LockFreed, EnginesInv, EnginesTypeOK, Engine
  <2>5. CASE AttachRaises(w)
    BY <2>5 DEF AttachRaises, LockFreed, EnginesInv, EnginesTypeOK
  <2>6. CASE Release(w)
    BY <2>6 DEF Release, EnginesInv, EnginesTypeOK
  <2> QED BY <2>1, <2>2, <2>3, <2>4, <2>5, <2>6
<1> QED BY <1>1, <1>2, <1>3, <1>4 DEF EnginesInv

LEMMA NextEngines == EnginesInv /\ [Next]_vars => EnginesInv'
<1> SUFFICES ASSUME EnginesInv, EngineStep PROVE EnginesInv'
  BY StepOfEngines
<1>1. CASE UNCHANGED engineVars
  BY <1>1 DEF engineVars, EnginesInv, EnginesTypeOK, CacheWithinBudget, Placed
<1> QED BY <1>1, FoundInCache, InsertKeeps, CloseAllKeeps, OtherSteps DEF EngineStep

LEMMA EnginesInvHolds == Spec => []EnginesInv
<1>1. Init => EnginesInv
  BY InitEngines DEF Init
<1> QED BY <1>1, NextEngines, PTL DEF Spec

\* Every reachable state of the warehouse is well typed; a thread that works
\* works on an engine that was built.
THEOREM WarehouseTypes == Spec => []TypeOK
<1>1. EnginesInv => EnginesTypeOK
  BY DEF EnginesInv
<1> QED BY <1>1, EnginesInvHolds, ImplementsScd2, TypeCorrect, PTL DEF TypeOK

\* The map has at most MaxCachedEngines engines, one per tenant, however many
\* threads miss it and build at the same time.
THEOREM BudgetHolds == Spec => []CacheWithinBudget
<1>1. EnginesInv => CacheWithinBudget
  BY DEF EnginesInv
<1> QED BY <1>1, EnginesInvHolds, PTL

LEMMA StepCloses ==
  ASSUME EnginesInv, EngineStep, NEW e \in Cached, e \notin Cached'
  PROVE  connection'[e] = "closed"
<1>1. PICK t \in ToSet(cache) : e = engineOf[t]
  BY DEF Cached
<1>2. CASE \E w \in Threads : Hit(w) \/ Yield(w)
  BY <1>1, <1>2, FoundInCache DEF Cached, Hit, Yield
<1>3. ASSUME NEW w \in Threads, Insert(w) PROVE connection'[e] = "closed"
  <2>1. CASE t \in ToSet(cache')
    <3>1. t \in Tenants
      BY DEF ToSet, EnginesInv, EnginesTypeOK
    <3>2. t # TenantOf[w]
      BY <1>3, InsertKeeps
    <3>3. engineOf'[t] = e
      BY <1>1, <1>3, <3>1, <3>2 DEF Insert, EnginesInv, EnginesTypeOK
    <3> QED BY <2>1, <3>3 DEF Cached
  <2>2. CASE t \notin ToSet(cache')
    BY <1>1, <1>3, <2>2, InsertKeeps
  <2> QED BY <2>1, <2>2
<1>4. CASE CloseAll
  BY <1>1, <1>4, CloseAllKeeps
<1>5. CASE \E w \in Threads : \/ Miss(w) \/ Build(w) \/ Connect(w) \/ AttachLayers(w)
                             \/ AttachRaises(w) \/ Release(w)
  BY <1>1, <1>5, OtherSteps DEF Cached
<1>6. CASE UNCHANGED engineVars
  BY <1>1, <1>6 DEF engineVars, Cached
<1> QED BY <1>2, <1>3, <1>4, <1>5, <1>6 DEF EngineStep

\* Whatever engine leaves the map, evicted by another tenant or at shutdown,
\* has been closed when it is gone.
THEOREM NoneLeftOpen == Spec => LeavesClosed
<1>1. EnginesInv /\ [Next]_vars =>
          [\A e \in Cached : e \notin Cached' => connection'[e] = "closed"]_engineVars
  BY StepOfEngines, StepCloses
<1> QED BY <1>1, EnginesInvHolds, PTL DEF Spec, LeavesClosed
=============================================================================

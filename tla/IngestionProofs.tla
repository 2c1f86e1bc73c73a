-------------------------- MODULE IngestionProofs --------------------------
(***************************************************************************)
(* Theorems about Ingestion, for any table, any source history and any     *)
(* number of failed runs: type correctness, and, for a table that has a    *)
(* key and a watermark column of distinct stamps and is loaded by one run  *)
(* at a time, that the watermark never runs ahead of bronze.               *)
(***************************************************************************)
EXTENDS Ingestion, TLAPS

\* The tables incremental loading is meant for.
Incremental == Keyed /\ Watermarked /\ ~Ties /\ \A p, q \in Runs : p = q

\* What a run holds at each of its steps.
StepOK ==
    \A p \in Runs :
        /\ pc[p] # "idle" => since[p] = value
        /\ pc[p] \in {"opened", "reading", "written"} => exists
        /\ pc[p] \in {"opened", "reading"} /\ mode[p] = "replace" => value = Null
        /\ pc[p] = "opened" /\ mode[p] = "replace" => bronze = {}
        /\ pc[p] # "reading" => batch[p] = {}

\* A row of the window is in bronze or on its way there.
WindowOK ==
    \A p \in Runs : pc[p] \in {"reading", "written"} =>
        \A k \in Present :
            source[k].stamp # Null /\ source[k].stamp <= ceiling[p]
                => InBronze(k) \/ \E s \in batch[p] : s.key = k /\ s.ver = source[k].ver

\* A row on its way is the only one of its key, and is still current or was
\* superseded by a write that no watermark has reached yet.
BatchOK ==
    \A p \in Runs : \A s \in batch[p] :
        /\ \A t \in batch[p] : s.key = t.key => s = t
        /\ \/ s.ver = source[s.key].ver
           \/ source[s.key].stamp = Null
           \/ source[s.key].stamp > ceiling[p] /\ source[s.key].stamp > value
        /\ pc[p] = "reading" /\ mode[p] = "replace" => \A b \in bronze : b.key # s.key
        /\ s.ver <= source[s.key].ver
        /\ \A b \in bronze : b.key = s.key => b.ver <= s.ver

\* There is a table once there is a row in it or a watermark for it.
TableOK == (value # Null => exists) /\ (bronze # {} => exists)

\* Bronze holds versions the source has had.
BronzeOK == \A b \in bronze : b.ver <= source[b.key].ver

IInv ==
    /\ TypeOK
    /\ StepOK
    /\ TableOK
    /\ Covered
    /\ WindowOK
    /\ BatchOK
    /\ BronzeOK
    /\ OneRowPerKey

-----------------------------------------------------------------------------
(* The types of the operators.                                               *)

LEMMA RowsForType ==
    ASSUME TypeOK, NEW p \in Runs
    PROVE  RowsFor(p) \subseteq BronzeRow
BY DEF RowsFor, BronzeRow, Present, TypeOK

LEMMA UpsertedType ==
    ASSUME NEW b \in BronzeRow, NEW rows \in SUBSET BronzeRow
    PROVE  /\ Upserted(b, rows) \in BronzeRow
           /\ Upserted(b, rows).key = b.key
<1>1. CASE Matches(b, rows) = {}
    BY <1>1 DEF Upserted
<1>2. CASE Matches(b, rows) # {}
    <2>1. (CHOOSE s \in Matches(b, rows) : TRUE) \in BronzeRow
        BY <1>2 DEF Matches
    <2> QED
        BY <1>2, <2>1 DEF Upserted, BronzeRow
<1> QED
    BY <1>1, <1>2

LEMMA MergeIntoType ==
    ASSUME NEW table \in SUBSET BronzeRow, NEW rows \in SUBSET BronzeRow
    PROVE  MergeInto(table, rows) \in SUBSET BronzeRow
BY UpsertedType DEF MergeInto

\* What a merge does to a table when the staged rows have distinct keys: a row
\* of the table keeps its place and takes the staged version if there is one.
LEMMA UpsertedRow ==
    ASSUME NEW b \in BronzeRow, NEW rows \in SUBSET BronzeRow,
           \A s, t \in rows : s.key = t.key => s = t
    PROVE  /\ \A s \in rows : s.key = b.key => Upserted(b, rows).ver = s.ver
           /\ (\A s \in rows : s.key # b.key) => Upserted(b, rows) = b
<1>1. ASSUME NEW s \in rows, s.key = b.key
      PROVE  Upserted(b, rows).ver = s.ver
    <2>1. s \in Matches(b, rows) /\ \A t \in Matches(b, rows) : t = s
        BY <1>1 DEF Matches
    <2>2. (CHOOSE t \in Matches(b, rows) : TRUE) = s
        BY <2>1
    <2> QED
        BY <2>1, <2>2 DEF Upserted, BronzeRow
<1>2. ASSUME \A s \in rows : s.key # b.key
      PROVE  Upserted(b, rows) = b
    BY <1>2 DEF Upserted, Matches
<1> QED
    BY <1>1, <1>2

-----------------------------------------------------------------------------
(* Type correctness.                                                         *)

LEMMA FinishedType ==
    ASSUME TypeOK, NEW p \in Runs, Finished(p), UNCHANGED now
    PROVE  /\ pc' \in [Runs -> Steps]
           /\ since' \in [Runs -> 0..now'] /\ ceiling' \in [Runs -> 0..now']
           /\ mode' \in [Runs -> {"replace", "merge"}]
           /\ batch' \in [Runs -> SUBSET BronzeRow]
<1>1. Null \in 0..now
    BY DEF TypeOK, Null
<1> QED
    BY <1>1 DEF TypeOK, Finished, Steps

LEMMA CeilingsType ==
    ASSUME TypeOK
    PROVE  Ceilings \subseteq 0..now
BY DEF TypeOK, Ceilings, Stamps, Present, Null

LEMMA TypeStep ==
    ASSUME TypeOK, [Next]_vars
    PROVE  TypeOK'
<1> USE IngestionAssumption DEF Null
<1>1. ASSUME NEW k \in Keys, NEW s \in 1..MaxStamp, SourceWrite(k, s)
      PROVE  TypeOK'
    <2>1. now \in Nat /\ s \in Nat /\ now <= s /\ now' = s
        BY <1>1 DEF SourceWrite, TypeOK
    <2>2. source' \in [Keys -> [ver: Nat, stamp: 0..now']]
        <3>1. source \in [Keys -> [ver: Nat, stamp: 0..now']]
            BY <2>1 DEF TypeOK
        <3> QED
            BY <1>1, <2>1, <3>1 DEF SourceWrite
    <2>3. value' \in 0..now' /\ since' \in [Runs -> 0..now'] /\ ceiling' \in [Runs -> 0..now']
        BY <1>1, <2>1 DEF SourceWrite, TypeOK
    <2> QED
        BY <1>1, <2>1, <2>2, <2>3 DEF SourceWrite, TypeOK
<1>2. ASSUME NEW p \in Runs, Load(p)
      PROVE  TypeOK'
    BY <1>2 DEF Load, TypeOK, Steps
<1>3. ASSUME NEW p \in Runs, NEW hi \in Ceilings, Plan(p, hi)
      PROVE  TypeOK'
    BY <1>3, CeilingsType DEF Plan, TypeOK, Steps
<1>4. ASSUME NEW p \in Runs, Open(p)
      PROVE  TypeOK'
    BY <1>4 DEF Open, Opened, TypeOK, Steps
<1>5. ASSUME NEW p \in Runs, Read(p)
      PROVE  TypeOK'
    BY <1>5, RowsForType DEF Read, TypeOK, Steps
<1>6. ASSUME NEW p \in Runs, NEW row \in batch[p], InsertBatch(p, row)
      PROVE  TypeOK'
    BY <1>6 DEF InsertBatch, TypeOK, Steps
<1>7. ASSUME NEW p \in Runs, Merge(p)
      PROVE  TypeOK'
    <2>1. bronze' \in SUBSET BronzeRow
        BY <1>7, MergeIntoType DEF Merge, TypeOK
    <2> QED
        BY <1>7, <2>1 DEF Merge, TypeOK, Steps
<1>8. ASSUME NEW p \in Runs, Commit(p)
      PROVE  TypeOK'
    <2>1. value' \in 0..now'
        BY <1>8 DEF Commit, NextValue, TypeOK
    <2> QED
        BY <1>8, <2>1, FinishedType DEF Commit, TypeOK
<1>9. ASSUME NEW p \in Runs, Fail(p)
      PROVE  TypeOK'
    BY <1>9, FinishedType DEF Fail, TypeOK
<1>10. CASE UNCHANGED vars
    BY <1>10 DEF vars, TypeOK
<1> QED
    BY <1>1, <1>2, <1>3, <1>4, <1>5, <1>6, <1>7, <1>8, <1>9, <1>10 DEF Next, RunStep

LEMMA TypeInit ==
    ASSUME Init
    PROVE  TypeOK
<1>1. now = 0 /\ \A k \in Keys : source[k] \in [ver: Nat, stamp: 0..now]
    BY DEF Init, Null
<1>2. source \in [Keys -> [ver: Nat, stamp: 0..now]]
    BY <1>1 DEF Init
<1>3. /\ value \in 0..now /\ failures \in 0..MaxFailures
      /\ since \in [Runs -> 0..now] /\ ceiling \in [Runs -> 0..now]
    BY <1>1, IngestionAssumption DEF Init, Null
<1>4. /\ bronze \subseteq BronzeRow /\ exists \in BOOLEAN
      /\ pc \in [Runs -> Steps] /\ mode \in [Runs -> {"replace", "merge"}]
      /\ batch \in [Runs -> SUBSET BronzeRow]
    BY DEF Init, Steps
<1> QED
    BY <1>1, <1>2, <1>3, <1>4 DEF TypeOK

\* Every state of the ingestion is well typed; in particular no watermark and
\* no bound of a plan is ever ahead of the source's clock.
THEOREM TypeCorrect == Spec => []TypeOK
<1>1. Init => TypeOK
    BY TypeInit
<1>2. TypeOK /\ [Next]_vars => TypeOK'
    BY TypeStep
<1> QED
    BY <1>1, <1>2, PTL DEF Spec

-----------------------------------------------------------------------------
(* The watermark never runs ahead of bronze.                                 *)

LEMMA InvInit ==
    ASSUME Init
    PROVE  IInv
<1>1. TypeOK
    BY TypeInit
<1>2. Present = {}
    BY DEF Init, Present
<1> QED
    BY <1>1, <1>2 DEF Init, IInv, TableOK, Null, StepOK, Covered, WindowOK, BatchOK, BronzeOK, OneRowPerKey

\* A write to the source gets a stamp no watermark and no ceiling has reached.
LEMMA InvSourceWrite ==
    ASSUME Incremental, IInv, TypeOK', NEW k \in Keys, NEW s \in 1..MaxStamp, SourceWrite(k, s)
    PROVE  IInv'
<1>1. TypeOK /\ now \in Nat /\ s = now + 1
    BY DEF IInv, Incremental, TypeOK, SourceWrite
<1>2. /\ source[k].ver \in Nat /\ source'[k].ver = source[k].ver + 1
      /\ source'[k].stamp = Null \/ source'[k].stamp = now + 1
      /\ \A j \in Keys : j # k => source'[j] = source[j]
      /\ UNCHANGED <<bronze, exists, value, pc, since, ceiling, mode, batch, failures>>
    BY <1>1 DEF TypeOK, SourceWrite
<1>3. /\ source'[k].stamp # Null => source'[k].stamp > value
      /\ \A p \in Runs : source'[k].stamp # Null => source'[k].stamp > ceiling[p]
    <2>1. value \in 0..now /\ \A p \in Runs : ceiling[p] \in 0..now
        BY <1>1 DEF TypeOK
    <2>2. \A n \in 0..now : now + 1 > n /\ ~(now + 1 <= n)
        BY <1>1
    <2> QED
        BY <1>2, <2>1, <2>2
<1>4. \A j \in Keys : j # k => (j \in Present' <=> j \in Present) /\ (InBronze(j)' <=> InBronze(j))
    BY <1>2 DEF Present, InBronze
<1>5. StepOK' /\ TableOK' /\ OneRowPerKey'
    BY <1>2 DEF IInv, StepOK, OneRowPerKey, TableOK
<1>6. Covered'
    <2> SUFFICES ASSUME NEW j \in Present', source'[j].stamp # Null, source'[j].stamp <= value
                 PROVE  InBronze(j)'
        BY <1>2 DEF Covered
    <2>1. source'[j].stamp \in Nat /\ value \in Nat /\ j \in Keys
        BY <1>2 DEF TypeOK, Present
    <2>2. j # k
        BY <1>3, <2>1
    <2> QED
        BY <1>2, <1>4, <2>1, <2>2 DEF Covered, IInv
<1>7. WindowOK'
    <2> SUFFICES ASSUME NEW p \in Runs, pc[p] \in {"reading", "written"}, NEW j \in Present',
                        source'[j].stamp # Null, source'[j].stamp <= ceiling[p]
                 PROVE  InBronze(j)' \/ \E t \in batch[p] : t.key = j /\ t.ver = source'[j].ver
        BY <1>2 DEF WindowOK
    <2>1. source'[j].stamp \in Nat /\ ceiling[p] \in Nat /\ j \in Keys
        BY <1>2 DEF TypeOK, Present
    <2>2. j # k
        BY <1>3, <2>1
    <2> QED
        BY <1>2, <1>4, <2>1, <2>2 DEF WindowOK, IInv
<1>8. \A p \in Runs : \A t \in batch[p] : t.key \in Keys /\ t.ver \in Nat
    BY <1>1 DEF TypeOK, BronzeRow
<1>9. BatchOK'
    <2> SUFFICES ASSUME NEW p \in Runs, NEW t \in batch[p]
                 PROVE  /\ \/ t.ver = source'[t.key].ver
                           \/ source'[t.key].stamp = Null
                           \/ source'[t.key].stamp > ceiling[p] /\ source'[t.key].stamp > value
                        /\ t.ver <= source'[t.key].ver
        BY <1>2 DEF BatchOK, IInv
    <2>1. CASE t.key = k
        <3>1. t.ver \in Nat /\ t.ver <= source[k].ver
            BY <1>8, <2>1 DEF BatchOK, IInv
        <3>2. t.ver <= source'[k].ver
            BY <1>2, <3>1
        <3> QED
            BY <1>3, <2>1, <3>2
    <2>2. CASE t.key # k
        BY <1>2, <1>8, <2>2 DEF BatchOK, IInv
    <2> QED
        BY <2>1, <2>2
<1>10. BronzeOK'
    <2>1. \A b \in bronze : b.key \in Keys /\ b.ver \in Nat
        BY <1>1 DEF TypeOK, BronzeRow
    <2> QED
        BY <1>2, <2>1 DEF BronzeOK, IInv
<1> QED
    BY <1>5, <1>6, <1>7, <1>9, <1>10 DEF IInv

LEMMA InvLoad ==
    ASSUME Incremental, IInv, TypeOK', NEW p \in Runs, Load(p)
    PROVE  IInv'
<1> USE DEF Load
<1>1. pc[p] = "idle" /\ batch[p] = {} /\ pc'[p] = "loaded" /\ since'[p] = value
    BY DEF IInv, TypeOK, StepOK
<1>2. \A q \in Runs : q = p
    BY DEF Incremental
<1>3. StepOK'
    BY <1>1, <1>2 DEF StepOK
<1>4. WindowOK' /\ BatchOK'
    BY <1>1, <1>2 DEF WindowOK, BatchOK
<1>5. Covered' /\ BronzeOK' /\ OneRowPerKey' /\ TableOK'
    BY DEF IInv, Covered, BronzeOK, OneRowPerKey, Present, InBronze, TableOK
<1> QED
    BY <1>3, <1>4, <1>5 DEF IInv

LEMMA InvPlan ==
    ASSUME Incremental, IInv, TypeOK', NEW p \in Runs, NEW hi \in Ceilings, Plan(p, hi)
    PROVE  IInv'
<1> USE DEF Plan
<1>1. pc[p] = "loaded" /\ batch[p] = {} /\ pc'[p] = "planned" /\ since' = since
    BY DEF IInv, TypeOK, StepOK, Incremental
<1>2. \A q \in Runs : q = p
    BY DEF Incremental
<1>3. StepOK'
    BY <1>1, <1>2 DEF StepOK, IInv
<1>4. WindowOK' /\ BatchOK'
    BY <1>1, <1>2 DEF WindowOK, BatchOK
<1>5. Covered' /\ BronzeOK' /\ OneRowPerKey' /\ TableOK'
    BY DEF IInv, Covered, BronzeOK, OneRowPerKey, Present, InBronze, TableOK
<1> QED
    BY <1>3, <1>4, <1>5 DEF IInv

\* With nothing behind the watermark yet, nothing is lost by emptying the table.
LEMMA NoWatermark ==
    ASSUME TypeOK, value = Null
    PROVE  Covered
BY DEF TypeOK, Covered, Present, Null

LEMMA InvOpen ==
    ASSUME Incremental, IInv, TypeOK', NEW p \in Runs, Open(p)
    PROVE  IInv'
<1> USE DEF Open
<1>1. pc[p] = "planned" /\ batch[p] = {} /\ pc'[p] = "opened" /\ exists'
    BY DEF IInv, TypeOK, StepOK
<1>2. \A q \in Runs : q = p
    BY DEF Incremental
<1>3. WindowOK' /\ BatchOK'
    BY <1>1, <1>2 DEF WindowOK, BatchOK
<1>4. CASE exists
    <2>1. bronze' = bronze /\ mode'[p] = "merge"
        BY <1>4 DEF Opened, Merges, Incremental, IInv, TypeOK
    <2>2. StepOK'
        BY <1>1, <1>2, <2>1 DEF StepOK, IInv
    <2>3. Covered' /\ BronzeOK' /\ OneRowPerKey' /\ TableOK'
        BY <1>1, <2>1 DEF IInv, Covered, BronzeOK, OneRowPerKey, Present, InBronze, TableOK
    <2> QED
        BY <1>3, <2>2, <2>3 DEF IInv
<1>5. CASE ~exists
    <2>1. bronze' = {} /\ mode'[p] = "replace" /\ value = Null
        BY <1>5 DEF Opened, Merges, IInv, TypeOK, TableOK
    <2>2. StepOK'
        BY <1>1, <1>2, <2>1 DEF StepOK, IInv
    <2>3. Covered'
        BY <2>1, NoWatermark DEF IInv, TypeOK, Covered, Present, InBronze, Null
    <2>4. BronzeOK' /\ OneRowPerKey' /\ TableOK'
        BY <1>1, <2>1 DEF BronzeOK, OneRowPerKey, TableOK
    <2> QED
        BY <1>3, <2>2, <2>3, <2>4 DEF IInv
<1> QED
    BY <1>4, <1>5

\* The batch holds every row of the window, at its present version.
LEMMA InvRead ==
    ASSUME Incremental, IInv, TypeOK', NEW p \in Runs, Read(p)
    PROVE  IInv'
<1> USE DEF Read
<1>1. /\ pc[p] = "opened" /\ batch[p] = {} /\ batch'[p] = RowsFor(p)
      /\ pc'[p] = IF RowsFor(p) = {} THEN "written" ELSE "reading"
      /\ since[p] = value /\ exists
    BY DEF IInv, TypeOK, StepOK
<1>2. \A q \in Runs : q = p
    BY DEF Incremental
<1>3. StepOK'
    BY <1>1, <1>2 DEF StepOK, IInv
<1>4. Covered' /\ BronzeOK' /\ OneRowPerKey' /\ TableOK'
    BY DEF IInv, Covered, BronzeOK, OneRowPerKey, Present, InBronze, TableOK
<1>5. WindowOK'
    <2> SUFFICES ASSUME NEW k \in Present, source[k].stamp # Null,
                        source[k].stamp <= ceiling[p]
                 PROVE  InBronze(k) \/ \E s \in RowsFor(p) : s.key = k /\ s.ver = source[k].ver
        BY <1>1, <1>2 DEF WindowOK, Present, InBronze
    <2>1. source[k].stamp \in Nat /\ ceiling[p] \in Nat /\ value \in Nat
        BY DEF IInv, TypeOK, Present
    <2>2. CASE source[k].stamp <= value
        BY <2>2 DEF IInv, Covered
    <2>3. CASE source[k].stamp > value
        <3>1. Selected(k, since[p], ceiling[p])
            BY <1>1, <2>3 DEF Selected
        <3> DEFINE row == [key |-> k, ver |-> source[k].ver, by |-> p]
        <3>2. row \in RowsFor(p)
            BY <3>1 DEF RowsFor
        <3>3. row.key = k /\ row.ver = source[k].ver
            OBVIOUS
        <3> QED
            BY <3>2, <3>3
    <2> QED
        BY <2>1, <2>2, <2>3
<1>6. BatchOK'
    <2>1. \A s \in RowsFor(p) : s.key \in Present /\ s.ver = source[s.key].ver /\ s.by = p
        BY DEF RowsFor
    <2>2. \A s, t \in RowsFor(p) : s.key = t.key => s = t
        BY DEF RowsFor
    <2>3. \A k \in Present : source[k].ver \in Nat
        BY DEF IInv, TypeOK, Present
    <2>4. mode[p] = "replace" => bronze = {}
        BY <1>1 DEF IInv, StepOK
    <2> QED
        BY <1>1, <1>2, <2>1, <2>2, <2>3, <2>4 DEF BatchOK, IInv, BronzeOK
<1> QED
    BY <1>3, <1>4, <1>5, <1>6 DEF IInv

LEMMA InvInsertBatch ==
    ASSUME Incremental, IInv, TypeOK', NEW p \in Runs, NEW row \in batch[p], InsertBatch(p, row)
    PROVE  IInv'
<1> USE DEF InsertBatch
<1>1. /\ pc[p] = "reading" /\ mode[p] = "replace" /\ batch'[p] = batch[p] \ {row}
      /\ pc'[p] = (IF batch[p] = {row} THEN "written" ELSE "reading")
      /\ bronze' = bronze \cup {row}
    BY DEF IInv, TypeOK
<1>2. \A q \in Runs : q = p
    BY DEF Incremental
<1>3. \A b \in bronze : b.key # row.key
    BY <1>1 DEF IInv, BatchOK
<1>4. \A t \in batch[p] : t.key = row.key => t = row
    BY DEF IInv, BatchOK
<1>5. row.ver <= source[row.key].ver
    BY DEF IInv, BatchOK
<1>6. StepOK'
    BY <1>1, <1>2 DEF StepOK, IInv
<1>7. Covered' /\ TableOK'
    <2>1. exists
        BY <1>1 DEF IInv, StepOK
    <2> QED
        BY <1>1, <2>1 DEF IInv, Covered, Present, InBronze, TableOK
<1>8. BronzeOK' /\ OneRowPerKey'
    BY <1>1, <1>3, <1>5 DEF IInv, BronzeOK, OneRowPerKey
<1>9. WindowOK'
    <2> SUFFICES ASSUME NEW k \in Present, source[k].stamp # Null, source[k].stamp <= ceiling[p]
                 PROVE  InBronze(k)' \/ \E s \in batch'[p] : s.key = k /\ s.ver = source[k].ver
        BY <1>2 DEF WindowOK, Present
    <2>1. CASE InBronze(k)
        BY <1>1, <2>1 DEF InBronze
    <2>2. ASSUME NEW s \in batch[p], s.key = k, s.ver = source[k].ver
          PROVE  InBronze(k)' \/ \E t \in batch'[p] : t.key = k /\ t.ver = source[k].ver
        BY <1>1, <2>2 DEF InBronze
    <2> QED
        BY <1>1, <2>1, <2>2 DEF IInv, WindowOK
<1>10. BatchOK'
    <2> SUFFICES ASSUME NEW t \in batch'[p]
                 PROVE  /\ \A u \in batch'[p] : t.key = u.key => t = u
                        /\ \/ t.ver = source[t.key].ver
                           \/ source[t.key].stamp = Null
                           \/ source[t.key].stamp > ceiling[p] /\ source[t.key].stamp > value
                        /\ \A b \in bronze' : b.key # t.key
                        /\ t.ver <= source[t.key].ver
        BY <1>2 DEF BatchOK
    <2>1. t \in batch[p] /\ t # row
        BY <1>1
    <2>2. \A b \in bronze' : b.key # t.key
        BY <1>1, <1>4, <2>1 DEF IInv, BatchOK
    <2> QED
        BY <1>1, <2>1, <2>2 DEF IInv, BatchOK
<1> QED
    BY <1>6, <1>7, <1>8, <1>9, <1>10 DEF IInv

\* The merged table has, for each key, the staged version if there is one and
\* otherwise the version it had.
LEMMA MergedRows ==
    ASSUME IInv, NEW p \in Runs, Merge(p)
    PROVE  /\ \A s \in batch[p] : \E c \in bronze' : c.key = s.key /\ c.ver = s.ver
           /\ \A b \in bronze : (\A s \in batch[p] : s.key # b.key) => b \in bronze'
           /\ \A c \in bronze' :
                  \/ c \in batch[p] /\ \A b \in bronze : b.key # c.key
                  \/ \E b \in bronze : c = Upserted(b, batch[p]) /\ c.key = b.key
           /\ \A c \in bronze' :
                  \/ \E s \in batch[p] : c.key = s.key /\ c.ver = s.ver
                  \/ c \in bronze
<1> DEFINE rows == batch[p]
<1>1. bronze' = {Upserted(b, rows) : b \in bronze} \cup {s \in rows : Matches(s, bronze) = {}}
    BY DEF Merge, MergeInto
<1>2. bronze \in SUBSET BronzeRow /\ rows \in SUBSET BronzeRow
    BY DEF IInv, TypeOK
<1>3. \A s, t \in rows : s.key = t.key => s = t
    BY DEF IInv, BatchOK
<1>4. \A b \in bronze : /\ Upserted(b, rows).key = b.key
                        /\ \A s \in rows : s.key = b.key => Upserted(b, rows).ver = s.ver
                        /\ (\A s \in rows : s.key # b.key) => Upserted(b, rows) = b
    BY <1>2, <1>3, UpsertedType, UpsertedRow
<1>5. \A s \in rows : Matches(s, bronze) = {} <=> \A b \in bronze : b.key # s.key
    BY DEF Matches
<1>6. ASSUME NEW s \in rows
      PROVE  \E c \in bronze' : c.key = s.key /\ c.ver = s.ver
    <2>1. CASE \A b \in bronze : b.key # s.key
        BY <1>1, <1>5, <2>1
    <2>2. ASSUME NEW b \in bronze, b.key = s.key
          PROVE  \E c \in bronze' : c.key = s.key /\ c.ver = s.ver
        <3>1. Upserted(b, rows) \in bronze'
            BY <1>1
        <3> QED
            BY <1>4, <2>2, <3>1
    <2> QED
        BY <2>1, <2>2
<1>7. ASSUME NEW b \in bronze, \A s \in rows : s.key # b.key
      PROVE  b \in bronze'
    <2>1. Upserted(b, rows) \in bronze'
        BY <1>1
    <2> QED
        BY <1>4, <1>7, <2>1
<1>8. ASSUME NEW c \in bronze'
      PROVE  \/ c \in rows /\ \A b \in bronze : b.key # c.key
             \/ \E b \in bronze : c = Upserted(b, rows) /\ c.key = b.key
    BY <1>1, <1>4, <1>5
<1>9. ASSUME NEW c \in bronze'
      PROVE  (\E s \in rows : c.key = s.key /\ c.ver = s.ver) \/ c \in bronze
    BY <1>4, <1>8
<1> QED
    BY <1>6, <1>7, <1>8, <1>9

LEMMA InvMerge ==
    ASSUME Incremental, IInv, TypeOK', NEW p \in Runs, Merge(p)
    PROVE  IInv'
<1>1. /\ pc[p] = "reading" /\ mode[p] = "merge" /\ batch'[p] = {} /\ pc'[p] = "written"
      /\ UNCHANGED <<source, now, exists, value, since, ceiling, mode, failures>>
    BY DEF IInv, TypeOK, Merge
<1>2. \A q \in Runs : q = p
    BY DEF Incremental
<1>3. StepOK'
    BY <1>1, <1>2 DEF StepOK, IInv
<1>4. BatchOK'
    BY <1>1, <1>2 DEF BatchOK
<1>5. TableOK'
    BY <1>1 DEF IInv, TableOK, StepOK
<1>6. BronzeOK'
    BY <1>1, MergedRows DEF IInv, BronzeOK, BatchOK
<1>7. OneRowPerKey'
    BY MergedRows DEF IInv, OneRowPerKey, BatchOK
<1>8. ASSUME NEW k \in Present, source[k].stamp # Null,
             source[k].stamp <= ceiling[p] \/ source[k].stamp <= value
      PROVE  InBronze(k)'
    <2>1. source[k].stamp \in Nat /\ ceiling[p] \in Nat /\ value \in Nat
        BY DEF IInv, TypeOK, Present
    <2>2. ASSUME NEW s \in batch[p], s.key = k
          PROVE  InBronze(k)'
        <3>1. s.ver = source[k].ver
            BY <1>8, <2>1, <2>2 DEF IInv, BatchOK
        <3> QED
            BY <1>1, <2>2, <3>1, MergedRows DEF InBronze
    <2>3. CASE \A s \in batch[p] : s.key # k
        <3>1. InBronze(k)
            BY <1>1, <1>8, <2>3 DEF IInv, Covered, WindowOK
        <3> QED
            BY <1>1, <2>3, <3>1, MergedRows DEF InBronze
    <2> QED
        BY <2>2, <2>3
<1>9. Covered' /\ WindowOK'
    BY <1>1, <1>2, <1>8 DEF Covered, WindowOK, Present
<1> QED
    BY <1>3, <1>4, <1>5, <1>6, <1>7, <1>9 DEF IInv

\* Committing is safe because the window is in bronze; failing because the
\* watermark stays.
LEMMA InvCommit ==
    ASSUME Incremental, IInv, TypeOK', NEW p \in Runs, Commit(p)
    PROVE  IInv'
<1>1. /\ pc[p] = "written" /\ batch[p] = {} /\ exists
      /\ pc'[p] = "idle" /\ batch'[p] = {} /\ value' = ceiling[p]
      /\ UNCHANGED <<source, now, bronze, exists, failures>>
    BY DEF Commit, Finished, NextValue, Incremental, IInv, TypeOK, StepOK
<1>2. \A q \in Runs : q = p
    BY DEF Incremental
<1>3. StepOK' /\ WindowOK' /\ BatchOK'
    BY <1>1, <1>2 DEF StepOK, WindowOK, BatchOK
<1>4. BronzeOK' /\ OneRowPerKey' /\ TableOK'
    BY <1>1 DEF IInv, BronzeOK, OneRowPerKey, TableOK
<1>5. Covered'
    BY <1>1 DEF IInv, WindowOK, Covered, Present, InBronze
<1> QED
    BY <1>3, <1>4, <1>5 DEF IInv

LEMMA InvFail ==
    ASSUME Incremental, IInv, TypeOK', NEW p \in Runs, Fail(p)
    PROVE  IInv'
<1>1. /\ pc'[p] = "idle" /\ batch'[p] = {}
      /\ UNCHANGED <<source, now, bronze, exists, value>>
    BY DEF Fail, Finished, IInv, TypeOK
<1>2. \A q \in Runs : q = p
    BY DEF Incremental
<1>3. StepOK' /\ WindowOK' /\ BatchOK'
    BY <1>1, <1>2 DEF StepOK, WindowOK, BatchOK
<1>4. Covered' /\ BronzeOK' /\ OneRowPerKey' /\ TableOK'
    BY <1>1 DEF IInv, Covered, BronzeOK, OneRowPerKey, Present, InBronze, TableOK
<1> QED
    BY <1>3, <1>4 DEF IInv

LEMMA InvStep ==
    ASSUME Incremental, IInv, [Next]_vars
    PROVE  IInv'
<1>1. TypeOK'
    BY TypeStep DEF IInv
<1>2. CASE UNCHANGED vars
    BY <1>1, <1>2 DEF vars, IInv, StepOK, Covered, WindowOK, BatchOK, BronzeOK,
                      OneRowPerKey, TableOK, Present, InBronze
<1>3. CASE Next
    BY <1>1, <1>3, InvSourceWrite, InvLoad, InvPlan, InvOpen, InvRead, InvInsertBatch,
       InvMerge, InvCommit, InvFail DEF Next, RunStep
<1> QED
    BY <1>2, <1>3

LEMMA Inductive ==
    ASSUME Incremental
    PROVE  Spec => []IInv
<1>1. Init => IInv
    BY InvInit
<1>2. IInv /\ [Next]_vars => IInv'
    BY InvStep
<1> QED
    BY <1>1, <1>2, PTL DEF Spec

\* A row the watermark has passed is in bronze in its present version, however
\* the source changes during a load and wherever a load fails or dies.
THEOREM WatermarkNeverAhead ==
    ASSUME Incremental
    PROVE  Spec => []Covered
<1>1. IInv => Covered
    BY DEF IInv
<1> QED
    BY <1>1, Inductive, PTL

\* However often a window is read again, bronze has one row per key.
THEOREM MergeIsIdempotent ==
    ASSUME Incremental
    PROVE  Spec => []OneRowPerKey
<1>1. IInv => OneRowPerKey
    BY DEF IInv
<1> QED
    BY <1>1, Inductive, PTL

\* The step property behind Kept: a row that is current in bronze is still
\* there after a step that leaves it alone at the source.
LEMMA KeptStep ==
    ASSUME Incremental, IInv, [Next]_vars, NEW k \in Present, InBronze(k), source'[k] = source[k]
    PROVE  \E b \in bronze' : b.key = k /\ b.ver = source[k].ver
<1>1. CASE bronze' = bronze
    BY <1>1 DEF InBronze
<1>2. ASSUME NEW p \in Runs, Open(p)
      PROVE  \E b \in bronze' : b.key = k /\ b.ver = source[k].ver
    <2>1. exists
        BY DEF IInv, TableOK, InBronze
    <2> QED
        BY <1>1, <1>2, <2>1 DEF Open, Opened, Merges, Incremental
<1>3. ASSUME NEW p \in Runs, NEW row \in batch[p], InsertBatch(p, row)
      PROVE  \E b \in bronze' : b.key = k /\ b.ver = source[k].ver
    BY <1>3 DEF InsertBatch, InBronze
<1>4. ASSUME NEW p \in Runs, Merge(p)
      PROVE  \E b \in bronze' : b.key = k /\ b.ver = source[k].ver
    <2>1. PICK b \in bronze : b.key = k /\ b.ver = source[k].ver
        BY DEF InBronze
    <2>2. source[k].ver \in Nat /\ \A s \in batch[p] : s.ver \in Nat
        BY DEF IInv, TypeOK, BronzeRow, Present
    <2>3. ASSUME NEW s \in batch[p], s.key = k
          PROVE  s.ver = source[k].ver
        BY <2>1, <2>2, <2>3 DEF IInv, BatchOK
    <2> QED
        BY <1>4, <2>1, <2>3, MergedRows
<1>5. ASSUME bronze' # bronze
      PROVE  \E p \in Runs : Open(p) \/ Merge(p) \/ \E row \in batch[p] : InsertBatch(p, row)
    BY <1>5 DEF Next, RunStep, vars, SourceWrite, Load, Plan, Read, Commit, Fail
<1> QED
    BY <1>1, <1>2, <1>3, <1>4, <1>5

\* No run, whether it succeeds, fails or dies, takes away from bronze a row
\* that is still what the source holds.
THEOREM LandedRowsStay ==
    ASSUME Incremental
    PROVE  Spec => Kept
<1>1. IInv /\ [Next]_vars =>
        [\A k \in Present :
            InBronze(k) /\ source'[k] = source[k]
                => \E b \in bronze' : b.key = k /\ b.ver = source[k].ver]_vars
    BY KeptStep
<1> QED
    BY <1>1, Inductive, PTL DEF Spec, Kept
=============================================================================

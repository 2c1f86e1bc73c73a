-------------------------- MODULE RefinementProofs --------------------------
(***************************************************************************)
(* Theorems about Refinement, for any rows, rules, tables and tolerance,   *)
(* and any number of runs and faults: types, that a run's status is what   *)
(* its steps say, and, for runs that do not overlap, that every row of a   *)
(* published table is accounted for and that no load over the tolerance    *)
(* replaces silver.                                                        *)
(***************************************************************************)
EXTENDS Refinement, FiniteSetTheorems, TLAPS

-----------------------------------------------------------------------------
(* Types.                                                                    *)

Typed == TypeOK /\ \A t \in Tables : IsFiniteSet(quarantine[t])

Outcomes == {"none", "running", "succeeded", "failed", "skipped"}

LEMMA InitTypes == Init => Typed
  BY RefinementAssumption, FS_EmptySet DEF Init, Typed, TypeOK, Tables, Places, Kinds

LEMMA TableNumbers == ASSUME NEW t \in Tables PROVE t \in Nat /\ t >= 1 /\ t <= NumTables
  BY RefinementAssumption DEF Tables

LEMMA RowsFinite ==
  ASSUME NEW S \in SUBSET Rows
  PROVE  IsFiniteSet(S) /\ Cardinality(S) \in Nat
  BY RefinementAssumption, FS_Subset, FS_CardinalityType

LEMMA CaughtRows ==
  ASSUME TypeOK, NEW t \in Tables
  PROVE  Caught(t) \in SUBSET Rows /\ Caught(t) \subseteq bronze[t]
  BY DEF Caught, TypeOK

\* What a run holds back of a table is as many rows as it catches.
LEMMA HeldBackCounts ==
  ASSUME TypeOK, NEW r \in Runs, NEW t \in Tables
  PROVE  /\ HeldBack(r, t) \in SUBSET Held
         /\ IsFiniteSet(HeldBack(r, t))
         /\ Cardinality(HeldBack(r, t)) = Cardinality(Caught(t))
<1> DEFINE f == [x \in Caught(t) |-> [row |-> x, run |-> r]]
<1>1. IsFiniteSet(Caught(t))
  BY CaughtRows, RowsFinite
<1>2. HeldBack(r, t) \in SUBSET Held
  BY CaughtRows DEF HeldBack, Held
<1>3. \A h \in HeldBack(r, t) : h.row \in Caught(t) /\ h = [row |-> h.row, run |-> r]
  BY DEF HeldBack
<1>4. f \in [Caught(t) -> HeldBack(r, t)]
  BY DEF HeldBack
<1>5. f \in Surjection(Caught(t), HeldBack(r, t))
  BY <1>3, <1>4 DEF Surjection
<1>6. \A x, y \in Caught(t) : f[x] = f[y] => x = y
  <2> SUFFICES ASSUME NEW x \in Caught(t), NEW y \in Caught(t), f[x] = f[y] PROVE x = y
    OBVIOUS
  <2>1. f[x].row = x /\ f[y].row = y
    OBVIOUS
  <2> QED BY <2>1
<1>7. f \in Injection(Caught(t), HeldBack(r, t))
  BY <1>4, <1>6 DEF Injection, IsInjective
<1> HIDE DEF f
<1> QED BY <1>1, <1>2, <1>5, <1>7, FS_Surjection

LEMMA AdvanceTypes ==
  ASSUME TypeOK, NEW r \in Runs, NEW from, Advance(r, from)
  PROVE  /\ at' \in [Runs -> Places]
         /\ table' \in [Runs -> Tables]
<1>1. table[r] \in Tables /\ NextTable(r) \in Tables
  BY RefinementAssumption DEF TypeOK, Tables, NextTable
<1> QED BY <1>1 DEF Advance, Goes, Beyond, TypeOK, Places

LEMMA GoesTypes ==
  ASSUME TypeOK, NEW r \in Runs, NEW from, NEW to \in Places, Goes(r, from, to)
  PROVE  at' \in [Runs -> Places]
  BY DEF Goes, TypeOK

\* A step record is written in one place.
LEMMA MarksOne ==
  ASSUME TypeOK, NEW r \in Runs, NEW kind \in Kinds, NEW outcome \in Outcomes, Marks(r, kind, outcome)
  PROVE  /\ step' \in [Runs -> [Tables -> [Kinds -> Outcomes]]]
         /\ \A s \in Runs, t \in Tables, k \in Kinds :
                step'[s][t][k] = IF s = r /\ t = table[r] /\ k = kind THEN outcome ELSE step[s][t][k]
  BY DEF Marks, TypeOK, Outcomes

LEMMA StartTypes ==
  ASSUME Typed, NEW r \in Runs, StartRun(r) \/ OpenIngest(r) \/ Die(r) \/ CloseRun(r)
  PROVE  Typed'
<1>1. CASE StartRun(r)
  BY <1>1 DEF StartRun, Goes, Typed, TypeOK, Places
<1>2. CASE OpenIngest(r)
  <2>1. step' \in [Runs -> [Tables -> [Kinds -> Outcomes]]]
    BY <1>2, MarksOne DEF OpenIngest, Typed, Kinds, Outcomes
  <2> QED BY <1>2, <2>1 DEF OpenIngest, Typed, TypeOK, Places, Outcomes
<1>3. CASE Die(r)
  BY <1>3, RefinementAssumption DEF Die, Typed, TypeOK, Places
<1>4. CASE CloseRun(r)
  BY <1>4 DEF CloseRun, Goes, Typed, TypeOK, Places, Outcome
<1> QED BY <1>1, <1>2, <1>3, <1>4

LEMMA LandTypes ==
  ASSUME Typed, NEW r \in Runs, NEW rows \in SUBSET Rows, NEW outcome \in {"succeeded", "skipped"},
         Land(r, rows, outcome) \/ IngestFails(r, rows)
  PROVE  Typed'
<1>1. CASE Land(r, rows, outcome)
  <2>1. step' \in [Runs -> [Tables -> [Kinds -> Outcomes]]]
    BY <1>1, MarksOne DEF Land, Typed, Kinds, Outcomes
  <2> QED BY <1>1, <2>1 DEF Land, Goes, Typed, TypeOK, Places, Outcomes
<1>2. CASE IngestFails(r, rows)
  <2>1. step' \in [Runs -> [Tables -> [Kinds -> Outcomes]]]
    BY <1>2, MarksOne DEF IngestFails, Typed, Kinds, Outcomes
  <2>2. at' \in [Runs -> Places] /\ table' \in [Runs -> Tables]
    BY <1>2, AdvanceTypes DEF IngestFails, Typed
  <2>3. faults' \in 0..MaxFaults
    BY <1>2, RefinementAssumption DEF IngestFails, Typed, TypeOK
  <2>4. failures' \in [Runs -> SUBSET Tables]
    BY <1>2 DEF IngestFails, Typed, TypeOK
  <2> QED BY <1>2, <2>1, <2>2, <2>3, <2>4 DEF IngestFails, Typed, TypeOK, Outcomes
<1> QED BY <1>1, <1>2

LEMMA RefineTypes == ASSUME Typed, NEW r \in Runs, Refine(r) PROVE Typed'
<1>1. CASE OpenSilver(r)
  <2>1. step' \in [Runs -> [Tables -> [Kinds -> Outcomes]]]
    BY <1>1, MarksOne DEF OpenSilver, Typed, Kinds, Outcomes
  <2> QED BY <1>1, <2>1 DEF OpenSilver, Goes, Typed, TypeOK, Places, Outcomes
<1>2. CASE CountBronze(r)
  <2>1. Cardinality(bronze[table[r]]) \in Nat
    BY RowsFinite DEF Typed, TypeOK
  <2> QED BY <1>2, <2>1 DEF CountBronze, Goes, Typed, TypeOK, Places
<1>3. CASE InsertRejected(r)
  <2>1. table[r] \in Tables
    BY DEF Typed, TypeOK
  <2>2. Inserted(r) \in SUBSET Held /\ IsFiniteSet(Inserted(r))
    BY <2>1, HeldBackCounts, FS_Union DEF Inserted, Typed, TypeOK
  <2> QED BY <1>3, <2>1, <2>2 DEF InsertRejected, Goes, Typed, TypeOK, Places
<1>4. (IF table[r] \in Ruled THEN Cardinality(quarantine[table[r]]) ELSE 0) \in Nat
  BY FS_CardinalityType DEF Typed, TypeOK
<1>5. CASE CountRejected(r)
  BY <1>4, <1>5 DEF CountRejected, Goes, Typed, TypeOK, Places
<1>6. CASE Refuse(r)
  <2>1. step' \in [Runs -> [Tables -> [Kinds -> Outcomes]]]
    BY <1>6, MarksOne DEF Refuse, Typed, Kinds, Outcomes
  <2>2. at' \in [Runs -> Places] /\ table' \in [Runs -> Tables]
    BY <1>6, AdvanceTypes DEF Refuse, Typed
  <2>3. failures' \in [Runs -> SUBSET Tables] /\ rejected' \in [Runs -> Nat]
    BY <1>4, <1>6 DEF Refuse, Typed, TypeOK
  <2> QED BY <1>6, <2>1, <2>2, <2>3 DEF Refuse, Typed, TypeOK, Outcomes
<1>7. CASE Publish(r)
  <2>1. Clean(table[r]) \in SUBSET Rows
    BY DEF Clean, Typed, TypeOK
  <2> QED BY <1>7, <2>1 DEF Publish, Goes, Typed, TypeOK, Places
<1>8. CASE CloseSilver(r)
  <2>1. step' \in [Runs -> [Tables -> [Kinds -> Outcomes]]]
    BY <1>8, MarksOne DEF CloseSilver, Typed, Kinds, Outcomes
  <2>2. at' \in [Runs -> Places] /\ table' \in [Runs -> Tables]
    BY <1>8, AdvanceTypes DEF CloseSilver, Typed, TypeOK, Places
  <2>3. produced' \in [Runs -> SUBSET Tables]
    BY <1>8 DEF CloseSilver, Typed, TypeOK
  <2> QED BY <1>8, <2>1, <2>2, <2>3 DEF CloseSilver, Typed, TypeOK, Outcomes
<1>9. CASE SilverFails(r)
  <2>1. step' \in [Runs -> [Tables -> [Kinds -> Outcomes]]]
    BY <1>9, MarksOne DEF SilverFails, Typed, Kinds, Outcomes
  <2>2. at' \in [Runs -> Places] /\ table' \in [Runs -> Tables]
    BY <1>9, AdvanceTypes DEF SilverFails, Typed
  <2>3. failures' \in [Runs -> SUBSET Tables] /\ faults' \in 0..MaxFaults
    BY <1>9, RefinementAssumption DEF SilverFails, Typed, TypeOK
  <2> QED BY <1>9, <2>1, <2>2, <2>3 DEF SilverFails, Typed, TypeOK, Outcomes
<1> QED BY <1>1, <1>2, <1>3, <1>5, <1>6, <1>7, <1>8, <1>9 DEF Refine

LEMMA GoldTypes ==
  ASSUME Typed, NEW r \in Runs, OpenGold(r) \/ BuildGoldTable(r) \/ GoldFails(r)
  PROVE  Typed'
<1>1. step' \in [Runs -> [Tables -> [Kinds -> Outcomes]]]
  BY MarksOne DEF OpenGold, BuildGoldTable, GoldFails, Typed, Kinds, Outcomes
<1>2. at' \in [Runs -> Places] /\ table' \in [Runs -> Tables]
  BY AdvanceTypes DEF OpenGold, BuildGoldTable, GoldFails, Goes, Typed, TypeOK, Places
<1>3. faults' \in 0..MaxFaults
  BY RefinementAssumption DEF OpenGold, BuildGoldTable, GoldFails, Typed, TypeOK
<1>4. gold' \in [Tables -> SUBSET Rows]
  BY DEF OpenGold, BuildGoldTable, GoldFails, Typed, TypeOK
<1> QED BY <1>1, <1>2, <1>3, <1>4 DEF OpenGold, BuildGoldTable, GoldFails, Typed, TypeOK, Outcomes

LEMMA NextTypes == Typed /\ [Next]_vars => Typed'
<1> SUFFICES ASSUME Typed, [Next]_vars PROVE Typed'
  OBVIOUS
<1>1. CASE UNCHANGED vars
  BY <1>1 DEF vars, Typed, TypeOK
<1> QED BY <1>1, StartTypes, LandTypes, RefineTypes, GoldTypes DEF Next

LEMMA TypesHold == Spec => []Typed
  BY InitTypes, NextTypes, PTL DEF Spec

\* Every reachable state of the runs and their tables is well typed.
THEOREM RefinementTypes == Spec => []TypeOK
<1>1. Typed => TypeOK
  BY DEF Typed
<1> QED BY <1>1, TypesHold, PTL

-----------------------------------------------------------------------------
(* What the status of a run tells.                                           *)

Landed(r, t) == step[r][t]["ingest"] \in {"succeeded", "skipped"}
Published(r, t) == step[r][t]["silver"] = "succeeded"
Done(r) == produced[r] \cup failures[r]

Ahead == {"new", "started", "ingest", "landed", "silver", "counted", "quarantined", "judged",
          "published", "next"}
InHand == {"landed", "silver", "counted", "quarantined", "judged", "published"}
Behind == {"refined", "gold", "closing", "closed"}

\* The tables a run has counted are those before the one it is at, and that
\* one too once it is refined; what it counts as produced its steps call
\* landed and published.
Progress(r) ==
    /\ \A t \in Tables : t \in produced[r] <=> Published(r, t)
    /\ \A t \in produced[r] : Landed(r, t) /\ t \notin failures[r]
    /\ at[r] # "dead" => \A t \in Tables : t < table[r] => t \in Done(r)
    /\ at[r] \in Ahead => \A t \in Tables : t >= table[r] => t \notin Done(r)
    /\ at[r] \in Behind => table[r] \in Done(r) /\ \A t \in Tables : t > table[r] => t \notin Done(r)
    /\ at[r] \in InHand => Landed(r, table[r])
    /\ at[r] \in {"closing", "closed"} => table[r] = NumTables
    /\ IF at[r] = "closed" THEN status[r] = Outcome(r) ELSE status[r] \in {"none", "running"}

\* A step of one run leaves the records of the others alone.
Alone(r) ==
    \A s \in Runs \ {r} :
        /\ at'[s] = at[s] /\ table'[s] = table[s] /\ status'[s] = status[s]
        /\ step'[s] = step[s] /\ failures'[s] = failures[s] /\ produced'[s] = produced[s]

RunStep(r) ==
    \/ StartRun(r) \/ OpenIngest(r) \/ Refine(r) \/ OpenGold(r) \/ BuildGoldTable(r)
    \/ GoldFails(r) \/ CloseRun(r) \/ Die(r)
    \/ \E rows \in SUBSET Rows, outcome \in {"succeeded", "skipped"} : Land(r, rows, outcome)
    \/ \E rows \in SUBSET Rows : IngestFails(r, rows)

LEMMA StepOfRun == [Next]_vars => UNCHANGED vars \/ \E r \in Runs : RunStep(r)
  BY DEF Next, RunStep

LEMMA OthersAlone == ASSUME TypeOK, NEW r \in Runs, RunStep(r) PROVE Alone(r)
<1>1. CASE StartRun(r) \/ OpenIngest(r) \/ CloseRun(r) \/ Die(r)
  BY <1>1 DEF StartRun, OpenIngest, CloseRun, Die, Alone, Goes, Marks, TypeOK
<1>2. CASE OpenGold(r) \/ BuildGoldTable(r) \/ GoldFails(r)
  BY <1>2 DEF OpenGold, BuildGoldTable, GoldFails, Alone, Advance, Goes, Marks, TypeOK
<1>3. ASSUME NEW rows \in SUBSET Rows, NEW outcome \in {"succeeded", "skipped"},
             Land(r, rows, outcome) \/ IngestFails(r, rows)
      PROVE  Alone(r)
  BY <1>3 DEF Land, IngestFails, Alone, Advance, Goes, Marks, TypeOK
<1>4. CASE OpenSilver(r) \/ CountBronze(r) \/ InsertRejected(r) \/ CountRejected(r) \/ Publish(r)
  BY <1>4 DEF OpenSilver, CountBronze, InsertRejected, CountRejected, Publish, Alone, Goes, Marks, TypeOK
<1>5. CASE Refuse(r) \/ SilverFails(r)
  BY <1>5 DEF Refuse, SilverFails, Alone, Advance, Goes, Marks, TypeOK
<1>6. CASE CloseSilver(r)
  BY <1>6 DEF CloseSilver, Alone, Advance, Goes, Marks, TypeOK
<1> QED BY <1>1, <1>2, <1>3, <1>4, <1>5, <1>6 DEF RunStep, Refine

LEMMA OthersProgress ==
  ASSUME TypeOK, NEW r \in Runs, Alone(r), NEW s \in Runs, s # r, Progress(s)
  PROVE  Progress(s)'
  BY DEF Alone, Progress, Landed, Published, Done, Outcome

\* A run that fails a table, or is done with it, goes on to the next.
LEMMA AdvanceMoves ==
  ASSUME TypeOK, NEW r \in Runs, NEW from, Advance(r, from)
  PROVE  /\ at[r] = from
         /\ at'[r] = Beyond(r) /\ table'[r] = NextTable(r)
         /\ \/ at'[r] = "closing" /\ table[r] = NumTables /\ table'[r] = NumTables
            \/ at'[r] = "next" /\ table[r] < NumTables /\ table'[r] = table[r] + 1
<1>1. /\ table[r] \in Nat /\ table[r] <= NumTables /\ NumTables \in Nat
  BY TableNumbers, RefinementAssumption DEF TypeOK
<1>2. /\ at[r] = from /\ at'[r] = Beyond(r) /\ table'[r] = NextTable(r)
  BY DEF Advance, Goes, TypeOK
<1>3. CASE table[r] = NumTables
  BY <1>2, <1>3 DEF Beyond, NextTable
<1>4. CASE table[r] # NumTables
  BY <1>1, <1>2, <1>4 DEF Beyond, NextTable
<1> QED BY <1>2, <1>3, <1>4

LEMMA FailedProgress ==
  ASSUME TypeOK, NEW r \in Runs, Progress(r), NEW from \in Ahead, Advance(r, from),
         NEW kind \in {"ingest", "silver"}, Marks(r, kind, "failed"),
         failures' = [failures EXCEPT ![r] = @ \cup {table[r]}],
         produced' = produced, status' = status
  PROVE  Progress(r)'
<1>1. /\ table[r] \in Tables /\ table[r] \in Nat /\ NumTables \in Nat
      /\ \A t \in Tables : t \in Nat /\ t <= NumTables
  BY TableNumbers, RefinementAssumption DEF TypeOK
<1>2. \A t \in Tables, k \in Kinds :
          step'[r][t][k] = IF t = table[r] /\ k = kind THEN "failed" ELSE step[r][t][k]
  BY MarksOne DEF Kinds, Outcomes
<1>3. table[r] \notin produced[r] /\ at[r] = from /\ at[r] \in Ahead
  BY <1>1, AdvanceMoves DEF Progress, Done
<1>4. failures'[r] = failures[r] \cup {table[r]} /\ failures[r] \subseteq Tables
  BY DEF TypeOK
<1>5. \A t \in Tables : /\ Published(r, t)' <=> Published(r, t)
                        /\ t # table[r] => (Landed(r, t)' <=> Landed(r, t))
  BY <1>2, <1>3 DEF Published, Landed, Kinds, Progress
<1>6. \A t \in produced[r] : Landed(r, t)' /\ t \notin failures'[r]
  BY <1>3, <1>4, <1>5 DEF Progress, TypeOK
<1>7. \A t \in Tables : t \in Done(r)' <=> t \in Done(r) \/ t = table[r]
  BY <1>4 DEF Done
<1>8. CASE at'[r] = "closing" /\ table[r] = NumTables /\ table'[r] = NumTables
  <2>1. \A t \in Tables : ~(t > NumTables) /\ (t < NumTables => t \in Done(r)')
    BY <1>1, <1>3, <1>7, <1>8 DEF Progress, Ahead
  <2>2. table[r] \in Done(r)'
    BY <1>1, <1>7
  <2> QED BY <1>3, <1>5, <1>6, <1>8, <2>1, <2>2 DEF Progress, Ahead, Behind, InHand
<1>9. CASE at'[r] = "next" /\ table[r] < NumTables /\ table'[r] = table[r] + 1
  <2>1. \A t \in Tables : (t < table'[r] => t \in Done(r)') /\ (t >= table'[r] => t \notin Done(r)')
    <3>1. \A t \in Tables : t < table[r] => t \in Done(r)
      BY <1>3 DEF Progress, Ahead
    <3>2. \A t \in Tables : t >= table[r] => t \notin Done(r)
      BY <1>3 DEF Progress
    <3> QED BY <1>1, <1>7, <1>9, <3>1, <3>2
  <2> QED BY <1>3, <1>5, <1>6, <1>9, <2>1 DEF Progress, Ahead, Behind, InHand
<1> QED BY <1>8, <1>9, AdvanceMoves

LEMMA GoldProgress ==
  ASSUME TypeOK, NEW r \in Runs, Progress(r), NEW from \in {"refined", "gold"}, Advance(r, from),
         NEW outcome \in Outcomes, Marks(r, "gold", outcome),
         failures' = failures, produced' = produced, status' = status
  PROVE  Progress(r)'
<1>1. /\ table[r] \in Tables /\ table[r] \in Nat /\ NumTables \in Nat
      /\ \A t \in Tables : t \in Nat /\ t <= NumTables
  BY TableNumbers, RefinementAssumption DEF TypeOK
<1>2. \A t \in Tables : (Published(r, t)' <=> Published(r, t)) /\ (Landed(r, t)' <=> Landed(r, t))
  BY MarksOne DEF Kinds, Outcomes, Published, Landed
<1>3. at[r] \in Behind /\ at[r] = from
  BY AdvanceMoves DEF Behind
<1>4. Done(r)' = Done(r)
  BY DEF Done
<1>5. CASE at'[r] = "closing" /\ table[r] = NumTables /\ table'[r] = NumTables
  BY <1>1, <1>2, <1>3, <1>4, <1>5 DEF Progress, Ahead, Behind, InHand, TypeOK
<1>6. CASE at'[r] = "next" /\ table[r] < NumTables /\ table'[r] = table[r] + 1
  <2>1. \A t \in Tables : (t < table'[r] => t \in Done(r)') /\ (t >= table'[r] => t \notin Done(r)')
    BY <1>1, <1>3, <1>4, <1>6 DEF Progress, Behind
  <2> QED BY <1>2, <1>3, <1>6, <2>1 DEF Progress, Ahead, Behind, InHand, TypeOK
<1> QED BY <1>5, <1>6, AdvanceMoves

\* The steps within a table, which count nothing.
LEMMA WithinProgress ==
  ASSUME TypeOK, NEW r \in Runs, Progress(r),
         OpenIngest(r) \/ OpenSilver(r) \/ CountBronze(r) \/ InsertRejected(r) \/ CountRejected(r)
           \/ Publish(r) \/ StartRun(r) \/ Die(r)
  PROVE  Progress(r)'
<1>1. /\ table' = table /\ failures' = failures /\ produced' = produced
      /\ table[r] \in Tables /\ at \in [Runs -> Places]
  BY DEF OpenIngest, OpenSilver, CountBronze, InsertRejected, CountRejected, Publish, StartRun, Die, TypeOK
<1>2. CASE OpenIngest(r)
  <2>1. at[r] \in {"started", "next"} /\ at'[r] = "ingest" /\ status' = status
    BY <1>1, <1>2 DEF OpenIngest
  <2>2. table[r] \notin produced[r]
    BY <1>1, <2>1, TableNumbers DEF Progress, Ahead, Done
  <2>3. \A t \in Tables : /\ Published(r, t)' <=> Published(r, t)
                          /\ t # table[r] => (Landed(r, t)' <=> Landed(r, t))
    BY <1>2, MarksOne DEF OpenIngest, Published, Landed, Kinds, Outcomes
  <2> QED BY <1>1, <2>1, <2>2, <2>3 DEF Progress, Ahead, Behind, InHand, Done, TypeOK
<1>3. CASE OpenSilver(r)
  <2>1. at[r] = "landed" /\ at'[r] = "silver" /\ status' = status
    BY <1>1, <1>3 DEF OpenSilver, Goes
  <2>2. table[r] \notin produced[r]
    BY <1>1, <2>1, TableNumbers DEF Progress, Ahead, Done
  <2>3. \A t \in Tables : /\ t # table[r] => (Published(r, t)' <=> Published(r, t))
                          /\ Landed(r, t)' <=> Landed(r, t)
    BY <1>3, MarksOne DEF OpenSilver, Published, Landed, Kinds, Outcomes
  <2>4. ~Published(r, table[r])'
    BY <1>1, <1>3, MarksOne DEF OpenSilver, Published, Kinds, Outcomes
  <2> QED BY <1>1, <2>1, <2>2, <2>3, <2>4 DEF Progress, Ahead, Behind, InHand, Done, TypeOK
<1>4. CASE CountBronze(r) \/ InsertRejected(r) \/ CountRejected(r) \/ Publish(r)
  <2>1. /\ at[r] \in InHand /\ at'[r] \in InHand /\ step' = step /\ status' = status
    BY <1>1, <1>4 DEF CountBronze, InsertRejected, CountRejected, Publish, Goes, InHand
  <2> QED BY <1>1, <2>1 DEF Progress, Ahead, Behind, InHand, Done, Published, Landed
<1>5. CASE StartRun(r)
  <2>1. at[r] = "new" /\ at'[r] = "started" /\ step' = step /\ status'[r] = "running"
    BY <1>1, <1>5 DEF StartRun, Goes, TypeOK
  <2> QED BY <1>1, <2>1 DEF Progress, Ahead, Behind, InHand, Done, Published, Landed
<1>6. CASE Die(r)
  <2>1. at[r] # "closed" /\ at'[r] = "dead" /\ step' = step /\ status' = status
    BY <1>1, <1>6 DEF Die, InFlight
  <2> QED BY <1>1, <2>1 DEF Progress, Ahead, Behind, InHand, Done, Published, Landed
<1> QED BY <1>2, <1>3, <1>4, <1>5, <1>6

LEMMA LandProgress ==
  ASSUME TypeOK, NEW r \in Runs, Progress(r), NEW rows \in SUBSET Rows,
         NEW outcome \in {"succeeded", "skipped"}, Land(r, rows, outcome)
  PROVE  Progress(r)'
<1>1. /\ table' = table /\ failures' = failures /\ produced' = produced /\ status' = status
      /\ table[r] \in Tables /\ at[r] = "ingest" /\ at'[r] = "landed"
  BY DEF Land, Goes, TypeOK
<1>2. \A t \in Tables : /\ Published(r, t)' <=> Published(r, t)
                        /\ t # table[r] => (Landed(r, t)' <=> Landed(r, t))
  BY MarksOne DEF Land, Published, Landed, Kinds, Outcomes
<1>3. Landed(r, table[r])'
  BY <1>1, MarksOne DEF Land, Landed, Kinds, Outcomes
<1> QED BY <1>1, <1>2, <1>3 DEF Progress, Ahead, Behind, InHand, Done, TypeOK

LEMMA CloseSilverProgress ==
  ASSUME TypeOK, NEW r \in Runs, Progress(r), CloseSilver(r)
  PROVE  Progress(r)'
<1>1. /\ table[r] \in Tables /\ table[r] \in Nat /\ NumTables \in Nat
      /\ \A t \in Tables : t \in Nat /\ t <= NumTables
  BY TableNumbers, RefinementAssumption DEF TypeOK
<1>2. /\ at[r] = "published" /\ failures' = failures /\ status' = status
      /\ produced'[r] = produced[r] \cup {table[r]} /\ produced[r] \subseteq Tables
  BY DEF CloseSilver, TypeOK
<1>3. table[r] \notin Done(r) /\ Landed(r, table[r])
  BY <1>1, <1>2 DEF Progress, Ahead, InHand
<1>4. \A t \in Tables : /\ Published(r, t)' <=> Published(r, t) \/ t = table[r]
                        /\ Landed(r, t)' <=> Landed(r, t)
  BY MarksOne DEF CloseSilver, Published, Landed, Kinds, Outcomes
<1>5. \A t \in Tables : t \in produced'[r] <=> Published(r, t)'
  BY <1>2, <1>4 DEF Progress
<1>6. \A t \in produced'[r] : Landed(r, t)' /\ t \notin failures'[r]
  BY <1>1, <1>2, <1>3, <1>4 DEF Progress, Done
<1>7. \A t \in Tables : t \in Done(r)' <=> t \in Done(r) \/ t = table[r]
  BY <1>2 DEF Done
<1>8. CASE at'[r] = "refined" /\ table' = table
  <2>1. /\ \A t \in Tables : (t < table[r] => t \in Done(r)') /\ (t > table[r] => t \notin Done(r)')
        /\ table[r] \in Done(r)'
    BY <1>1, <1>2, <1>7 DEF Progress, Ahead
  <2> QED BY <1>2, <1>5, <1>6, <1>8, <2>1 DEF Progress, Ahead, Behind, InHand
<1>9. CASE at'[r] = "closing" /\ table[r] = NumTables /\ table'[r] = NumTables
  <2>1. /\ \A t \in Tables : ~(t > NumTables) /\ (t < NumTables => t \in Done(r)')
        /\ table[r] \in Done(r)'
    BY <1>1, <1>2, <1>7, <1>9 DEF Progress
  <2> QED BY <1>2, <1>5, <1>6, <1>9, <2>1 DEF Progress, Ahead, Behind, InHand
<1>10. CASE at'[r] = "next" /\ table[r] < NumTables /\ table'[r] = table[r] + 1
  <2>1. \A t \in Tables : (t < table'[r] => t \in Done(r)') /\ (t >= table'[r] => t \notin Done(r)')
    <3>1. \A t \in Tables : (t < table[r] => t \in Done(r)) /\ (t >= table[r] => t \notin Done(r))
      BY <1>2 DEF Progress, Ahead
    <3> QED BY <1>1, <1>7, <1>10, <3>1
  <2> QED BY <1>2, <1>5, <1>6, <1>10, <2>1 DEF Progress, Ahead, Behind, InHand
<1>11. CASE r \in WithGold
  BY <1>8, <1>11 DEF CloseSilver, TypeOK
<1>12. CASE r \notin WithGold
  <2>1. Advance(r, "published")
    BY <1>12 DEF CloseSilver
  <2> QED BY <2>1, <1>9, <1>10, AdvanceMoves
<1> QED BY <1>11, <1>12

LEMMA OwnProgress ==
  ASSUME TypeOK, NEW r \in Runs, Progress(r), RunStep(r)
  PROVE  Progress(r)'
<1>1. ASSUME NEW rows \in SUBSET Rows, IngestFails(r, rows) PROVE Progress(r)'
  BY <1>1, FailedProgress DEF IngestFails, Ahead
<1>2. CASE Refuse(r)
  BY <1>2, FailedProgress DEF Refuse, Ahead
<1>3. CASE SilverFails(r)
  BY <1>3, FailedProgress DEF SilverFails, Ahead
<1>4. CASE OpenGold(r)
  <2>1. CASE table[r] \in Facts
    <3>1. /\ at[r] = "refined" /\ at'[r] = "gold" /\ Marks(r, "gold", "running")
          /\ table' = table /\ failures' = failures /\ produced' = produced /\ status' = status
      BY <1>4, <2>1 DEF OpenGold, Goes, TypeOK
    <3>2. \A t \in Tables : (Published(r, t)' <=> Published(r, t)) /\ (Landed(r, t)' <=> Landed(r, t))
      BY <3>1, MarksOne DEF Kinds, Outcomes, Published, Landed
    <3> QED BY <3>1, <3>2 DEF Progress, Ahead, Behind, InHand, Done, TypeOK
  <2>2. CASE table[r] \notin Facts
    BY <1>4, <2>2, GoldProgress DEF OpenGold, Outcomes
  <2> QED BY <2>1, <2>2
<1>5. CASE BuildGoldTable(r)
  BY <1>5, GoldProgress DEF BuildGoldTable, Outcomes
<1>6. CASE GoldFails(r)
  BY <1>6, GoldProgress DEF GoldFails, Outcomes
<1>7. CASE CloseRun(r)
  <2>1. /\ at[r] = "closing" /\ at'[r] = "closed" /\ status'[r] = Outcome(r) /\ table' = table
        /\ step' = step /\ failures' = failures /\ produced' = produced
    BY <1>7 DEF CloseRun, Goes, TypeOK
  <2> QED BY <2>1 DEF Progress, Ahead, Behind, InHand, Done, Published, Landed, Outcome
<1> QED BY <1>1, <1>2, <1>3, <1>4, <1>5, <1>6, <1>7, WithinProgress, LandProgress, CloseSilverProgress
     DEF RunStep, Refine

LEMMA ProgressHolds == Spec => [](\A r \in Runs : Progress(r))
<1>1. Init => \A r \in Runs : Progress(r)
  BY TableNumbers, RefinementAssumption
     DEF Init, Progress, Published, Landed, Done, Ahead, Behind, InHand, Kinds, Tables
<1>2. Typed /\ (\A r \in Runs : Progress(r)) /\ [Next]_vars => (\A r \in Runs : Progress(r))'
  <2> SUFFICES ASSUME Typed, \A r \in Runs : Progress(r), [Next]_vars
               PROVE  (\A r \in Runs : Progress(r))'
    OBVIOUS
  <2>1. CASE UNCHANGED vars
    BY <2>1 DEF vars, Progress, Published, Landed, Done, Outcome
  <2>2. ASSUME NEW r \in Runs, RunStep(r) PROVE (\A s \in Runs : Progress(s))'
    <3>1. Alone(r) /\ Progress(r)'
      BY <2>2, OthersAlone, OwnProgress DEF Typed
    <3>2. \A s \in Runs : s # r => Progress(s)'
      BY <3>1, OthersProgress DEF Typed
    <3> QED BY <3>1, <3>2
  <2> QED BY <2>1, <2>2, StepOfRun
<1> QED BY <1>1, <1>2, TypesHold, PTL DEF Spec

\* A run that says it succeeded has landed and published every table, one that
\* says it failed none, and a partial one some and not others.
THEOREM StatusHolds == Spec => []StatusTellsSteps
<1>1. TypeOK /\ (\A r \in Runs : Progress(r)) => StatusTellsSteps
  <2> SUFFICES ASSUME TypeOK, NEW r \in Runs, Progress(r)
               PROVE  /\ status[r] = "succeeded" => \A t \in Tables : Landed(r, t) /\ Published(r, t)
                      /\ status[r] = "failed" => \A t \in Tables : ~Published(r, t)
                      /\ status[r] = "partial" => \E t, u \in Tables : Published(r, t) /\ ~Published(r, u)
    BY DEF StatusTellsSteps, Landed, Published
  <2>1. CASE status[r] \in {"none", "running"}
    BY <2>1
  <2>2. CASE at[r] = "closed" /\ status[r] = Outcome(r)
    <3>1. \A t \in Tables : t \in Done(r)
      <4>1. table[r] = NumTables /\ table[r] \in Done(r)
        BY <2>2 DEF Progress, Behind
      <4>2. \A t \in Tables : t < table[r] => t \in Done(r)
        BY <2>2 DEF Progress
      <4>3. \A t \in Tables : t < NumTables \/ t = NumTables
        BY TableNumbers, RefinementAssumption
      <4> QED BY <4>1, <4>2, <4>3
    <3>2. \A t \in Tables : (t \in produced[r] <=> Published(r, t)) /\ (t \in produced[r] => Landed(r, t))
      BY DEF Progress
    <3>3. \A t \in failures[r] : t \in Tables /\ ~Published(r, t)
      BY <3>2 DEF Progress, TypeOK
    <3>4. produced[r] \subseteq Tables
      BY DEF TypeOK
    <3> QED BY <2>2, <3>1, <3>2, <3>3, <3>4 DEF Outcome, Done
  <2> QED BY <2>1, <2>2 DEF Progress
<1> QED BY <1>1, ProgressHolds, RefinementTypes, PTL

-----------------------------------------------------------------------------
(* Runs one at a time: rows and tolerance.                                   *)

OneInFlight == \A r, s \in Runs : InFlight(r) /\ InFlight(s) => r = s

Mine(r, t) == {p \in quarantine[t] : p.run = r}

BeforeInsert == {"new", "started", "ingest", "landed", "silver", "counted", "next"}
AfterInsert == {"quarantined", "judged", "published", "refined", "gold"}

\* What a run has put into quarantine, published and counted of the table it is
\* at, in terms of the bronze it reads: nothing of it changes under the run.
Ledger(r) ==
    /\ at[r] \in BeforeInsert => \A t \in Tables : t >= table[r] => Mine(r, t) = {}
    /\ at[r] \in AfterInsert => /\ Mine(r, table[r]) = HeldBack(r, table[r])
                                /\ \A t \in Tables : t > table[r] => Mine(r, t) = {}
    /\ at[r] \in {"published", "refined", "gold"} => silver[table[r]] = Clean(table[r])
    /\ at[r] \in {"counted", "quarantined", "judged"} => total[r] = Cardinality(bronze[table[r]])
    /\ at[r] = "judged" => /\ ~Breached(total[r], rejected[r])
                           /\ Cardinality(Caught(table[r])) <= rejected[r]

Ledgers == OneInFlight /\ \A r \in Runs : Ledger(r)

LEMMA StepsInFlight == ASSUME NEW r \in Runs, RunStep(r), ~StartRun(r) PROVE InFlight(r)
  BY DEF RunStep, InFlight, OpenIngest, Refine, OpenSilver, CountBronze, InsertRejected, CountRejected,
     Refuse, Publish, CloseSilver, SilverFails, OpenGold, BuildGoldTable, GoldFails, CloseRun, Die,
     Land, IngestFails, Advance, Goes

LEMMA OneInFlightStays ==
  ASSUME ~Overlapping, TypeOK, OneInFlight, NEW r \in Runs, RunStep(r)
  PROVE  OneInFlight'
<1>1. \A s \in Runs : s # r => (InFlight(s)' <=> InFlight(s))
  BY OthersAlone DEF Alone, InFlight
<1>2. \A s \in Runs : s # r => ~InFlight(s)
  <2>1. CASE StartRun(r)
    BY <2>1 DEF StartRun
  <2>2. CASE ~StartRun(r)
    BY <2>2, StepsInFlight DEF OneInFlight
  <2> QED BY <2>1, <2>2
<1> QED BY <1>1, <1>2 DEF OneInFlight

\* Only the insertion of rejected rows changes a quarantine table, and it adds
\* rows of its own run.
LEMMA QuarantineGrows ==
  ASSUME TypeOK, NEW r \in Runs, RunStep(r)
  PROVE  \/ quarantine' = quarantine
         \/ InsertRejected(r)
  BY DEF RunStep, OpenIngest, Refine, OpenSilver, CountBronze, InsertRejected, CountRejected,
     Refuse, Publish, CloseSilver, SilverFails, OpenGold, BuildGoldTable, GoldFails, CloseRun, Die,
     Land, IngestFails, StartRun

LEMMA InsertRejectedMine ==
  ASSUME TypeOK, NEW r \in Runs, InsertRejected(r), NEW s \in Runs, NEW t \in Tables
  PROVE  Mine(s, t)' = IF s = r /\ t = table[r] THEN Mine(s, t) \cup HeldBack(r, t) ELSE Mine(s, t)
<1>1. quarantine'[t] = IF t = table[r] THEN quarantine[t] \cup HeldBack(r, t) ELSE quarantine[t]
  BY DEF InsertRejected, Inserted, TypeOK
<1>2. \A p \in HeldBack(r, t) : p.run = r
  BY DEF HeldBack
<1> QED BY <1>1, <1>2 DEF Mine

LEMMA OthersLedger ==
  ASSUME TypeOK, OneInFlight, NEW r \in Runs, RunStep(r), NEW s \in Runs, s # r, Ledger(s)
  PROVE  Ledger(s)'
<1>1. at'[s] = at[s] /\ table'[s] = table[s]
  BY OthersAlone DEF Alone
<1>2. \A t \in Tables : Mine(s, t)' = Mine(s, t)
  BY QuarantineGrows, InsertRejectedMine DEF Mine
<1>3. CASE StartRun(r)
  <2>1. bronze' = bronze /\ silver' = silver /\ total' = total /\ rejected' = rejected
    BY <1>3 DEF StartRun
  <2>2. table[s] \in Tables
    BY DEF TypeOK
  <2> QED BY <1>1, <1>2, <2>1, <2>2 DEF Ledger, HeldBack, Caught, Clean, AfterInsert
<1>4. CASE ~StartRun(r)
  <2>1. at[s] \in {"new", "closed", "dead"}
    BY <1>4, StepsInFlight DEF OneInFlight, InFlight
  <2> QED BY <1>1, <1>2, <2>1 DEF Ledger, BeforeInsert, AfterInsert
<1> QED BY <1>3, <1>4

\* On to the next table, of which the run has held nothing back.
LEMMA AdvanceLedger ==
  ASSUME TypeOK, NEW r \in Runs, Ledger(r), NEW from \in BeforeInsert \cup AfterInsert, Advance(r, from),
         quarantine' = quarantine
  PROVE  Ledger(r)'
<1>1. table[r] \in Nat /\ \A t \in Tables : t \in Nat
  BY TableNumbers DEF TypeOK
<1>2. \A t \in Tables : Mine(r, t)' = Mine(r, t)
  BY DEF Mine
<1>3. \A t \in Tables : t > table[r] => Mine(r, t) = {}
  BY <1>1, AdvanceMoves DEF Ledger
<1>4. CASE at'[r] = "closing"
  BY <1>4 DEF Ledger, BeforeInsert, AfterInsert
<1>5. CASE at'[r] = "next" /\ table'[r] = table[r] + 1
  <2>1. \A t \in Tables : t >= table'[r] => Mine(r, t)' = {}
    BY <1>1, <1>2, <1>3, <1>5
  <2> QED BY <1>5, <2>1 DEF Ledger, BeforeInsert, AfterInsert
<1> QED BY <1>4, <1>5, AdvanceMoves

\* Steps that leave bronze, silver and quarantine alone.
LEMMA QuietLedger ==
  ASSUME TypeOK, NEW r \in Runs, Ledger(r),
         bronze' = bronze, silver' = silver, quarantine' = quarantine, table'[r] = table[r],
         \/ at[r] \in BeforeInsert /\ at'[r] \in BeforeInsert \ {"counted"}
         \/ at[r] \in {"published", "refined"} /\ at'[r] \in {"refined", "gold"}
         \/ at'[r] \in {"closing", "closed", "dead"}
  PROVE  Ledger(r)'
  BY DEF TypeOK, Ledger, BeforeInsert, AfterInsert, Mine, HeldBack, Caught, Clean

LEMMA JudgedLedger ==
  ASSUME Typed, NEW r \in Runs, Ledger(r), CountRejected(r)
  PROVE  Ledger(r)'
<1> DEFINE t == table[r]
           found == IF t \in Ruled THEN Cardinality(quarantine[t]) ELSE 0
<1>1. /\ at[r] = "quarantined" /\ at'[r] = "judged" /\ table' = table /\ total' = total
      /\ rejected'[r] = found /\ ~Breached(total[r], found)
      /\ bronze' = bronze /\ silver' = silver /\ quarantine' = quarantine /\ t \in Tables
  BY DEF CountRejected, Goes, Typed, TypeOK
<1>2. Mine(r, t) = HeldBack(r, t) /\ total[r] = Cardinality(bronze[t])
  BY <1>1 DEF Ledger, AfterInsert
<1>3. Cardinality(Caught(t)) <= found
  <2>1. CASE t \in Ruled
    <3>1. HeldBack(r, t) \subseteq quarantine[t] /\ IsFiniteSet(quarantine[t])
      BY <1>1, <1>2 DEF Mine, Typed
    <3>2. Cardinality(HeldBack(r, t)) <= Cardinality(quarantine[t])
      BY <3>1, FS_Subset
    <3> QED BY <1>1, <2>1, <3>2, HeldBackCounts DEF Typed
  <2>2. CASE t \notin Ruled
    BY <2>2, FS_EmptySet DEF Caught
  <2> QED BY <2>1, <2>2
<1>4. /\ \A u \in Tables : Mine(r, u)' = Mine(r, u) /\ HeldBack(r, u)' = HeldBack(r, u)
      /\ Caught(t)' = Caught(t)
  BY <1>1 DEF Mine, HeldBack, Caught
<1>5. Breached(total[r], found)' = Breached(total[r], found)
  BY <1>1 DEF Breached
<1> HIDE DEF found
<1>6. ~Breached(total'[r], rejected'[r])
  BY <1>1 DEF Breached
<1> QED BY <1>1, <1>2, <1>3, <1>4, <1>6 DEF Ledger, BeforeInsert, AfterInsert

LEMMA OwnLedger ==
  ASSUME Typed, NEW r \in Runs, Ledger(r), RunStep(r)
  PROVE  Ledger(r)'
<1>1. TypeOK /\ table[r] \in Tables
  BY DEF Typed, TypeOK
<1>2. CASE StartRun(r) \/ OpenIngest(r) \/ CloseRun(r) \/ Die(r) \/ OpenSilver(r)
  BY <1>1, <1>2, QuietLedger
     DEF StartRun, OpenIngest, CloseRun, Die, OpenSilver, Goes, TypeOK, BeforeInsert
<1>3. ASSUME NEW rows \in SUBSET Rows, NEW outcome \in {"succeeded", "skipped"}, Land(r, rows, outcome)
      PROVE  Ledger(r)'
  BY <1>1, <1>3 DEF Land, Goes, TypeOK, Ledger, BeforeInsert, AfterInsert, Mine
<1>4. ASSUME NEW rows \in SUBSET Rows, IngestFails(r, rows) PROVE Ledger(r)'
  BY <1>1, <1>4, AdvanceLedger DEF IngestFails, BeforeInsert
<1>5. CASE CountBronze(r)
  <2>1. /\ at[r] = "silver" /\ at'[r] = "counted" /\ table' = table /\ bronze' = bronze
        /\ quarantine' = quarantine /\ total'[r] = Cardinality(bronze[table[r]])
    BY <1>1, <1>5 DEF CountBronze, Goes, TypeOK
  <2> QED BY <1>1, <2>1 DEF Ledger, BeforeInsert, AfterInsert, Mine
<1>6. CASE InsertRejected(r)
  <2>1. /\ at[r] = "counted" /\ at'[r] = "quarantined" /\ table' = table /\ bronze' = bronze
        /\ total' = total
    BY <1>1, <1>6 DEF InsertRejected, Goes, TypeOK
  <2>2. \A t \in Tables : t >= table[r] => Mine(r, t) = {}
    BY <2>1 DEF Ledger, BeforeInsert
  <2>3. Mine(r, table[r])' = HeldBack(r, table[r])
    <3>1. Mine(r, table[r]) = {}
      BY <1>1, <2>2, TableNumbers
    <3>2. \A t \in Tables : t = table[r] => Mine(r, t)' = HeldBack(r, t)
      BY <1>1, <1>6, <3>1, InsertRejectedMine
    <3>3. Mine(r, table[r])' = {p \in quarantine'[table[r]] : p.run = r}
      BY <2>1 DEF Mine
    <3> QED BY <1>1, <3>2, <3>3 DEF Mine
  <2>4. \A t \in Tables : t > table[r] => Mine(r, t)' = {}
    BY <1>1, <1>6, <2>2, InsertRejectedMine, TableNumbers
  <2>5. HeldBack(r, table[r])' = HeldBack(r, table[r])
    BY <2>1 DEF HeldBack, Caught
  <2> QED BY <2>1, <2>3, <2>4, <2>5, <1>1 DEF Ledger, BeforeInsert, AfterInsert
<1>7. CASE CountRejected(r)
  BY <1>7, JudgedLedger
<1>8. CASE Refuse(r)
  BY <1>1, <1>8, AdvanceLedger DEF Refuse, AfterInsert
<1>9. CASE Publish(r)
  <2>1. /\ at[r] = "judged" /\ at'[r] = "published" /\ table' = table /\ bronze' = bronze
        /\ quarantine' = quarantine /\ silver'[table[r]] = Clean(table[r])
    BY <1>1, <1>9 DEF Publish, Goes, TypeOK
  <2> QED BY <1>1, <2>1 DEF Ledger, BeforeInsert, AfterInsert, Mine, HeldBack, Caught, Clean
<1>10. CASE CloseSilver(r)
  <2>1. CASE r \in WithGold
    BY <1>1, <1>10, <2>1, QuietLedger DEF CloseSilver, TypeOK
  <2>2. CASE r \notin WithGold
    BY <1>1, <1>10, <2>2, AdvanceLedger DEF CloseSilver, AfterInsert
  <2> QED BY <2>1, <2>2
<1>11. CASE SilverFails(r)
  BY <1>1, <1>11, AdvanceLedger DEF SilverFails, BeforeInsert, AfterInsert
<1>12. CASE OpenGold(r)
  <2>1. CASE table[r] \in Facts
    BY <1>1, <1>12, <2>1, QuietLedger DEF OpenGold, Goes, TypeOK
  <2>2. CASE table[r] \notin Facts
    BY <1>1, <1>12, <2>2, AdvanceLedger DEF OpenGold, AfterInsert
  <2> QED BY <2>1, <2>2
<1>13. CASE BuildGoldTable(r) \/ GoldFails(r)
  BY <1>1, <1>13, AdvanceLedger DEF BuildGoldTable, GoldFails, AfterInsert
<1> QED BY <1>2, <1>3, <1>4, <1>5, <1>6, <1>7, <1>8, <1>9, <1>10, <1>11, <1>12, <1>13
     DEF RunStep, Refine

LEMMA LedgersHold == ASSUME ~Overlapping PROVE Spec => []Ledgers
<1>1. Init => Ledgers
  BY DEF Init, Ledgers, OneInFlight, InFlight, Ledger, BeforeInsert, AfterInsert, Mine
<1>2. Typed /\ Ledgers /\ [Next]_vars => Ledgers'
  <2> SUFFICES ASSUME Typed, Ledgers, [Next]_vars PROVE Ledgers'
    OBVIOUS
  <2>1. CASE UNCHANGED vars
    BY <2>1 DEF vars, Ledgers, OneInFlight, InFlight, Ledger, Mine, HeldBack, Caught, Clean, Breached
  <2>2. ASSUME NEW r \in Runs, RunStep(r) PROVE Ledgers'
    <3>1. OneInFlight' /\ Ledger(r)'
      BY <2>2, OneInFlightStays, OwnLedger DEF Ledgers, Typed
    <3>2. \A s \in Runs : s # r => Ledger(s)'
      BY <2>2, OthersLedger DEF Ledgers, Typed
    <3> QED BY <3>1, <3>2 DEF Ledgers
  <2> QED BY <2>1, <2>2, StepOfRun
<1> QED BY <1>1, <1>2, TypesHold, PTL DEF Spec

\* When runs do not overlap, every row of a table that was just published is in
\* silver or held back under this run, and none is in both.
THEOREM RowsHold == ASSUME ~Overlapping PROVE Spec => []RowsAccountedFor
<1>1. TypeOK /\ Ledgers => RowsAccountedFor
  <2> SUFFICES ASSUME TypeOK, NEW r \in Runs, Ledger(r), at[r] \in {"published", "refined", "gold"}
               PROVE  /\ bronze[table[r]] = silver[table[r]] \cup HeldBy(r, table[r])
                      /\ silver[table[r]] \cap HeldBy(r, table[r]) = {}
    BY DEF Ledgers, RowsAccountedFor
  <2>1. Mine(r, table[r]) = HeldBack(r, table[r]) /\ silver[table[r]] = Clean(table[r])
    BY DEF Ledger, AfterInsert
  <2>2. HeldBy(r, table[r]) = Caught(table[r])
    <3>1. HeldBy(r, table[r]) = {q.row : q \in HeldBack(r, table[r])}
      BY <2>1 DEF HeldBy, Mine
    <3>2. \A q \in HeldBack(r, table[r]) : q.row \in Caught(table[r])
      BY DEF HeldBack
    <3>3. ASSUME NEW x \in Caught(table[r])
          PROVE  \E q \in HeldBack(r, table[r]) : q.row = x
      <4>1. [row |-> x, run |-> r] \in HeldBack(r, table[r])
        BY DEF HeldBack
      <4> QED BY <4>1
    <3> QED BY <3>1, <3>2, <3>3
  <2>3. Caught(table[r]) \subseteq bronze[table[r]]
    BY CaughtRows DEF TypeOK
  <2> QED BY <2>1, <2>2, <2>3 DEF Clean
<1> QED BY <1>1, LedgersHold, RefinementTypes, PTL

\* When runs do not overlap, silver is replaced only from a bronze whose own
\* rejected rows are within the tolerance.
THEOREM NoPartialLoad == ASSUME ~Overlapping PROVE Spec => NoPartialLoadPublished
<1>1. Typed /\ Ledgers /\ [Next]_vars =>
          [\A t \in Tables : silver'[t] # silver[t] =>
               ~Breached(Cardinality(bronze[t]), Cardinality(Caught(t)))]_vars
  <2> SUFFICES ASSUME Typed, Ledgers, NEW r \in Runs, RunStep(r),
                      NEW t \in Tables, silver'[t] # silver[t]
               PROVE  ~Breached(Cardinality(bronze[t]), Cardinality(Caught(t)))
    BY StepOfRun
  <2>1. Publish(r)
    BY DEF RunStep, OpenIngest, Refine, OpenSilver, CountBronze, InsertRejected, CountRejected,
       Refuse, Publish, CloseSilver, SilverFails, OpenGold, BuildGoldTable, GoldFails, CloseRun, Die,
       Land, IngestFails, StartRun
  <2>2. t = table[r] /\ at[r] = "judged"
    BY <2>1 DEF Publish, Goes, Typed, TypeOK
  <2>3. /\ total[r] = Cardinality(bronze[t]) /\ ~Breached(total[r], rejected[r])
        /\ Cardinality(Caught(t)) <= rejected[r]
    BY <2>2 DEF Ledgers, Ledger
  <2>4. /\ Cardinality(bronze[t]) \in Nat /\ Cardinality(Caught(t)) \in Nat /\ rejected[r] \in Nat
        /\ MaxPercent \in Nat /\ MinRows \in Nat
    BY RowsFinite, CaughtRows, RefinementAssumption DEF Typed, TypeOK
  <2>5. ASSUME NEW all \in Nat, NEW bad \in Nat, NEW found \in Nat, bad <= found,
               ~Breached(all, found)
        PROVE  ~Breached(all, bad)
    <3>1. PICK limit \in Int : limit = MaxPercent * all
      BY <2>4
    <3> QED BY <2>4, <2>5, <3>1 DEF Breached
  <2> QED BY <2>3, <2>4, <2>5
<1> QED BY <1>1, LedgersHold, TypesHold, PTL DEF Spec, NoPartialLoadPublished
=============================================================================

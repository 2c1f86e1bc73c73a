-------------------------- MODULE FileLedgerProofs --------------------------
(***************************************************************************)
(* Proofs about FileLedger, for any number of versions and of failures.    *)
(***************************************************************************)
EXTENDS FileLedger, TLAPS

\* Versions do not come back, and no two of them share a marker.
VersionsDiffer ==
    /\ Returns = FALSE
    /\ \A u, v \in Versions : Marker[u] = Marker[v] /\ Marker[u] # Blank => u = v

\* When a skip can be trusted: moreover the last row is read last, and a load
\* that could not ask for the marker does not fail.
Trusted == VersionsDiffer /\ InOrder = TRUE /\ BlindMayFail = FALSE

\* The present version has a row in the ledger.
Landed == Marker[content] # Blank /\ Marker[content] \in ledger

\* What the run holds fits its phase: a row of the ledger, if there is any.
PhaseOK ==
    /\ pc \in {"idle", "loaded"} => seen = NoMarker
    /\ known \in ledger \cup {NoMarker}
    /\ pc = "loaded" /\ ledger # {} => known \in ledger

\* Nothing is known yet of a version that is still to come.
FutureOK ==
    \A v \in Versions :
        v > content /\ Marker[v] # Blank => Marker[v] \notin ledger \cup {seen}

\* Once the present version is recorded it is the newest, and a run knows.
NewestOK ==
    Landed => /\ newest = Marker[content]
              /\ pc = "loaded" => known = Marker[content]
              /\ pc \notin {"idle", "loaded"} => seen = NoMarker

\* What holds in any order, and what only holds of rows in theirs.
LedgerInv == TypeOK /\ PhaseOK /\ (InOrder => FutureOK /\ NewestOK)

\* Once the present version is recorded, only a blind load touches bronze.
LandedOK ==
    Landed => /\ pc = "reading" => bronze.ver = content
              /\ pc \notin {"opened", "reading"} => bronze = Whole(content)

\* A run that holds the marker of the present version read that version.
SeenOK ==
    Marker[content] # Blank /\ seen = Marker[content]
        => /\ pc = "reading" => bronze.ver = content
           /\ pc = "written" => bronze = Whole(content)

IInv == LedgerInv /\ LandedOK /\ SeenOK

-----------------------------------------------------------------------------
LEMMA TypeInit == Init => TypeOK
<1>1. 1 \in Versions /\ 0 \in 0..MaxFailures
    BY MarkerAssumption, ModeAssumption DEF Versions
<1> QED
    BY <1>1 DEF Init, TypeOK, Empty, Part, Steps

LEMMA TypeStep == TypeOK /\ [Next]_vars => TypeOK'
<1> SUFFICES ASSUME TypeOK, [Next]_vars
             PROVE  TypeOK'
    OBVIOUS
<1>m. \A v \in Versions : Marker[v] \in Markers
    BY DEF Markers
<1>n. NoMarker \notin ledger
    BY MarkerAssumption DEF TypeOK
<1>1. CASE UNCHANGED vars
    BY <1>1 DEF TypeOK, vars
<1>2. CASE Load
    BY <1>2 DEF Load, KnownEtags, TypeOK, Steps
<1>3. CASE Skip
    BY <1>3 DEF Skip, TypeOK, Steps
<1>4. CASE PlanFile
    BY <1>4, <1>m DEF PlanFile, TypeOK, Steps
<1>5. CASE PlanBlind
    BY <1>5 DEF PlanBlind, TypeOK, Steps
<1>6. CASE Open
    BY <1>6 DEF Open, TypeOK, Steps, Empty, Part
<1>7. CASE Read
    BY <1>7 DEF Read, TypeOK, Steps, Part
<1>8. CASE Finish
  <2>1. Whole(bronze.ver) \in [ver : Versions \cup {0}, whole : BOOLEAN]
    BY DEF TypeOK, Whole
  <2>2. bronze' = Whole(bronze.ver) \/ bronze' = bronze
    BY <1>8 DEF Finish
  <2> QED
    BY <1>8, <2>1, <2>2 DEF Finish, TypeOK, Steps
<1>9. CASE Commit
    BY <1>9 DEF Commit, Recorded, TypeOK, Steps
<1>10. CASE Fail
    BY <1>10, ModeAssumption DEF Fail, TypeOK, Steps
<1>11. ASSUME NEW v \in Versions, Replace(v)
       PROVE  TypeOK'
    BY <1>11 DEF Replace, TypeOK
<1> QED
    BY <1>1, <1>2, <1>3, <1>4, <1>5, <1>6, <1>7, <1>8, <1>9, <1>10, <1>11 DEF Next, RunStep

\* The run and the ledger keep their types, whatever the store and the
\* database do: the row known_file_etags returns is one of the ledger.
THEOREM TypeCorrect == Spec => []TypeOK
<1> QED
    BY TypeInit, TypeStep, PTL DEF Spec

-----------------------------------------------------------------------------
\* No step ruins what the ledger says of the versions.
LEMMA LedgerStep ==
    ASSUME InOrder => VersionsDiffer, LedgerInv, [Next]_vars
    PROVE  LedgerInv'
<1> USE DEF LedgerInv
<1>t. TypeOK'
    BY TypeStep
<1>n. /\ NoMarker \notin Markers
      /\ \A v \in Versions : Marker[v] \in Markers /\ v \in Int
    BY MarkerAssumption DEF Markers, Versions
<1>c. content \in Versions
    BY DEF TypeOK
<1>1. CASE UNCHANGED vars
    BY <1>1, <1>t DEF vars, PhaseOK, FutureOK, NewestOK, Landed
<1>2. CASE Load
    BY <1>2, <1>t, <1>n, <1>c DEF Load, KnownEtags, TypeOK, PhaseOK, FutureOK, NewestOK, Landed
<1>3. CASE Skip
    BY <1>3, <1>t, <1>n, <1>c DEF Skip, PhaseOK, FutureOK, NewestOK, Landed
<1>4. CASE PlanFile
  <2>1. PhaseOK'
    BY <1>4 DEF PlanFile, PhaseOK
  <2>2. ASSUME InOrder
        PROVE  FutureOK' /\ NewestOK'
    <3>1. ~Landed
        BY <1>4, <1>n, <1>c, <2>2 DEF PlanFile, Unchanged, NewestOK, Landed
    <3>2. FutureOK'
        BY <1>4, <1>n, <1>c, <2>2 DEF PlanFile, FutureOK, VersionsDiffer
    <3> QED
        BY <1>4, <3>1, <3>2 DEF PlanFile, NewestOK, Landed
  <2> QED
    BY <1>t, <2>1, <2>2
<1>5. CASE PlanBlind
    BY <1>5, <1>t, <1>n, <1>c DEF PlanBlind, TypeOK, PhaseOK, FutureOK, NewestOK, Landed
<1>6. CASE Open
    BY <1>6, <1>t, <1>n, <1>c DEF Open, TypeOK, PhaseOK, FutureOK, NewestOK, Landed
<1>7. CASE Read
    BY <1>7, <1>t, <1>n, <1>c DEF Read, TypeOK, PhaseOK, FutureOK, NewestOK, Landed
<1>8. CASE Finish
    BY <1>8, <1>t, <1>n, <1>c DEF Finish, TypeOK, PhaseOK, FutureOK, NewestOK, Landed
<1>9. CASE Commit
    BY <1>9, <1>t, <1>n, <1>c DEF Commit, Recorded, TypeOK, PhaseOK, FutureOK, NewestOK, Landed
<1>10. CASE Fail
    BY <1>10, <1>t, <1>n, <1>c DEF Fail, TypeOK, PhaseOK, FutureOK, NewestOK, Landed
<1>11. ASSUME NEW v \in Versions, Replace(v)
       PROVE  LedgerInv'
  <2>1. PhaseOK'
    BY <1>11 DEF Replace, PhaseOK
  <2>2. ASSUME InOrder
        PROVE  FutureOK' /\ NewestOK'
    <3>1. content' = v /\ v > content
        BY <1>11, <2>2 DEF Replace, VersionsDiffer
    <3>2. ~Landed' /\ FutureOK'
        BY <1>11, <1>n, <1>c, <2>2, <3>1 DEF Replace, FutureOK, Landed
    <3> QED
        BY <3>2 DEF NewestOK
  <2> QED
    BY <1>t, <2>1, <2>2
<1> QED
    BY <1>1, <1>2, <1>3, <1>4, <1>5, <1>6, <1>7, <1>8, <1>9, <1>10, <1>11 DEF Next, RunStep

\* Nor what it says of bronze.
LEMMA InvStep ==
    ASSUME Trusted, IInv, [Next]_vars
    PROVE  IInv'
<1> USE DEF IInv, LedgerInv
<1>t. LedgerInv' /\ InOrder
    BY LedgerStep DEF Trusted
<1>n. /\ NoMarker \notin Markers
      /\ \A v \in Versions : Marker[v] \in Markers /\ v \in Int
    BY MarkerAssumption DEF Markers, Versions
<1>c. content \in Versions
    BY DEF TypeOK
<1>1. CASE UNCHANGED vars
    BY <1>1, <1>t DEF vars, LandedOK, Landed, SeenOK
<1>2. CASE Load
    BY <1>2, <1>t DEF Load, LandedOK, Landed, SeenOK
<1>3. CASE Skip
    BY <1>3, <1>t DEF Skip, LandedOK, Landed, SeenOK
<1>4. CASE PlanFile
  <2>1. ~Landed
    BY <1>4, <1>t, <1>n, <1>c DEF PlanFile, Unchanged, NewestOK, Landed
  <2> QED
    BY <1>4, <1>t, <2>1 DEF PlanFile, LandedOK, Landed, SeenOK
<1>5. CASE PlanBlind
    BY <1>5, <1>t, <1>n, <1>c DEF PlanBlind, TypeOK, LandedOK, Landed, SeenOK
<1>6. CASE Open
    BY <1>6, <1>t, <1>n, <1>c DEF Open, TypeOK, LandedOK, Landed, SeenOK
<1>7. CASE Read
    BY <1>7, <1>t, <1>n, <1>c DEF Read, Part, TypeOK, LandedOK, Landed, SeenOK
<1>8. CASE Finish
    BY <1>8, <1>t, <1>n, <1>c DEF Finish, Whole, TypeOK, LandedOK, Landed, SeenOK
<1>9. CASE Commit
    BY <1>9, <1>t, <1>n, <1>c DEF Commit, Recorded, TypeOK, PhaseOK, NewestOK, LandedOK, Landed, SeenOK
<1>10. CASE Fail
    BY <1>10, <1>t, <1>n, <1>c DEF Fail, Trusted, TypeOK, PhaseOK, NewestOK, LandedOK, Landed, SeenOK
<1>11. ASSUME NEW v \in Versions, Replace(v)
       PROVE  IInv'
  <2>1. content' = v /\ v > content
    BY <1>11 DEF Replace, Trusted, VersionsDiffer
  <2>2. ~Landed' /\ ~(Marker[v] # Blank /\ seen' = Marker[v])
    BY <1>11, <1>t, <2>1 DEF Replace, FutureOK, Landed
  <2> QED
    BY <1>11, <1>t, <2>1, <2>2 DEF Replace, LandedOK, SeenOK
<1> QED
    BY <1>1, <1>2, <1>3, <1>4, <1>5, <1>6, <1>7, <1>8, <1>9, <1>10, <1>11 DEF Next, RunStep

LEMMA InvInit == Init => IInv
<1> SUFFICES ASSUME Init
             PROVE  IInv
    OBVIOUS
<1>1. \A v \in Versions : Marker[v] # NoMarker
    BY MarkerAssumption DEF Markers
<1>2. 1 \in Versions
    BY MarkerAssumption DEF Versions
<1> QED
    BY <1>1, <1>2, TypeInit
    DEF Init, IInv, LedgerInv, PhaseOK, FutureOK, NewestOK, LandedOK, Landed, SeenOK

\* A run that skips its file leaves bronze with all of the present version: the
\* etag it compares was taken before the bytes of that etag were read.  Assumed
\* are a database that returns rows in their order and blind loads that do not
\* fail; without either the statement is false of the code.
THEOREM SkippedIsCurrent ==
    ASSUME Trusted
    PROVE  Spec => SkipIsSafe
<1>1. IInv /\ [Next]_vars => IInv'
    BY InvStep
<1>2. IInv => [Skip => bronze = Whole(content)]_vars
    <2> SUFFICES ASSUME IInv, Skip
                 PROVE  bronze = Whole(content)
        OBVIOUS
    <2>1. Landed
        BY DEF Skip, Unchanged, IInv, LedgerInv, PhaseOK, Landed
    <2> QED
        BY <2>1 DEF Skip, IInv, LandedOK
<1> QED
    BY <1>1, <1>2, InvInit, PTL DEF Spec, SkipIsSafe

\* A version that is in the ledger is only downloaded again where rows come in
\* another order than they were inserted and an earlier version has a row; of a
\* database that returns rows in any order nothing is assumed, and of the store
\* only where they come in their order.
THEOREM LandedIsNotReread ==
    ASSUME InOrder => VersionsDiffer
    PROVE  Spec => NoReread
<1>1. LedgerInv /\ [Next]_vars => LedgerInv'
    BY LedgerStep
<1>2. Init => LedgerInv
    BY InvInit DEF IInv
<1>3. LedgerInv => [PlanFile /\ Marker[content] \in ledger \ {Blank}
                        => ~InOrder /\ ledger # {Marker[content]}]_vars
    <2> SUFFICES ASSUME LedgerInv, PlanFile, Landed
                 PROVE  ~InOrder /\ ledger # {Marker[content]}
        BY DEF Landed
    <2>1. known \in ledger /\ known \in Markers
        BY DEF LedgerInv, TypeOK, PhaseOK, PlanFile, Landed
    <2>2. known # Marker[content]
        BY <2>1, MarkerAssumption DEF PlanFile, Unchanged, Landed
    <2> QED
        BY <2>1, <2>2 DEF PlanFile, LedgerInv, NewestOK
<1> QED
    BY <1>1, <1>2, <1>3, PTL DEF Spec, NoReread
=============================================================================

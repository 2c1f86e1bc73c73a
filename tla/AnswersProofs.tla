---------------------------- MODULE AnswersProofs ---------------------------
(***************************************************************************)
(* Theorems about what the semantic layer answers and what a dashboard     *)
(* shows of it: a total survives the joins it is broken down along and the *)
(* folding of its smallest parts, personal data does not show, a headline  *)
(* compares the latest periods, what the tiles of a generated dashboard    *)
(* ask compiles, however they are drilled and filtered, and what is        *)
(* inferred as a key of a table is one in the silver table that is joined. *)
(***************************************************************************)
EXTENDS Inference, Dashboards, FiniteSetTheorems, WellFoundedInduction, TLAPS

-----------------------------------------------------------------------------
(* Numbers, and what is computed step by step.                               *)

\* A set of numbers that is not empty has a least one.
LEMMA LeastNumber ==
    ASSUME NEW T \in SUBSET Nat, T # {}
    PROVE  First(T) \in T /\ \A y \in T : First(T) <= y
<1>1. IsWellFoundedOn(OpToRel(<, Nat), Nat)
    BY NatLessThanWellFounded
<1>2. PICK x \in T : \A y \in T : ~(<<y, x>> \in OpToRel(<, Nat))
    BY <1>1, WFMin
<1>3. \A y \in T : ~(y < x)
    BY <1>2 DEF OpToRel
<1>4. \A y \in T : x <= y
    BY <1>3
<1> QED
    BY <1>4 DEF First

\* The first steps from init; each is what step makes of the one before.
Runs(S, init, step, n) ==
    {h \in [0..n -> S] : h[0] = init /\ \A k \in 1..n : h[k] = step[h[k - 1]]}

LEMMA RunsExist ==
    ASSUME NEW S, NEW init \in S, NEW step \in [S -> S], NEW n \in Nat
    PROVE  Runs(S, init, step, n) # {}
<1> DEFINE missing == {m \in Nat : Runs(S, init, step, m) = {}}
<1> SUFFICES ASSUME missing # {} PROVE FALSE
    OBVIOUS
<1> DEFINE m == First(missing)
<1>1. m \in missing /\ \A k \in missing : m <= k
    <2>1. missing \in SUBSET Nat
        OBVIOUS
    <2> HIDE DEF missing
    <2> QED
        BY <2>1, LeastNumber
<1>2. m \in Nat /\ Runs(S, init, step, m) = {}
    BY <1>1
<1> HIDE DEF m
<1>3. CASE m = 0
    <2> DEFINE h == [k \in 0..0 |-> init]
    <2>1. h \in Runs(S, init, step, 0)
        BY DEF Runs
    <2> QED
        BY <1>2, <1>3, <2>1
<1>4. CASE m # 0
    <2>1. m - 1 \in Nat /\ m - 1 \notin missing
        BY <1>1, <1>2, <1>4 DEF m
    <2>2. PICK h \in Runs(S, init, step, m - 1) : TRUE
        BY <2>1
    <2>3. /\ h \in [0..(m - 1) -> S] /\ h[0] = init
          /\ \A k \in 1..(m - 1) : h[k] = step[h[k - 1]]
        BY <2>2 DEF Runs
    <2> DEFINE g == [k \in 0..m |-> IF k = m THEN step[h[m - 1]] ELSE h[k]]
    <2>4. h[m - 1] \in S
        BY <2>1, <2>3
    <2>5. g \in [0..m -> S]
        BY <1>2, <2>1, <2>3, <2>4
    <2>6. g[0] = init
        BY <1>2, <1>4, <2>3
    <2>7. ASSUME NEW k \in 1..m PROVE g[k] = step[g[k - 1]]
        <3>1. k - 1 \in 0..m /\ k - 1 # m /\ g[k - 1] = h[k - 1]
            BY <1>2
        <3>2. CASE k = m
            BY <1>2, <3>1, <3>2
        <3>3. CASE k # m
            BY <1>2, <2>3, <3>1, <3>3
        <3> QED
            BY <3>2, <3>3
    <2>8. g \in Runs(S, init, step, m)
        BY <2>5, <2>6, <2>7 DEF Runs
    <2> QED
        BY <1>2, <2>8
<1> QED
    BY <1>3, <1>4

\* Two runs agree as far as both go.
LEMMA RunsAgree ==
    ASSUME NEW S, NEW init \in S, NEW step \in [S -> S], NEW m \in Nat, NEW n \in Nat,
           NEW g \in Runs(S, init, step, m), NEW h \in Runs(S, init, step, n),
           NEW k \in 0..m, k <= n
    PROVE  g[k] = h[k]
<1> DEFINE apart == {i \in Nat : i <= m /\ i <= n /\ g[i] # h[i]}
<1> SUFFICES ASSUME apart # {} PROVE FALSE
    OBVIOUS
<1> DEFINE i == First(apart)
<1>1. i \in apart /\ \A j \in apart : i <= j
    <2>1. apart \in SUBSET Nat
        OBVIOUS
    <2> HIDE DEF apart
    <2> QED
        BY <2>1, LeastNumber
<1>2. i \in Nat /\ i <= m /\ i <= n /\ g[i] # h[i]
    BY <1>1
<1>3. i # 0
    BY <1>2 DEF Runs
<1>4. i - 1 \in Nat /\ i - 1 \notin apart
    BY <1>1, <1>2, <1>3
<1>5. g[i - 1] = h[i - 1]
    BY <1>2, <1>4
<1>6. i \in 1..m /\ i \in 1..n
    BY <1>2, <1>3
<1>7. g[i] = step[g[i - 1]] /\ h[i] = step[h[i - 1]]
    BY <1>6 DEF Runs
<1> QED
    BY <1>2, <1>5, <1>7

\* What is computed step by step from init exists, and stays within S.
LEMMA RunExists ==
    ASSUME NEW S, NEW init \in S, NEW step \in [S -> S]
    PROVE  \E g \in [Nat -> S] : g = [n \in Nat |-> IF n = 0 THEN init ELSE step[g[n - 1]]]
<1> DEFINE run(n) == CHOOSE h \in Runs(S, init, step, n) : TRUE
<1>1. \A n \in Nat : run(n) \in Runs(S, init, step, n)
    BY RunsExist
<1> HIDE DEF run
<1> DEFINE g == [n \in Nat |-> run(n)[n]]
<1>2. \A n \in Nat : run(n)[n] \in S
    BY <1>1 DEF Runs
<1>3. g \in [Nat -> S]
    BY <1>2
<1>4. ASSUME NEW n \in Nat PROVE g[n] = IF n = 0 THEN init ELSE step[g[n - 1]]
    <2>1. CASE n = 0
        BY <1>1, <2>1 DEF Runs
    <2>2. CASE n # 0
        <3>1. n - 1 \in Nat /\ n - 1 \in 0..(n - 1) /\ n - 1 <= n /\ n \in 1..n
            BY <2>2
        <3>2. run(n)[n] = step[run(n)[n - 1]]
            BY <1>1, <3>1 DEF Runs
        <3>3. run(n - 1)[n - 1] = run(n)[n - 1]
            BY <1>1, <3>1, RunsAgree
        <3> QED
            BY <2>2, <3>1, <3>2, <3>3
    <2> QED
        BY <2>1, <2>2
<1>5. g = [n \in Nat |-> IF n = 0 THEN init ELSE step[g[n - 1]]]
    BY <1>4
<1> QED
    BY <1>3, <1>5

-----------------------------------------------------------------------------
(* The search for joins.                                                     *)

JoinsOf(joins) == {joins[i] : i \in DOMAIN joins}
Meetable(joins, base) == {base} \cup {j.to : j \in JoinsOf(joins)}

\* A path goes from the base to the entity it is found for, one traversable
\* join after the other; each of its joins ends the path of the entity it
\* leads to.
PathOf(found, joins, base, e) ==
    /\ found[e] \in Seq(JoinsOf(joins))
    /\ e = base <=> found[e] = <<>>
    /\ e # base => found[e][Len(found[e])].to = e
    /\ \A k \in 1..Len(found[e]) :
          LET j == found[e][k]
          IN  /\ Traversable(j)
              /\ j.to \in DOMAIN found /\ j.to # base
              /\ Len(found[j.to]) = k /\ found[j.to][k] = j
              /\ IF k = 1 THEN j.from = base ELSE j.from = found[e][k - 1].to

\* Every entity the search has met has its path.
Paths(found, joins, base) ==
    /\ base \in DOMAIN found /\ DOMAIN found \in SUBSET Meetable(joins, base)
    /\ \A e \in DOMAIN found : PathOf(found, joins, base, e)

Maps(joins, base) == UNION {[D -> Seq(JoinsOf(joins))] : D \in SUBSET Meetable(joins, base)}

Searches(joins, base) ==
    {s \in [found : Maps(joins, base), queue : Seq(Meetable(joins, base)), next : Nat \ {0}] :
        /\ Paths(s.found, joins, base)
        /\ \A i \in DOMAIN s.queue : s.queue[i] \in DOMAIN s.found}

\* The join that leads to an entity not met yet gives it its path.
LEMMA NewPath ==
    ASSUME NEW joins, NEW base, NEW found \in Maps(joins, base),
           Paths(found, joins, base),
           NEW j \in JoinsOf(joins), j.from \in DOMAIN found, j.to \notin DOMAIN found,
           Traversable(j)
    PROVE  Extend(found, j) \in Maps(joins, base) /\ Paths(Extend(found, j), joins, base)
<1> DEFINE path == Append(found[j.from], j)
           after == [e \in DOMAIN found \cup {j.to} |-> IF e = j.to THEN path ELSE found[e]]
           J == JoinsOf(joins)
           l == Len(found[j.from])
<1>1. found[j.from] \in Seq(J) /\ l \in Nat
    BY DEF Paths, PathOf
<1>2. /\ path \in Seq(J) /\ Len(path) = l + 1 /\ path[l + 1] = j
      /\ \A k \in 1..l : path[k] = found[j.from][k]
    BY <1>1
<1> HIDE DEF path
<1>3. DOMAIN after = DOMAIN found \cup {j.to} /\ after[j.to] = path
    OBVIOUS
<1>4. \A e \in DOMAIN found : after[e] = found[e] /\ e # j.to
    OBVIOUS
<1>5. DOMAIN after \in SUBSET Meetable(joins, base) /\ base \in DOMAIN after /\ base # j.to
    BY DEF Paths, Meetable
<1>6. \A e \in DOMAIN after : after[e] \in Seq(J)
    BY <1>2 DEF Paths, PathOf
<1>7. after \in [DOMAIN after -> Seq(J)]
    BY <1>6
<1>8. after \in Maps(joins, base)
    BY <1>5, <1>7 DEF Maps
<1> HIDE DEF after
<1>9. ASSUME NEW e \in DOMAIN found PROVE PathOf(after, joins, base, e)
    <2>1. PathOf(found, joins, base, e)
        BY DEF Paths
    <2>2. \A k \in 1..Len(found[e]) : found[e][k].to \in DOMAIN found
        BY <2>1 DEF PathOf
    <2> QED
        BY <1>3, <1>4, <2>1, <2>2 DEF PathOf
<1>10. PathOf(after, joins, base, j.to)
    <2>1. PathOf(found, joins, base, j.from)
        BY DEF Paths
    <2>2. path # <<>>
        BY <1>1, <1>2
    <2>3. ASSUME NEW k \in 1..(l + 1)
          PROVE  /\ Traversable(path[k])
                 /\ path[k].to \in DOMAIN after /\ path[k].to # base
                 /\ Len(after[path[k].to]) = k /\ after[path[k].to][k] = path[k]
                 /\ IF k = 1 THEN path[k].from = base ELSE path[k].from = path[k - 1].to
        <3>1. CASE k = l + 1
            <4>1. path[k] = j
                BY <1>2, <3>1
            <4>2. CASE l = 0
                <5>1. found[j.from] = <<>>
                    BY <1>1, <4>2
                <5>2. j.from = base
                    BY <2>1, <5>1 DEF PathOf
                <5>3. k = 1
                    BY <3>1, <4>2
                <5> QED
                    BY <1>2, <1>3, <1>5, <3>1, <4>1, <5>2, <5>3
            <4>3. CASE l # 0
                <5>1. k # 1 /\ k - 1 = l /\ l \in 1..l
                    BY <1>1, <3>1, <4>3
                <5>2. found[j.from] # <<>>
                    BY <1>1, <4>3
                <5>3. found[j.from][l].to = j.from
                    BY <2>1, <5>2 DEF PathOf
                <5>4. path[k - 1].to = j.from
                    BY <1>2, <5>1, <5>3
                <5> QED
                    BY <1>2, <1>3, <1>5, <3>1, <4>1, <5>1, <5>4
            <4> QED
                BY <4>2, <4>3
        <3>2. CASE k # l + 1
            <4>1. k \in 1..l
                BY <1>1, <3>2
            <4>2. path[k] = found[j.from][k]
                BY <1>2, <4>1
            <4>3. k # 1 => path[k - 1] = found[j.from][k - 1]
                BY <1>1, <1>2, <4>1
            <4>4. path[k].to \in DOMAIN found
                BY <2>1, <4>1, <4>2 DEF PathOf
            <4>5. after[path[k].to] = found[path[k].to] /\ path[k].to \in DOMAIN after
                BY <1>3, <1>4, <4>4
            <4> QED
                BY <2>1, <4>1, <4>2, <4>3, <4>5 DEF PathOf
        <3> QED
            BY <3>1, <3>2
    <2> QED
        BY <1>2, <1>3, <1>5, <2>2, <2>3 DEF PathOf
<1>11. Paths(after, joins, base)
    BY <1>3, <1>5, <1>9, <1>10 DEF Paths
<1> QED
    BY <1>8, <1>11 DEF after, path, Extend

\* Looking at one join keeps the paths.
LEMMA LookKeepsPaths ==
    ASSUME NEW joins, IsSequence(joins), NEW base, NEW s \in Searches(joins, base)
    PROVE  Look(joins, s) \in Searches(joins, base)
<1>1. /\ s \in [found : Maps(joins, base), queue : Seq(Meetable(joins, base)), next : Nat \ {0}]
      /\ Paths(s.found, joins, base)
      /\ \A i \in DOMAIN s.queue : s.queue[i] \in DOMAIN s.found
    BY DEF Searches
<1>2. CASE s.queue = <<>>
    BY <1>2 DEF Look
<1>3. CASE s.queue # <<>> /\ s.next > Len(joins)
    <2> DEFINE after == [found |-> s.found, queue |-> Tail(s.queue), next |-> 1]
    <2>1. Tail(s.queue) \in Seq(Meetable(joins, base))
        BY <1>1, <1>3
    <2>2. \A i \in DOMAIN Tail(s.queue) : i + 1 \in DOMAIN s.queue /\ Tail(s.queue)[i] = s.queue[i + 1]
        BY <1>1, <1>3
    <2>3. after \in Searches(joins, base)
        BY <1>1, <2>1, <2>2 DEF Searches
    <2> QED
        BY <1>3, <2>3 DEF Look
<1>4. CASE s.queue # <<>> /\ ~(s.next > Len(joins))
    <2> DEFINE j == joins[s.next]
               new == j.from = Head(s.queue) /\ j.to \notin DOMAIN s.found /\ Traversable(j)
               more == Extend(s.found, j)
               after == [found |-> IF new THEN more ELSE s.found,
                         queue |-> IF new THEN Append(s.queue, j.to) ELSE s.queue,
                         next |-> s.next + 1]
    <2>1. Look(joins, s) = after
        BY <1>4 DEF Look
    <2>2. s.next \in DOMAIN joins /\ j \in JoinsOf(joins) /\ j.to \in Meetable(joins, base)
        BY <1>1, <1>4 DEF IsSequence, JoinsOf, Meetable
    <2>3. Head(s.queue) = s.queue[1] /\ 1 \in DOMAIN s.queue
        BY <1>1, <1>4
    <2>4. CASE new
        <3>1. j.from \in DOMAIN s.found
            BY <1>1, <2>3, <2>4
        <3>2. more \in Maps(joins, base) /\ Paths(more, joins, base)
            BY <1>1, <2>2, <2>4, <3>1, NewPath
        <3>3. DOMAIN more = DOMAIN s.found \cup {j.to}
            BY DEF Extend
        <3> HIDE DEF j, more
        <3>4. Append(s.queue, j.to) \in Seq(Meetable(joins, base))
            BY <1>1, <2>2
        <3>5. \A i \in DOMAIN Append(s.queue, j.to) : Append(s.queue, j.to)[i] \in DOMAIN more
            BY <1>1, <3>3
        <3>6. s.next + 1 \in Nat \ {0}
            BY <1>1
        <3>7. after = [found |-> more, queue |-> Append(s.queue, j.to), next |-> s.next + 1]
            BY <2>4
        <3> HIDE DEF after
        <3> DEFINE queue == Append(s.queue, j.to)
                   next == s.next + 1
        <3>8. /\ queue \in Seq(Meetable(joins, base)) /\ next \in Nat \ {0}
              /\ \A i \in DOMAIN queue : queue[i] \in DOMAIN more
              /\ after = [found |-> more, queue |-> queue, next |-> next]
            BY <3>4, <3>5, <3>6, <3>7
        <3> HIDE DEF queue, next
        <3>9. after \in Searches(joins, base)
            BY <3>2, <3>8 DEF Searches
        <3> QED
            BY <2>1, <3>9
    <2>5. CASE ~new
        <3>1. s.next + 1 \in Nat \ {0}
            BY <1>1
        <3>2. after = [found |-> s.found, queue |-> s.queue, next |-> s.next + 1]
            BY <2>5
        <3> HIDE DEF after
        <3> QED
            BY <1>1, <2>1, <3>1, <3>2 DEF Searches
    <2> QED
        BY <2>4, <2>5
<1> QED
    BY <1>2, <1>3, <1>4

\* The states of a search: it looks at one join after the other, keeps its
\* paths, and is over after its last look.
SearchStates(joins, base, g) ==
    /\ g[0] = SearchFrom(base)
    /\ \A n \in Nat : g[n] \in Searches(joins, base)
    /\ \A n \in Nat : n # 0 => g[n] = Look(joins, g[n - 1])
    /\ Searched(joins, base) = g[(Len(joins) + 1) * (Len(joins) + 1)]

LEMMA SearchRuns ==
    ASSUME NEW joins, IsSequence(joins), NEW base
    PROVE  \E g : SearchStates(joins, base, g)
<1> DEFINE S == Searches(joins, base)
           step == [s \in S |-> Look(joins, s)]
           init == SearchFrom(base)
           last == (Len(joins) + 1) * (Len(joins) + 1)
<1>1. init \in S
    <2> DEFINE f == [e \in {base} |-> <<>>]
    <2>1. f \in Maps(joins, base)
        <3>1. f \in [{base} -> Seq(JoinsOf(joins))] /\ {base} \in SUBSET Meetable(joins, base)
            BY DEF Meetable
        <3> QED
            BY <3>1 DEF Maps
    <2>2. Paths(f, joins, base)
        BY DEF Paths, PathOf, Meetable
    <2>3. <<base>> \in Seq(Meetable(joins, base)) /\ \A i \in DOMAIN <<base>> : <<base>>[i] \in DOMAIN f
        BY DEF Meetable
    <2> QED
        BY <2>1, <2>2, <2>3 DEF Searches, SearchFrom
<1>2. step \in [S -> S]
    BY LookKeepsPaths
<1> HIDE DEF init
<1>3. PICK g \in [Nat -> S] : g = [n \in Nat |-> IF n = 0 THEN init ELSE step[g[n - 1]]]
    <2> HIDE DEF S, step
    <2> QED
        BY <1>1, <1>2, RunExists
<1>4. g = [n \in Nat |-> IF n = 0 THEN init ELSE Look(joins, g[n - 1])]
    <2>1. \A n \in Nat : g[n] = IF n = 0 THEN init ELSE step[g[n - 1]]
        BY <1>3
    <2>2. \A n \in Nat : n # 0 => g[n - 1] \in S
        BY <1>3
    <2>3. \A n \in Nat : g[n] = IF n = 0 THEN init ELSE Look(joins, g[n - 1])
        BY <2>1, <2>2
    <2> QED
        BY <1>3, <2>3
<1> DEFINE after == CHOOSE h : h = [n \in Nat |-> IF n = 0 THEN init ELSE Look(joins, h[n - 1])]
<1>5. after = [n \in Nat |-> IF n = 0 THEN init ELSE Look(joins, after[n - 1])]
    BY <1>4
<1>6. \A n \in Nat : after[n] \in S
    <2> DEFINE out == {n \in Nat : after[n] \notin S}
    <2> SUFFICES ASSUME out # {} PROVE FALSE
        OBVIOUS
    <2> DEFINE n == First(out)
    <2>1. n \in out /\ \A m \in out : n <= m
        <3>1. out \in SUBSET Nat
            OBVIOUS
        <3> HIDE DEF out
        <3> QED
            BY <3>1, LeastNumber
    <2> HIDE DEF n, after
    <2>2. n \in Nat /\ after[n] \notin S
        BY <2>1
    <2>3. after[n] = IF n = 0 THEN init ELSE Look(joins, after[n - 1])
        BY <1>5, <2>2
    <2>4. n # 0
        BY <1>1, <2>2, <2>3
    <2>5. n - 1 \in Nat /\ after[n - 1] \in S
        BY <2>1, <2>2, <2>4
    <2>6. Look(joins, after[n - 1]) \in S
        BY <2>5, LookKeepsPaths
    <2> QED
        BY <2>2, <2>3, <2>4, <2>6
<1>7. Searched(joins, base) = after[last]
    BY DEF Searched, init
<1>8. after[0] = init /\ \A n \in Nat : n # 0 => after[n] = Look(joins, after[n - 1])
    BY <1>5
<1> HIDE DEF after
<1>9. SearchStates(joins, base, after)
    BY <1>6, <1>7, <1>8 DEF SearchStates, init
<1> QED
    BY <1>9

\* Whatever the search reaches, it reaches by a path.
LEMMA ReachedByPaths ==
    ASSUME NEW model, IsSequence(model.joins), NEW base
    PROVE  Paths(Reached(model, base), model.joins, base)
<1> DEFINE last == (Len(model.joins) + 1) * (Len(model.joins) + 1)
<1>1. PICK g : SearchStates(model.joins, base, g)
    BY SearchRuns
<1>2. last \in Nat
    BY DEF IsSequence
<1>3. g[last] \in Searches(model.joins, base) /\ Reached(model, base) = g[last].found
    BY <1>1, <1>2 DEF SearchStates, Reached
<1> QED
    BY <1>3 DEF Searches

-----------------------------------------------------------------------------
(* The joins of a query.                                                     *)

\* Each table is joined once, along a traversable join, to the base or to a
\* table of a lower rank.
RankedBy(rank, c) ==
    /\ rank \in [c.joins -> Nat]
    /\ \A j \in c.joins :
          j.from = c.base \/ \E i \in c.joins : i.to = j.from /\ rank[i] < rank[j]

Tree(c, joins) ==
    /\ c.joins \in SUBSET JoinsOf(joins)
    /\ \A j \in c.joins : Traversable(j) /\ j.to # c.base
    /\ \A i, j \in c.joins : i.to = j.to => i = j
    /\ \E rank : RankedBy(rank, c)

LEMMA PathsAreATree ==
    ASSUME NEW model, IsSequence(model.joins), NEW c, NEW targets,
           targets \subseteq DOMAIN Reached(model, c.base),
           c.joins = JoinPath(model, c.base, targets)
    PROVE  Tree(c, model.joins)
<1> DEFINE found == Reached(model, c.base)
           joins == model.joins
<1>1. Paths(found, joins, c.base)
    BY ReachedByPaths
<1> HIDE DEF found
<1>2. \A j \in c.joins : \E t \in DOMAIN found : \E k \in 1..Len(found[t]) : j = found[t][k]
    <2>1. \A t \in targets : t \in DOMAIN found /\ found[t] \in Seq(JoinsOf(joins))
        BY <1>1 DEF Paths, PathOf, found
    <2>2. \A j \in c.joins : \E t \in targets : \E k \in DOMAIN found[t] : j = found[t][k]
        BY DEF JoinPath, found
    <2>3. \A t \in targets : DOMAIN found[t] = 1..Len(found[t])
        BY <2>1
    <2> QED
        BY <2>1, <2>2, <2>3
<1>3. ASSUME NEW j \in c.joins
      PROVE  /\ j \in JoinsOf(joins) /\ Traversable(j) /\ j.to # c.base /\ j.to \in DOMAIN found
             /\ Len(found[j.to]) \in Nat /\ j = found[j.to][Len(found[j.to])]
    <2>0. PICK t \in DOMAIN found : \E k \in 1..Len(found[t]) : j = found[t][k]
        BY <1>2
    <2>1. PICK k \in 1..Len(found[t]) : j = found[t][k]
        BY <2>0
    <2>2. PathOf(found, joins, c.base, t)
        BY <1>1 DEF Paths
    <2>3. found[t] \in Seq(JoinsOf(joins)) /\ k \in DOMAIN found[t]
        BY <2>2 DEF PathOf
    <2>4. j.to \in DOMAIN found /\ Len(found[j.to]) = k /\ found[j.to][k] = j
        BY <2>1, <2>2 DEF PathOf
    <2> QED
        BY <2>1, <2>2, <2>3, <2>4 DEF PathOf
<1>4. \A i, j \in c.joins : i.to = j.to => i = j
    BY <1>3
<1> DEFINE rank == [j \in c.joins |-> Len(found[j.to])]
<1>5. rank \in [c.joins -> Nat]
    BY <1>3
<1>6. ASSUME NEW j \in c.joins, j.from # c.base
      PROVE  \E i \in c.joins : i.to = j.from /\ rank[i] < rank[j]
    <2>0. PICK t \in targets : \E k \in DOMAIN found[t] : j = found[t][k]
        BY DEF JoinPath, found
    <2>1. PICK k \in DOMAIN found[t] : j = found[t][k]
        BY <2>0
    <2>2. t \in DOMAIN found /\ PathOf(found, joins, c.base, t)
        BY <1>1 DEF Paths, found
    <2>3. k \in 1..Len(found[t]) /\ Len(found[t]) \in Nat /\ DOMAIN found[t] = 1..Len(found[t])
        BY <2>2 DEF PathOf
    <2>4. k # 1 /\ j.from = found[t][k - 1].to /\ Len(found[j.to]) = k
        BY <1>6, <2>1, <2>2, <2>3 DEF PathOf
    <2> DEFINE i == found[t][k - 1]
    <2>5. k - 1 \in 1..Len(found[t]) /\ k - 1 \in DOMAIN found[t]
        BY <2>3, <2>4
    <2>6. i \in c.joins
        BY <2>5 DEF JoinPath, found
    <2>7. Len(found[i.to]) = k - 1
        BY <2>2, <2>5 DEF PathOf
    <2> QED
        BY <2>3, <2>4, <2>6, <2>7
<1>7. RankedBy(rank, c)
    BY <1>5, <1>6 DEF RankedBy
<1> QED
    BY <1>3, <1>4, <1>7 DEF Tree

LEMMA FromTables ==
    ASSUME NEW joins, NEW c, Tree(c, joins), NEW j \in c.joins
    PROVE  j.from \in TablesOf(c) /\ j.to \in TablesOf(c)
BY DEF Tree, RankedBy, TablesOf

\* A row has one partner at most in each table it is joined to.
OnePartner(c, db) ==
    \A j \in c.joins : \A m, n \in DOMAIN db[j.to] :
        (db[j.to][m][j.target] = db[j.to][n][j.target] /\ db[j.to][m][j.target] # Null) => m = n

\* A row of the base table is joined in one way at most.
LEMMA JoinedOnce ==
    ASSUME NEW joins, NEW c, Tree(c, joins), NEW db,
           OnePartner(c, db), NEW r \in Joined(c, db), NEW s \in Joined(c, db),
           r[c.base] = s[c.base]
    PROVE  r = s
<1>1. PICK rank : RankedBy(rank, c)
    BY DEF Tree
<1> DEFINE wrong == {j \in c.joins : r[j.to] # s[j.to]}
           ranks == {rank[j] : j \in wrong}
           least == First(ranks)
<1>2. wrong = {}
    <2> SUFFICES ASSUME wrong # {} PROVE FALSE
        OBVIOUS
    <2>1. least \in ranks /\ \A d \in ranks : least <= d
        <3>1. ranks \in SUBSET Nat /\ ranks # {}
            BY <1>1 DEF RankedBy
        <3> HIDE DEF ranks
        <3> QED
            BY <3>1, LeastNumber
    <2>2. PICK j \in wrong : rank[j] = least
        BY <2>1
    <2>3. r[j.from] = s[j.from]
        <3>1. CASE j.from = c.base
            BY <3>1
        <3>2. CASE j.from # c.base
            <4>1. PICK i \in c.joins : i.to = j.from /\ rank[i] < rank[j]
                BY <1>1, <3>2 DEF RankedBy
            <4>2. rank[i] \in Nat /\ rank[j] \in Nat
                BY <1>1 DEF RankedBy
            <4>3. i \notin wrong
                <5>1. i \in wrong => rank[i] \in ranks
                    OBVIOUS
                <5>2. i \in wrong => rank[j] <= rank[i]
                    BY <2>1, <2>2, <5>1
                <5> QED
                    BY <4>1, <4>2, <5>2
            <4> QED
                BY <4>1, <4>3
        <3> QED
            BY <3>1, <3>2
    <2>4. Matches(db, j, r) = Matches(db, j, s)
        BY <2>3 DEF Matches, Cell
    <2>5. \A m, n \in Matches(db, j, r) : m = n
        BY DEF Matches, OnePartner
    <2>6. /\ IF Matches(db, j, r) = {} THEN r[j.to] = 0 ELSE r[j.to] \in Matches(db, j, r)
          /\ IF Matches(db, j, s) = {} THEN s[j.to] = 0 ELSE s[j.to] \in Matches(db, j, s)
        BY DEF Joined
    <2> QED
        BY <2>4, <2>5, <2>6
<1>3. \A t \in TablesOf(c) : r[t] = s[t]
    BY <1>2 DEF TablesOf
<1>4. r = [t \in TablesOf(c) |-> r[t]] /\ s = [t \in TablesOf(c) |-> s[t]]
    BY DEF Joined
<1> QED
    BY <1>3, <1>4

\* A row meets the joins in D, each of which is joined to the base or along
\* others in D.
Partners(c, db, n, D, r) ==
    /\ r \in [TablesOf(c) -> UNION {0..Len(db[t]) : t \in TablesOf(c)}]
    /\ r[c.base] = n
    /\ \A j \in D :
          /\ IF Matches(db, j, r) = {} THEN r[j.to] = 0 ELSE r[j.to] \in Matches(db, j, r)
          /\ j.from = c.base \/ \E i \in D : i.to = j.from

\* One more join is met.
LEMMA OneMorePartner ==
    ASSUME NEW joins, NEW c, Tree(c, joins), NEW db, Tables(db), TablesOf(c) \subseteq DOMAIN db,
           NEW n, NEW D \in SUBSET c.joins, NEW r, Partners(c, db, n, D, r),
           NEW j \in c.joins, j \notin D, j.from = c.base \/ \E i \in D : i.to = j.from
    PROVE  \E s : Partners(c, db, n, D \cup {j}, s)
<1> DEFINE found == IF Matches(db, j, r) = {} THEN 0 ELSE CHOOSE i \in Matches(db, j, r) : TRUE
           s == [t \in TablesOf(c) |-> IF t = j.to THEN found ELSE r[t]]
           Rows == UNION {0..Len(db[t]) : t \in TablesOf(c)}
<1>1. j.to \in TablesOf(c) /\ j.from \in TablesOf(c) /\ c.base \in TablesOf(c)
    BY FromTables DEF TablesOf
<1>2. found \in Rows
    <2>1. DOMAIN db[j.to] = 1..Len(db[j.to]) /\ Len(db[j.to]) \in Nat
        BY <1>1 DEF Tables, IsSequence
    <2>2. Matches(db, j, r) \in SUBSET (1..Len(db[j.to]))
        BY <2>1 DEF Matches
    <2>3. found \in 0..Len(db[j.to])
        BY <2>1, <2>2
    <2> QED
        BY <1>1, <2>3
<1>3. found \in IF Matches(db, j, r) = {} THEN {0} ELSE Matches(db, j, r)
    OBVIOUS
<1> HIDE DEF found
<1>4. s \in [TablesOf(c) -> Rows]
    BY <1>2 DEF Partners
<1>5. s[j.to] = found /\ \A t \in TablesOf(c) : t # j.to => s[t] = r[t]
    BY <1>1
<1>6. \A i \in D : i.to \in TablesOf(c) /\ i.from \in TablesOf(c) /\ i.to # j.to
    BY FromTables DEF Tree
<1>7. \A i \in D : i.from # j.to
    BY <1>6 DEF Partners, Tree
<1>8. j.from # j.to /\ j.to # c.base
    BY <1>6 DEF Tree
<1> HIDE DEF s
<1>9. \A i \in D \cup {j} : Matches(db, i, s) = Matches(db, i, r)
    BY <1>1, <1>5, <1>6, <1>7, <1>8 DEF Matches, Cell
<1>10. Partners(c, db, n, D \cup {j}, s)
    <2>1. s[c.base] = n
        BY <1>1, <1>5, <1>8 DEF Partners
    <2>2. ASSUME NEW i \in D \cup {j}
          PROVE  /\ IF Matches(db, i, s) = {} THEN s[i.to] = 0 ELSE s[i.to] \in Matches(db, i, s)
                 /\ i.from = c.base \/ \E k \in D \cup {j} : k.to = i.from
        <3>1. CASE i = j
            BY <1>3, <1>5, <1>9, <3>1
        <3>2. CASE i \in D
            BY <1>5, <1>6, <1>9, <3>2 DEF Partners
        <3> QED
            BY <3>1, <3>2
    <2> QED
        BY <1>4, <2>1, <2>2 DEF Partners
<1> QED
    BY <1>10

LEMMA JoinsFinite ==
    ASSUME NEW joins, IsSequence(joins)
    PROVE  IsFiniteSet(JoinsOf(joins))
<1> DEFINE n == Len(joins)
           f == [i \in 1..n |-> joins[i]]
<1>1. n \in Nat /\ DOMAIN joins = 1..n
    BY DEF IsSequence
<1>2. IsFiniteSet(1..n)
    BY <1>1, FS_Interval
<1>3. f \in Surjection(1..n, JoinsOf(joins))
    BY <1>1 DEF Surjection, JoinsOf
<1> HIDE DEF f
<1> QED
    BY <1>2, <1>3, FS_Surjection

\* Every row of the base table is joined: a LEFT JOIN loses none.
LEMMA NoneLost ==
    ASSUME NEW joins, IsSequence(joins), NEW c, Tree(c, joins), NEW db, Tables(db),
           TablesOf(c) \subseteq DOMAIN db, NEW n \in DOMAIN db[c.base]
    PROVE  \E r \in Joined(c, db) : r[c.base] = n
<1> DEFINE Left == {d \in Nat : \E D \in SUBSET c.joins :
                        Cardinality(c.joins \ D) = d /\ \E r : Partners(c, db, n, D, r)}
           least == First(Left)
<1>1. IsFiniteSet(c.joins)
    BY JoinsFinite, FS_Subset DEF Tree
<1>2. Left # {}
    <2> DEFINE r == [t \in TablesOf(c) |-> IF t = c.base THEN n ELSE 0]
    <2>1. \A t \in TablesOf(c) : Len(db[t]) \in Nat /\ DOMAIN db[t] = 1..Len(db[t])
        BY DEF Tables, IsSequence
    <2>2. c.base \in TablesOf(c)
        BY DEF TablesOf
    <2>3. r \in [TablesOf(c) -> UNION {0..Len(db[t]) : t \in TablesOf(c)}]
        <3>1. \A t \in TablesOf(c) : r[t] \in 0..Len(db[t])
            BY <2>1, <2>2
        <3> QED
            BY <3>1
    <2>4. Partners(c, db, n, {}, r)
        BY <2>2, <2>3 DEF Partners
    <2>5. Cardinality(c.joins \ {}) \in Nat
        BY <1>1, FS_CardinalityType
    <2> QED
        BY <2>4, <2>5
<1>3. least \in Left /\ \A d \in Left : least <= d
    <2>1. Left \in SUBSET Nat
        OBVIOUS
    <2> HIDE DEF Left
    <2> QED
        BY <1>2, <2>1, LeastNumber
<1>4. PICK D \in SUBSET c.joins : Cardinality(c.joins \ D) = least /\ \E r : Partners(c, db, n, D, r)
    BY <1>3
<1>5. D = c.joins
    <2> SUFFICES ASSUME D # c.joins PROVE FALSE
        OBVIOUS
    <2>1. PICK rank : RankedBy(rank, c)
        BY DEF Tree
    <2> DEFINE rest == {rank[j] : j \in c.joins \ D}
    <2>2. rest \in SUBSET Nat /\ rest # {}
        BY <1>4, <2>1 DEF RankedBy
    <2>3. First(rest) \in rest /\ \A k \in rest : First(rest) <= k
        BY <2>2, LeastNumber
    <2>4. PICK j \in c.joins \ D : \A i \in c.joins \ D : rank[j] <= rank[i]
        BY <2>3
    <2>5. j.from = c.base \/ \E i \in D : i.to = j.from
        <3>1. ASSUME NEW i \in c.joins, rank[i] < rank[j] PROVE i \in D
            <4>1. rank[i] \in Nat /\ rank[j] \in Nat
                BY <2>1 DEF RankedBy
            <4> QED
                BY <2>4, <3>1, <4>1
        <3> QED
            BY <2>1, <3>1 DEF RankedBy
    <2>6. \E s : Partners(c, db, n, D \cup {j}, s)
        <3>1. PICK r : Partners(c, db, n, D, r)
            BY <1>4
        <3> QED
            BY <1>4, <2>4, <2>5, <3>1, OneMorePartner
    <2>7. c.joins \ (D \cup {j}) = (c.joins \ D) \ {j} /\ j \in c.joins \ D /\ IsFiniteSet(c.joins \ D)
        BY <1>1, <2>4, FS_Subset
    <2>8. Cardinality((c.joins \ D) \ {j}) = Cardinality(c.joins \ D) - 1
        BY <2>7, FS_RemoveElement
    <2>9. Cardinality((c.joins \ D) \ {j}) \in Nat
        BY <2>7, FS_RemoveElement, FS_CardinalityType
    <2>10. least - 1 \in Left /\ least \in Nat
        BY <1>3, <1>4, <2>6, <2>7, <2>8, <2>9
    <2>11. least <= least - 1
        BY <1>3, <2>10
    <2> HIDE DEF least
    <2> QED
        BY <2>10, <2>11
<1>6. PICK r : Partners(c, db, n, c.joins, r)
    BY <1>4, <1>5
<1>7. r \in Joined(c, db) /\ r[c.base] = n
    BY <1>6 DEF Partners, Joined
<1> QED
    BY <1>7

-----------------------------------------------------------------------------
(* What the compiler makes of a question it accepts.                         *)

\* The first of the places a name may stand for is one of them.
LEMMA FirstIsOne ==
    ASSUME NEW s, IsSequence(s), NEW places, places \subseteq DOMAIN s, places # {}
    PROVE  First(places) \in places
<1>1. places \in SUBSET Nat
    BY DEF IsSequence
<1> QED
    BY <1>1, LeastNumber

LEMMA MeasureKnown ==
    ASSUME NEW w, WellFormed(w), NEW q \in w.questions, NEW seePii \in BOOLEAN,
           Answerable(w.model, q, seePii), NEW i \in DOMAIN q.measures
    PROVE  /\ MeasuresIn(w.model, q)[i].entity = BaseOf(w.model, q)
           /\ BaseOf(w.model, q) \in DOMAIN w.silver
<1>1. IsSequence(q.measures) /\ IsSequence(w.model.measures) /\ q.measures # <<>>
    BY DEF WellFormed, Answerable
<1>2. 1 \in DOMAIN q.measures
    BY <1>1 DEF IsSequence
<1>3. MeasuresAt(w.model, q.measures[1]) # {}
    BY <1>2 DEF Answerable
<1>4. First(MeasuresAt(w.model, q.measures[1])) \in DOMAIN w.model.measures
    BY <1>1, <1>3, FirstIsOne DEF MeasuresAt
<1>5. BaseOf(w.model, q) \in DOMAIN w.silver
    BY <1>2, <1>4 DEF BaseOf, MeasuresIn, WellFormed
<1> QED
    BY <1>5 DEF Answerable

LEMMA CompiledTree ==
    ASSUME NEW w, WellFormed(w), NEW q \in w.questions, NEW seePii \in BOOLEAN,
           Answerable(w.model, q, seePii)
    PROVE  LET c == Compiled(w.model, q, seePii)
           IN  /\ Tree(c, w.model.joins)
               /\ TablesOf(c) \subseteq DOMAIN w.silver
               /\ \A f \in Mentioned(q) : f.entity \in TablesOf(c)
               /\ c.base = BaseOf(w.model, q) /\ c.base \in DOMAIN w.silver
<1> DEFINE c == Compiled(w.model, q, seePii)
           model == w.model
           found == Reached(model, c.base)
<1>1. /\ c.base = BaseOf(model, q)
      /\ c.joins = JoinPath(model, c.base, Targets(model, q))
    BY DEF Compiled
<1>2. IsSequence(model.joins) /\ Targets(model, q) \subseteq DOMAIN found
    BY <1>1 DEF WellFormed, Answerable
<1> HIDE DEF c
<1>3. Tree(c, model.joins)
    BY <1>1, <1>2, PathsAreATree
<1>4. c.base \in DOMAIN w.silver
    <2>1. 1 \in DOMAIN q.measures
        BY DEF WellFormed, Answerable, IsSequence
    <2> QED
        BY <1>1, <2>1, MeasureKnown
<1>5. \A j \in c.joins : j.to \in DOMAIN w.silver
    BY <1>3 DEF Tree, JoinsOf, WellFormed
<1>6. ASSUME NEW f \in Mentioned(q) PROVE f.entity \in TablesOf(c)
    <2>1. CASE f.entity = c.base
        BY <2>1 DEF TablesOf
    <2>2. CASE f.entity # c.base
        <3> DEFINE t == f.entity
        <3>1. t \in Targets(model, q)
            BY <1>1, <2>2 DEF Targets
        <3>2. PathOf(found, model.joins, c.base, t)
            BY <1>2, <3>1, ReachedByPaths DEF Paths
        <3> HIDE DEF found
        <3>3. found[t] \in Seq(JoinsOf(model.joins)) /\ found[t] # <<>> /\ found[t][Len(found[t])].to = t
            BY <2>2, <3>2 DEF PathOf
        <3>4. Len(found[t]) \in DOMAIN found[t]
            BY <3>3
        <3>5. found[t][Len(found[t])] \in c.joins
            BY <1>1, <3>1, <3>4 DEF JoinPath, found
        <3> QED
            BY <3>3, <3>5 DEF TablesOf
    <2> QED
        BY <2>1, <2>2
<1>7. TablesOf(c) \subseteq DOMAIN w.silver
    BY <1>4, <1>5 DEF TablesOf
<1> QED
    BY <1>1, <1>3, <1>4, <1>6, <1>7 DEF c

\* What the last question was, and what was answered.
Answered(w, q, seePii) ==
    [query |-> q, seePii |-> seePii, compiled |-> Compiled(w.model, q, seePii),
     answer |-> Answer(Compiled(w.model, q, seePii), w.silver),
     twin |-> Answer(Compiled(w.model, q, seePii), w.twin)]

AnswersInv ==
    /\ warehouse \in Warehouses
    /\ reply # <<>> =>
        \E q \in warehouse.questions, seePii \in BOOLEAN :
            /\ Answerable(warehouse.model, q, seePii)
            /\ reply = <<Answered(warehouse, q, seePii)>>

LEMMA AnswersInvariant == AnswersSpec => []AnswersInv
<1>1. AnswersInit => AnswersInv
    BY DEF AnswersInit, AnswersInv
<1>2. AnswersInv /\ [AnswersNext]_answersVars => AnswersInv'
    <2> SUFFICES ASSUME AnswersInv, [AnswersNext]_answersVars PROVE AnswersInv'
        OBVIOUS
    <2>1. ASSUME NEW q \in warehouse.questions, NEW seePii \in BOOLEAN, AskQuestion(q, seePii)
          PROVE  AnswersInv'
        <3>1. CASE /\ Answerable(warehouse.model, q, seePii)
                   /\ Executable(Compiled(warehouse.model, q, seePii))
            <4>1. Compile(warehouse.model, q, seePii) = <<Compiled(warehouse.model, q, seePii)>>
                BY <3>1 DEF Compile
            <4>2. Compile(warehouse.model, q, seePii) # <<>>
                BY <4>1
            <4>3. Compile(warehouse.model, q, seePii)[1] = Compiled(warehouse.model, q, seePii)
                BY <4>1
            <4>4. Executable(Compile(warehouse.model, q, seePii)[1])
                BY <3>1, <4>3
            <4>5. reply' = <<Answered(warehouse, q, seePii)>> /\ warehouse' = warehouse
                BY <2>1, <4>2, <4>3, <4>4 DEF AskQuestion, Answered
            <4> QED
                BY <3>1, <4>5 DEF AnswersInv
        <3>2. CASE ~Answerable(warehouse.model, q, seePii)
            <4>1. reply' = <<>> /\ warehouse' = warehouse
                BY <2>1, <3>2 DEF AskQuestion, Compile
            <4> QED
                BY <4>1 DEF AnswersInv
        <3>3. CASE /\ Answerable(warehouse.model, q, seePii)
                   /\ ~Executable(Compiled(warehouse.model, q, seePii))
            <4>1. Compile(warehouse.model, q, seePii) = <<Compiled(warehouse.model, q, seePii)>>
                BY <3>3 DEF Compile
            <4>2. Compile(warehouse.model, q, seePii)[1] = Compiled(warehouse.model, q, seePii)
                BY <4>1
            <4>3. reply' = <<>> /\ warehouse' = warehouse
                BY <2>1, <3>3, <4>2 DEF AskQuestion
            <4> QED
                BY <4>3 DEF AnswersInv
        <3> QED
            BY <3>1, <3>2, <3>3
    <2>2. CASE UNCHANGED answersVars
        BY <2>2 DEF AnswersInv, answersVars
    <2> QED
        BY <2>1, <2>2 DEF AnswersNext
<1> QED
    BY <1>1, <1>2, PTL DEF AnswersSpec

-----------------------------------------------------------------------------
(* Personal data.                                                            *)

\* A column is compiled with the mask its values are alike under.
LEMMA ColumnAlike ==
    ASSUME NEW w, WellFormed(w), LooksAlike(w.model, w.silver, w.twin),
           NEW ref, Resolves(w.model, ref)
    PROVE  LET col == Column(w.model, ref, FALSE)
           IN  /\ col.entity = ref.entity
               /\ Alike(w.silver, w.twin, col.entity, col.column, col.kind)
<1> DEFINE model == w.model
           e == First(EntitiesAt(model, ref.entity))
           a == First(AttributesAt(model, ref))
           attributes == model.entities[e].attributes
<1>1. IsSequence(model.entities) /\ EntitiesAt(model, ref.entity) # {}
    BY DEF WellFormed, Resolves
<1>2. e \in DOMAIN model.entities /\ model.entities[e].id = ref.entity
    BY <1>1, FirstIsOne DEF EntitiesAt
<1>3. IsSequence(attributes) /\ AttributesAt(model, ref) # {} /\ AttributesAt(model, ref) \subseteq DOMAIN attributes
    BY <1>2 DEF WellFormed, Resolves, AttributesAt
<1>4. a \in AttributesAt(model, ref)
    BY <1>3, FirstIsOne
<1>5. a \in DOMAIN attributes /\ attributes[a].name = ref.attribute
    BY <1>4 DEF AttributesAt
<1>6. Alike(w.silver, w.twin, ref.entity, ref.attribute, attributes[a].pii)
    BY <1>2, <1>5 DEF LooksAlike
<1>7. ResolveField(model, ref) = attributes[a]
    BY DEF ResolveField
<1> DEFINE col == Column(model, ref, FALSE)
           kind == attributes[a].pii
<1>8. col = [entity |-> ref.entity, column |-> ref.attribute, kind |-> IF kind # "none" THEN kind ELSE "none"]
    BY <1>7 DEF Column
<1> HIDE DEF col, kind, e, a, attributes, model
<1>9. col.entity = ref.entity /\ col.column = ref.attribute /\ col.kind = kind
    BY <1>8
<1>10. Alike(w.silver, w.twin, col.entity, col.column, col.kind)
    BY <1>6, <1>9 DEF kind
<1> QED
    BY <1>9, <1>10 DEF col, model

SameRows(silver, twin) == \A t \in DOMAIN silver : DOMAIN silver[t] = DOMAIN twin[t]

\* The values a joined row shows in such a column are the same.
LEMMA ValueAlike ==
    ASSUME NEW silver, NEW twin, SameRows(silver, twin),
           NEW c, TablesOf(c) \subseteq DOMAIN silver, NEW r \in Joined(c, silver),
           NEW table \in TablesOf(c), NEW column, NEW kind,
           Alike(silver, twin, table, column, kind)
    PROVE  Shown(kind, Cell(silver, r, table, column)) = Shown(kind, Cell(twin, r, table, column))
BY DEF Cell, Alike, SameRows

\* Tables joined along the same values have the same joined rows.
LEMMA JoinedOfTwin ==
    ASSUME NEW joins, NEW c, Tree(c, joins), NEW silver, NEW twin,
           TablesOf(c) \subseteq DOMAIN silver, DOMAIN silver = DOMAIN twin,
           \A t \in DOMAIN silver : DOMAIN silver[t] = DOMAIN twin[t] /\ Len(silver[t]) = Len(twin[t]),
           \A j \in JoinsOf(joins) : /\ Alike(silver, twin, j.from, j.column, "none")
                                     /\ Alike(silver, twin, j.to, j.target, "none")
    PROVE  Joined(c, silver) \subseteq Joined(c, twin)
<1> SUFFICES ASSUME NEW r \in Joined(c, silver) PROVE r \in Joined(c, twin)
    OBVIOUS
<1>1. \A t \in TablesOf(c) : 0..Len(silver[t]) = 0..Len(twin[t])
    OBVIOUS
<1>2. c.base \in TablesOf(c)
    BY DEF TablesOf
<1>3. r[c.base] \in DOMAIN twin[c.base] /\ r \in [TablesOf(c) -> UNION {0..Len(twin[t]) : t \in TablesOf(c)}]
    BY <1>1, <1>2 DEF Joined
<1>4. ASSUME NEW j \in c.joins PROVE Matches(twin, j, r) = Matches(silver, j, r)
    <2>1. j \in JoinsOf(joins) /\ j.from \in TablesOf(c) /\ j.to \in TablesOf(c)
        BY FromTables DEF Tree
    <2>2. Cell(silver, r, j.from, j.column) = Cell(twin, r, j.from, j.column)
        BY <2>1, ValueAlike DEF Shown, SameRows
    <2>3. \A i \in DOMAIN silver[j.to] : silver[j.to][i][j.target] = twin[j.to][i][j.target]
        BY <2>1 DEF Alike, Shown
    <2>4. DOMAIN silver[j.to] = DOMAIN twin[j.to]
        BY <2>1
    <2> QED
        BY <2>2, <2>3, <2>4 DEF Matches
<1> QED
    BY <1>3, <1>4 DEF Joined

\* What a query needs of two databases to answer the same.
AlikeTo(c, silver, twin) ==
    /\ Joined(c, silver) = Joined(c, twin)
    /\ \A r \in Joined(c, silver) :
          /\ \A i \in DOMAIN c.groups : ValueAt(c.groups[i], silver, r) = ValueAt(c.groups[i], twin, r)
          /\ \A i \in DOMAIN c.where :
                ValueAt(c.where[i].column, silver, r) = ValueAt(c.where[i].column, twin, r)
    /\ \A i \in DOMAIN c.aggregates : \A n \in DOMAIN silver[c.base] :
          Argument(c.aggregates[i], silver[c.base][n]) = Argument(c.aggregates[i], twin[c.base][n])

LEMMA AggregateAlike ==
    ASSUME NEW c, NEW a, NEW silver, NEW twin, NEW rows,
           \A r \in rows : r[c.base] \in DOMAIN silver[c.base],
           \A n \in DOMAIN silver[c.base] : Argument(a, silver[c.base][n]) = Argument(a, twin[c.base][n])
    PROVE  Aggregate(a, c, silver, rows) = Aggregate(a, c, twin, rows)
<1>1. [r \in rows |-> Argument(a, silver[c.base][r[c.base]])]
          = [r \in rows |-> Argument(a, twin[c.base][r[c.base]])]
    OBVIOUS
<1> QED
    BY <1>1 DEF Aggregate

LEMMA AnswerAlike ==
    ASSUME NEW c, NEW silver, NEW twin, AlikeTo(c, silver, twin)
    PROVE  Answer(c, silver) = Answer(c, twin)
<1>1. \A r \in Joined(c, silver) : \A i \in DOMAIN c.where :
          Holds(c.where[i], silver, r) = Holds(c.where[i], twin, r)
    BY DEF AlikeTo, Holds
<1>2. RowsKept(c, silver) = RowsKept(c, twin)
    BY <1>1 DEF RowsKept, AlikeTo
<1>3. \A r \in RowsKept(c, silver) : GroupOf(c, silver, r) = GroupOf(c, twin, r)
    BY DEF GroupOf, RowsKept, AlikeTo
<1> DEFINE keys(db) == {GroupOf(c, db, r) : r \in RowsKept(c, db)} \cup (IF c.groups = <<>> THEN {<<>>} ELSE {})
           members(db, k) == {r \in RowsKept(c, db) : GroupOf(c, db, r) = k}
<1>4. keys(silver) = keys(twin)
    BY <1>2, <1>3
<1>5. \A k : members(silver, k) = members(twin, k)
    BY <1>2, <1>3
<1>6. ASSUME NEW k, NEW i \in DOMAIN c.aggregates
      PROVE  Aggregate(c.aggregates[i], c, silver, members(silver, k))
                 = Aggregate(c.aggregates[i], c, twin, members(twin, k))
    <2>1. \A r \in members(silver, k) : r[c.base] \in DOMAIN silver[c.base]
        BY DEF RowsKept, Joined
    <2> DEFINE a == c.aggregates[i]
               rows == members(silver, k)
    <2>2. \A n \in DOMAIN silver[c.base] : Argument(a, silver[c.base][n]) = Argument(a, twin[c.base][n])
        BY DEF AlikeTo
    <2>3. rows = members(twin, k) /\ \A r \in rows : r[c.base] \in DOMAIN silver[c.base]
        BY <1>5, <2>1
    <2> HIDE DEF a, rows, members
    <2>4. Aggregate(a, c, silver, rows) = Aggregate(a, c, twin, rows)
        BY <2>2, <2>3, AggregateAlike
    <2> QED
        BY <2>3, <2>4 DEF a, rows
<1>7. /\ Answer(c, silver) = [k \in keys(silver) |-> [i \in DOMAIN c.aggregates |->
                                  Aggregate(c.aggregates[i], c, silver, members(silver, k))]]
      /\ Answer(c, twin) = [k \in keys(twin) |-> [i \in DOMAIN c.aggregates |->
                                  Aggregate(c.aggregates[i], c, twin, members(twin, k))]]
    BY DEF Answer
<1> HIDE DEF keys, members
<1> QED
    BY <1>4, <1>6, <1>7

LEMMA ArgumentOver ==
    ASSUME NEW a, NEW col, a.over = {col}, NEW row
    PROVE  Argument(a, row) = IF ~Met(a.constraint, row) THEN Null ELSE Shown(col.kind, row[col.column])
<1> DEFINE v == CHOOSE o \in a.over : TRUE
<1>1. v = col /\ a.over # {}
    OBVIOUS
<1>2. Argument(a, row) = IF ~Met(a.constraint, row) THEN Null
                         ELSE IF a.over = {} THEN <<>> ELSE Shown(v.kind, row[v.column])
    BY DEF Argument
<1> HIDE DEF v
<1> QED
    BY <1>1, <1>2

\* A question asked without the permission is answered alike by the twin.
LEMMA TwinAnswersAlike ==
    ASSUME NEW w, WellFormed(w), NEW q \in w.questions, Answerable(w.model, q, FALSE),
           LooksAlike(w.model, w.silver, w.twin), PicksAlike(Compiled(w.model, q, FALSE), w.silver, w.twin)
    PROVE  Answer(Compiled(w.model, q, FALSE), w.silver) = Answer(Compiled(w.model, q, FALSE), w.twin)
<1> DEFINE c == Compiled(w.model, q, FALSE)
           S == w.silver
           T == w.twin
           joins == w.model.joins
<1>1. /\ Tree(c, joins) /\ TablesOf(c) \subseteq DOMAIN S
      /\ \A f \in Mentioned(q) : f.entity \in TablesOf(c)
      /\ c.base = BaseOf(w.model, q) /\ c.base \in DOMAIN S
    BY CompiledTree
<1>2. /\ DOMAIN S = DOMAIN T
      /\ \A t \in DOMAIN S : DOMAIN S[t] = DOMAIN T[t] /\ Len(S[t]) = Len(T[t])
    <2>1. DOMAIN S = DOMAIN T /\ \A t \in DOMAIN S : DOMAIN S[t] = DOMAIN T[t]
        BY DEF LooksAlike
    <2>2. ASSUME NEW t \in DOMAIN S PROVE Len(S[t]) = Len(T[t])
        <3> DEFINE m == Len(S[t])
                   n == Len(T[t])
        <3>1. m \in Nat /\ n \in Nat /\ DOMAIN S[t] = 1..m /\ DOMAIN T[t] = 1..n
            BY <2>1 DEF WellFormed, Tables, IsSequence
        <3>2. 1..m = 1..n
            BY <2>1, <3>1
        <3> HIDE DEF m, n
        <3>3. m <= n
            <4>1. m = 0 \/ m \in 1..m
                BY <3>1
            <4> QED
                BY <3>1, <3>2, <4>1
        <3>4. n <= m
            <4>1. n = 0 \/ n \in 1..n
                BY <3>1
            <4> QED
                BY <3>1, <3>2, <4>1
        <3> QED
            BY <3>1, <3>3, <3>4 DEF m, n
    <2> QED
        BY <2>1, <2>2
<1>3. Joined(c, S) = Joined(c, T)
    <2>1. \A j \in JoinsOf(joins) : Alike(S, T, j.from, j.column, "none") /\ Alike(S, T, j.to, j.target, "none")
        BY DEF LooksAlike, JoinsOf
    <2>2. \A j \in JoinsOf(joins) : j.from \in DOMAIN S /\ j.to \in DOMAIN S
        BY DEF WellFormed, JoinsOf
    <2>3. \A j \in JoinsOf(joins) : Alike(T, S, j.from, j.column, "none") /\ Alike(T, S, j.to, j.target, "none")
        BY <1>2, <2>1, <2>2 DEF Alike
    <2> HIDE DEF c, S, T, joins
    <2>4. Joined(c, S) \subseteq Joined(c, T)
        BY <1>1, <1>2, <2>1, JoinedOfTwin
    <2>5. Joined(c, T) \subseteq Joined(c, S)
        BY <1>1, <1>2, <2>3, JoinedOfTwin
    <2> QED
        BY <2>4, <2>5
<1>4. ASSUME NEW ref, Resolves(w.model, ref), ref.entity \in TablesOf(c), NEW r \in Joined(c, S)
      PROVE  ValueAt(Column(w.model, ref, FALSE), S, r) = ValueAt(Column(w.model, ref, FALSE), T, r)
    <2> DEFINE col == Column(w.model, ref, FALSE)
    <2>1. col.entity = ref.entity /\ Alike(S, T, col.entity, col.column, col.kind)
        BY <1>4, ColumnAlike
    <2> HIDE DEF col, c, S, T
    <2>2. col.entity \in TablesOf(c)
        BY <1>4, <2>1
    <2>3. Shown(col.kind, Cell(S, r, col.entity, col.column))
              = Shown(col.kind, Cell(T, r, col.entity, col.column))
        <3>1. SameRows(S, T)
            BY <1>2 DEF SameRows
        <3>2. TablesOf(c) \subseteq DOMAIN S /\ r \in Joined(c, S)
            BY <1>1
        <3>3. Alike(S, T, col.entity, col.column, col.kind)
            BY <2>1
        <3> DEFINE table == col.entity
                   column == col.column
                   kind == col.kind
        <3> HIDE DEF table, column, kind
        <3>4. table \in TablesOf(c) /\ Alike(S, T, table, column, kind)
            BY <2>2, <3>3 DEF table, column, kind
        <3>5. Shown(kind, Cell(S, r, table, column)) = Shown(kind, Cell(T, r, table, column))
            BY <3>1, <3>2, <3>4, ValueAlike
        <3> QED
            BY <3>5 DEF table, column, kind
    <2>4. ValueAt(col, S, r) = ValueAt(col, T, r)
        BY <2>3 DEF ValueAt
    <2> QED
        BY <2>4 DEF col
<1>5. \A i \in DOMAIN c.groups :
          /\ Fields(q)[i] \in Mentioned(q) /\ c.groups[i] = Column(w.model, Fields(q)[i], FALSE)
    BY DEF Compiled, Mentioned
<1>6. \A i \in DOMAIN c.where :
          /\ q.filters[i].field \in Mentioned(q)
          /\ c.where[i].column = Column(w.model, q.filters[i].field, FALSE)
    BY DEF Compiled, Mentioned
<1>7. ASSUME NEW i \in DOMAIN c.aggregates, NEW n \in DOMAIN S[c.base]
      PROVE  Argument(c.aggregates[i], S[c.base][n]) = Argument(c.aggregates[i], T[c.base][n])
    <2> DEFINE m == MeasuresIn(w.model, q)[i]
               a == c.aggregates[i]
               col == Column(w.model, Over(m), FALSE)
               mine == S[c.base][n]
               theirs == T[c.base][n]
    <2>1. i \in DOMAIN q.measures
        BY DEF Compiled
    <2>2. a.over = {} \/ (Resolves(w.model, Over(m)) /\ a.over = {col})
        BY <2>1 DEF Compiled, AggregateOf, Answerable
    <2>3. Over(m).entity = c.base
        BY <1>1, <2>1, MeasureKnown DEF Over
    <2>4. Met(a.constraint, mine) = Met(a.constraint, theirs)
        BY DEF PicksAlike
    <2>5. ASSUME a.over = {col}, Resolves(w.model, Over(m))
          PROVE  Shown(col.kind, mine[col.column]) = Shown(col.kind, theirs[col.column])
        <3>1. col.entity = c.base /\ Alike(S, T, col.entity, col.column, col.kind)
            BY <2>3, <2>5, ColumnAlike
        <3> HIDE DEF c, col, S, T, m
        <3> QED
            BY <3>1 DEF Alike
    <2> HIDE DEF c, m, S, T, a, col, mine, theirs
    <2>6. CASE a.over = {}
        BY <2>4, <2>6 DEF Argument, a, mine, theirs
    <2>7. CASE a.over = {col}
        <3>1. Shown(col.kind, mine[col.column]) = Shown(col.kind, theirs[col.column])
            BY <2>2, <2>5, <2>7
        <3>2. /\ Argument(a, mine) = IF ~Met(a.constraint, mine) THEN Null ELSE Shown(col.kind, mine[col.column])
              /\ Argument(a, theirs) = IF ~Met(a.constraint, theirs) THEN Null ELSE Shown(col.kind, theirs[col.column])
            BY <2>7, ArgumentOver
        <3>3. Argument(a, mine) = Argument(a, theirs)
            BY <2>4, <3>1, <3>2
        <3> QED
            BY <3>3 DEF a, mine, theirs
    <2> QED
        BY <2>2, <2>6, <2>7
<1>8. \A f \in Mentioned(q) : Resolves(w.model, f)
    BY DEF Answerable
<1> HIDE DEF c, S, T
<1>9. AlikeTo(c, S, T)
    <2>1. ASSUME NEW r \in Joined(c, S), NEW i \in DOMAIN c.groups
          PROVE  ValueAt(c.groups[i], S, r) = ValueAt(c.groups[i], T, r)
        BY <1>1, <1>4, <1>5, <1>8
    <2>2. ASSUME NEW r \in Joined(c, S), NEW i \in DOMAIN c.where
          PROVE  ValueAt(c.where[i].column, S, r) = ValueAt(c.where[i].column, T, r)
        BY <1>1, <1>4, <1>6, <1>8
    <2> QED
        BY <1>3, <1>7, <2>1, <2>2 DEF AlikeTo
<1> QED
    BY <1>9, AnswerAlike DEF c, S, T

\* Without the permission to see personal data, what the semantic layer
\* answers depends on it in one way at most, by the constraints the model gives
\* its measures: two warehouses that show the same masks, are joined along the
\* same values and of which those constraints pick the same rows answer every
\* accepted question alike, whatever the model, the question and the tables.
THEOREM PersonalDataHides == AnswersSpec => []PersonalStaysHidden
<1>1. AnswersInv => PersonalStaysHidden
    <2> SUFFICES ASSUME AnswersInv, Hidden, PicksAlike(reply[1].compiled, warehouse.silver, warehouse.twin)
                 PROVE  reply[1].answer = reply[1].twin
        BY DEF PersonalStaysHidden
    <2>0. reply # <<>> /\ ~reply[1].seePii /\ LooksAlike(warehouse.model, warehouse.silver, warehouse.twin)
        BY DEF Hidden
    <2>1. WellFormed(warehouse)
        BY WarehousesAssumption DEF AnswersInv
    <2>2. PICK q \in warehouse.questions, seePii \in BOOLEAN :
              Answerable(warehouse.model, q, seePii) /\ reply = <<Answered(warehouse, q, seePii)>>
        BY <2>0 DEF AnswersInv
    <2>3. reply[1] = Answered(warehouse, q, seePii)
        BY <2>2
    <2>4. seePii = FALSE /\ reply[1].compiled = Compiled(warehouse.model, q, FALSE)
        BY <2>0, <2>2, <2>3 DEF Answered
    <2>5. Answer(Compiled(warehouse.model, q, FALSE), warehouse.silver)
              = Answer(Compiled(warehouse.model, q, FALSE), warehouse.twin)
        BY <2>0, <2>1, <2>2, <2>4, TwinAnswersAlike
    <2>6. /\ reply[1].answer = Answer(Compiled(warehouse.model, q, seePii), warehouse.silver)
          /\ reply[1].twin = Answer(Compiled(warehouse.model, q, seePii), warehouse.twin)
        BY <2>3 DEF Answered
    <2> QED
        BY <2>4, <2>5, <2>6
<1> QED
    BY <1>1, AnswersInvariant, PTL

-----------------------------------------------------------------------------
(* Sums.                                                                     *)

\* A function gives every member of a finite set an integer.
Numbers(f, S) == IsFiniteSet(S) /\ \A x \in S : f[x] \in Int

Opposite(f, S) == [x \in S |-> -f[x]]

LEMMA OppositeNumbers ==
    ASSUME NEW S, NEW f, Numbers(f, S)
    PROVE  Numbers(Opposite(f, S), S)
BY DEF Numbers, Opposite

LEMMA UnitsFinite ==
    ASSUME NEW S, NEW f, Numbers(f, S)
    PROVE  IsFiniteSet(Units(f, S)) /\ Cardinality(Units(f, S)) \in Nat
<1> DEFINE parts == {{x} \X (1..f[x]) : x \in S}
           g == [x \in S |-> {x} \X (1..f[x])]
<1>1. g \in Surjection(S, parts)
    BY DEF Surjection
<1>2. IsFiniteSet(parts)
    <2> HIDE DEF g, parts
    <2> QED
        BY <1>1, FS_Surjection DEF Numbers
<1>3. ASSUME NEW x \in S PROVE IsFiniteSet({x} \X (1..f[x]))
    <2> DEFINE n == f[x]
               one == 1
    <2>1. n \in Int /\ one \in Int
        BY DEF Numbers
    <2> HIDE DEF n, one
    <2>2. IsFiniteSet(one..n)
        BY <2>1, FS_Interval
    <2>3. IsFiniteSet({x})
        BY FS_Singleton
    <2>4. IsFiniteSet({x} \X (one..n))
        BY <2>2, <2>3, FS_Product
    <2> QED
        BY <2>4 DEF n, one
<1>4. \A p \in parts : IsFiniteSet(p)
    BY <1>3
<1>5. IsFiniteSet(UNION parts)
    <2> HIDE DEF parts
    <2> QED
        BY <1>2, <1>4, FS_UNION
<1>6. IsFiniteSet(Units(f, S))
    BY <1>5 DEF Units
<1> QED
    BY <1>6, FS_CardinalityType

LEMMA UnitsOfUnion ==
    ASSUME NEW A, NEW B, NEW f, Numbers(f, A), Numbers(f, B), A \cap B = {}
    PROVE  Cardinality(Units(f, A \cup B)) = Cardinality(Units(f, A)) + Cardinality(Units(f, B))
<1>1. Units(f, A \cup B) = Units(f, A) \cup Units(f, B)
    BY DEF Units
<1>2. Units(f, A) \cap Units(f, B) = {}
    BY DEF Units
<1>3. IsFiniteSet(Units(f, A)) /\ IsFiniteSet(Units(f, B))
      /\ Cardinality(Units(f, A)) \in Nat /\ Cardinality(Units(f, B)) \in Nat
    BY UnitsFinite
<1>4. Cardinality(Units(f, A) \cup Units(f, B))
          = Cardinality(Units(f, A)) + Cardinality(Units(f, B)) - Cardinality({})
    BY <1>2, <1>3, FS_Union
<1>5. Cardinality({}) = 0
    BY FS_EmptySet
<1> DEFINE a == Cardinality(Units(f, A))
           b == Cardinality(Units(f, B))
<1>6. a \in Nat /\ b \in Nat
    BY <1>3
<1>7. Cardinality(Units(f, A \cup B)) = a + b - 0
    BY <1>1, <1>4, <1>5
<1> HIDE DEF a, b
<1>8. Cardinality(Units(f, A \cup B)) = a + b
    BY <1>6, <1>7
<1> QED
    BY <1>8 DEF a, b

LEMMA SumIsNumber ==
    ASSUME NEW S, NEW f, Numbers(f, S)
    PROVE  SumOf(f, S) \in Int
<1>1. Cardinality(Units(f, S)) \in Nat /\ Cardinality(Units(Opposite(f, S), S)) \in Nat
    BY UnitsFinite, OppositeNumbers
<1>2. SumOf(f, S) = Cardinality(Units(f, S)) - Cardinality(Units(Opposite(f, S), S))
    BY DEF SumOf, Opposite
<1> QED
    BY <1>1, <1>2

\* A sum depends on what is summed only.
LEMMA SumOfSame ==
    ASSUME NEW S, NEW f, NEW g, \A x \in S : f[x] = g[x]
    PROVE  SumOf(f, S) = SumOf(g, S)
<1>1. Units(f, S) = Units(g, S)
    BY DEF Units
<1>2. [x \in S |-> -f[x]] = [x \in S |-> -g[x]]
    OBVIOUS
<1> QED
    BY <1>1, <1>2 DEF SumOf

LEMMA SumOfUnion ==
    ASSUME NEW A, NEW B, NEW f, Numbers(f, A), Numbers(f, B), A \cap B = {}
    PROVE  SumOf(f, A \cup B) = SumOf(f, A) + SumOf(f, B)
<1> DEFINE n == Opposite(f, A \cup B)
<1>1. Numbers(n, A) /\ Numbers(n, B)
    BY DEF Numbers, Opposite
<1>2. Units(n, A) = Units(Opposite(f, A), A) /\ Units(n, B) = Units(Opposite(f, B), B)
    BY DEF Units, Opposite
<1>3. /\ SumOf(f, A \cup B) = Cardinality(Units(f, A \cup B)) - Cardinality(Units(n, A \cup B))
      /\ SumOf(f, A) = Cardinality(Units(f, A)) - Cardinality(Units(n, A))
      /\ SumOf(f, B) = Cardinality(Units(f, B)) - Cardinality(Units(n, B))
    BY <1>2 DEF SumOf, Opposite
<1> HIDE DEF n
<1>4. /\ Cardinality(Units(f, A \cup B)) = Cardinality(Units(f, A)) + Cardinality(Units(f, B))
      /\ Cardinality(Units(n, A \cup B)) = Cardinality(Units(n, A)) + Cardinality(Units(n, B))
    BY <1>1, UnitsOfUnion
<1>5. /\ Cardinality(Units(f, A)) \in Nat /\ Cardinality(Units(f, B)) \in Nat
      /\ Cardinality(Units(n, A)) \in Nat /\ Cardinality(Units(n, B)) \in Nat
    BY <1>1, UnitsFinite
<1> QED
    BY <1>3, <1>4, <1>5

LEMMA UnitsOfOne ==
    ASSUME NEW x, NEW f, f[x] \in Int
    PROVE  Cardinality(Units(f, {x})) = IF f[x] > 0 THEN f[x] ELSE 0
<1>1. Units(f, {x}) = {x} \X (1..f[x])
    BY DEF Units
<1> DEFINE n == f[x]
           one == 1
<1>2. n \in Int /\ one \in Int /\ one = 1
    OBVIOUS
<1> HIDE DEF n, one
<1>3. IsFiniteSet({x}) /\ Cardinality({x}) = 1
    BY FS_Singleton
<1>4. IsFiniteSet(one..n) /\ Cardinality(one..n) = IF one > n THEN 0 ELSE n - one + 1
    BY <1>2, FS_Interval
<1>5. Cardinality({x} \X (one..n)) = Cardinality({x}) * Cardinality(one..n)
    BY <1>3, <1>4, FS_Product
<1>6. Cardinality(one..n) = IF n > 0 THEN n ELSE 0
    BY <1>2, <1>4
<1>7. Cardinality({x} \X (one..n)) = IF n > 0 THEN n ELSE 0
    BY <1>2, <1>3, <1>5, <1>6
<1> QED
    BY <1>1, <1>7 DEF n, one

LEMMA SumOfOne ==
    ASSUME NEW x, NEW f, f[x] \in Int
    PROVE  SumOf(f, {x}) = f[x]
<1> DEFINE n == Opposite(f, {x})
<1>1. n[x] = -f[x] /\ n[x] \in Int
    BY DEF Opposite
<1>2. SumOf(f, {x}) = Cardinality(Units(f, {x})) - Cardinality(Units(n, {x}))
    BY DEF SumOf, Opposite
<1> HIDE DEF n
<1>3. Cardinality(Units(n, {x})) = IF n[x] > 0 THEN n[x] ELSE 0
    BY <1>1, UnitsOfOne
<1>4. Cardinality(Units(f, {x})) = IF f[x] > 0 THEN f[x] ELSE 0
    BY UnitsOfOne
<1> QED
    BY <1>1, <1>2, <1>3, <1>4

LEMMA SumOfNone ==
    ASSUME NEW f
    PROVE  SumOf(f, {}) = 0
<1>1. Units(f, {}) = {} /\ Units([x \in {} |-> -f[x]], {}) = {}
    BY DEF Units
<1> QED
    BY <1>1, FS_EmptySet DEF SumOf

\* What g gives to each member of K is the sum of f over the x of that key.
SumsOf(g, K, f, S, key) == \A k \in K : g[k] = SumOf(f, {x \in S : key[x] = k})

\* Summed by groups, or at once.
LEMMA SumOfGroups ==
    ASSUME NEW S, NEW f, Numbers(f, S), NEW key, NEW K, IsFiniteSet(K),
           NEW g, SumsOf(g, K, f, S, key)
    PROVE  SumOf(g, K) = SumOf(f, {x \in S : key[x] \in K})
<1> DEFINE In(L) == {x \in S : key[x] \in L}
           bad == {n \in Nat : \E L \in SUBSET K : Cardinality(L) = n /\ SumOf(g, L) # SumOf(f, In(L))}
<1>1. \A T \in SUBSET S : Numbers(f, T)
    BY FS_Subset DEF Numbers
<1>2. \A k \in K : {x \in S : key[x] = k} \in SUBSET S
    OBVIOUS
<1>3. \A k \in K : g[k] \in Int
    <2> SUFFICES ASSUME NEW k \in K PROVE g[k] \in Int
        OBVIOUS
    <2> DEFINE T == {x \in S : key[x] = k}
    <2>1. Numbers(f, T) /\ g[k] = SumOf(f, T)
        BY <1>1 DEF SumsOf
    <2> HIDE DEF T
    <2> QED
        BY <2>1, SumIsNumber
<1>4. \A L \in SUBSET K : Numbers(g, L) /\ Cardinality(L) \in Nat
    BY <1>3, FS_Subset, FS_CardinalityType DEF Numbers
<1>5. bad = {}
    <2> SUFFICES ASSUME bad # {} PROVE FALSE
        OBVIOUS
    <2> DEFINE n == First(bad)
    <2>1. n \in bad /\ \A m \in bad : n <= m
        <3>1. bad \in SUBSET Nat
            OBVIOUS
        <3> HIDE DEF bad
        <3> QED
            BY <3>1, LeastNumber
    <2> HIDE DEF n
    <2>2. PICK L \in SUBSET K : Cardinality(L) = n /\ SumOf(g, L) # SumOf(f, In(L))
        BY <2>1
    <2>3. n \in Nat /\ IsFiniteSet(L)
        BY <2>1, FS_Subset
    <2>4. CASE L = {}
        <3>1. In(L) = {}
            BY <2>4
        <3> QED
            BY <2>2, <2>4, <3>1, SumOfNone
    <2>5. CASE L # {}
        <3>1. PICK k \in L : TRUE
            BY <2>5
        <3> DEFINE M == L \ {k}
        <3>2. Cardinality(M) = n - 1 /\ Cardinality(M) \in Nat /\ M \in SUBSET K /\ IsFiniteSet(M)
            BY <2>2, <2>3, <3>1, <1>4, FS_RemoveElement
        <3>3. n - 1 \notin bad
            BY <2>1, <2>3, <3>2
        <3>4. SumOf(g, M) = SumOf(f, In(M))
            BY <3>2, <3>3
        <3>5. L = M \cup {k} /\ M \cap {k} = {} /\ {k} \in SUBSET K
            BY <3>1
        <3>6. SumOf(g, L) = SumOf(g, M) + g[k]
            <4>1. SumOf(g, {k}) = g[k]
                BY <1>3, <3>5, SumOfOne
            <4>2. Numbers(g, M) /\ Numbers(g, {k})
                BY <1>4, <3>2, <3>5
            <4> HIDE DEF M
            <4> QED
                BY <3>5, <4>1, <4>2, SumOfUnion
        <3>7. In(L) = In(M) \cup In({k}) /\ In(M) \cap In({k}) = {}
            BY <3>5
        <3>8. In({k}) = {x \in S : key[x] = k}
            OBVIOUS
        <3>9. Numbers(f, In(M)) /\ Numbers(f, In({k}))
            BY <1>1
        <3>10. g[k] = SumOf(f, In({k}))
            BY <3>5, <3>8 DEF SumsOf
        <3> HIDE DEF In, M
        <3>11. SumOf(f, In(L)) = SumOf(f, In(M)) + SumOf(f, In({k}))
            <4> DEFINE X == In(M)
                       Y == In({k})
            <4>1. In(L) = X \cup Y /\ X \cap Y = {} /\ Numbers(f, X) /\ Numbers(f, Y)
                BY <3>7, <3>9
            <4> HIDE DEF X, Y
            <4>2. SumOf(f, X \cup Y) = SumOf(f, X) + SumOf(f, Y)
                BY <4>1, SumOfUnion
            <4> QED
                BY <4>1, <4>2 DEF X, Y
        <3> QED
            BY <2>2, <3>4, <3>6, <3>10, <3>11
    <2> QED
        BY <2>4, <2>5
<1>6. Cardinality(K) \notin bad
    BY <1>5
<1> QED
    BY <1>4, <1>6

\* What corresponds one to one adds up to the same.
LEMMA SumOfImage ==
    ASSUME NEW S, NEW f, Numbers(f, S), NEW T, IsFiniteSet(T), NEW g, NEW h,
           \A x \in S : h[x] \in T /\ f[x] = g[h[x]],
           \A t \in T : \E x \in S : h[x] = t,
           \A x, y \in S : h[x] = h[y] => x = y
    PROVE  SumOf(g, T) = SumOf(f, S)
<1>1. ASSUME NEW t \in T PROVE g[t] = SumOf(f, {x \in S : h[x] = t})
    <2>1. PICK x \in S : h[x] = t
        OBVIOUS
    <2>2. {y \in S : h[y] = t} = {x}
        BY <2>1
    <2>3. f[x] \in Int /\ f[x] = g[t]
        BY <2>1 DEF Numbers
    <2> QED
        BY <2>2, <2>3, SumOfOne
<1>2. SumOf(g, T) = SumOf(f, {x \in S : h[x] \in T})
    BY <1>1, SumOfGroups DEF SumsOf
<1>3. {x \in S : h[x] \in T} = S
    OBVIOUS
<1> QED
    BY <1>2, <1>3

\* Counting is adding ones.
LEMMA CountIsSum ==
    ASSUME NEW S, IsFiniteSet(S)
    PROVE  Numbers([x \in S |-> 1], S) /\ Cardinality(S) = SumOf([x \in S |-> 1], S)
<1> DEFINE one == [x \in S |-> 1]
           pair == [x \in S |-> <<x, 1>>]
<1>1. Numbers(one, S)
    BY DEF Numbers
<1>2. Units(one, S) = {<<x, 1>> : x \in S}
    BY DEF Units
<1>3. pair \in Bijection(S, Units(one, S))
    <2>1. pair \in [S -> Units(one, S)]
        BY <1>2
    <2>2. \A x, y \in S : pair[x] = pair[y] => x = y
        OBVIOUS
    <2>3. \A u \in Units(one, S) : \E x \in S : pair[x] = u
        BY <1>2
    <2> HIDE DEF pair, one
    <2> QED
        BY <2>1, <2>2, <2>3 DEF Bijection, Injection, IsInjective, Surjection
<1>4. Cardinality(Units(one, S)) = Cardinality(S)
    <2> HIDE DEF pair, one
    <2> QED
        BY <1>3, FS_Bijection DEF ExistsBijection
<1>5. Units([x \in S |-> -one[x]], S) = {}
    BY DEF Units
<1>6. Cardinality(Units([x \in S |-> -one[x]], S)) = 0 /\ Cardinality(S) \in Nat
    BY <1>5, FS_EmptySet, FS_CardinalityType
<1>7. SumOf(one, S) = Cardinality(Units(one, S)) - Cardinality(Units([x \in S |-> -one[x]], S))
    BY DEF SumOf
<1> HIDE DEF one
<1> QED
    BY <1>1, <1>4, <1>6, <1>7 DEF one

-----------------------------------------------------------------------------
(* Totals.                                                                   *)

\* The joined rows are one for each row of the base table.
RowPerRow(c, db) ==
    /\ IsFiniteSet(Joined(c, db)) /\ IsFiniteSet(DOMAIN db[c.base])
    /\ \A r \in Joined(c, db) : r[c.base] \in DOMAIN db[c.base]
    /\ \A n \in DOMAIN db[c.base] : \E r \in Joined(c, db) : r[c.base] = n
    /\ \A r, s \in Joined(c, db) : r[c.base] = s[c.base] => r = s

LEMMA JoinedRowPerRow ==
    ASSUME NEW w, WellFormed(w), NEW q \in w.questions, NEW seePii \in BOOLEAN,
           Answerable(w.model, q, seePii), CardinalitiesHold(w.model, w.silver)
    PROVE  RowPerRow(Compiled(w.model, q, seePii), w.silver)
<1> DEFINE c == Compiled(w.model, q, seePii)
           db == w.silver
           T == DOMAIN db[c.base]
           to == [r \in Joined(c, db) |-> r[c.base]]
<1>1. Tree(c, w.model.joins) /\ TablesOf(c) \subseteq DOMAIN db /\ c.base \in DOMAIN db
    BY CompiledTree
<1>2. Tables(db) /\ IsSequence(w.model.joins)
    BY DEF WellFormed
<1>3. ASSUME NEW j \in c.joins
      PROVE  \A m, n \in DOMAIN db[j.to] :
                 (db[j.to][m][j.target] = db[j.to][n][j.target] /\ db[j.to][m][j.target] # Null) => m = n
    <2>1. PICK i \in DOMAIN w.model.joins : j = w.model.joins[i]
        BY <1>1 DEF Tree, JoinsOf
    <2>2. j.cardinality # "one_to_many"
        BY <1>1 DEF Tree, Traversable
    <2> QED
        BY <2>1, <2>2 DEF CardinalitiesHold
<1> HIDE DEF c
<1>4. \A r, s \in Joined(c, db) : r[c.base] = s[c.base] => r = s
    <2>1. OnePartner(c, db)
        BY <1>3 DEF OnePartner
    <2> DEFINE joins == w.model.joins
    <2>2. Tree(c, joins)
        BY <1>1
    <2> HIDE DEF db, joins
    <2> QED
        BY <2>1, <2>2, JoinedOnce
<1>5. \A n \in T : \E r \in Joined(c, db) : r[c.base] = n
    BY <1>1, <1>2, NoneLost
<1>6. \A r \in Joined(c, db) : r[c.base] \in T
    BY DEF Joined
<1>7. IsFiniteSet(T)
    <2> DEFINE n == Len(db[c.base])
               one == 1
    <2>1. n \in Nat /\ T = one..n
        BY <1>1, <1>2 DEF Tables, IsSequence
    <2>2. n \in Int /\ one \in Int
        BY <2>1
    <2> HIDE DEF n, one, T
    <2> QED
        BY <2>1, <2>2, FS_Interval
<1>8. IsFiniteSet(Joined(c, db))
    <2>1. to \in Injection(Joined(c, db), T)
        BY <1>4, <1>6 DEF Injection, IsInjective
    <2> HIDE DEF to, T
    <2> QED
        BY <1>7, <2>1, FS_Injection
<1> QED
    BY <1>4, <1>5, <1>6, <1>7, <1>8 DEF RowPerRow, c

\* What corresponds one to one is as many.
Matched(X, Y, h) ==
    /\ \A x \in X : h[x] \in Y
    /\ \A y \in Y : \E x \in X : h[x] = y
    /\ \A x, z \in X : h[x] = h[z] => x = z

LEMMA CountOfImage ==
    ASSUME NEW X, NEW Y, IsFiniteSet(Y), NEW h, Matched(X, Y, h)
    PROVE  IsFiniteSet(X) /\ Cardinality(X) = Cardinality(Y)
<1> DEFINE b == [x \in X |-> h[x]]
<1>1. b \in [X -> Y] /\ (\A x, z \in X : b[x] = b[z] => x = z) /\ \A y \in Y : \E x \in X : b[x] = y
    BY DEF Matched
<1> HIDE DEF b
<1>2. b \in Injection(X, Y) /\ b \in Bijection(X, Y)
    BY <1>1 DEF Injection, IsInjective, Bijection, Surjection
<1>3. IsFiniteSet(X)
    BY <1>2, FS_Injection
<1> QED
    BY <1>2, <1>3, FS_Bijection DEF ExistsBijection

\* What stands at a rank of one stands there of the other.
LEMMA RankedOfImage ==
    ASSUME NEW S, NEW f, NEW T, IsFiniteSet(T), NEW g, NEW h, Matched(S, T, h),
           \A x \in S : f[x] = g[h[x]], NEW k
    PROVE  Ranked(f, S, k) = Ranked(g, T, k)
<1>1. {f[x] : x \in S} = {g[t] : t \in T}
    BY DEF Matched
<1>2. ASSUME NEW v
      PROVE  /\ Cardinality({x \in S : f[x] < v}) = Cardinality({t \in T : g[t] < v})
             /\ Cardinality({x \in S : f[x] <= v}) = Cardinality({t \in T : g[t] <= v})
    <2>1. Matched({x \in S : f[x] < v}, {t \in T : g[t] < v}, h)
        BY DEF Matched
    <2>2. Matched({x \in S : f[x] <= v}, {t \in T : g[t] <= v}, h)
        BY DEF Matched
    <2>3. IsFiniteSet({t \in T : g[t] < v}) /\ IsFiniteSet({t \in T : g[t] <= v})
        BY FS_Subset
    <2> DEFINE A == {x \in S : f[x] < v}
               B == {t \in T : g[t] < v}
               C == {x \in S : f[x] <= v}
               D == {t \in T : g[t] <= v}
    <2> HIDE DEF A, B, C, D
    <2>4. Matched(A, B, h) /\ IsFiniteSet(B) /\ Matched(C, D, h) /\ IsFiniteSet(D)
        BY <2>1, <2>2, <2>3 DEF A, B, C, D
    <2>5. Cardinality(A) = Cardinality(B) /\ Cardinality(C) = Cardinality(D)
        BY <2>4, CountOfImage
    <2> QED
        BY <2>5 DEF A, B, C, D
<1> DEFINE at(v) == /\ Cardinality({x \in S : f[x] < v}) < k
                    /\ k <= Cardinality({x \in S : f[x] <= v})
           also(v) == /\ Cardinality({t \in T : g[t] < v}) < k
                      /\ k <= Cardinality({t \in T : g[t] <= v})
           V == {f[x] : x \in S}
<1>3. \A v : at(v) <=> also(v)
    BY <1>2
<1>4. Ranked(f, S, k) = (CHOOSE v \in V : at(v)) /\ Ranked(g, T, k) = (CHOOSE v \in V : also(v))
    BY <1>1 DEF Ranked
<1> HIDE DEF at, also, V
<1>5. (CHOOSE v \in V : at(v)) = (CHOOSE v \in V : also(v))
    BY <1>3
<1> QED
    BY <1>4, <1>5

\* What is summed is a number or NULL.
Fit(op, g) == op \in {"sum", "avg"} => \A t \in DOMAIN g : g[t] \in Int \cup {Null}

\* An aggregate does not depend on which rows carry its arguments.
LEMMA FigureOfImage ==
    ASSUME NEW op \in AGGREGATIONS, NEW f, NEW g, IsFiniteSet(DOMAIN g), NEW h, Matched(DOMAIN f, DOMAIN g, h),
           \A x \in DOMAIN f : f[x] = g[h[x]], Fit(op, g)
    PROVE  Figure(op, f) = Figure(op, g)
<1> DEFINE S == {x \in DOMAIN f : f[x] # Null}
           T == {t \in DOMAIN g : g[t] # Null}
           n == Cardinality(S)
           m == Cardinality(T)
<1>1. Matched(S, T, h) /\ \A x \in S : f[x] = g[h[x]]
    BY DEF Matched
<1>2. IsFiniteSet(T)
    BY FS_Subset
<1>3. op \in {"sum", "avg"} => \A x \in S : f[x] \in Int
    BY DEF Fit, Matched
<1> HIDE DEF S, T
<1>4. n = m /\ IsFiniteSet(S)
    BY <1>1, <1>2, CountOfImage
<1>5. {f[x] : x \in S} = {g[t] : t \in T}
    BY <1>1 DEF Matched
<1>6. op \in {"sum", "avg"} => SumOf(f, S) = SumOf(g, T)
    <2> SUFFICES ASSUME op \in {"sum", "avg"} PROVE SumOf(f, S) = SumOf(g, T)
        OBVIOUS
    <2>1. Numbers(f, S)
        BY <1>3, <1>4 DEF Numbers
    <2> QED
        BY <1>1, <1>2, <2>1, SumOfImage DEF Matched
<1>7. \A k : Ranked(f, S, k) = Ranked(g, T, k)
    BY <1>1, <1>2, RankedOfImage
<1> DEFINE figure(F, D, c) ==
               IF op = "count" THEN <<c>>
               ELSE IF op = "count_distinct" THEN <<Cardinality({F[r] : r \in D})>>
               ELSE IF c = 0 THEN <<>>
               ELSE CASE op = "sum" -> <<SumOf(F, D)>>
                      [] op = "avg" -> <<SumOf(F, D), c>>
                      [] op = "min" -> <<Ranked(F, D, 1)>>
                      [] op = "max" -> <<Ranked(F, D, c)>>
                      [] op = "median" -> <<Ranked(F, D, (c + 1) \div 2), Ranked(F, D, c \div 2 + 1)>>
<1>8. Figure(op, f) = figure(f, S, n) /\ Figure(op, g) = figure(g, T, m)
    BY DEF Figure, S, T
<1> HIDE DEF n, m
<1>9. ASSUME NEW c PROVE figure(f, S, c) = figure(g, T, c)
    <2> DEFINE low == (c + 1) \div 2
               high == c \div 2 + 1
    <2>1. /\ Ranked(f, S, 1) = Ranked(g, T, 1) /\ Ranked(f, S, c) = Ranked(g, T, c)
          /\ Ranked(f, S, low) = Ranked(g, T, low) /\ Ranked(f, S, high) = Ranked(g, T, high)
        BY <1>7
    <2>2. Cardinality({f[r] : r \in S}) = Cardinality({g[r] : r \in T})
        BY <1>5
    <2> HIDE DEF low, high
    <2>3. CASE op = "count"
        BY <2>3
    <2>4. CASE op = "count_distinct"
        BY <2>2, <2>4
    <2>5. CASE op = "sum"
        BY <1>6, <2>5
    <2>6. CASE op = "avg"
        BY <1>6, <2>6
    <2>7. CASE op = "min"
        BY <2>1, <2>7
    <2>8. CASE op = "max"
        BY <2>1, <2>8
    <2>9. CASE op = "median"
        BY <2>1, <2>9 DEF low, high
    <2> QED
        BY <2>3, <2>4, <2>5, <2>6, <2>7, <2>8, <2>9 DEF AGGREGATIONS
<1> HIDE DEF figure
<1> QED
    BY <1>4, <1>8, <1>9

\* The groups of an unfiltered answer, each of the rows that carry it, break the
\* base table down.
LEMMA AnswerBreaksDown ==
    ASSUME NEW c, NEW db, RowPerRow(c, db), c.where = <<>>, NEW table, table = db[c.base],
           Summable(c, table), \A i \in DOMAIN c.aggregates : c.aggregates[i].op \in AGGREGATIONS,
           NEW answer, answer = Answer(c, db)
    PROVE  BreaksDown(c, table, answer) /\ IsFiniteSet(DOMAIN answer)
<1> DEFINE R == Joined(c, db)
           T == DOMAIN table
           to == [r \in R |-> r[c.base]]
           group == [n \in T |-> GroupOf(c, db, CHOOSE r \in R : r[c.base] = n)]
           keys == {GroupOf(c, db, r) : r \in R} \cup (IF c.groups = <<>> THEN {<<>>} ELSE {})
           members(k) == {r \in R : GroupOf(c, db, r) = k}
           rows(k) == {n \in T : group[n] = k}
<1>1. RowsKept(c, db) = R
    BY DEF RowsKept
<1>2. answer = [k \in keys |-> [i \in DOMAIN c.aggregates |-> Aggregate(c.aggregates[i], c, db, members(k))]]
    BY <1>1 DEF Answer
<1>3. \A n \in T : \E r \in R : r[c.base] = n
    BY DEF RowPerRow
<1>4. \A n \in T : (CHOOSE r \in R : r[c.base] = n) \in R
    BY <1>3
<1>5. \A r \in R : r[c.base] \in T /\ (CHOOSE s \in R : s[c.base] = r[c.base]) = r
    BY DEF RowPerRow
<1>6. \A r \in R : to[r] \in T /\ group[to[r]] = GroupOf(c, db, r)
    <2> DEFINE at(n) == CHOOSE r \in R : r[c.base] = n
    <2>1. \A n \in T : group[n] = GroupOf(c, db, at(n))
        OBVIOUS
    <2>2. \A r \in R : to[r] = r[c.base] /\ to[r] \in T /\ at(r[c.base]) = r
        BY <1>5
    <2> HIDE DEF at, group, to
    <2> QED
        BY <2>1, <2>2
<1>7. group \in [T -> DOMAIN answer]
    BY <1>2, <1>4
<1>8. IsFiniteSet(DOMAIN answer)
    <2> DEFINE of == [r \in R |-> GroupOf(c, db, r)]
               image == {GroupOf(c, db, r) : r \in R}
               rest == IF c.groups = <<>> THEN {<<>>} ELSE {}
    <2>1. of \in Surjection(R, image)
        BY DEF Surjection
    <2>2. DOMAIN answer = image \cup rest
        BY <1>2
    <2> HIDE DEF of, image
    <2>3. IsFiniteSet(image)
        BY <2>1, FS_Surjection DEF RowPerRow
    <2>4. IsFiniteSet(rest)
        BY FS_Singleton, FS_EmptySet
    <2> HIDE DEF rest
    <2> QED
        BY <2>2, <2>3, <2>4, FS_Union
<1>9. ASSUME NEW k \in DOMAIN answer, NEW i \in DOMAIN c.aggregates
      PROVE  answer[k][i] = TotalOf(c.aggregates[i], table, rows(k))
    <2> DEFINE a == c.aggregates[i]
               f == [r \in members(k) |-> Argument(a, table[r[c.base]])]
               g == [n \in rows(k) |-> Argument(a, table[n])]
    <2>1. answer[k][i] = Figure(a.op, f) /\ TotalOf(a, table, rows(k)) = Figure(a.op, g)
        BY <1>2 DEF Aggregate, TotalOf
    <2>2. DOMAIN f = members(k) /\ DOMAIN g = rows(k)
        OBVIOUS
    <2>3. IsFiniteSet(DOMAIN g)
        <3>1. IsFiniteSet(T) /\ DOMAIN g \subseteq T
            BY DEF RowPerRow
        <3> HIDE DEF T, g
        <3> QED
            BY <3>1, FS_Subset
    <2>4. Matched(DOMAIN f, DOMAIN g, to)
        <3>1. \A r \in members(k) : to[r] \in rows(k)
            BY <1>6
        <3>2. ASSUME NEW n \in rows(k) PROVE \E r \in members(k) : to[r] = n
            <4>1. PICK r \in R : r[c.base] = n
                BY <1>3
            <4>2. to[r] = n /\ GroupOf(c, db, r) = k
                BY <1>6, <4>1
            <4> QED
                BY <4>1, <4>2
        <3>3. \A r, s \in members(k) : to[r] = to[s] => r = s
            BY DEF RowPerRow
        <3> HIDE DEF f, g, to, members, rows
        <3> QED
            BY <2>2, <3>1, <3>2, <3>3 DEF Matched
    <2>5. \A r \in DOMAIN f : f[r] = g[to[r]]
        BY <1>6
    <2>6. Fit(a.op, g) /\ a.op \in AGGREGATIONS
        BY DEF Fit, Summable
    <2> HIDE DEF f, g, a, to
    <2>7. Figure(a.op, f) = Figure(a.op, g)
        BY <2>3, <2>4, <2>5, <2>6, FigureOfImage
    <2> QED
        BY <2>1, <2>7 DEF a
<1>10. BreaksDown(c, table, answer)
    <2> HIDE DEF group
    <2> QED
        BY <1>7, <1>9 DEF BreaksDown
<1> QED
    BY <1>8, <1>10

\* The rows an aggregate counts.
Counted(a, table, P) == {n \in P : Argument(a, table[n]) # Null}
Amounts(a, table) == [n \in DOMAIN table |-> Argument(a, table[n])]

LEMMA TotalOfRows ==
    ASSUME NEW a, NEW table, NEW P, P \subseteq DOMAIN table, a.op \in {"sum", "avg", "count"}
    PROVE  LET C == Counted(a, table, P)
               total == SumOf(Amounts(a, table), C)
           IN  TotalOf(a, table, P) =
                   IF a.op = "count" THEN <<Cardinality(C)>>
                   ELSE IF Cardinality(C) = 0 THEN <<>>
                   ELSE IF a.op = "sum" THEN <<total>> ELSE <<total, Cardinality(C)>>
<1> DEFINE C == Counted(a, table, P)
           f == [n \in P |-> Argument(a, table[n])]
           g == Amounts(a, table)
<1>1. {r \in DOMAIN f : f[r] # Null} = C
    BY DEF Counted
<1>2. \A n \in C : f[n] = g[n]
    BY DEF Counted, Amounts
<1>3. TotalOf(a, table, P) = Figure(a.op, f)
    BY DEF TotalOf
<1> HIDE DEF C, f, g
<1>4. SumOf(f, C) = SumOf(g, C)
    BY <1>2, SumOfSame
<1>5. Figure(a.op, f) = IF a.op = "count" THEN <<Cardinality(C)>>
                        ELSE IF Cardinality(C) = 0 THEN <<>>
                        ELSE IF a.op = "sum" THEN <<SumOf(f, C)>> ELSE <<SumOf(f, C), Cardinality(C)>>
    BY <1>1 DEF Figure
<1> QED
    BY <1>3, <1>4, <1>5 DEF C, g

\* Where the groups that count a row at all are known, they add up.
LEMMA PartsAddUp ==
    ASSUME NEW C, NEW f, Numbers(f, C), NEW group, NEW K, IsFiniteSet(K),
           \A n \in C : group[n] \in K,
           NEW g, SumsOf(g, K, f, C, group)
    PROVE  SumOf(g, K) = SumOf(f, C)
<1>1. {n \in C : group[n] \in K} = C
    OBVIOUS
<1> QED
    BY <1>1, SumOfGroups

\* What g gives to each member of K is the number of the x of that key.
CountsOf(g, K, S, key) == \A k \in K : g[k] = Cardinality({x \in S : key[x] = k})

\* Counts are sums of ones.
LEMMA CountsAddUp ==
    ASSUME NEW C, IsFiniteSet(C), NEW group, NEW K, IsFiniteSet(K),
           \A n \in C : group[n] \in K,
           NEW g, CountsOf(g, K, C, group)
    PROVE  SumOf(g, K) = Cardinality(C)
<1> DEFINE one == [n \in C |-> 1]
<1>1. Numbers(one, C) /\ Cardinality(C) = SumOf(one, C)
    BY CountIsSum
<1>2. ASSUME NEW k \in K PROVE g[k] = SumOf(one, {n \in C : group[n] = k})
    <2> DEFINE P == {n \in C : group[n] = k}
               ones == [n \in P |-> 1]
    <2>1. IsFiniteSet(P)
        BY FS_Subset
    <2>2. \A n \in P : one[n] = ones[n]
        OBVIOUS
    <2>3. g[k] = Cardinality(P)
        BY DEF CountsOf
    <2>4. Cardinality(P) = SumOf(ones, P)
        <3> HIDE DEF P
        <3> QED
            BY <2>1, CountIsSum
    <2> HIDE DEF P, one, ones
    <2>5. SumOf(one, P) = SumOf(ones, P)
        BY <2>2, SumOfSame
    <2> QED
        BY <2>3, <2>4, <2>5 DEF P
<1> HIDE DEF one
<1>3. SumsOf(g, K, one, C, group)
    BY <1>2 DEF SumsOf
<1> QED
    BY <1>1, <1>3, PartsAddUp

\* The groups of an answer that breaks a table down add up to the table.
LEMMA GroupsAddUp ==
    ASSUME NEW c, NEW table, IsFiniteSet(DOMAIN table), NEW answer, IsFiniteSet(DOMAIN answer),
           Summable(c, table), BreaksDown(c, table, answer)
    PROVE  AddsUp(c, table, answer)
<1> SUFFICES ASSUME NEW i \in DOMAIN c.aggregates, c.aggregates[i].op \in {"sum", "avg", "count"},
                    NEW p \in DOMAIN TotalOf(c.aggregates[i], table, DOMAIN table)
             PROVE  LET known == {k \in DOMAIN answer : answer[k][i] # <<>>}
                    IN  SumOf([k \in known |-> answer[k][i][p]], known)
                            = TotalOf(c.aggregates[i], table, DOMAIN table)[p]
    BY DEF AddsUp
<1> DEFINE a == c.aggregates[i]
           T == DOMAIN table
           known == {k \in DOMAIN answer : answer[k][i] # <<>>}
           g == [k \in known |-> answer[k][i][p]]
           total == TotalOf(a, table, T)
           f == Amounts(a, table)
           C == Counted(a, table, T)
<1>1. PICK group \in [T -> DOMAIN answer] :
          \A k \in DOMAIN answer : \A l \in DOMAIN c.aggregates :
              answer[k][l] = TotalOf(c.aggregates[l], table, {n \in T : group[n] = k})
    BY DEF BreaksDown
<1> DEFINE at(k) == {n \in C : group[n] = k}
<1>2. ASSUME NEW k PROVE Counted(a, table, {n \in T : group[n] = k}) = at(k)
    BY DEF Counted
<1>3. C \subseteq T /\ IsFiniteSet(C)
    BY FS_Subset DEF Counted
<1>4. \A k : IsFiniteSet(at(k)) /\ Cardinality(at(k)) \in Nat /\ (Cardinality(at(k)) = 0 <=> at(k) = {})
    <2> SUFFICES ASSUME NEW k PROVE IsFiniteSet(at(k)) /\ Cardinality(at(k)) \in Nat /\ (Cardinality(at(k)) = 0 <=> at(k) = {})
        OBVIOUS
    <2> DEFINE P == at(k)
    <2>1. P \subseteq C
        OBVIOUS
    <2> HIDE DEF P, C
    <2>2. IsFiniteSet(P)
        BY <1>3, <2>1, FS_Subset
    <2>3. Cardinality(P) \in Nat /\ (Cardinality(P) = 0 <=> P = {})
        BY <2>2, FS_CardinalityType, FS_EmptySet
    <2> QED
        BY <2>2, <2>3 DEF P
<1>5. a.op \in {"sum", "avg"} => Numbers(f, C)
    BY <1>3 DEF Numbers, Summable, Counted, Amounts
<1>6. IsFiniteSet(known)
    BY FS_Subset
<1> DEFINE row(D) == IF a.op = "count" THEN <<Cardinality(D)>>
                     ELSE IF Cardinality(D) = 0 THEN <<>>
                     ELSE IF a.op = "sum" THEN <<SumOf(f, D)>> ELSE <<SumOf(f, D), Cardinality(D)>>
<1>7. a.op \in {"sum", "avg", "count"}
    OBVIOUS
<1>8. total = row(C)
    <2> HIDE DEF a
    <2> QED
        BY <1>7, TotalOfRows
<1>9. ASSUME NEW k \in DOMAIN answer PROVE answer[k][i] = row(at(k))
    <2> DEFINE P == {n \in T : group[n] = k}
    <2>1. answer[k][i] = TotalOf(a, table, P) /\ P \subseteq DOMAIN table /\ Counted(a, table, P) = at(k)
        BY <1>1, <1>2
    <2> HIDE DEF a, P, at
    <2>2. TotalOf(a, table, P) = row(Counted(a, table, P))
        BY <1>7, <2>1, TotalOfRows
    <2> QED
        BY <2>1, <2>2
<1>10. p \in DOMAIN total
    OBVIOUS
<1>11. \A n \in C : group[n] \in DOMAIN answer /\ n \in at(group[n])
    BY <1>1, <1>3
<1> HIDE DEF at
<1>12. \A n \in C : group[n] \in known
    <2> SUFFICES ASSUME NEW n \in C PROVE answer[group[n]][i] # <<>>
        BY <1>11
    <2>1. Cardinality(at(group[n])) # 0
        BY <1>4, <1>11
    <2> DEFINE D == at(group[n])
    <2>2. answer[group[n]][i] = row(D) /\ Cardinality(D) # 0
        BY <1>9, <1>11, <2>1
    <2> HIDE DEF D, f, C, a
    <2> QED
        BY <2>2
<1>13. \A k \in known : k \in DOMAIN answer /\ g[k] = row(at(k))[p] /\ row(at(k)) # <<>>
    BY <1>9
<1> HIDE DEF known, g, f, C, total
<1>14. CASE (p = 1 /\ a.op = "count") \/ (p = 2 /\ a.op = "avg")
    <2>1. ASSUME NEW k \in known PROVE g[k] = Cardinality(at(k))
        <3> DEFINE counted == Cardinality(at(k))
                   sum == SumOf(f, at(k))
        <3>1. g[k] = row(at(k))[p] /\ row(at(k)) # <<>>
            BY <1>13
        <3> HIDE DEF counted, sum
        <3>2. CASE p = 1 /\ a.op = "count"
            BY <3>1, <3>2 DEF counted
        <3>3. CASE p = 2 /\ a.op = "avg"
            <4>1. row(at(k)) = IF counted = 0 THEN <<>> ELSE <<sum, counted>>
                BY <3>3 DEF counted, sum
            <4> HIDE DEF row
            <4>2. row(at(k)) = <<sum, counted>>
                BY <3>1, <4>1
            <4> QED
                BY <3>1, <3>3, <4>2 DEF counted
        <3> QED
            BY <1>14, <3>2, <3>3
    <2>2. CountsOf(g, known, C, group)
        BY <2>1 DEF at, CountsOf
    <2>3. SumOf(g, known) = Cardinality(C)
        BY <1>3, <1>6, <1>12, <2>2, CountsAddUp
    <2>4. total[p] = Cardinality(C)
        BY <1>8, <1>10, <1>14
    <2> QED
        BY <2>3, <2>4 DEF known, g, total
<1>15. CASE p = 1 /\ a.op \in {"sum", "avg"}
    <2>1. \A k \in known : g[k] = SumOf(f, at(k))
        BY <1>13, <1>15
    <2>2. SumsOf(g, known, f, C, group)
        BY <2>1 DEF at, SumsOf
    <2>3. SumOf(g, known) = SumOf(f, C)
        BY <1>5, <1>6, <1>12, <1>15, <2>2, PartsAddUp
    <2>4. total[p] = SumOf(f, C)
        BY <1>8, <1>10, <1>15
    <2> QED
        BY <2>3, <2>4 DEF known, g, total
<1>16. \/ (p = 1 /\ a.op = "count") \/ (p = 2 /\ a.op = "avg")
       \/ p = 1 /\ a.op \in {"sum", "avg"}
    BY <1>7, <1>8, <1>10
<1> QED
    BY <1>14, <1>15, <1>16

LEMMA TotalsKept ==
    ASSUME NEW w, WellFormed(w), NEW q \in w.questions, NEW seePii \in BOOLEAN,
           Answerable(w.model, q, seePii), CardinalitiesHold(w.model, w.silver),
           NEW c, c = Compiled(w.model, q, seePii), NEW table, table = w.silver[c.base],
           Summable(c, table), c.where = <<>>, NEW answer, answer = Answer(c, w.silver)
    PROVE  BreaksDown(c, table, answer) /\ AddsUp(c, table, answer)
<1> DEFINE db == w.silver
<1>1. RowPerRow(c, db)
    BY JoinedRowPerRow
<1>2. IsFiniteSet(DOMAIN table)
    BY <1>1 DEF RowPerRow
<1>3. \A i \in DOMAIN c.aggregates : c.aggregates[i].op \in AGGREGATIONS
    BY DEF Compiled, AggregateOf, Answerable
<1>4. table = db[c.base] /\ answer = Answer(c, db)
    OBVIOUS
<1> HIDE DEF db
<1>5. BreaksDown(c, table, answer) /\ IsFiniteSet(DOMAIN answer)
    BY <1>1, <1>3, <1>4, AnswerBreaksDown
<1> QED
    BY <1>2, <1>5, GroupsAddUp

\* Whatever the model, the question and the tables: where the declared
\* cardinalities hold and what is summed is a number, an unfiltered answer gives
\* each row of the table that carries the measures to one group, and the
\* figures of a group, of any aggregation and under any constraint, are those
\* of its rows; so the groups of sums, counts and averages add up to the
\* aggregate of the table by itself.  The compiler's walk over the joins and
\* its refusal of one to many hops are what keeps a row from being repeated or
\* lost.
THEOREM TotalsAreKept == AnswersSpec => []TotalsSurviveJoins
<1>1. AnswersInv => TotalsSurviveJoins
    <2> SUFFICES ASSUME AnswersInv, reply # <<>> PROVE TotalsSurviveJoins
        BY DEF TotalsSurviveJoins
    <2> DEFINE w == warehouse
               c == reply[1].compiled
               answer == reply[1].answer
               table == w.silver[c.base]
    <2>1. WellFormed(w)
        BY WarehousesAssumption DEF AnswersInv
    <2>2. PICK q \in w.questions, seePii \in BOOLEAN :
              Answerable(w.model, q, seePii) /\ reply = <<Answered(w, q, seePii)>>
        BY DEF AnswersInv
    <2>3. reply[1] = Answered(w, q, seePii)
        BY <2>2
    <2>4. c = Compiled(w.model, q, seePii) /\ answer = Answer(Compiled(w.model, q, seePii), w.silver)
        BY <2>3 DEF Answered
    <2> SUFFICES ASSUME CardinalitiesHold(w.model, w.silver), Summable(c, table), c.where = <<>>
                 PROVE  BreaksDown(c, table, answer) /\ AddsUp(c, table, answer)
        BY DEF TotalsSurviveJoins
    <2>5. answer = Answer(c, w.silver) /\ table = w.silver[c.base]
        BY <2>4
    <2> HIDE DEF c, answer, w, table
    <2> QED
        BY <2>1, <2>2, <2>4, <2>5, TotalsKept
<1> QED
    BY <1>1, AnswersInvariant, PTL

-----------------------------------------------------------------------------
(* Rows in order.                                                            *)

\* Of two places from 1 to n, one is first.
Orders(order, n) ==
    /\ \A i, j \in 1..n : <<i, j>> \in order \/ <<j, i>> \in order \/ i = j
    /\ \A i \in 1..n : <<i, i>> \notin order
    /\ \A i, j, k \in 1..n : <<i, j>> \in order /\ <<j, k>> \in order => <<i, k>> \in order

Ahead(order, n, i) == {j \in 1..n : <<j, i>> \in order}

\* The k-th place is the one with k - 1 ahead of it: every place is one of them,
\* and they follow one another in the order.
Placed(order, n) ==
    /\ \A k \in 1..n : PlaceIn(order, n, k) \in 1..n
    /\ \A i \in 1..n : \E k \in 1..n : PlaceIn(order, n, k) = i
    /\ \A k, l \in 1..n : k < l => <<PlaceIn(order, n, k), PlaceIn(order, n, l)>> \in order
    /\ \A k, l \in 1..n : PlaceIn(order, n, k) = PlaceIn(order, n, l) => k = l

LEMMA PlacesFollow ==
    ASSUME NEW n \in Nat, NEW order, Orders(order, n)
    PROVE  Placed(order, n)
<1> DEFINE P == 1..n
           Number(i) == Cardinality(Ahead(order, n, i)) + 1
<1>1. IsFiniteSet(P) /\ Cardinality(P) = n
    BY FS_Interval, 1 \in Int, n \in Int
<1>2. ASSUME NEW i \in P
      PROVE  /\ Ahead(order, n, i) \in SUBSET (P \ {i}) /\ IsFiniteSet(Ahead(order, n, i))
             /\ Cardinality(Ahead(order, n, i)) \in Nat /\ Cardinality(Ahead(order, n, i)) <= n - 1
    <2>1. Ahead(order, n, i) \in SUBSET (P \ {i})
        BY DEF Ahead, Orders
    <2>2. IsFiniteSet(P \ {i}) /\ Cardinality(P \ {i}) = n - 1
        <3> HIDE DEF P
        <3> QED
            BY <1>1, FS_RemoveElement
    <2> QED
        BY <2>1, <2>2, FS_Subset, FS_CardinalityType
<1>3. ASSUME NEW i \in P PROVE Number(i) \in P
    BY <1>2
<1>4. ASSUME NEW i \in P, NEW j \in P, <<i, j>> \in order PROVE Number(i) < Number(j)
    <2> DEFINE A == Ahead(order, n, i)
               B == Ahead(order, n, j)
    <2>1. A \subseteq B /\ i \in B /\ i \notin A
        BY <1>4 DEF Ahead, Orders
    <2>2. IsFiniteSet(A) /\ IsFiniteSet(B) /\ Cardinality(A) \in Nat /\ Cardinality(B) \in Nat
        BY <1>2
    <2> HIDE DEF A, B
    <2>3. Cardinality(A) <= Cardinality(B) /\ Cardinality(A) # Cardinality(B)
        BY <2>1, <2>2, FS_Subset
    <2>4. Cardinality(A) < Cardinality(B)
        BY <2>2, <2>3
    <2> QED
        BY <2>2, <2>4 DEF A, B
<1>5. ASSUME NEW i \in P, NEW j \in P, Number(i) = Number(j) PROVE i = j
    <2>1. Number(i) \in Nat /\ Number(j) \in Nat
        BY <1>2
    <2>2. ~(Number(i) < Number(j)) /\ ~(Number(j) < Number(i))
        BY <1>5, <2>1
    <2> HIDE DEF Number
    <2> QED
        BY <1>4, <2>2 DEF Orders
<1> DEFINE f == [i \in P |-> Number(i)]
<1>6. f \in Injection(P, P)
    <2>1. f \in [P -> P]
        BY <1>3
    <2>2. \A i, j \in P : f[i] = f[j] => i = j
        BY <1>5
    <2> HIDE DEF f
    <2> QED
        BY <2>1, <2>2 DEF Injection, IsInjective
<1>7. f \in Surjection(P, P)
    <2> HIDE DEF f, P
    <2> QED
        BY <1>1, <1>6, FS_Injection
<1>8. ASSUME NEW k \in P PROVE PlaceIn(order, n, k) \in P /\ Number(PlaceIn(order, n, k)) = k
    <2>1. PICK i \in P : Number(i) = k
        BY <1>7 DEF Surjection
    <2>2. Cardinality(Ahead(order, n, i)) = k - 1
        BY <1>2, <2>1
    <2>3. \E x \in 1..n : Cardinality({j \in 1..n : <<j, x>> \in order}) = k - 1
        BY <2>2 DEF Ahead
    <2>4. /\ PlaceIn(order, n, k) \in P
          /\ Cardinality(Ahead(order, n, PlaceIn(order, n, k))) = k - 1
        BY <2>3 DEF PlaceIn, Ahead
    <2> QED
        BY <2>4
<1>9. ASSUME NEW i \in P PROVE \E k \in P : PlaceIn(order, n, k) = i
    BY <1>3, <1>5, <1>8
<1>10. ASSUME NEW k \in P, NEW l \in P, k < l
       PROVE  <<PlaceIn(order, n, k), PlaceIn(order, n, l)>> \in order
    <2> DEFINE i == PlaceIn(order, n, k)
               j == PlaceIn(order, n, l)
    <2>1. i \in P /\ j \in P /\ Number(i) = k /\ Number(j) = l
        BY <1>8
    <2>2. ~(Number(j) < Number(i)) /\ Number(i) # Number(j)
        BY <1>10, <2>1
    <2> HIDE DEF i, j, Number
    <2>3. <<j, i>> \notin order /\ i # j
        BY <1>4, <2>1, <2>2
    <2>4. <<i, j>> \in order
        BY <2>1, <2>3 DEF Orders
    <2> QED
        BY <2>4 DEF i, j
<1> QED
    BY <1>8, <1>9, <1>10 DEF Placed

\* A list of so many points, each with a number or NULL for every measure.
IsPoints(points, n, measures) ==
    /\ n \in Nat /\ DOMAIN points = 1..n /\ Len(points) = n
    /\ \A k \in 1..n : \A m \in 1..measures : IsNumber(points[k].values[m])

LEMMA SortedPoints ==
    ASSUME NEW points, NEW n, NEW measures, IsPoints(points, n, measures),
           NEW order, Orders(order, n)
    PROVE  /\ IsPoints(Sorted(points, order), n, measures)
           /\ \A k \in 1..n : Sorted(points, order)[k] = points[PlaceIn(order, n, k)]
<1>1. Sorted(points, order) = [k \in 1..n |-> points[PlaceIn(order, n, k)]]
    BY DEF Sorted, IsPoints
<1>2. n \in Nat
    BY DEF IsPoints
<1>3. Placed(order, n)
    BY <1>2, PlacesFollow
<1>4. Len(Sorted(points, order)) = n
    BY <1>1, <1>2
<1> QED
    BY <1>1, <1>3, <1>4 DEF IsPoints, Placed

\* The order of the compiler, that of a timeline and that of sizes.
LEMMA SizeOrders ==
    ASSUME NEW points, NEW n, NEW measures, IsPoints(points, n, measures), 1 \in 1..measures
    PROVE  Orders(BySize(points), n)
<1> DEFINE s == [k \in 1..n |-> Size(points[k])]
<1>1. s \in [1..n -> Int]
    BY TileQueriesAssumption DEF Size, IsPoints, IsNumber
<1>2. \A i, j \in 1..n : <<i, j>> \in BySize(points) <=> s[i] > s[j] \/ (s[i] = s[j] /\ i < j)
    BY DEF BySize, Pairs, IsPoints
<1>3. n \in Nat
    BY DEF IsPoints
<1> HIDE DEF s
<1> QED
    BY <1>1, <1>2, <1>3 DEF Orders

LEMMA RowOrders ==
    ASSUME NEW q, IsResult(q), NEW order \in {OldestFirst(q.rows), LargestFirst(q.rows)}
    PROVE  Orders(order, Len(q.rows)) /\ IsPoints(q.rows, Len(q.rows), q.tile.measures)
<1> DEFINE n == Len(q.rows)
           label == [i \in 1..n |-> q.rows[i].label]
           first == [i \in 1..n |-> q.rows[i].values[1]]
<1>1. IsPoints(q.rows, n, q.tile.measures) /\ 1 \in 1..q.tile.measures /\ n \in Nat
    BY DEF IsResult, IsPoints
<1>2. label \in [1..n -> Int \cup {Null}] /\ first \in [1..n -> Int \cup {Null}]
    BY <1>1 DEF IsResult, IsNumber
<1>3. \A i, j \in 1..n : label[i] = label[j] => i = j
    BY DEF IsResult
<1>4. \A i, j \in 1..n : <<i, j>> \in OldestFirst(q.rows) <=> Earlier(label[i], label[j])
    BY DEF OldestFirst, Pairs
<1>5. \A i, j \in 1..n : <<i, j>> \in LargestFirst(q.rows) <=>
          Larger(first[i], first[j]) \/ (first[i] = first[j] /\ i < j)
    BY DEF LargestFirst, Pairs
<1> HIDE DEF n, label, first
<1>6. Orders(OldestFirst(q.rows), n)
    BY <1>1, <1>2, <1>3, <1>4, TileQueriesAssumption DEF Orders, Earlier
<1>7. Orders(LargestFirst(q.rows), n)
    BY <1>1, <1>2, <1>5, TileQueriesAssumption DEF Orders, Larger
<1> QED
    BY <1>1, <1>6, <1>7 DEF n

-----------------------------------------------------------------------------
(* What is folded keeps its total.                                           *)

KnownAt(points, places, m) == {k \in places : points[k].values[m] # Null}
ValuesOf(points, places, m) == [k \in KnownAt(points, places, m) |-> points[k].values[m]]

NumbersAt(points, places, m) ==
    IsFiniteSet(places) /\ \A k \in places : IsNumber(points[k].values[m])

LEMMA SumsAt ==
    ASSUME NEW points, NEW places, NEW m, NumbersAt(points, places, m)
    PROVE  /\ SumAt(points, places, m)
                  = SumOf(ValuesOf(points, places, m), KnownAt(points, places, m))
           /\ Numbers(ValuesOf(points, places, m), KnownAt(points, places, m))
           /\ SumAt(points, places, m) \in Int
<1>1. SumAt(points, places, m)
          = SumOf(ValuesOf(points, places, m), KnownAt(points, places, m))
    BY DEF SumAt, ValuesOf, KnownAt
<1>2. IsFiniteSet(KnownAt(points, places, m))
    BY FS_Subset DEF NumbersAt, KnownAt
<1>3. Numbers(ValuesOf(points, places, m), KnownAt(points, places, m))
    BY <1>2 DEF Numbers, NumbersAt, ValuesOf, KnownAt, IsNumber
<1> QED
    BY <1>1, <1>3, SumIsNumber

SameAt(points, others, places, m) ==
    \A k \in places : points[k].values[m] = others[k].values[m]

LEMMA SumAtSame ==
    ASSUME NEW points, NEW others, NEW places, NEW m, SameAt(points, others, places, m)
    PROVE  SumAt(points, places, m) = SumAt(others, places, m)
<1>1. KnownAt(points, places, m) = KnownAt(others, places, m)
    BY DEF KnownAt, SameAt
<1>2. ValuesOf(points, places, m) = ValuesOf(others, places, m)
    BY <1>1 DEF ValuesOf, KnownAt, SameAt
<1> QED
    BY <1>1, <1>2 DEF SumAt, KnownAt, ValuesOf

LEMMA SumAtUnion ==
    ASSUME NEW points, NEW m, NEW A, NEW B, NumbersAt(points, A, m), NumbersAt(points, B, m),
           A \cap B = {}
    PROVE  SumAt(points, A \cup B, m) = SumAt(points, A, m) + SumAt(points, B, m)
<1> DEFINE a == KnownAt(points, A, m)
           b == KnownAt(points, B, m)
           f == ValuesOf(points, A \cup B, m)
<1>1. NumbersAt(points, A \cup B, m)
    BY FS_Union DEF NumbersAt
<1>2. KnownAt(points, A \cup B, m) = a \cup b /\ a \cap b = {}
    BY DEF KnownAt
<1>3. SumAt(points, A \cup B, m) = SumOf(f, a \cup b)
    BY <1>1, <1>2, SumsAt
<1>4. /\ \A k \in a : f[k] = ValuesOf(points, A, m)[k]
      /\ \A k \in b : f[k] = ValuesOf(points, B, m)[k]
    BY <1>2 DEF ValuesOf
<1>5. SumOf(f, a) = SumAt(points, A, m) /\ SumOf(f, b) = SumAt(points, B, m)
    <2>1. SumOf(f, a) = SumOf(ValuesOf(points, A, m), a)
        BY <1>4, SumOfSame
    <2>2. SumOf(f, b) = SumOf(ValuesOf(points, B, m), b)
        BY <1>4, SumOfSame
    <2> QED
        BY <2>1, <2>2, SumsAt
<1>6. Numbers(f, a) /\ Numbers(f, b)
    BY <1>4, SumsAt DEF Numbers
<1> HIDE DEF a, b, f
<1>7. SumOf(f, a \cup b) = SumOf(f, a) + SumOf(f, b)
    BY <1>2, <1>6, SumOfUnion
<1> QED
    BY <1>3, <1>5, <1>7

\* The order of points does not matter to their sum.
LEMMA SortedSum ==
    ASSUME NEW points, NEW n, NEW measures, IsPoints(points, n, measures),
           NEW order, Orders(order, n), NEW m \in 1..measures
    PROVE  SumAt(Sorted(points, order), 1..n, m) = SumAt(points, 1..n, m)
<1> DEFINE sorted == Sorted(points, order)
           S == KnownAt(sorted, 1..n, m)
           T == KnownAt(points, 1..n, m)
           f == ValuesOf(sorted, 1..n, m)
           g == ValuesOf(points, 1..n, m)
           h == [k \in 1..n |-> PlaceIn(order, n, k)]
<1>1. n \in Nat /\ IsFiniteSet(1..n)
    <2>1. n \in Nat /\ 1 \in Int
        BY DEF IsPoints
    <2> QED
        BY <2>1, FS_Interval
<1>2. IsPoints(sorted, n, measures) /\ \A k \in 1..n : sorted[k] = points[h[k]]
    BY SortedPoints
<1>3. NumbersAt(sorted, 1..n, m) /\ NumbersAt(points, 1..n, m)
    BY <1>1, <1>2 DEF NumbersAt, IsPoints
<1>4. Placed(order, n)
    BY <1>1, PlacesFollow
<1>5. /\ \A k \in 1..n : h[k] \in 1..n
      /\ \A i \in 1..n : \E k \in 1..n : h[k] = i
      /\ \A k, l \in 1..n : h[k] = h[l] => k = l
    BY <1>4 DEF Placed
<1> HIDE DEF h, sorted
<1>6. Numbers(f, S) /\ Numbers(g, T)
    BY <1>3, SumsAt
<1>7. \A k \in S : h[k] \in T /\ f[k] = g[h[k]]
    BY <1>2, <1>5 DEF KnownAt, ValuesOf
<1>8. \A i \in T : \E k \in S : h[k] = i
    BY <1>2, <1>5 DEF KnownAt
<1>9. \A k, l \in S : h[k] = h[l] => k = l
    BY <1>5 DEF KnownAt
<1>10. IsFiniteSet(T)
    BY <1>6 DEF Numbers
<1>11. SumAt(sorted, 1..n, m) = SumOf(f, S) /\ SumAt(points, 1..n, m) = SumOf(g, T)
    BY <1>3, SumsAt
<1> HIDE DEF S, T, f, g
<1>12. SumOf(g, T) = SumOf(f, S)
    BY <1>6, <1>7, <1>8, <1>9, <1>10, SumOfImage
<1> QED
    BY <1>11, <1>12 DEF sorted

\* The points of a grouped tile: the rows that were returned, each by itself.
PointsOf(rows) ==
    [k \in 1..Len(rows) |-> [label |-> rows[k].label, folds |-> 0, values |-> rows[k].values]]

\* While they are within its limit a tile has all rows, in its order.
LEMMA ExecutedRows ==
    ASSUME NEW q, IsResult(q), NEW type, NEW limit \in Nat, Len(q.rows) <= limit
    PROVE  \E order \in {OldestFirst(q.rows), LargestFirst(q.rows)} :
              /\ type \in Timeline => order = OldestFirst(q.rows)
              /\ Executed(type, limit, q.rows) = Sorted(q.rows, order)
<1> DEFINE order == IF type \in Timeline THEN OldestFirst(q.rows) ELSE LargestFirst(q.rows)
           rows == Sorted(q.rows, order)
           n == Len(q.rows)
<1>1. n \in Nat
    BY DEF IsResult
<1>2. rows = [k \in 1..n |-> rows[k]] /\ Len(rows) = n
    BY <1>1 DEF Sorted
<1>3. Executed(type, limit, q.rows) = FirstN(rows, limit)
    BY DEF Executed
<1>4. (IF n < limit THEN n ELSE limit) = n
    BY <1>1
<1> HIDE DEF rows, n
<1>5. FirstN(rows, limit) = rows
    BY <1>2, <1>4 DEF FirstN
<1> QED
    BY <1>3, <1>5 DEF rows

\* The point a row is drawn as, and the others.
DrawnOrSmaller(q, points) ==
    \A i \in DOMAIN q.rows :
        \/ \E k \in DOMAIN points : Drawn(q, points[k], q.rows[i])
        \/ /\ q.tile.foldTail
           /\ \A k \in DOMAIN points : points[k].folds = 0 => Size(points[k]) >= Size(q.rows[i])

TotalsOf(q, points) ==
    \A m \in 1..q.tile.measures :
        SumAt(points, DOMAIN points, m) = SumAt(q.rows, DOMAIN q.rows, m)

LEMMA GroupedPoints ==
    ASSUME NEW q, IsResult(q), Len(q.rows) <= q.tile.limit
    PROVE  LET points == PointsOf(Executed(q.tile.type, q.tile.limit, q.rows))
           IN  /\ IsPoints(points, Len(q.rows), q.tile.measures)
               /\ TotalsOf(q, points)
               /\ \A i \in DOMAIN q.rows : \E k \in DOMAIN points : Drawn(q, points[k], q.rows[i])
               /\ \A k \in DOMAIN points : points[k].folds = 0
<1> DEFINE n == Len(q.rows)
           rows == Executed(q.tile.type, q.tile.limit, q.rows)
           points == PointsOf(rows)
<1>1. n \in Nat /\ q.tile.limit \in Nat /\ DOMAIN q.rows = 1..n
    BY DEF IsResult
<1>2. PICK order \in {OldestFirst(q.rows), LargestFirst(q.rows)} : rows = Sorted(q.rows, order)
    BY <1>1, ExecutedRows
<1>3. Orders(order, n) /\ IsPoints(q.rows, n, q.tile.measures)
    BY RowOrders
<1> DEFINE sorted == Sorted(q.rows, order)
<1>4. IsPoints(sorted, n, q.tile.measures) /\ \A k \in 1..n : sorted[k] = q.rows[PlaceIn(order, n, k)]
    BY <1>3, SortedPoints
<1>5. points = [k \in 1..n |-> [label |-> sorted[k].label, folds |-> 0, values |-> sorted[k].values]]
    BY <1>2, <1>4 DEF PointsOf, IsPoints
<1>6. DOMAIN points = 1..n /\ Len(points) = n
    BY <1>1, <1>5
<1>7. \A k \in 1..n : points[k].label = sorted[k].label /\ points[k].folds = 0
                          /\ points[k].values = sorted[k].values
    BY <1>5
<1> HIDE DEF points, n, sorted
<1>8. IsPoints(points, n, q.tile.measures)
    BY <1>4, <1>6, <1>7 DEF IsPoints
<1>9. ASSUME NEW m \in 1..q.tile.measures
      PROVE  SumAt(points, DOMAIN points, m) = SumAt(q.rows, DOMAIN q.rows, m)
    <2>1. SumAt(points, 1..n, m) = SumAt(sorted, 1..n, m)
        <3>1. SameAt(points, sorted, 1..n, m)
            BY <1>7 DEF SameAt
        <3> QED
            BY <3>1, SumAtSame
    <2>2. SumAt(sorted, 1..n, m) = SumAt(q.rows, 1..n, m)
        BY <1>3, SortedSum DEF sorted
    <2> QED
        BY <1>1, <1>6, <2>1, <2>2
<1>10. ASSUME NEW i \in DOMAIN q.rows PROVE \E k \in DOMAIN points : Drawn(q, points[k], q.rows[i])
    <2>1. PICK k \in 1..n : PlaceIn(order, n, k) = i
        BY <1>1, <1>3, PlacesFollow DEF Placed
    <2> QED
        BY <1>4, <1>6, <1>7, <2>1 DEF Drawn
<1> QED
    BY <1>6, <1>7, <1>8, <1>9, <1>10 DEF TotalsOf, n, points

\* Folding keeps every total, and draws the largest by themselves.
LEMMA FoldedSum ==
    ASSUME NEW tile, tile.measures \in Nat \ {0}, NEW points, NEW n, IsPoints(points, n, tile.measures),
           NEW m \in 1..tile.measures
    PROVE  LET drawn == FoldTail(tile, points)
           IN  SumAt(drawn, DOMAIN drawn, m) = SumAt(points, 1..n, m)
<1> DEFINE drawn == FoldTail(tile, points)
           keep == Keep(tile)
           order == BySize(points)
           ordered == Sorted(points, order)
           head == 1..keep
           tail == (keep + 1)..n
<1>1. n \in Nat /\ DOMAIN points = 1..n /\ Len(points) = n /\ keep \in Nat /\ 1 \in 1..tile.measures
    BY DEF IsPoints, Keep, MaxDonutSlices, MaxStackBands
<1>2. CASE n <= keep + 1
    BY <1>1, <1>2 DEF FoldTail
<1>3. CASE ~(n <= keep + 1)
    <2>1. Orders(order, n)
        BY <1>1, SizeOrders
    <2>2. IsPoints(ordered, n, tile.measures) /\ SumAt(ordered, 1..n, m) = SumAt(points, 1..n, m)
        BY <2>1, SortedPoints, SortedSum
    <2>3. drawn = [k \in 1..(keep + 1) |-> IF k <= keep THEN ordered[k] ELSE Other(tile, ordered, tail)]
        BY <1>1, <1>3 DEF FoldTail
    <2> HIDE DEF drawn, ordered, order, keep
    <2>4. /\ 1..n = head \cup tail /\ head \cap tail = {}
          /\ 1..(keep + 1) = head \cup {keep + 1} /\ head \cap {keep + 1} = {}
          /\ IsFiniteSet(head) /\ IsFiniteSet(tail) /\ IsFiniteSet({keep + 1})
        <3>1. IsFiniteSet(head) /\ IsFiniteSet(tail)
            BY <1>1, FS_Interval, 1 \in Int, keep + 1 \in Int, keep \in Int, n \in Int
        <3>2. 1..n = head \cup tail /\ head \cap tail = {}
            BY <1>1, <1>3
        <3>3. 1..(keep + 1) = head \cup {keep + 1} /\ head \cap {keep + 1} = {}
            BY <1>1
        <3>4. IsFiniteSet({keep + 1})
            BY FS_Singleton
        <3> QED
            BY <3>1, <3>2, <3>3, <3>4
    <2>5. NumbersAt(ordered, head, m) /\ NumbersAt(ordered, tail, m)
        BY <1>1, <1>3, <2>2, <2>4 DEF NumbersAt, IsPoints
    <2>6. SumAt(ordered, 1..n, m) = SumAt(ordered, head, m) + SumAt(ordered, tail, m)
        <3> HIDE DEF head, tail
        <3>1. SumAt(ordered, head \cup tail, m) = SumAt(ordered, head, m) + SumAt(ordered, tail, m)
            BY <2>4, <2>5, SumAtUnion
        <3> QED
            BY <2>4, <3>1
    <2>7. \A k \in head : drawn[k].values[m] = ordered[k].values[m]
        BY <1>1, <2>3
    <2>8. SumAt(drawn, head, m) = SumAt(ordered, head, m)
        <3>1. SameAt(drawn, ordered, head, m)
            BY <2>7 DEF SameAt
        <3> QED
            BY <3>1, SumAtSame
    <2>9. drawn[keep + 1].values[m] = IF \A k \in tail : ordered[k].values[m] = Null THEN Null
                                      ELSE SumAt(ordered, tail, m)
        BY <1>1, <2>3 DEF Other
    <2> DEFINE last == {keep + 1}
    <2>10. SumAt(ordered, tail, m) \in Int
        <3> HIDE DEF tail
        <3> QED
            BY <2>5, SumsAt
    <2>11. SumAt(drawn, last, m) = SumAt(ordered, tail, m) /\ IsNumber(drawn[keep + 1].values[m])
        <3>1. CASE \A k \in tail : ordered[k].values[m] = Null
            <4>1. KnownAt(ordered, tail, m) = {} /\ KnownAt(drawn, last, m) = {}
                BY <2>9, <3>1 DEF KnownAt
            <4>2. SumAt(ordered, tail, m) = 0 /\ SumAt(drawn, last, m) = 0
                BY <4>1, SumOfNone DEF SumAt, KnownAt
            <4> QED
                BY <2>9, <3>1, <4>2 DEF IsNumber
        <3>2. CASE ~(\A k \in tail : ordered[k].values[m] = Null)
            <4>1. drawn[keep + 1].values[m] = SumAt(ordered, tail, m)
                BY <2>9, <3>2
            <4>2. KnownAt(drawn, last, m) = last
                BY <2>10, <4>1, TileQueriesAssumption DEF KnownAt
            <4> DEFINE v == ValuesOf(drawn, last, m)
            <4>3. v[keep + 1] = SumAt(ordered, tail, m)
                BY <4>1, <4>2 DEF ValuesOf
            <4>4. SumAt(drawn, last, m) = SumOf(v, last)
                BY <4>2 DEF SumAt, ValuesOf, KnownAt
            <4> HIDE DEF v, tail
            <4>5. SumOf(v, {keep + 1}) = v[keep + 1]
                BY <2>10, <4>3, SumOfOne
            <4> QED
                BY <2>10, <4>1, <4>3, <4>4, <4>5 DEF IsNumber
        <3> QED
            BY <3>1, <3>2
    <2>12. NumbersAt(drawn, head, m) /\ NumbersAt(drawn, last, m)
        BY <2>4, <2>5, <2>7, <2>11 DEF NumbersAt
    <2>13. SumAt(drawn, head \cup last, m) = SumAt(drawn, head, m) + SumAt(drawn, last, m)
        <3> HIDE DEF head, last
        <3> QED
            BY <2>4, <2>12, SumAtUnion DEF last
    <2>14. DOMAIN drawn = head \cup last
        BY <2>3, <2>4
    <2> HIDE DEF head, tail, last
    <2> QED
        BY <2>2, <2>6, <2>8, <2>11, <2>13, <2>14 DEF drawn
<1> QED
    BY <1>2, <1>3

LEMMA FoldedSizes ==
    ASSUME NEW tile, tile.measures \in Nat \ {0}, NEW points, NEW n, IsPoints(points, n, tile.measures),
           \A k \in 1..n : points[k].folds = 0, NEW i \in 1..n
    PROVE  LET drawn == FoldTail(tile, points)
           IN  \/ \E k \in DOMAIN drawn : drawn[k] = points[i]
               \/ \A k \in DOMAIN drawn : drawn[k].folds = 0 => Size(drawn[k]) >= Size(points[i])
<1> DEFINE drawn == FoldTail(tile, points)
           keep == Keep(tile)
           order == BySize(points)
           ordered == Sorted(points, order)
           tail == (keep + 1)..n
<1>1. n \in Nat /\ DOMAIN points = 1..n /\ Len(points) = n /\ keep \in Nat /\ 1 \in 1..tile.measures
    BY DEF IsPoints, Keep, MaxDonutSlices, MaxStackBands
<1>2. CASE n <= keep + 1
    BY <1>1, <1>2 DEF FoldTail
<1>3. CASE ~(n <= keep + 1)
    <2>1. Orders(order, n) /\ Placed(order, n)
        BY <1>1, SizeOrders, PlacesFollow
    <2>2. \A k \in 1..n : ordered[k] = points[PlaceIn(order, n, k)]
        BY <2>1, SortedPoints
    <2>3. drawn = [k \in 1..(keep + 1) |-> IF k <= keep THEN ordered[k] ELSE Other(tile, ordered, tail)]
        BY <1>1, <1>3 DEF FoldTail
    <2>4. drawn[keep + 1].folds # 0
        <3>1. IsFiniteSet(tail) /\ n \in tail
            BY <1>1, <1>3, FS_Interval, keep + 1 \in Int, n \in Int
        <3>2. Cardinality(tail) # 0
            <4> HIDE DEF tail
            <4> QED
                BY <3>1, FS_EmptySet
        <3>3. drawn[keep + 1].folds = Cardinality(tail)
            BY <1>1, <2>3 DEF Other
        <3> QED
            BY <3>2, <3>3
    <2>5. PICK k \in 1..n : PlaceIn(order, n, k) = i
        BY <2>1 DEF Placed
    <2>6. CASE k <= keep
        <3>1. k \in DOMAIN drawn /\ drawn[k] = points[i]
            BY <1>1, <2>2, <2>3, <2>5, <2>6
        <3> QED
            BY <3>1
    <2>7. CASE ~(k <= keep)
        <3>1. ASSUME NEW l \in DOMAIN drawn, drawn[l].folds = 0 PROVE Size(drawn[l]) >= Size(points[i])
            <4>1. l \in 1..keep /\ l \in 1..n /\ l < k
                BY <1>1, <1>3, <2>3, <2>4, <2>7, <3>1
            <4>2. drawn[l] = points[PlaceIn(order, n, l)]
                BY <1>1, <2>2, <2>3, <4>1
            <4>3. <<PlaceIn(order, n, l), i>> \in BySize(points)
                BY <2>1, <2>5, <4>1 DEF Placed
            <4>4. Size(points[PlaceIn(order, n, l)]) \in Int /\ Size(points[i]) \in Int
                <5>1. PlaceIn(order, n, l) \in 1..n
                    BY <2>1, <4>1 DEF Placed
                <5> QED
                    BY <1>1, <5>1 DEF Size, IsPoints, IsNumber
            <4>5. \/ Size(points[PlaceIn(order, n, l)]) > Size(points[i])
                  \/ Size(points[PlaceIn(order, n, l)]) = Size(points[i])
                BY <4>3 DEF BySize
            <4> HIDE DEF order, drawn
            <4> QED
                BY <4>2, <4>4, <4>5
        <3> QED
            BY <3>1
    <2> QED
        BY <2>6, <2>7
<1> QED
    BY <1>2, <1>3

LEMMA GroupsHold ==
    ASSUME NEW q, IsResult(q), Len(q.rows) <= q.tile.limit
    PROVE  TotalsOf(q, RunGrouped(q)) /\ DrawnOrSmaller(q, RunGrouped(q))
<1> DEFINE n == Len(q.rows)
           points == PointsOf(Executed(q.tile.type, q.tile.limit, q.rows))
           drawn == FoldTail(q.tile, points)
<1>1. /\ IsPoints(points, n, q.tile.measures) /\ TotalsOf(q, points)
      /\ \A i \in DOMAIN q.rows : \E k \in DOMAIN points : Drawn(q, points[k], q.rows[i])
      /\ \A k \in DOMAIN points : points[k].folds = 0
    BY GroupedPoints
<1>2. RunGrouped(q) = IF q.tile.type \in Folding /\ q.tile.foldTail THEN drawn ELSE points
    BY DEF RunGrouped, PointsOf
<1>3. q.tile.measures \in Nat \ {0} /\ DOMAIN points = 1..n
    BY <1>1 DEF IsResult, IsPoints
<1> HIDE DEF points, n
<1>4. CASE RunGrouped(q) = points
    BY <1>1, <1>4 DEF DrawnOrSmaller
<1>5. CASE RunGrouped(q) = drawn /\ q.tile.foldTail
    <2>1. \A m \in 1..q.tile.measures : SumAt(drawn, DOMAIN drawn, m) = SumAt(points, 1..n, m)
        BY <1>1, <1>3, FoldedSum
    <2>2. TotalsOf(q, drawn)
        BY <1>1, <1>3, <2>1 DEF TotalsOf
    <2>3. ASSUME NEW i \in DOMAIN q.rows
          PROVE  \/ \E k \in DOMAIN drawn : Drawn(q, drawn[k], q.rows[i])
                 \/ \A k \in DOMAIN drawn : drawn[k].folds = 0 => Size(drawn[k]) >= Size(q.rows[i])
        <3>1. PICK k \in 1..n : Drawn(q, points[k], q.rows[i])
            BY <1>1, <1>3
        <3>2. Size(points[k]) = Size(q.rows[i])
            BY <3>1 DEF Drawn, Size
        <3>3. \/ \E l \in DOMAIN drawn : drawn[l] = points[k]
              \/ \A l \in DOMAIN drawn : drawn[l].folds = 0 => Size(drawn[l]) >= Size(points[k])
            BY <1>1, <1>3, FoldedSizes
        <3> HIDE DEF drawn
        <3> QED
            BY <3>1, <3>2, <3>3 DEF Drawn
    <2> HIDE DEF drawn
    <2> QED
        BY <1>5, <2>2, <2>3 DEF DrawnOrSmaller
<1> QED
    BY <1>2, <1>4, <1>5

-----------------------------------------------------------------------------
(* The last of a series is the latest.                                       *)

Preceding(q, i) == {j \in DOMAIN q.rows : q.rows[j].label < q.rows[i].label}

\* In the order of their labels, what all others precede is last, and what all
\* others but that precede is the last but one.
LEMMA LatestIsLast ==
    ASSUME NEW q, IsResult(q), \A i \in DOMAIN q.rows : q.rows[i].label # Null, Len(q.rows) >= 2,
           NEW i \in DOMAIN q.rows, NEW j \in DOMAIN q.rows, i # j,
           Preceding(q, i) = DOMAIN q.rows \ {i}, Preceding(q, j) = DOMAIN q.rows \ {i, j}
    PROVE  LET n == Len(q.rows)
           IN  PlaceIn(OldestFirst(q.rows), n, n) = i /\ PlaceIn(OldestFirst(q.rows), n, n - 1) = j
<1> DEFINE n == Len(q.rows)
           order == OldestFirst(q.rows)
           P(k) == PlaceIn(order, n, k)
<1>1. n \in Nat /\ DOMAIN q.rows = 1..n /\ n \in 1..n /\ n - 1 \in 1..n
    BY DEF IsResult
<1>2. Orders(order, n) /\ Placed(order, n)
    BY <1>1, RowOrders, PlacesFollow
<1>3. ASSUME NEW k \in 1..n, NEW l \in 1..n, k < l PROVE q.rows[P(k)].label < q.rows[P(l)].label
    <2>1. P(k) \in 1..n /\ P(l) \in 1..n /\ <<P(k), P(l)>> \in order
        BY <1>2, <1>3 DEF Placed
    <2> HIDE DEF P
    <2>2. Earlier(q.rows[P(k)].label, q.rows[P(l)].label)
        BY <2>1 DEF OldestFirst
    <2> QED
        BY <1>1, <2>1, <2>2 DEF Earlier
<1>4. \A k \in 1..n : q.rows[P(k)].label \in Int /\ P(k) \in 1..n
    BY <1>1, <1>2 DEF Placed, IsResult, IsNumber
<1>5. P(n) = i
    <2>1. PICK k \in 1..n : P(k) = i
        BY <1>1, <1>2 DEF Placed
    <2>2. k = n \/ k < n
        BY <1>1
    <2>3. CASE k < n
        <3>1. q.rows[i].label < q.rows[P(n)].label /\ q.rows[i].label \in Int
              /\ q.rows[P(n)].label \in Int
            BY <1>1, <1>3, <1>4, <2>1, <2>3
        <3>2. P(n) # i /\ P(n) \notin Preceding(q, i)
            BY <3>1 DEF Preceding
        <3> QED
            BY <1>1, <1>4, <3>2
    <2> QED
        BY <2>1, <2>2, <2>3
<1>6. P(n - 1) = j
    <2>1. PICK k \in 1..n : P(k) = j
        BY <1>1, <1>2 DEF Placed
    <2>2. k # n
        BY <1>5, <2>1
    <2>3. k = n - 1 \/ k < n - 1
        BY <1>1, <2>2
    <2>4. CASE k < n - 1
        <3>1. q.rows[j].label < q.rows[P(n - 1)].label /\ q.rows[j].label \in Int
              /\ q.rows[P(n - 1)].label \in Int
            BY <1>1, <1>3, <1>4, <2>1, <2>4
        <3>2. P(n - 1) # j /\ P(n - 1) \notin Preceding(q, j)
            BY <3>1 DEF Preceding
        <3>3. P(n - 1) # i
            <4>1. n - 1 # n
                BY <1>1
            <4>2. \A a, b \in 1..n : P(a) = P(b) => a = b
                BY <1>2 DEF Placed
            <4> HIDE DEF P
            <4> QED
                BY <1>1, <1>5, <4>1, <4>2
        <3> QED
            BY <1>1, <1>4, <3>2, <3>3
    <2> QED
        BY <2>1, <2>3, <2>4
<1> QED
    BY <1>5, <1>6

LEMMA HeadlineHolds ==
    ASSUME NEW q, IsResult(q), q.tile.type = "stat", q.tile.dated, Len(q.rows) \in 2..MaxPeriods,
           \A i \in DOMAIN q.rows : q.rows[i].label # Null,
           NEW i \in DOMAIN q.rows, NEW j \in DOMAIN q.rows, i # j,
           Preceding(q, i) = DOMAIN q.rows \ {i}, Preceding(q, j) = DOMAIN q.rows \ {i, j}
    PROVE  /\ RunStat(q).previous = q.rows[j].values[1]
           /\ RunStat(q).delta = Difference(q.rows[i].values[1], q.rows[j].values[1])
           /\ q.total = Null => RunStat(q).value = q.rows[i].values[1]
<1> DEFINE n == Len(q.rows)
           order == OldestFirst(q.rows)
           series == Executed(q.tile.type, MaxPeriods, q.rows)
<1>1. n \in Nat /\ n <= MaxPeriods /\ n >= 2 /\ MaxPeriods \in Nat /\ n \in 1..n /\ n - 1 \in 1..n
    <2>1. n \in 2..60 /\ MaxPeriods = 60
        BY DEF MaxPeriods
    <2> HIDE DEF n
    <2> QED
        BY <2>1
<1>2. series = Sorted(q.rows, order)
    BY <1>1, ExecutedRows DEF Timeline
<1>3. Orders(order, n) /\ IsPoints(q.rows, n, q.tile.measures)
    BY RowOrders
<1>4. Len(series) = n /\ \A k \in 1..n : series[k] = q.rows[PlaceIn(order, n, k)]
    <2> DEFINE rows == q.rows
               measures == q.tile.measures
    <2>1. IsPoints(rows, n, measures) /\ Orders(order, n)
        BY <1>3
    <2> HIDE DEF n, order, rows, measures
    <2>2. IsPoints(Sorted(rows, order), n, measures)
          /\ \A k \in 1..n : Sorted(rows, order)[k] = rows[PlaceIn(order, n, k)]
        BY <2>1, SortedPoints
    <2> QED
        BY <1>2, <2>2 DEF IsPoints, rows
<1>5. PlaceIn(order, n, n) = i /\ PlaceIn(order, n, n - 1) = j
    BY <1>1, LatestIsLast
<1>6. series[n] = q.rows[i] /\ series[n - 1] = q.rows[j]
    BY <1>1, <1>4, <1>5
<1> HIDE DEF series, n
<1> QED
    BY <1>1, <1>4, <1>6 DEF RunStat, series

\* What is shown was made of one of the queries.
TilesInv ==
    \/ shown = <<>>
    \/ \E q \in TileQueries :
          \/ q.tile.type = "stat" /\ shown = <<[query |-> q, stat |-> RunStat(q)]>>
          \/ q.tile.type # "stat" /\ shown = <<[query |-> q, points |-> RunGrouped(q)]>>

LEMMA TilesInvariant == TilesSpec => []TilesInv
<1>1. TilesInit => TilesInv
    BY DEF TilesInit, TilesInv
<1>2. TilesInv /\ [TilesNext]_shown => TilesInv'
    <2>1. ASSUME NEW q \in TileQueries, RunTile(q) PROVE TilesInv'
        BY <2>1 DEF RunTile, TilesInv
    <2>2. TilesInv /\ UNCHANGED shown => TilesInv'
        BY DEF TilesInv
    <2> QED
        BY <2>1, <2>2 DEF TilesNext
<1> QED
    BY <1>1, <1>2, PTL DEF TilesSpec

\* What a grouped tile draws adds up to what its query returned, however the
\* rows are ordered and however many are folded into one.
THEOREM PartsAreTheWhole == TilesSpec => []PartsSumToWhole
<1>1. TilesInv => PartsSumToWhole
    <2> SUFFICES ASSUME TilesInv, shown # <<>>, shown[1].query.tile.type # "stat",
                        Len(shown[1].query.rows) <= shown[1].query.tile.limit
                 PROVE  /\ TotalsOf(shown[1].query, shown[1].points)
                        /\ DrawnOrSmaller(shown[1].query, shown[1].points)
        BY DEF PartsSumToWhole, TotalsOf, DrawnOrSmaller
    <2>1. PICK q \in TileQueries : shown[1].query = q /\ shown[1].points = RunGrouped(q)
        BY DEF TilesInv
    <2>2. IsResult(q)
        BY TileQueriesAssumption
    <2> QED
        BY <2>1, <2>2, GroupsHold
<1> QED
    BY <1>1, TilesInvariant, PTL

\* A headline compares the latest period with the one before it.
THEOREM HeadlinesAreCurrent == TilesSpec => []CurrentIsLatest
<1>1. TilesInv => CurrentIsLatest
    <2> SUFFICES ASSUME TilesInv, shown # <<>>, shown[1].query.tile.type = "stat",
                        shown[1].query.tile.dated, Len(shown[1].query.rows) \in 2..MaxPeriods,
                        \A i \in DOMAIN shown[1].query.rows : shown[1].query.rows[i].label # Null,
                        NEW i \in DOMAIN shown[1].query.rows, NEW j \in DOMAIN shown[1].query.rows, i # j,
                        Preceding(shown[1].query, i) = DOMAIN shown[1].query.rows \ {i},
                        Preceding(shown[1].query, j) = DOMAIN shown[1].query.rows \ {i, j}
                 PROVE  LET q == shown[1].query
                            stat == shown[1].stat
                        IN  /\ stat.previous = q.rows[j].values[1]
                            /\ stat.delta = Difference(q.rows[i].values[1], q.rows[j].values[1])
                            /\ q.total = Null => stat.value = q.rows[i].values[1]
        BY DEF CurrentIsLatest, Preceding
    <2>1. PICK q \in TileQueries : shown[1].query = q /\ shown[1].stat = RunStat(q)
        BY DEF TilesInv
    <2>2. IsResult(q)
        BY TileQueriesAssumption
    <2> QED
        BY <2>1, <2>2, HeadlineHolds
<1> QED
    BY <1>1, TilesInvariant, PTL

-----------------------------------------------------------------------------
(* Lists.                                                                    *)

\* Of two keys of one length, one is first.
LEMMA KeysAreOrdered ==
    ASSUME NEW d \in Nat, NEW x \in [1..d -> Int], NEW y \in [1..d -> Int]
    PROVE  /\ ~Precedes(x, x)
           /\ x # y => Precedes(x, y) \/ Precedes(y, x)
           /\ \A z \in [1..d -> Int] : Precedes(x, y) /\ Precedes(y, z) => Precedes(x, z)
<1>1. ~Precedes(x, x)
    BY DEF Precedes
<1>2. ASSUME x # y PROVE Precedes(x, y) \/ Precedes(y, x)
    <2> DEFINE differ == {n \in 1..d : x[n] # y[n]}
               n == First(differ)
    <2>1. differ \in SUBSET Nat /\ differ # {}
        BY <1>2
    <2> HIDE DEF differ
    <2>2. n \in differ /\ \A m \in differ : n <= m
        BY <2>1, LeastNumber
    <2> HIDE DEF n
    <2>3. n \in 1..d /\ x[n] # y[n]
        BY <2>2 DEF differ
    <2>4. \A m \in 1..(n - 1) : x[m] = y[m]
        BY <2>2, <2>3 DEF differ
    <2>5. x[n] < y[n] \/ y[n] < x[n]
        BY <2>3
    <2> QED
        BY <2>3, <2>4, <2>5 DEF Precedes
<1>3. ASSUME NEW z \in [1..d -> Int], Precedes(x, y), Precedes(y, z) PROVE Precedes(x, z)
    <2>1. PICK n \in 1..d : x[n] < y[n] /\ \A m \in 1..(n - 1) : x[m] = y[m]
        BY <1>3 DEF Precedes
    <2>2. PICK l \in 1..d : y[l] < z[l] /\ \A m \in 1..(l - 1) : y[m] = z[m]
        BY <1>3 DEF Precedes
    <2>3. CASE n < l
        <3>1. n \in 1..(l - 1) /\ \A m \in 1..(n - 1) : m \in 1..(l - 1)
            BY <2>3
        <3>2. x[n] < z[n] /\ \A m \in 1..(n - 1) : x[m] = z[m]
            BY <2>1, <2>2, <3>1
        <3> QED
            BY <3>2 DEF Precedes
    <2>4. CASE l < n
        <3>1. l \in 1..(n - 1) /\ \A m \in 1..(l - 1) : m \in 1..(n - 1)
            BY <2>4
        <3>2. x[l] < z[l] /\ \A m \in 1..(l - 1) : x[m] = z[m]
            BY <2>1, <2>2, <3>1
        <3> QED
            BY <3>2 DEF Precedes
    <2>5. CASE n = l
        <3>1. x[n] < z[n] /\ \A m \in 1..(n - 1) : x[m] = z[m]
            BY <2>1, <2>2, <2>5
        <3> QED
            BY <3>1 DEF Precedes
    <2> QED
        BY <2>3, <2>4, <2>5
<1> QED
    BY <1>1, <1>2, <1>3

\* What a list of keys has are the keys, so many as there are.
LEMMA ListedKeys ==
    ASSUME NEW T, IsFiniteSet(T), NEW d \in Nat, T \subseteq [1..d -> Int]
    PROVE  /\ Cardinality(T) \in Nat /\ DOMAIN Listed(T) = 1..Cardinality(T)
           /\ Len(Listed(T)) = Cardinality(T)
           /\ \A k \in DOMAIN Listed(T) : Listed(T)[k] \in T
           /\ \A x \in T : \E k \in DOMAIN Listed(T) : Listed(T)[k] = x
<1> DEFINE N == Cardinality(T)
           P == 0..(N - 1)
           ahead(x) == {y \in T : Precedes(y, x)}
           number(x) == Cardinality(ahead(x))
<1>1. N \in Nat /\ (T # {} => N # 0)
    BY FS_CardinalityType, FS_EmptySet
<1>2. IsFiniteSet(P) /\ Cardinality(P) = N
    BY <1>1, FS_Interval, 0 \in Int, N - 1 \in Int
<1>3. \A x, y, z \in T : /\ ~Precedes(x, x)
                         /\ x # y => Precedes(x, y) \/ Precedes(y, x)
                         /\ Precedes(x, y) /\ Precedes(y, z) => Precedes(x, z)
    BY KeysAreOrdered
<1>4. ASSUME NEW x \in T
      PROVE  IsFiniteSet(ahead(x)) /\ number(x) \in P
    <2>1. ahead(x) \in SUBSET (T \ {x})
        BY <1>3
    <2>2. IsFiniteSet(T \ {x}) /\ Cardinality(T \ {x}) = N - 1
        BY FS_RemoveElement
    <2> HIDE DEF ahead, N
    <2>3. IsFiniteSet(ahead(x)) /\ Cardinality(ahead(x)) <= N - 1
        BY <2>1, <2>2, FS_Subset
    <2>4. Cardinality(ahead(x)) \in Nat
        BY <2>3, FS_CardinalityType
    <2> QED
        BY <1>1, <2>3, <2>4
<1>5. \A x \in T : IsFiniteSet(ahead(x)) /\ number(x) \in Nat
    <2>1. \A k \in P : k \in Nat
        BY <1>1
    <2> HIDE DEF P, ahead, number
    <2> QED
        BY <1>4, <2>1
<1>6. ASSUME NEW x \in T, NEW y \in T, Precedes(x, y) PROVE number(x) < number(y)
    <2>1. ahead(x) \in SUBSET ahead(y) /\ x \in ahead(y) /\ x \notin ahead(x)
        BY <1>3, <1>6
    <2>2. number(x) \in Nat /\ number(y) \in Nat /\ IsFiniteSet(ahead(y))
        BY <1>5
    <2> HIDE DEF ahead
    <2>3. number(x) <= number(y) /\ number(x) # number(y)
        BY <2>1, <2>2, FS_Subset
    <2> QED
        BY <2>2, <2>3
<1>7. ASSUME NEW x \in T, NEW y \in T, number(x) = number(y) PROVE x = y
    <2>1. number(x) \in Nat /\ number(y) \in Nat
        BY <1>5
    <2>2. ~(number(x) < number(y)) /\ ~(number(y) < number(x))
        BY <1>7, <2>1
    <2> HIDE DEF number
    <2> QED
        BY <1>3, <1>6, <2>2
<1> DEFINE f == [x \in T |-> number(x)]
<1>8. f \in Surjection(T, P)
    <2>1. f \in [T -> P] /\ \A x, y \in T : f[x] = f[y] => x = y
        BY <1>4, <1>7
    <2>2. f \in Injection(T, P)
        <3> HIDE DEF f, P
        <3> QED
            BY <2>1 DEF Injection, IsInjective
    <2> HIDE DEF f, P
    <2> QED
        BY <1>2, <2>2, FS_Injection
<1>9. ASSUME NEW k \in 1..N PROVE Listed(T)[k] \in T
    <2>1. k - 1 \in P
        BY <1>1
    <2>2. PICK x \in T : number(x) = k - 1
        BY <1>8, <2>1 DEF Surjection
    <2>3. \E y \in T : Cardinality({z \in T : Precedes(z, y)}) = k - 1
        BY <2>2
    <2> QED
        BY <2>3 DEF Listed
<1>10. DOMAIN Listed(T) = 1..N
    BY DEF Listed
<1>11. Len(Listed(T)) = N
    BY <1>1, <1>10 DEF Listed
<1>12. ASSUME NEW x \in T PROVE \E k \in 1..N : Listed(T)[k] = x
    <2> DEFINE k == number(x) + 1
    <2>1. k \in 1..N /\ number(x) = k - 1
        <3>1. number(x) \in Nat /\ number(x) \in 0..(N - 1)
            BY <1>4, <1>5
        <3> HIDE DEF number, N
        <3> QED
            BY <1>1, <3>1
    <2> HIDE DEF k
    <2>2. Listed(T)[k] = CHOOSE y \in T : number(y) = k - 1
        BY <2>1 DEF Listed
    <2>3. Listed(T)[k] \in T /\ number(Listed(T)[k]) = k - 1
        BY <2>1, <2>2
    <2> HIDE DEF number
    <2>4. Listed(T)[k] = x
        BY <1>7, <2>1, <2>3
    <2> QED
        BY <2>1, <2>4
<1> HIDE DEF N
<1> QED
    BY <1>1, <1>9, <1>10, <1>11, <1>12 DEF N

LEMMA SequencePlaces ==
    ASSUME NEW s, IsSequence(s)
    PROVE  DOMAIN s \in SUBSET Nat /\ IsFiniteSet(DOMAIN s)
<1>1. DOMAIN s = 1..Len(s) /\ Len(s) \in Nat
    BY DEF IsSequence
<1>2. IsFiniteSet(1..Len(s))
    BY <1>1, FS_Interval, 1 \in Int, Len(s) \in Int
<1> QED
    BY <1>1, <1>2

\* What is made of the members of a finite set is finite.
LEMMA ImageFinite ==
    ASSUME NEW f, IsFiniteSet(DOMAIN f), f = [x \in DOMAIN f |-> f[x]]
    PROVE  IsFiniteSet({f[x] : x \in DOMAIN f})
<1>1. f \in Surjection(DOMAIN f, {f[x] : x \in DOMAIN f})
    BY DEF Surjection
<1> QED
    BY <1>1, FS_Surjection

\* What is picked of a sequence are what it has at those places.
LEMMA PickedMembers ==
    ASSUME NEW s, IsSequence(s), NEW places \in SUBSET DOMAIN s
    PROVE  /\ IsSequence(Picked(s, places))
           /\ \A k \in DOMAIN Picked(s, places) : \E i \in places : Picked(s, places)[k] = s[i]
<1> DEFINE f == [i \in places |-> <<i>>]
           T == {<<i>> : i \in places}
<1>1. IsFiniteSet(DOMAIN s) /\ DOMAIN s \subseteq Nat
    BY SequencePlaces
<1>2. IsFiniteSet(places)
    BY <1>1, FS_Subset
<1>3. IsFiniteSet(T)
    <2>1. T = {f[i] : i \in DOMAIN f} /\ DOMAIN f = places /\ f = [i \in DOMAIN f |-> f[i]]
        OBVIOUS
    <2> HIDE DEF T, f
    <2> QED
        BY <1>2, <2>1, ImageFinite
<1>4. T \subseteq [1..1 -> Int]
    BY <1>1
<1> DEFINE order == Listed(T)
<1>5. /\ Cardinality(T) \in Nat /\ DOMAIN order = 1..Cardinality(T)
      /\ \A k \in DOMAIN order : order[k] \in T
    <2> HIDE DEF T
    <2> QED
        BY <1>3, <1>4, ListedKeys, 1 \in Nat
<1>6. Picked(s, places) = [k \in DOMAIN order |-> s[order[k][1]]]
    BY DEF Picked
<1> HIDE DEF order
<1>7. IsSequence(Picked(s, places))
    BY <1>5, <1>6 DEF IsSequence
<1>8. \A k \in DOMAIN order : \E i \in places : order[k] = <<i>>
    BY <1>5
<1>9. \A k \in DOMAIN order : order[k][1] \in places
    BY <1>8
<1> QED
    BY <1>6, <1>7, <1>9

-----------------------------------------------------------------------------
(* The tables next to the base.                                              *)

LEMMA LookGrows ==
    ASSUME NEW joins, NEW base, NEW s \in Searches(joins, base)
    PROVE  DOMAIN s.found \subseteq DOMAIN Look(joins, s).found
    BY DEF Look, Extend

\* The search has met the tables that the first joins lead to from the base.
NextTo(joins, base, n, found) ==
    \A i \in 1..n : (joins[i].from = base /\ Traversable(joins[i])) => joins[i].to \in DOMAIN found

AtBase(joins, base, n, s) ==
    /\ s.queue # <<>> /\ Head(s.queue) = base /\ s.next = n + 1
    /\ NextTo(joins, base, n, s.found)

LEMMA LookAtBase ==
    ASSUME NEW joins, IsSequence(joins), NEW base, NEW s \in Searches(joins, base),
           NEW n \in 1..Len(joins), AtBase(joins, base, n - 1, s)
    PROVE  AtBase(joins, base, n, Look(joins, s))
<1> DEFINE j == joins[n]
           new == j.from = Head(s.queue) /\ j.to \notin DOMAIN s.found /\ Traversable(j)
<1>1. Len(joins) \in Nat /\ n \in Nat /\ s.next = n /\ ~(s.next > Len(joins)) /\ s.queue # <<>>
    BY DEF IsSequence, AtBase
<1>2. Look(joins, s) = [found |-> IF new THEN Extend(s.found, j) ELSE s.found,
                        queue |-> IF new THEN Append(s.queue, j.to) ELSE s.queue,
                        next |-> n + 1]
    BY <1>1 DEF Look
<1>3. s.queue \in Seq(Meetable(joins, base))
    BY DEF Searches
<1>4. Append(s.queue, j.to) # <<>> /\ Head(Append(s.queue, j.to)) = Head(s.queue)
    BY <1>1, <1>3
<1>5. Head(s.queue) = base /\ \A i \in 1..n : i = n \/ i \in 1..(n - 1)
    BY DEF AtBase
<1>6. DOMAIN Extend(s.found, j) = DOMAIN s.found \cup {j.to}
    BY DEF Extend
<1>7. NextTo(joins, base, n, IF new THEN Extend(s.found, j) ELSE s.found)
    BY <1>5, <1>6 DEF NextTo, AtBase
<1> HIDE DEF new
<1> QED
    BY <1>1, <1>2, <1>4, <1>5, <1>7 DEF AtBase

\* The tables that a traversable join leads to from the base are reached.
LEMMA NeighboursReached ==
    ASSUME NEW model, IsSequence(model.joins), NEW base
    PROVE  /\ base \in DOMAIN Reached(model, base)
           /\ \A i \in DOMAIN model.joins :
                 (model.joins[i].from = base /\ Traversable(model.joins[i]))
                    => model.joins[i].to \in DOMAIN Reached(model, base)
<1> DEFINE joins == model.joins
           L == Len(joins)
           last == (L + 1) * (L + 1)
<1>1. PICK g : SearchStates(joins, base, g)
    BY SearchRuns
<1>2. L \in Nat /\ last \in Nat /\ L <= last /\ DOMAIN joins = 1..L
    <2>1. L \in Nat /\ DOMAIN joins = 1..L
        BY DEF IsSequence
    <2> HIDE DEF L
    <2>2. (L + 1) * (L + 1) = L * L + L + L + 1 /\ L * L \in Nat
        BY <2>1
    <2> QED
        BY <2>1, <2>2
<1> HIDE DEF L, last
<1>3. \A n \in 0..L : AtBase(joins, base, n, g[n])
    <2> DEFINE out == {n \in 0..L : ~AtBase(joins, base, n, g[n])}
               n == First(out)
    <2> SUFFICES ASSUME out # {} PROVE FALSE
        OBVIOUS
    <2>1. out \in SUBSET Nat
        BY <1>2
    <2> HIDE DEF out
    <2>2. n \in out /\ \A m \in out : n <= m
        BY <2>1, LeastNumber
    <2> HIDE DEF n
    <2>3. n \in 0..L /\ n \in Nat /\ ~AtBase(joins, base, n, g[n])
        BY <1>2, <2>2 DEF out
    <2>4. n # 0
        <3>1. g[0] = [found |-> [e \in {base} |-> <<>>], queue |-> <<base>>, next |-> 1]
            BY <1>1 DEF SearchStates, SearchFrom
        <3>2. NextTo(joins, base, 0, g[0].found)
            BY DEF NextTo
        <3>3. g[0].queue # <<>> /\ Head(g[0].queue) = base /\ g[0].next = 0 + 1
            BY <3>1
        <3> QED
            BY <2>3, <3>2, <3>3 DEF AtBase
    <2>5. n - 1 \in 0..L /\ n - 1 \in Nat /\ n \in 1..L /\ ~(n <= n - 1)
        BY <1>2, <2>3, <2>4
    <2>6. AtBase(joins, base, n - 1, g[n - 1])
        BY <2>2, <2>5 DEF out
    <2>7. g[n - 1] \in Searches(joins, base) /\ g[n] = Look(joins, g[n - 1])
        BY <1>1, <2>3, <2>4, <2>5 DEF SearchStates
    <2> QED
        BY <2>3, <2>5, <2>6, <2>7, LookAtBase DEF L
<1>4. \A n \in Nat : n >= L => NextTo(joins, base, L, g[n].found)
    <2> DEFINE out == {n \in Nat : n >= L /\ ~NextTo(joins, base, L, g[n].found)}
               n == First(out)
    <2> SUFFICES ASSUME out # {} PROVE FALSE
        OBVIOUS
    <2>1. out \in SUBSET Nat
        OBVIOUS
    <2> HIDE DEF out
    <2>2. n \in out /\ \A m \in out : n <= m
        BY <2>1, LeastNumber
    <2> HIDE DEF n
    <2>3. n \in Nat /\ n >= L /\ ~NextTo(joins, base, L, g[n].found)
        BY <2>2 DEF out
    <2>4. n # L
        BY <1>2, <1>3, <2>3 DEF AtBase
    <2>5. n - 1 \in Nat /\ n - 1 >= L /\ n # 0 /\ ~(n <= n - 1)
        BY <1>2, <2>3, <2>4
    <2>6. NextTo(joins, base, L, g[n - 1].found)
        BY <2>2, <2>5 DEF out
    <2>7. g[n - 1] \in Searches(joins, base) /\ g[n] = Look(joins, g[n - 1])
        BY <1>1, <2>3, <2>5 DEF SearchStates
    <2>8. DOMAIN g[n - 1].found \subseteq DOMAIN g[n].found
        BY <2>7, LookGrows
    <2> QED
        BY <2>3, <2>6, <2>8 DEF NextTo
<1>5. Reached(model, base) = g[last].found /\ g[last] \in Searches(joins, base)
    BY <1>1, <1>2 DEF SearchStates, Reached, last, L
<1>6. base \in DOMAIN Reached(model, base)
    BY <1>5 DEF Searches, Paths
<1>7. NextTo(joins, base, L, Reached(model, base))
    BY <1>2, <1>4, <1>5
<1> QED
    BY <1>2, <1>6, <1>7 DEF NextTo

-----------------------------------------------------------------------------
(* The models that are built.                                                *)

IsEntity(e) == IsSequence(e.attributes) /\ NamesDiffer(e.attributes) /\ e.magnitude \in Nat

IsMeasureOf(m, e) ==
    /\ m.entity = e.id /\ m.id = <<e.id, m.name>> /\ m.aggregation \in {"count", "sum", "avg"}
    /\ CountsRows(m) \/ \E k \in DOMAIN e.attributes : e.attributes[k].name = m.column

\* The entities of a model have ids and columns of their own, its measures are
\* of a column of their entity, each entity has one, and its joins lead to its
\* entities.
Sound(model) ==
    /\ IsSequence(model.entities)
    /\ \A i \in DOMAIN model.entities : IsEntity(model.entities[i])
    /\ \A i, j \in DOMAIN model.entities :
          model.entities[i].id = model.entities[j].id => model.entities[i] = model.entities[j]
    /\ IsSequence(model.measures)
    /\ \A k \in DOMAIN model.measures :
          \E i \in DOMAIN model.entities : IsMeasureOf(model.measures[k], model.entities[i])
    /\ \A i \in DOMAIN model.entities :
          \E k \in DOMAIN model.measures : IsMeasureOf(model.measures[k], model.entities[i])
    /\ IsSequence(model.joins)
    /\ \A k \in DOMAIN model.joins : \E i \in DOMAIN model.entities : model.entities[i].id = model.joins[k].to

LEMMA EntityIsSound ==
    ASSUME NEW dataset, dataset.magnitude \in Nat, IsSequence(dataset.columns),
           NamesDiffer(dataset.columns), NEW relationships
    PROVE  IsEntity(EntityOf(dataset, relationships)) /\ EntityOf(dataset, relationships).id = dataset.name
<1> DEFINE e == EntityOf(dataset, relationships)
           foreign == {relationships[i].column :
                         i \in {j \in DOMAIN relationships : relationships[j].from = dataset.name}}
<1>1. e.attributes = [k \in DOMAIN dataset.columns |-> AttributeOf(dataset.columns[k], dataset.key, foreign)]
    BY DEF EntityOf
<1> HIDE DEF foreign
<1>2. \A c : AttributeOf(c, dataset.key, foreign).name = c.name
    BY DEF AttributeOf
<1>3. e.id = dataset.name /\ e.magnitude = dataset.magnitude
    BY DEF EntityOf
<1> HIDE DEF e
<1>4. DOMAIN dataset.columns = 1..Len(dataset.columns) /\ Len(dataset.columns) \in Nat
    BY DEF IsSequence
<1>5. IsSequence(e.attributes)
    BY <1>1, <1>4 DEF IsSequence
<1>6. NamesDiffer(e.attributes)
    BY <1>1, <1>2 DEF NamesDiffer
<1> QED
    BY <1>3, <1>5, <1>6 DEF IsEntity, e

\* A place of a measure leads to a measure of its entity.
LEMMA MeasureIsOf ==
    ASSUME NEW entities, NEW place \in MeasurePlaces(entities)
    PROVE  /\ place[1] \in DOMAIN entities
           /\ IsMeasureOf(MeasureOf(entities, place), entities[place[1]])
<1> DEFINE e == entities[place[1]]
           a == e.attributes[place[2]]
<1>1. place[1] \in DOMAIN entities
    BY DEF MeasurePlaces
<1>2. CASE place[2] = 0
    <2>1. MeasureOf(entities, place) = Measure(e.id, <<"record", "count">>, "count", <<>>)
        BY <1>2 DEF MeasureOf
    <2> QED
        BY <1>1, <2>1 DEF IsMeasureOf, Measure, CountsRows
<1>3. CASE place[2] # 0
    <2>1. place[2] \in DOMAIN e.attributes /\ place[3] \in DOMAIN Aggregations(a)
        BY <1>3 DEF MeasurePlaces
    <2> DEFINE aggregation == Aggregations(a)[place[3]]
    <2>2. aggregation \in {"sum", "avg"}
        BY <2>1 DEF Aggregations
    <2>3. MeasureOf(entities, place) = Measure(e.id, NameMeasure(a.name, aggregation), aggregation, a.name)
        BY <1>3 DEF MeasureOf
    <2> HIDE DEF aggregation
    <2> QED
        BY <1>1, <2>1, <2>2, <2>3 DEF IsMeasureOf, Measure
<1> QED
    BY <1>2, <1>3

LEMMA MeasurePlacesFinite ==
    ASSUME NEW entities, IsSequence(entities),
           \A i \in DOMAIN entities : IsSequence(entities[i].attributes)
    PROVE  IsFiniteSet(MeasurePlaces(entities)) /\ MeasurePlaces(entities) \subseteq [1..3 -> Int]
<1> DEFINE D == DOMAIN entities
           A(i) == DOMAIN entities[i].attributes
           counts == [i \in D |-> <<i, 0, 1>>]
           all(i) == [q \in A(i) \X (1..2) |-> <<i, q[1], q[2]>>]
           triples == [i \in D |-> {all(i)[q] : q \in A(i) \X (1..2)}]
           T == MeasurePlaces(entities)
<1>1. IsFiniteSet(D) /\ D \subseteq Nat
    BY SequencePlaces
<1>2. ASSUME NEW i \in D PROVE IsFiniteSet(A(i)) /\ A(i) \subseteq Nat
    BY SequencePlaces
<1>3. ASSUME NEW i \in D PROVE IsFiniteSet(triples[i])
    <2>1. IsFiniteSet(1..2)
        BY FS_Interval, 1 \in Int, 2 \in Int
    <2>2. IsFiniteSet(A(i) \X (1..2))
        <3>1. IsFiniteSet(A(i))
            BY <1>2
        <3> HIDE DEF A
        <3> QED
            BY <2>1, <3>1, FS_Product
    <2>3. triples[i] = {all(i)[q] : q \in DOMAIN all(i)} /\ DOMAIN all(i) = A(i) \X (1..2)
          /\ all(i) = [q \in DOMAIN all(i) |-> all(i)[q]]
        OBVIOUS
    <2> HIDE DEF all, triples, A
    <2> QED
        BY <2>2, <2>3, ImageFinite
<1>4. IsFiniteSet({counts[i] : i \in D})
    <2>1. DOMAIN counts = D /\ counts = [i \in DOMAIN counts |-> counts[i]]
        OBVIOUS
    <2> HIDE DEF counts, D
    <2> QED
        BY <1>1, <2>1, ImageFinite
<1>5. IsFiniteSet(UNION {triples[i] : i \in D})
    <2>1. DOMAIN triples = D /\ triples = [i \in DOMAIN triples |-> triples[i]]
        OBVIOUS
    <2> HIDE DEF triples, D
    <2>2. IsFiniteSet({triples[i] : i \in D})
        BY <1>1, <2>1, ImageFinite
    <2> QED
        BY <1>3, <2>2, FS_UNION
<1> DEFINE U == {counts[i] : i \in D} \cup UNION {triples[i] : i \in D}
<1>6. IsFiniteSet(U)
    <2> HIDE DEF counts, triples, D
    <2> QED
        BY <1>4, <1>5, FS_Union
<1>7. ASSUME NEW p \in T PROVE p \in U /\ p \in [1..3 -> Int]
    <2>1. CASE \E i \in D : p = <<i, 0, 1>>
        <3>1. PICK i \in D : p = <<i, 0, 1>>
            BY <2>1
        <3>2. p = counts[i] /\ i \in Int
            BY <1>1, <3>1
        <3>3. p \in [1..3 -> Int]
            BY <3>1, <3>2
        <3> QED
            BY <3>2, <3>3
    <2>2. CASE ~\E i \in D : p = <<i, 0, 1>>
        <3>1. PICK i \in D : p \in {i} \X A(i) \X (1..2)
            BY <2>2 DEF MeasurePlaces
        <3>2. p = <<i, p[2], p[3]>> /\ p[2] \in A(i) /\ p[3] \in 1..2 /\ <<p[2], p[3]>> \in A(i) \X (1..2)
            BY <3>1
        <3>3. all(i)[<<p[2], p[3]>>] = p
            BY <3>2
        <3>4. p \in triples[i]
            BY <3>2, <3>3
        <3>5. i \in Int /\ p[2] \in Int /\ p[3] \in Int
            BY <1>1, <1>2, <3>2
        <3>6. p \in [1..3 -> Int]
            BY <3>2, <3>5
        <3> QED
            BY <3>4, <3>6
    <2> QED
        BY <2>1, <2>2
<1> HIDE DEF U, T
<1>8. T \in SUBSET U /\ T \subseteq [1..3 -> Int]
    BY <1>7
<1>9. IsFiniteSet(T)
    BY <1>6, <1>8, FS_Subset
<1> QED
    BY <1>8, <1>9 DEF T

LEMMA MeasuresAreSound ==
    ASSUME NEW entities, IsSequence(entities),
           \A i \in DOMAIN entities : IsEntity(entities[i])
    PROVE  /\ IsSequence(MeasuresFor(entities))
           /\ \A k \in DOMAIN MeasuresFor(entities) :
                 \E i \in DOMAIN entities : IsMeasureOf(MeasuresFor(entities)[k], entities[i])
           /\ \A i \in DOMAIN entities :
                 \E k \in DOMAIN MeasuresFor(entities) : IsMeasureOf(MeasuresFor(entities)[k], entities[i])
<1> DEFINE T == MeasurePlaces(entities)
           order == Listed(T)
           M == MeasuresFor(entities)
<1>1. IsFiniteSet(T) /\ T \subseteq [1..3 -> Int]
    BY MeasurePlacesFinite DEF IsEntity
<1>2. /\ Cardinality(T) \in Nat /\ DOMAIN order = 1..Cardinality(T)
      /\ \A k \in DOMAIN order : order[k] \in T
      /\ \A x \in T : \E k \in DOMAIN order : order[k] = x
    <2> HIDE DEF T
    <2> QED
        BY <1>1, ListedKeys, 3 \in Nat
<1>3. M = [k \in DOMAIN order |-> MeasureOf(entities, order[k])]
    BY DEF MeasuresFor
<1>4. ASSUME NEW i \in DOMAIN entities PROVE <<i, 0, 1>> \in T
    BY DEF MeasurePlaces
<1>5. \A p \in T : p[1] \in DOMAIN entities /\ IsMeasureOf(MeasureOf(entities, p), entities[p[1]])
    BY MeasureIsOf
<1> HIDE DEF T, order, M
<1>6. IsSequence(M)
    BY <1>2, <1>3 DEF IsSequence
<1>7. ASSUME NEW k \in DOMAIN M PROVE \E i \in DOMAIN entities : IsMeasureOf(M[k], entities[i])
    BY <1>2, <1>3, <1>5
<1>8. ASSUME NEW i \in DOMAIN entities PROVE \E k \in DOMAIN M : IsMeasureOf(M[k], entities[i])
    <2>1. PICK k \in DOMAIN order : order[k] = <<i, 0, 1>>
        BY <1>2, <1>4
    <2>2. order[k][1] = i /\ order[k] \in T
        BY <1>2, <2>1
    <2>3. M[k] = MeasureOf(entities, order[k]) /\ k \in DOMAIN M
        BY <1>3
    <2> QED
        BY <1>5, <2>2, <2>3
<1> QED
    BY <1>6, <1>7, <1>8 DEF M

LEMMA BuildSound ==
    ASSUME NEW w, IsWorkspace(w)
    PROVE  Sound(BuildModel(w.datasets, w.relationships))
<1> DEFINE datasets == w.datasets
           relationships == w.relationships
           usable == {i \in DOMAIN datasets : ~datasets[i].internal /\ datasets[i].silver}
           used == Picked(datasets, usable)
           names == {used[i].name : i \in DOMAIN used}
           entities == [i \in DOMAIN used |-> EntityOf(used[i], relationships)]
           model == BuildModel(datasets, relationships)
<1>1. /\ IsSequence(datasets) /\ NamesDiffer(datasets) /\ IsSequence(relationships)
      /\ \A i \in DOMAIN datasets :
            /\ datasets[i].magnitude \in Nat
            /\ IsSequence(datasets[i].columns) /\ NamesDiffer(datasets[i].columns)
    BY DEF IsWorkspace
<1>2. /\ model.entities = entities /\ model.measures = MeasuresFor(entities)
      /\ model.joins = JoinsFrom(relationships, names)
    BY DEF BuildModel
<1>3. usable \in SUBSET DOMAIN datasets
    OBVIOUS
<1> HIDE DEF usable, model
<1>4. IsSequence(used) /\ \A k \in DOMAIN used : \E i \in usable : used[k] = datasets[i]
    BY <1>1, <1>3, PickedMembers
<1> HIDE DEF used, names, datasets, relationships
<1>5. \A k \in DOMAIN used : /\ used[k].magnitude \in Nat
                             /\ IsSequence(used[k].columns) /\ NamesDiffer(used[k].columns)
    BY <1>1, <1>3, <1>4
<1>6. \A k, l \in DOMAIN used : used[k].name = used[l].name => used[k] = used[l]
    BY <1>1, <1>3, <1>4 DEF NamesDiffer
<1>7. \A i \in DOMAIN used : IsEntity(EntityOf(used[i], relationships))
                              /\ EntityOf(used[i], relationships).id = used[i].name
    BY <1>5, EntityIsSound
<1>8. IsSequence(entities)
    BY <1>4 DEF IsSequence
<1>9. \A i \in DOMAIN entities : IsEntity(entities[i])
    BY <1>7
<1>10. /\ \A i, j \in DOMAIN entities : entities[i].id = entities[j].id => entities[i] = entities[j]
       /\ \A name \in names : \E i \in DOMAIN entities : entities[i].id = name
    BY <1>6, <1>7 DEF names
<1> HIDE DEF entities
<1>11. /\ IsSequence(MeasuresFor(entities))
       /\ \A k \in DOMAIN MeasuresFor(entities) :
             \E i \in DOMAIN entities : IsMeasureOf(MeasuresFor(entities)[k], entities[i])
       /\ \A i \in DOMAIN entities :
             \E k \in DOMAIN MeasuresFor(entities) : IsMeasureOf(MeasuresFor(entities)[k], entities[i])
    BY <1>8, <1>9, MeasuresAreSound
<1>12. /\ IsSequence(JoinsFrom(relationships, names))
       /\ \A k \in DOMAIN JoinsFrom(relationships, names) : JoinsFrom(relationships, names)[k].to \in names
    <2> DEFINE chosen == {i \in DOMAIN relationships :
                    LET r == relationships[i]
                    IN  r.accepted /\ r.from \in names /\ r.to \in names /\ r.from # r.to}
               kept == Picked(relationships, chosen)
    <2>1. chosen \in SUBSET DOMAIN relationships
        OBVIOUS
    <2>2. JoinsFrom(relationships, names) =
            [i \in DOMAIN kept |->
                [from |-> kept[i].from, column |-> kept[i].column, to |-> kept[i].to,
                 target |-> kept[i].target, cardinality |-> kept[i].cardinality]]
        BY DEF JoinsFrom
    <2> HIDE DEF chosen
    <2>3. IsSequence(kept) /\ \A k \in DOMAIN kept : \E i \in chosen : kept[k] = relationships[i]
        BY <1>1, <2>1, PickedMembers
    <2> HIDE DEF kept
    <2>4. \A k \in DOMAIN kept : kept[k].to \in names
        BY <2>3 DEF chosen
    <2> QED
        BY <2>2, <2>3, <2>4 DEF IsSequence
<1>13. Sound(model)
    BY <1>2, <1>8, <1>9, <1>10, <1>11, <1>12 DEF Sound
<1> QED
    BY <1>13 DEF model, datasets, relationships

-----------------------------------------------------------------------------
(* The questions a table may be asked.                                       *)

\* A name of a column of a model stands for that column.
LEMMA FieldResolves ==
    ASSUME NEW model, Sound(model), NEW i \in DOMAIN model.entities,
           NEW k \in DOMAIN model.entities[i].attributes,
           NEW ref, ref.entity = model.entities[i].id,
           ref.attribute = model.entities[i].attributes[k].name
    PROVE  Resolves(model, ref) /\ ResolveField(model, ref) = model.entities[i].attributes[k]
<1> DEFINE E == EntitiesAt(model, ref.entity)
           A == AttributesAt(model, ref)
           e == model.entities[i]
<1>1. DOMAIN model.entities \in SUBSET Nat
    BY SequencePlaces DEF Sound
<1>2. E \in SUBSET Nat /\ i \in E
    BY <1>1 DEF EntitiesAt
<1>3. First(E) \in E
    <2> HIDE DEF E
    <2> QED
        BY <1>2, LeastNumber
<1>4. First(E) \in DOMAIN model.entities /\ model.entities[First(E)].id = e.id
    BY <1>3 DEF EntitiesAt
<1>5. model.entities[First(E)] = e /\ IsEntity(e)
    BY <1>4 DEF Sound
<1>6. A = {n \in DOMAIN e.attributes : e.attributes[n].name = ref.attribute}
    BY <1>5 DEF AttributesAt
<1> HIDE DEF A
<1>7. A = {k}
    BY <1>5, <1>6 DEF IsEntity, NamesDiffer
<1>8. k \in Nat
    BY <1>5 DEF IsEntity, IsSequence
<1>9. First(A) = k
    BY <1>7, <1>8 DEF First
<1> QED
    BY <1>2, <1>5, <1>7, <1>9 DEF Resolves, ResolveField, A

\* The id of a measure leads to a measure of the same table and name, which can
\* be computed.
LEMMA MeasureFound ==
    ASSUME NEW model, Sound(model), NEW k \in DOMAIN model.measures
    PROVE  LET m == model.measures[First(MeasuresAt(model, model.measures[k].id))]
           IN  /\ MeasuresAt(model, model.measures[k].id) # {}
               /\ m.entity = model.measures[k].entity /\ m.name = model.measures[k].name
               /\ m.aggregation \in AGGREGATIONS
               /\ CountsRows(m) \/ Resolves(model, Over(m))
<1> DEFINE id == model.measures[k].id
           M == MeasuresAt(model, id)
           n == First(M)
           m == model.measures[n]
<1>1. DOMAIN model.measures \in SUBSET Nat
    BY SequencePlaces DEF Sound
<1>2. M \in SUBSET Nat /\ k \in M
    BY <1>1 DEF MeasuresAt
<1>3. n \in M
    <2> HIDE DEF M
    <2> QED
        BY <1>2, LeastNumber
<1> HIDE DEF n
<1>4. n \in DOMAIN model.measures /\ m.id = id
    BY <1>3 DEF MeasuresAt
<1>5. PICK i \in DOMAIN model.entities : IsMeasureOf(m, model.entities[i])
    BY <1>4 DEF Sound
<1>6. PICK j \in DOMAIN model.entities : IsMeasureOf(model.measures[k], model.entities[j])
    BY DEF Sound
<1> HIDE DEF m
<1>7. m.entity = model.measures[k].entity /\ m.name = model.measures[k].name
    <2>1. <<model.entities[i].id, m.name>> = <<model.entities[j].id, model.measures[k].name>>
        BY <1>4, <1>5, <1>6 DEF IsMeasureOf
    <2>2. m.entity = model.entities[i].id /\ model.measures[k].entity = model.entities[j].id
        BY <1>5, <1>6 DEF IsMeasureOf
    <2> QED
        BY <2>1, <2>2
<1>8. m.aggregation \in AGGREGATIONS
    BY <1>5 DEF IsMeasureOf, AGGREGATIONS
<1>9. CountsRows(m) \/ Resolves(model, Over(m))
    <2> SUFFICES ASSUME ~CountsRows(m) PROVE Resolves(model, Over(m))
        OBVIOUS
    <2>1. PICK l \in DOMAIN model.entities[i].attributes :
              model.entities[i].attributes[l].name = m.column
        BY <1>5 DEF IsMeasureOf
    <2>2. Over(m).entity = model.entities[i].id /\ Over(m).attribute = m.column
        BY <1>5 DEF IsMeasureOf, Over
    <2> QED
        BY <2>1, <2>2, FieldResolves
<1>10. m = model.measures[First(MeasuresAt(model, model.measures[k].id))]
    BY DEF m, n
<1> HIDE DEF M
<1> QED
    BY <1>2, <1>7, <1>8, <1>9, <1>10 DEF M

\* What the charts of a table may be of.
Dims(model, e) == {Ref(model, p) : p \in Plottable(model, e)}
Times(e) == {TimeOf(e)[k] : k \in DOMAIN TimeOf(e)}

\* A column a chart may be of can be joined to the table and filtered by anybody.
LEMMA DimsReached ==
    ASSUME NEW model, Sound(model), NEW i \in DOMAIN model.entities,
           NEW ref \in Dims(model, model.entities[i])
    PROVE  /\ Resolves(model, ref) /\ ResolveField(model, ref).pii = "none"
           /\ ref.entity \in DOMAIN Reached(model, model.entities[i].id)
<1> DEFINE e == model.entities[i]
<1>1. PICK p \in Plottable(model, e) : ref = Ref(model, p)
    BY DEF Dims
<1>2. /\ p[1] \in DOMAIN model.entities /\ p[2] \in DOMAIN model.entities[p[1]].attributes
      /\ AttributeAt(model, p).pii = "none" /\ model.entities[p[1]].id \in Nearby(model, e)
    BY DEF Plottable
<1>3. ref.entity = model.entities[p[1]].id /\ ref.attribute = model.entities[p[1]].attributes[p[2]].name
    BY <1>1 DEF Ref, AttributeAt
<1>4. Resolves(model, ref) /\ ResolveField(model, ref).pii = "none"
    BY <1>2, <1>3, FieldResolves DEF AttributeAt
<1>5. ref.entity \in DOMAIN Reached(model, e.id)
    <2>1. IsSequence(model.joins)
        BY DEF Sound
    <2>2. /\ e.id \in DOMAIN Reached(model, e.id)
          /\ \A n \in DOMAIN model.joins :
                (model.joins[n].from = e.id /\ Traversable(model.joins[n]))
                    => model.joins[n].to \in DOMAIN Reached(model, e.id)
        BY <2>1, NeighboursReached
    <2> HIDE DEF e
    <2> QED
        BY <1>2, <1>3, <2>2 DEF Nearby, Traversable
<1> QED
    BY <1>4, <1>5

LEMMA TimesReached ==
    ASSUME NEW model, Sound(model), NEW i \in DOMAIN model.entities,
           NEW ref \in Times(model.entities[i])
    PROVE  Resolves(model, ref) /\ ref.entity = model.entities[i].id
<1> DEFINE e == model.entities[i]
           n == First(Timed(e))
<1>1. Timed(e) # {}
    <2> SUFFICES ASSUME Timed(e) = {} PROVE FALSE
        OBVIOUS
    <2>1. TimeOf(e) = <<>>
        BY DEF TimeOf
    <2> QED
        BY <2>1 DEF Times
<1>2. TimeOf(e) = <<[entity |-> e.id, attribute |-> e.attributes[n].name]>>
    BY <1>1 DEF TimeOf
<1>3. ref = [entity |-> e.id, attribute |-> e.attributes[n].name]
    <2>1. PICK k \in DOMAIN TimeOf(e) : ref = TimeOf(e)[k]
        BY DEF Times
    <2> HIDE DEF n, e
    <2>2. k \in 1..1
        BY <1>2
    <2> QED
        BY <1>2, <2>1, <2>2
<1>4. Timed(e) \in SUBSET Nat
    <2>1. IsSequence(e.attributes)
        BY DEF Sound, IsEntity
    <2> HIDE DEF e
    <2> QED
        BY <2>1 DEF Timed, IsSequence
<1>5. n \in Timed(e)
    BY <1>1, <1>4, LeastNumber
<1>6. n \in DOMAIN e.attributes
    BY <1>5 DEF Timed
<1> HIDE DEF n
<1>7. ref.entity = e.id /\ ref.attribute = e.attributes[n].name
    BY <1>3
<1> QED
    BY <1>6, <1>7, FieldResolves

\* A filter to one value of a column a chart may be of.
IsPick(model, e, f) == f.field \in Dims(model, e) /\ f.op = "eq" /\ Len(f.values) = 1

\* A question of measures of a table, over columns its charts may be of.
Asks(model, e, q) ==
    /\ q.measures # <<>> /\ 1 \in DOMAIN q.measures
    /\ \A i \in DOMAIN q.measures :
          \E k \in MeasuresOf(model, e) : q.measures[i] = model.measures[k].id
    /\ Mentioned(q) \subseteq Dims(model, e) \cup Times(e)
    /\ \A i \in DOMAIN q.filters : IsPick(model, e, q.filters[i])
    /\ \A i \in DOMAIN q.order : q.order[i] = MeasuresIn(model, q)[1].name

\* Such a question compiles, for a reader who may not see personal data.
LEMMA AsksCompile ==
    ASSUME NEW model, Sound(model), NEW i \in DOMAIN model.entities,
           NEW q, Asks(model, model.entities[i], q)
    PROVE  Compile(model, q, FALSE) # <<>>
<1> DEFINE e == model.entities[i]
           In(n) == MeasuresIn(model, q)[n]
<1>1. ASSUME NEW n \in DOMAIN q.measures
      PROVE  /\ MeasuresAt(model, q.measures[n]) # {} /\ In(n).entity = e.id
             /\ In(n).aggregation \in AGGREGATIONS
             /\ CountsRows(In(n)) \/ Resolves(model, Over(In(n)))
    <2>1. PICK k \in MeasuresOf(model, e) : q.measures[n] = model.measures[k].id
        BY DEF Asks
    <2>2. k \in DOMAIN model.measures /\ model.measures[k].entity = e.id
        BY DEF MeasuresOf
    <2>3. In(n) = model.measures[First(MeasuresAt(model, model.measures[k].id))]
        BY <2>1 DEF MeasuresIn
    <2> HIDE DEF In, e
    <2> QED
        BY <2>1, <2>2, <2>3, MeasureFound
<1>2. 1 \in DOMAIN q.measures /\ q.measures # <<>>
    BY DEF Asks
<1>3. BaseOf(model, q) = e.id
    BY <1>1, <1>2 DEF BaseOf
<1>4. ASSUME NEW f \in Mentioned(q)
      PROVE  Resolves(model, f) /\ (f.entity = e.id \/ f.entity \in DOMAIN Reached(model, e.id))
    <2>1. CASE f \in Dims(model, e)
        BY <2>1, DimsReached
    <2>2. CASE f \in Times(e)
        BY <2>2, TimesReached
    <2> QED
        BY <2>1, <2>2 DEF Asks
<1>5. Targets(model, q) \subseteq DOMAIN Reached(model, BaseOf(model, q))
    BY <1>3, <1>4 DEF Targets
<1>6. ASSUME NEW n \in DOMAIN q.filters PROVE FilterAllowed(model, q.filters[n], FALSE)
    <2>1. IsPick(model, e, q.filters[n])
        BY DEF Asks
    <2>2. q.filters[n].op = "eq" /\ Len(q.filters[n].values) = 1
        BY <2>1 DEF IsPick
    <2>3. ResolveField(model, q.filters[n].field).pii = "none"
        BY <2>1, DimsReached DEF IsPick
    <2>4. "eq" \in DOMAIN Arity /\ Arity["eq"] = 1
        BY DEF Arity
    <2> QED
        BY <2>2, <2>3, <2>4 DEF FilterAllowed
<1>7. OrderKnown(model, q)
    <2>1. \A n \in DOMAIN q.order : q.order[n] \in {In(l).name : l \in DOMAIN q.measures}
        BY <1>2 DEF Asks
    <2> QED
        BY <2>1 DEF OrderKnown, OutputColumns
<1>8. EntitiesAt(model, e.id) # {}
    BY DEF EntitiesAt
<1>9. ASSUME NEW j \in JoinPath(model, BaseOf(model, q), Targets(model, q)) PROVE EntitiesAt(model, j.to) # {}
    <2> DEFINE c == [base |-> BaseOf(model, q), joins |-> JoinPath(model, BaseOf(model, q), Targets(model, q))]
    <2>1. c.base = BaseOf(model, q) /\ c.joins = JoinPath(model, BaseOf(model, q), Targets(model, q))
        OBVIOUS
    <2>2. IsSequence(model.joins)
        BY DEF Sound
    <2> HIDE DEF c
    <2>3. Tree(c, model.joins)
        BY <1>5, <2>1, <2>2, PathsAreATree
    <2>4. j \in JoinsOf(model.joins)
        BY <2>1, <2>3 DEF Tree
    <2> QED
        BY <2>4 DEF JoinsOf, Sound, EntitiesAt
<1> HIDE DEF In
<1>10. Answerable(model, q, FALSE)
    BY <1>1, <1>2, <1>3, <1>4, <1>5, <1>6, <1>7, <1>8, <1>9 DEF Answerable, In
<1> QED
    BY <1>10 DEF Compile

-----------------------------------------------------------------------------
(* The parts of a dashboard.                                                 *)

LEMMA ListedFirst ==
    ASSUME NEW T, IsFiniteSet(T), NEW d \in Nat, T \subseteq [1..d -> Int]
    PROVE  /\ T # {} => 1 \in DOMAIN Listed(T) /\ Listed(T)[1] \in T
           /\ T = {} => Listed(T) = <<>>
<1>1. /\ Cardinality(T) \in Nat /\ DOMAIN Listed(T) = 1..Cardinality(T)
      /\ \A k \in DOMAIN Listed(T) : Listed(T)[k] \in T
    BY ListedKeys
<1>2. Cardinality(T) = 0 <=> T = {}
    BY FS_EmptySet
<1>3. ASSUME T # {} PROVE 1 \in DOMAIN Listed(T) /\ Listed(T)[1] \in T
    BY <1>1, <1>2, <1>3
<1>4. ASSUME T = {} PROVE Listed(T) = <<>>
    <2>1. DOMAIN Listed(T) = {}
        BY <1>1, <1>2, <1>4
    <2> QED
        BY <2>1 DEF Listed
<1> QED
    BY <1>3, <1>4

IsMeasureAt(model, e, m) == \E n \in MeasuresOf(model, e) : m = model.measures[n]

LEMMA MeasuresOfFinite ==
    ASSUME NEW model, Sound(model), NEW i \in DOMAIN model.entities
    PROVE  LET places == MeasuresOf(model, model.entities[i])
           IN  places \in SUBSET Nat /\ IsFiniteSet(places) /\ places # {}
<1> DEFINE e == model.entities[i]
           places == MeasuresOf(model, e)
<1>1. DOMAIN model.measures \in SUBSET Nat /\ IsFiniteSet(DOMAIN model.measures)
    BY SequencePlaces DEF Sound
<1>2. places \in SUBSET DOMAIN model.measures
    BY DEF MeasuresOf
<1>3. PICK k \in DOMAIN model.measures : IsMeasureOf(model.measures[k], e)
    BY DEF Sound
<1>4. k \in places
    BY <1>3 DEF MeasuresOf, IsMeasureOf
<1> HIDE DEF places
<1>5. IsFiniteSet(places)
    BY <1>1, <1>2, FS_Subset
<1> QED
    BY <1>1, <1>2, <1>4, <1>5 DEF places

\* The measures of a table, as its tiles take them.
LEMMA MeasuresRanked ==
    ASSUME NEW model, Sound(model), NEW i \in DOMAIN model.entities
    PROVE  LET ranked == RankedMeasures(model, model.entities[i])
           IN  /\ IsSequence(ranked) /\ 1 \in DOMAIN ranked
               /\ \A k \in DOMAIN ranked : IsMeasureAt(model, model.entities[i], ranked[k])
<1> DEFINE e == model.entities[i]
           places == MeasuresOf(model, e)
           ranked == RankedMeasures(model, e)
           f == [n \in places |-> <<Rank(model.measures[n]), n>>]
           T == {<<Rank(model.measures[n]), n>> : n \in places}
           order == Listed(T)
<1>1. places \in SUBSET Nat /\ IsFiniteSet(places) /\ places # {}
    BY MeasuresOfFinite
<1>2. \A m : Rank(m) \in Int
    BY DEF Rank
<1> HIDE DEF places
<1>3. IsFiniteSet(T)
    <2>1. T = {f[n] : n \in DOMAIN f} /\ DOMAIN f = places /\ f = [n \in DOMAIN f |-> f[n]]
        OBVIOUS
    <2> HIDE DEF T, f
    <2> QED
        BY <1>1, <2>1, ImageFinite
<1>4. T \subseteq [1..2 -> Int] /\ T # {}
    <2>1. \A n \in places : n \in Int /\ Rank(model.measures[n]) \in Int
        <3> TAKE n \in places
        <3>1. n \in Int
            BY <1>1
        <3>2. Rank(model.measures[n]) \in Int
            BY <1>2
        <3> QED
            BY <3>1, <3>2
    <2>2. T \subseteq [1..2 -> Int]
        BY <2>1
    <2> QED
        BY <1>1, <2>2
<1>5. /\ Cardinality(T) \in Nat /\ DOMAIN order = 1..Cardinality(T)
      /\ \A k \in DOMAIN order : order[k] \in T
    <2> HIDE DEF T
    <2> QED
        BY <1>3, <1>4, ListedKeys, 2 \in Nat
<1>6. 1 \in DOMAIN order
    <2> HIDE DEF T
    <2> QED
        BY <1>3, <1>4, ListedFirst, 2 \in Nat
<1>7. ranked = [k \in DOMAIN order |-> model.measures[order[k][2]]]
    BY DEF RankedMeasures, places
<1> HIDE DEF order, ranked, f
<1>8. ASSUME NEW k \in DOMAIN order PROVE order[k][2] \in places
    <2>1. PICK n \in places : order[k] = <<Rank(model.measures[n]), n>>
        BY <1>5
    <2> QED
        BY <2>1
<1> HIDE DEF T
<1>9. IsSequence(ranked) /\ 1 \in DOMAIN ranked
    BY <1>5, <1>6, <1>7 DEF IsSequence
<1>10. \A k \in DOMAIN ranked : IsMeasureAt(model, e, ranked[k])
    BY <1>7, <1>8 DEF IsMeasureAt, places
<1> QED
    BY <1>9, <1>10 DEF ranked

\* The columns a chart may be of, as the tiles take them.
LEMMA DimensionsListed ==
    ASSUME NEW model, Sound(model), NEW e
    PROVE  LET listed == ChartableDimensions(model, e)
           IN  /\ IsSequence(listed)
               /\ \A k \in DOMAIN listed : listed[k] \in Plottable(model, e)
<1> DEFINE P == Plottable(model, e)
           D == DOMAIN model.entities
           A(i) == DOMAIN model.entities[i].attributes
           at == [i \in D |-> {i} \X A(i)]
           distance(p) == IF model.entities[p[1]].id = e.id THEN 0 ELSE 1
           f == [p \in P |-> <<distance(p), AttributeAt(model, p).cardinality, p[1], p[2]>>]
           T == {<<distance(p), AttributeAt(model, p).cardinality, p[1], p[2]>> : p \in P}
           order == Listed(T)
           listed == ChartableDimensions(model, e)
<1>1. D \in SUBSET Nat /\ IsFiniteSet(D)
    BY SequencePlaces DEF Sound
<1>2. \A i \in D : A(i) \in SUBSET Nat /\ IsFiniteSet(A(i))
    BY SequencePlaces DEF Sound, IsEntity
<1> HIDE DEF D, A
<1>3. IsFiniteSet(UNION {at[i] : i \in D})
    <2>1. \A i \in D : IsFiniteSet({i} \X A(i))
        BY <1>2, FS_Singleton, FS_Product
    <2>2. DOMAIN at = D /\ at = [i \in DOMAIN at |-> at[i]] /\ \A i \in D : at[i] = {i} \X A(i)
        OBVIOUS
    <2> HIDE DEF at
    <2>3. IsFiniteSet({at[i] : i \in D})
        BY <1>1, <2>2, ImageFinite
    <2> QED
        BY <2>1, <2>2, <2>3, FS_UNION
<1>4. P \in SUBSET UNION {at[i] : i \in D}
    BY DEF Plottable, D, A
<1>5. IsFiniteSet(P)
    <2> HIDE DEF P, at
    <2> QED
        BY <1>3, <1>4, FS_Subset
<1>6. \A p \in P : AttributeAt(model, p).cardinality \in 2..MaxChartCardinality
    BY DEF Plottable
<1>7. \A p \in P : p[1] \in D /\ p[2] \in A(p[1]) /\ p = <<p[1], p[2]>>
    BY <1>4
<1> HIDE DEF P, at
<1>8. \A p \in P : p[1] \in Int /\ p[2] \in Int /\ AttributeAt(model, p).cardinality \in Int
    BY <1>1, <1>2, <1>6, <1>7 DEF MaxChartCardinality
<1>9. \A p \in P : distance(p) \in Int
    OBVIOUS
<1> HIDE DEF distance
<1>10. IsFiniteSet(T)
    <2>1. T = {f[p] : p \in DOMAIN f} /\ DOMAIN f = P /\ f = [p \in DOMAIN f |-> f[p]]
        OBVIOUS
    <2> HIDE DEF T, f
    <2> QED
        BY <1>5, <2>1, ImageFinite
<1>11. T \subseteq [1..4 -> Int]
    BY <1>8, <1>9
<1>12. /\ Cardinality(T) \in Nat /\ DOMAIN order = 1..Cardinality(T)
       /\ \A k \in DOMAIN order : order[k] \in T
    <2> HIDE DEF T
    <2> QED
        BY <1>10, <1>11, ListedKeys, 4 \in Nat
<1>13. listed = [k \in DOMAIN order |-> <<order[k][3], order[k][4]>>]
    BY DEF ChartableDimensions, P, distance
<1> HIDE DEF order, listed, f
<1>14. ASSUME NEW k \in DOMAIN order PROVE <<order[k][3], order[k][4]>> \in P
    <2>1. PICK p \in P : order[k] = <<distance(p), AttributeAt(model, p).cardinality, p[1], p[2]>>
        BY <1>12
    <2>2. order[k][3] = p[1] /\ order[k][4] = p[2]
        BY <2>1
    <2> QED
        BY <1>7, <2>2
<1> HIDE DEF T
<1> QED
    BY <1>12, <1>13, <1>14 DEF IsSequence, listed, P

\* A dashboard is built around a table that is a fact.
LEMMA PrimaryIsFact ==
    ASSUME NEW model, Sound(model), Facts(model) # {}
    PROVE  \E i \in DOMAIN model.entities : PrimaryFact(model) = model.entities[i]
<1> DEFINE P == Facts(model)
           f == [i \in P |-> <<-Score(model, model.entities[i]), -model.entities[i].magnitude, i>>]
           T == {<<-Score(model, model.entities[i]), -model.entities[i].magnitude, i>> : i \in P}
<1>1. DOMAIN model.entities \in SUBSET Nat /\ IsFiniteSet(DOMAIN model.entities)
    BY SequencePlaces DEF Sound
<1>2. P \in SUBSET DOMAIN model.entities
    BY DEF Facts
<1> HIDE DEF P
<1>3. IsFiniteSet(P)
    BY <1>1, <1>2, FS_Subset
<1>4. ASSUME NEW i \in P
      PROVE  /\ i \in Int /\ -model.entities[i].magnitude \in Int
             /\ -Score(model, model.entities[i]) \in Int
    <2> DEFINE e == model.entities[i]
               n == Cardinality(MeasuresOf(model, e))
    <2>1. i \in DOMAIN model.entities /\ i \in Int
        BY <1>1, <1>2
    <2>2. e.magnitude \in Nat
        BY <2>1 DEF Sound, IsEntity
    <2>3. n \in Nat
        BY <2>1, MeasuresOfFinite, FS_CardinalityType
    <2> HIDE DEF e, n
    <2>4. /\ (IF HasTime(e) THEN 40 ELSE 0) \in Int /\ (IF Hub(model, e) THEN 30 ELSE 0) \in Int
          /\ (IF e.magnitude < 3 THEN 10 * e.magnitude ELSE 30) \in Int
          /\ (IF 4 * n < 20 THEN 4 * n ELSE 20) \in Int
        BY <2>2, <2>3
    <2>5. Score(model, e) \in Int
        BY <2>4 DEF Score, n
    <2> QED
        BY <2>1, <2>2, <2>5 DEF e
<1>5. IsFiniteSet(T)
    <2>1. T = {f[i] : i \in DOMAIN f} /\ DOMAIN f = P /\ f = [i \in DOMAIN f |-> f[i]]
        OBVIOUS
    <2> HIDE DEF T, f
    <2> QED
        BY <1>3, <2>1, ImageFinite
<1>6. T \subseteq [1..3 -> Int]
    BY <1>4
<1>7. T # {}
    BY DEF P
<1>8. Listed(T)[1] \in T
    <2> HIDE DEF T
    <2> QED
        BY <1>5, <1>6, <1>7, ListedFirst, 3 \in Nat
<1>9. PrimaryFact(model) = model.entities[Listed(T)[1][3]]
    BY DEF PrimaryFact, P
<1>10. PICK i \in P : Listed(T)[1] = <<-Score(model, model.entities[i]), -model.entities[i].magnitude, i>>
    BY <1>8
<1> HIDE DEF T, f
<1>11. Listed(T)[1][3] = i
    BY <1>10
<1> QED
    BY <1>2, <1>9, <1>11

\* The measures of charts are measures of the table.
MeasuresAreOf(model, e, measures) ==
    /\ IsSequence(measures) /\ 1 \in DOMAIN measures
    /\ \A k \in DOMAIN measures : IsMeasureAt(model, e, measures[k])

LEMMA LeadIsOf ==
    ASSUME NEW model, NEW e, NEW measures, MeasuresAreOf(model, e, measures)
    PROVE  IsMeasureAt(model, e, Lead(measures))
<1> DEFINE B == IF Business(measures) # {} THEN Business(measures) ELSE DOMAIN measures
<1>1. DOMAIN measures \in SUBSET Nat /\ DOMAIN measures # {}
    BY SequencePlaces DEF MeasuresAreOf
<1>2. B \in SUBSET Nat /\ B # {} /\ B \subseteq DOMAIN measures
    BY <1>1 DEF Business
<1>3. Lead(measures) = measures[First(B)]
    BY DEF Lead
<1> HIDE DEF B
<1>4. First(B) \in B
    BY <1>2, LeastNumber
<1> QED
    BY <1>2, <1>3, <1>4 DEF MeasuresAreOf

LEMMA ComboIsOf ==
    ASSUME NEW model, NEW e, NEW measures, MeasuresAreOf(model, e, measures),
           PairForCombo(measures) # <<>>
    PROVE  \E k, l \in DOMAIN measures : PairForCombo(measures) = <<measures[k], measures[l]>>
<1> DEFINE D == DOMAIN measures
           keys(pool) == {p \in pool \X pool : /\ measures[p[1]].id # measures[p[2]].id
                                               /\ measures[p[1]].format # measures[p[2]].format}
           pairs(pool) == Listed(keys(pool))
           B == Business(measures)
           found == IF pairs(B) # <<>> THEN pairs(B) ELSE pairs(D)
<1>1. D \in SUBSET Nat /\ IsFiniteSet(D)
    BY SequencePlaces DEF MeasuresAreOf
<1>2. B \in SUBSET D
    BY DEF Business
<1>3. PairForCombo(measures) = IF found = <<>> THEN <<>> ELSE <<measures[found[1][1]], measures[found[1][2]]>>
    BY DEF PairForCombo
<1>4. found # <<>>
    BY <1>3
<1>5. ASSUME NEW pool \in SUBSET D, pairs(pool) # <<>>
      PROVE  pairs(pool)[1] \in D \X D
    <2>1. IsFiniteSet(pool)
        BY <1>1, FS_Subset
    <2>2. IsFiniteSet(pool \X pool)
        BY <2>1, FS_Product
    <2>3. keys(pool) \in SUBSET (pool \X pool)
        OBVIOUS
    <2>4. keys(pool) \subseteq [1..2 -> Int]
        <3>1. \A p \in pool \X pool : p = <<p[1], p[2]>> /\ p[1] \in Int /\ p[2] \in Int
            BY <1>1
        <3> QED
            BY <2>3, <3>1
    <2> HIDE DEF keys, D
    <2>5. IsFiniteSet(keys(pool))
        BY <2>2, <2>3, FS_Subset
    <2>6. pairs(pool)[1] \in keys(pool)
        BY <1>5, <2>4, <2>5, ListedFirst, 2 \in Nat
    <2> QED
        BY <2>3, <2>6
<1> HIDE DEF pairs, B
<1>6. found[1] \in D \X D
    BY <1>2, <1>4, <1>5
<1> HIDE DEF found
<1>7. found[1][1] \in D /\ found[1][2] \in D
    BY <1>6
<1> QED
    BY <1>3, <1>4, <1>7

\* Some number of a sequence is the smallest.
LEMMA SmallestPlace ==
    ASSUME NEW s, IsSequence(s), 1 \in DOMAIN s, \A k \in DOMAIN s : s[k] \in Nat
    PROVE  First({k \in DOMAIN s : \A l \in DOMAIN s : s[k] <= s[l]}) \in DOMAIN s
<1> DEFINE V == {s[k] : k \in DOMAIN s}
           S == {k \in DOMAIN s : \A l \in DOMAIN s : s[k] <= s[l]}
           v == First(V)
<1>1. V \in SUBSET Nat /\ V # {}
    OBVIOUS
<1>2. v \in V /\ \A y \in V : v <= y
    <2> HIDE DEF V
    <2> QED
        BY <1>1, LeastNumber
<1> HIDE DEF v
<1>3. PICK k \in DOMAIN s : s[k] = v
    BY <1>2
<1>4. k \in S
    BY <1>2, <1>3
<1>5. S \in SUBSET Nat
    BY SequencePlaces
<1>6. First(S) \in S
    <2> HIDE DEF S
    <2> QED
        BY <1>4, <1>5, LeastNumber
<1> QED
    BY <1>6

-----------------------------------------------------------------------------
(* The tiles.                                                                *)

\* A tile of a table: it can be drawn, and asks only of the table's measures
\* and of columns its charts may be of.
IsTile(model, e, t) ==
    /\ t = [id |-> t.id, type |-> t.type, measures |-> t.measures, secondary |-> t.secondary,
            dimension |-> t.dimension, path |-> t.path, time |-> t.time, limit |-> t.limit,
            foldTail |-> t.foldTail]
    /\ t.measures # <<>> /\ 1 \in DOMAIN t.measures
    /\ \A i \in DOMAIN t.measures :
          \E k \in MeasuresOf(model, e) : t.measures[i] = model.measures[k].id
    /\ t.dimension \in Seq(Dims(model, e)) /\ t.path \in SUBSET Dims(model, e)
    /\ t.time \in Seq(Times(e))
    /\ Drawable(t)

LEMMA TileFits ==
    ASSUME NEW model, NEW e, NEW id, NEW type,
           NEW measures, MeasuresAreOf(model, e, measures),
           NEW dimension \in Seq(Dims(model, e)), NEW path \in SUBSET Dims(model, e),
           NEW time \in Seq(Times(e)), NEW limit,
           Drawable(Tile(id, type, measures, dimension, path, time, limit))
    PROVE  IsTile(model, e, Tile(id, type, measures, dimension, path, time, limit))
<1> DEFINE t == Tile(id, type, measures, dimension, path, time, limit)
           secondary == IF type = "combo" THEN {measures[2].id} ELSE {}
<1>1. t = [id |-> id, type |-> type, measures |-> Ids(measures), secondary |-> secondary,
           dimension |-> dimension, path |-> path, time |-> time, limit |-> limit, foldTail |-> TRUE]
    BY DEF Tile
<1> HIDE DEF t, secondary
<1>2. /\ t.measures = Ids(measures) /\ t.dimension = dimension /\ t.path = path /\ t.time = time
      /\ t = [id |-> t.id, type |-> t.type, measures |-> t.measures, secondary |-> t.secondary,
              dimension |-> t.dimension, path |-> t.path, time |-> t.time, limit |-> t.limit,
              foldTail |-> t.foldTail]
    BY <1>1
<1>3. 1 \in DOMAIN Ids(measures) /\ Ids(measures) # <<>>
    <2>1. 1 \in DOMAIN Ids(measures)
        BY DEF Ids, MeasuresAreOf
    <2> QED
        BY <2>1
<1>4. ASSUME NEW i \in DOMAIN Ids(measures)
      PROVE  \E k \in MeasuresOf(model, e) : Ids(measures)[i] = model.measures[k].id
    <2>1. i \in DOMAIN measures /\ Ids(measures)[i] = measures[i].id
        BY DEF Ids
    <2>2. PICK k \in MeasuresOf(model, e) : measures[i] = model.measures[k]
        BY <2>1 DEF MeasuresAreOf, IsMeasureAt
    <2> QED
        BY <2>1, <2>2
<1>5. Drawable(t)
    BY DEF t
<1>6. IsTile(model, e, t)
    BY <1>2, <1>3, <1>4, <1>5 DEF IsTile
<1> QED
    BY <1>6 DEF t

\* One measure, or two.
LEMMA SingleIsOf ==
    ASSUME NEW model, NEW e, NEW m, IsMeasureAt(model, e, m)
    PROVE  MeasuresAreOf(model, e, <<m>>) /\ Len(Ids(<<m>>)) = 1
    BY DEF MeasuresAreOf, IsSequence, Ids

LEMMA PairIsOf ==
    ASSUME NEW model, NEW e, NEW m, NEW n, IsMeasureAt(model, e, m), IsMeasureAt(model, e, n)
    PROVE  MeasuresAreOf(model, e, <<m, n>>) /\ Len(Ids(<<m, n>>)) = 2
<1>1. /\ Len(<<m, n>>) = 2 /\ DOMAIN <<m, n>> = 1..2 /\ <<m, n>>[1] = m /\ <<m, n>>[2] = n
      /\ <<m, n>> = [k \in 1..2 |-> <<m, n>>[k]]
    OBVIOUS
<1>2. Len(Ids(<<m, n>>)) = 2
    BY <1>1 DEF Ids
<1>3. \A k \in 1..2 : IsMeasureAt(model, e, <<m, n>>[k])
    <2>1. \A k \in 1..2 : k = 1 \/ k = 2
        OBVIOUS
    <2> QED
        BY <1>1, <2>1
<1>4. 2 \in Nat /\ 1 \in 1..2
    OBVIOUS
<1> QED
    BY <1>1, <1>2, <1>3, <1>4 DEF MeasuresAreOf, IsSequence

LEMMA FirstNIsOf ==
    ASSUME NEW model, NEW e, NEW measures, MeasuresAreOf(model, e, measures),
           NEW n \in Nat, n # 0
    PROVE  MeasuresAreOf(model, e, FirstN(measures, n))
<1> DEFINE N == IF Len(measures) < n THEN Len(measures) ELSE n
<1>1. Len(measures) \in Nat /\ DOMAIN measures = 1..Len(measures) /\ 1 \in 1..Len(measures)
    BY DEF MeasuresAreOf, IsSequence
<1>2. N \in Nat /\ 1 \in 1..N /\ \A k \in 1..N : k \in 1..Len(measures)
    <2> DEFINE L == Len(measures)
    <2>1. L \in Nat /\ 1 \in 1..L
        BY <1>1
    <2> HIDE DEF L
    <2>2. CASE L < n
        BY <2>1, <2>2 DEF L
    <2>3. CASE ~(L < n)
        <3>1. N = n
            BY <2>3 DEF L
        <3>2. n <= L
            BY <2>1, <2>3
        <3> HIDE DEF N
        <3> QED
            BY <2>1, <3>1, <3>2 DEF L
    <2> QED
        BY <2>2, <2>3
<1>3. FirstN(measures, n) = [k \in 1..N |-> measures[k]]
    BY DEF FirstN
<1> HIDE DEF N
<1>4. IsSequence(FirstN(measures, n)) /\ DOMAIN FirstN(measures, n) = 1..N
    BY <1>2, <1>3 DEF IsSequence
<1>5. \A k \in 1..N : FirstN(measures, n)[k] = measures[k]
    BY <1>3
<1> QED
    BY <1>1, <1>2, <1>4, <1>5 DEF MeasuresAreOf

\* The tiles that are generated of a table are tiles of it, and there are some.
LEMMA TilesAreOf ==
    ASSUME NEW model, Sound(model), NEW i \in DOMAIN model.entities
    PROVE  /\ TilesFor(model, model.entities[i]) # {}
           /\ \A t \in TilesFor(model, model.entities[i]) : IsTile(model, model.entities[i], t)
<1> DEFINE e == model.entities[i]
           measures == RankedMeasures(model, e)
           time == TimeOf(e)
           dimensions == ChartableDimensions(model, e)
           ref(k) == Ref(model, dimensions[k])
           refs == {ref(k) : k \in DOMAIN dimensions}
           m == Lead(measures)
           cardinality(k) == AttributeAt(model, dimensions[k]).cardinality
           smallest == First({k \in DOMAIN dimensions :
                                 \A l \in DOMAIN dimensions : cardinality(k) <= cardinality(l)})
           combo == PairForCombo(measures)
           top == FirstN(measures, MaxStats)
           stat(k) == Tile(<<"stat", k>>, "stat", <<top[k]>>, <<>>, {}, time, DefaultLimit)
           trend == Tile(<<"trend", 1>>, "line", <<m>>, <<>>, {}, time, DefaultLimit)
           breakdown(k) == Tile(<<"breakdown", k>>, "bar", <<m>>, <<ref(k)>>, refs \ {ref(k)}, <<>>,
                                MaxChartCardinality)
           share == Tile(<<"share", 1>>, "donut", <<m>>, <<ref(smallest)>>, {}, <<>>, MaxDonutSlices)
           paired == Tile(<<"combo", 1>>, "combo", combo, <<>>, {}, time, DefaultLimit)
           detail == Tile(<<"detail", 1>>, "table", top, <<ref(1)>>, {}, time, 200)
           D == Dims(model, e)
<1>1. MeasuresAreOf(model, e, measures)
    BY MeasuresRanked DEF MeasuresAreOf
<1>2. IsSequence(dimensions) /\ \A k \in DOMAIN dimensions : dimensions[k] \in Plottable(model, e)
    BY DimensionsListed
<1>3. \A k \in DOMAIN dimensions : ref(k) \in D
    BY <1>2 DEF Dims
<1>4. <<>> \in Seq(Times(e)) /\ <<>> \in Seq(D) /\ {} \in SUBSET D
    OBVIOUS
<1>5. time \in Seq(Times(e))
    <2>1. CASE Timed(e) = {}
        BY <1>4, <2>1 DEF TimeOf
    <2>2. CASE Timed(e) # {}
        <3> DEFINE r == [entity |-> e.id, attribute |-> e.attributes[First(Timed(e))].name]
        <3>1. TimeOf(e) = <<r>>
            BY <2>2 DEF TimeOf
        <3> HIDE DEF r
        <3>2. r \in Times(e)
            BY <3>1 DEF Times
        <3> QED
            BY <3>1, <3>2
    <2> QED
        BY <2>1, <2>2
<1>6. IsMeasureAt(model, e, m)
    BY <1>1, LeadIsOf
<1>7. MeasuresAreOf(model, e, <<m>>) /\ Len(Ids(<<m>>)) = 1
    <2> HIDE DEF m, e
    <2> QED
        BY <1>6, SingleIsOf
<1>8. MeasuresAreOf(model, e, top)
    BY <1>1, FirstNIsOf, MaxStats \in Nat, MaxStats # 0 DEF MaxStats
<1> HIDE DEF top, m, measures, time, e, D, dimensions
<1>9. ASSUME NEW k \in DOMAIN top PROVE IsTile(model, e, stat(k))
    <2>1. MeasuresAreOf(model, e, <<top[k]>>) /\ Len(Ids(<<top[k]>>)) = 1
        BY <1>8, SingleIsOf DEF MeasuresAreOf
    <2>2. Len(stat(k).measures) = 1 /\ stat(k).type = "stat"
        BY <2>1 DEF Tile
    <2> HIDE DEF stat
    <2>3. Drawable(stat(k))
        BY <2>2 DEF Drawable, SingleMeasureTypes, PairedMeasureTypes
    <2> QED
        BY <1>4, <1>5, <2>1, <2>3, TileFits DEF stat, D
<1>10. ASSUME time # <<>> PROVE IsTile(model, e, trend)
    <2>1. Len(trend.measures) = 1 /\ trend.type = "line" /\ trend.time # <<>>
        BY <1>7, <1>10 DEF Tile
    <2> HIDE DEF trend
    <2>2. Drawable(trend)
        BY <2>1 DEF Drawable, SingleMeasureTypes, PairedMeasureTypes
    <2> QED
        BY <1>4, <1>5, <1>7, <2>2, TileFits DEF trend, D
<1>11. ASSUME NEW k \in DOMAIN dimensions PROVE IsTile(model, e, breakdown(k))
    <2>1. /\ Len(breakdown(k).measures) = 1 /\ breakdown(k).type = "bar"
          /\ breakdown(k).dimension = <<ref(k)>>
        BY <1>7 DEF Tile
    <2>2. ref(k) \in D /\ refs \ {ref(k)} \in SUBSET D
        BY <1>3
    <2> HIDE DEF breakdown, ref, refs
    <2>3. <<ref(k)>> \in Seq(D) /\ breakdown(k).dimension # <<>>
        BY <2>1, <2>2
    <2>4. Drawable(breakdown(k))
        BY <2>1, <2>3 DEF Drawable, SingleMeasureTypes, PairedMeasureTypes
    <2> QED
        BY <1>4, <1>7, <2>2, <2>3, <2>4, TileFits DEF breakdown, D
<1>12. ASSUME dimensions # <<>> PROVE 1 \in DOMAIN dimensions
    <2>1. Len(dimensions) \in Nat /\ dimensions = [k \in 1..Len(dimensions) |-> dimensions[k]]
        BY <1>2 DEF IsSequence
    <2>2. Len(dimensions) # 0
        BY <1>12, <2>1
    <2>3. 1 \in 1..Len(dimensions)
        BY <2>1, <2>2
    <2> QED
        BY <2>1, <2>3
<1>13. ASSUME dimensions # <<>> PROVE IsTile(model, e, share)
    <2> DEFINE s == [k \in DOMAIN dimensions |-> cardinality(k)]
    <2>1. IsSequence(s) /\ 1 \in DOMAIN s
        BY <1>2, <1>12, <1>13 DEF IsSequence
    <2>2. \A k \in DOMAIN s : s[k] \in Nat
        BY <1>2 DEF Plottable, MaxChartCardinality
    <2>3. smallest = First({k \in DOMAIN s : \A l \in DOMAIN s : s[k] <= s[l]})
        <3>1. {k \in DOMAIN s : \A l \in DOMAIN s : s[k] <= s[l]}
                = {k \in DOMAIN dimensions : \A l \in DOMAIN dimensions : cardinality(k) <= cardinality(l)}
            <4> HIDE DEF cardinality
            <4> QED
                OBVIOUS
        <3> QED
            BY <3>1
    <2>4. smallest \in DOMAIN s /\ DOMAIN s = DOMAIN dimensions
        <3>1. DOMAIN s = DOMAIN dimensions
            OBVIOUS
        <3> HIDE DEF s, smallest
        <3> QED
            BY <2>1, <2>2, <2>3, <3>1, SmallestPlace
    <2> HIDE DEF s, smallest
    <2>5. ref(smallest) \in D
        BY <1>3, <2>4
    <2>6. /\ Len(share.measures) = 1 /\ share.type = "donut" /\ share.dimension = <<ref(smallest)>>
          /\ share.foldTail
        BY <1>7 DEF Tile
    <2> HIDE DEF share, ref
    <2>7. <<ref(smallest)>> \in Seq(D) /\ share.dimension # <<>>
        BY <2>5, <2>6
    <2>8. Drawable(share)
        BY <2>6, <2>7 DEF Drawable, SingleMeasureTypes, PairedMeasureTypes
    <2> QED
        BY <1>4, <1>7, <2>7, <2>8, TileFits DEF share, D
<1>14. ASSUME combo # <<>> PROVE IsTile(model, e, paired)
    <2>1. PICK k, l \in DOMAIN measures : combo = <<measures[k], measures[l]>>
        BY <1>1, <1>14, ComboIsOf
    <2>2. IsMeasureAt(model, e, measures[k]) /\ IsMeasureAt(model, e, measures[l])
        BY <1>1 DEF MeasuresAreOf
    <2> HIDE DEF combo
    <2>3. MeasuresAreOf(model, e, combo) /\ Len(Ids(combo)) = 2
        BY <2>1, <2>2, PairIsOf
    <2>4. paired.measures = Ids(combo) /\ paired.type = "combo" /\ paired.secondary = {combo[2].id}
        BY DEF Tile
    <2>5. paired.secondary # {}
        BY <2>4
    <2> HIDE DEF paired
    <2>6. Drawable(paired)
        BY <2>3, <2>4, <2>5 DEF Drawable, SingleMeasureTypes, PairedMeasureTypes
    <2> QED
        BY <1>4, <1>5, <2>3, <2>6, TileFits DEF paired, D
<1>15. ASSUME dimensions # <<>> PROVE IsTile(model, e, detail)
    <2>1. detail.type = "table"
        BY DEF Tile
    <2>2. ref(1) \in D
        BY <1>3, <1>12, <1>15
    <2> HIDE DEF detail, ref
    <2>3. <<ref(1)>> \in Seq(D)
        BY <2>2
    <2>4. Drawable(detail)
        BY <2>1 DEF Drawable, SingleMeasureTypes, PairedMeasureTypes
    <2> QED
        BY <1>4, <1>5, <1>8, <2>3, <2>4, TileFits DEF detail, D
<1>16. \A k \in DOMAIN FirstN(dimensions, MaxBreakdowns) : k \in DOMAIN dimensions
    <2>1. Len(dimensions) \in Nat /\ DOMAIN dimensions = 1..Len(dimensions)
        BY <1>2 DEF IsSequence
    <2> DEFINE L == Len(dimensions)
    <2>2. DOMAIN FirstN(dimensions, MaxBreakdowns) = 1..(IF L < 3 THEN L ELSE 3)
        BY DEF FirstN, MaxBreakdowns
    <2> HIDE DEF L
    <2>3. \A k \in 1..(IF L < 3 THEN L ELSE 3) : k \in 1..L
        BY <2>1 DEF L
    <2> QED
        BY <2>1, <2>2, <2>3 DEF L
<1>17. TilesFor(model, e) =
          {stat(k) : k \in DOMAIN top}
          \cup (IF time = <<>> THEN {} ELSE {trend})
          \cup {breakdown(k) : k \in DOMAIN FirstN(dimensions, MaxBreakdowns)}
          \cup (IF dimensions = <<>> \/ cardinality(smallest) > MaxDonutSlices THEN {} ELSE {share})
          \cup (IF time = <<>> \/ combo = <<>> THEN {} ELSE {paired})
          \cup (IF dimensions = <<>> THEN {} ELSE {detail})
    BY DEF TilesFor, top, m, measures, time, dimensions
<1>18. 1 \in DOMAIN top
    BY <1>8 DEF MeasuresAreOf
<1> HIDE DEF stat, trend, breakdown, share, paired, detail, combo, cardinality, smallest
<1>19. TilesFor(model, e) # {}
    BY <1>17, <1>18
<1>20. ASSUME NEW t \in TilesFor(model, e) PROVE IsTile(model, e, t)
    BY <1>9, <1>10, <1>11, <1>13, <1>14, <1>15, <1>16, <1>17
<1> QED
    BY <1>19, <1>20 DEF e

-----------------------------------------------------------------------------
(* The questions of the tiles.                                               *)

PicksAre(model, e, filters) ==
    IsSequence(filters) /\ \A k \in DOMAIN filters : IsPick(model, e, filters[k])

LEMMA MentionedAreOf ==
    ASSUME NEW model, NEW e, NEW q, q.time \in Seq(Times(e)), q.dimensions \in Seq(Dims(model, e)),
           PicksAre(model, e, q.filters)
    PROVE  Mentioned(q) \subseteq Dims(model, e) \cup Times(e)
<1> DEFINE S == Dims(model, e) \cup Times(e)
<1>1. q.time \in Seq(S) /\ q.dimensions \in Seq(S)
    <2> HIDE DEF Dims, Times
    <2> QED
        OBVIOUS
<1>2. Fields(q) \in Seq(S)
    <2> HIDE DEF S
    <2> QED
        BY <1>1 DEF Fields
<1>3. \A k \in DOMAIN Fields(q) : Fields(q)[k] \in S
    <2> HIDE DEF S
    <2> QED
        BY <1>2
<1>4. \A k \in DOMAIN q.filters : q.filters[k].field \in S
    BY DEF PicksAre, IsPick
<1> QED
    BY <1>3, <1>4 DEF Mentioned

\* What a tile asks is asked of its table.
LEMMA QueriesAsk ==
    ASSUME NEW model, NEW e, NEW t, IsTile(model, e, t), NEW filters, PicksAre(model, e, filters),
           NEW q \in QueriesOf(model, t, filters)
    PROVE  Asks(model, e, q)
<1>1. /\ t.measures # <<>> /\ 1 \in DOMAIN t.measures
      /\ \A i \in DOMAIN t.measures :
            \E k \in MeasuresOf(model, e) : t.measures[i] = model.measures[k].id
      /\ t.dimension \in Seq(Dims(model, e)) /\ t.time \in Seq(Times(e))
    BY DEF IsTile
<1>2. <<>> \in Seq(Dims(model, e)) /\ <<>> \in Seq(Times(e))
    OBVIOUS
<1> DEFINE id == t.measures[1]
           name == model.measures[First(MeasuresAt(model, id))].name
           over == [measures |-> <<id>>, dimensions |-> <<>>, time |-> <<>>, grain |-> "",
                    filters |-> filters, order |-> <<>>, limit |-> 1]
           series == [measures |-> <<id>>, dimensions |-> <<>>, time |-> t.time, grain |-> "month",
                      filters |-> filters, order |-> <<name>>, limit |-> MaxPeriods]
           grouped == GroupedQuery(t, filters)
<1>3. Asks(model, e, over)
    <2>1. /\ over.measures = <<id>> /\ over.dimensions = <<>> /\ over.time = <<>>
          /\ over.filters = filters /\ over.order = <<>>
        OBVIOUS
    <2> HIDE DEF over, id
    <2>2. Mentioned(over) \subseteq Dims(model, e) \cup Times(e)
        BY <1>2, <2>1, MentionedAreOf
    <2>3. /\ over.measures # <<>> /\ 1 \in DOMAIN over.measures
          /\ \A i \in DOMAIN over.measures :
                \E k \in MeasuresOf(model, e) : over.measures[i] = model.measures[k].id
        BY <1>1, <2>1 DEF id
    <2> QED
        BY <2>1, <2>2, <2>3 DEF Asks, PicksAre
<1>4. Asks(model, e, series)
    <2>1. /\ series.measures = <<id>> /\ series.dimensions = <<>> /\ series.time = t.time
          /\ series.filters = filters /\ series.order = <<name>>
        OBVIOUS
    <2> HIDE DEF series, id
    <2>2. Mentioned(series) \subseteq Dims(model, e) \cup Times(e)
        BY <1>1, <1>2, <2>1, MentionedAreOf
    <2>3. /\ series.measures # <<>> /\ 1 \in DOMAIN series.measures
          /\ \A i \in DOMAIN series.measures :
                \E k \in MeasuresOf(model, e) : series.measures[i] = model.measures[k].id
        BY <1>1, <2>1 DEF id
    <2>4. MeasuresIn(model, series)[1].name = name
        BY <2>1 DEF MeasuresIn
    <2> HIDE DEF name
    <2>5. \A i \in DOMAIN series.order : series.order[i] = name
        BY <2>1
    <2> QED
        BY <2>1, <2>2, <2>3, <2>4, <2>5 DEF Asks, PicksAre
<1>5. Asks(model, e, grouped)
    <2> DEFINE time == IF t.type \in Timeline \cup {"table"} THEN t.time ELSE <<>>
    <2>1. /\ grouped.measures = t.measures /\ grouped.dimensions = t.dimension /\ grouped.time = time
          /\ grouped.filters = filters /\ grouped.order = <<>>
        BY DEF GroupedQuery
    <2>2. time \in Seq(Times(e))
        BY <1>1, <1>2
    <2> HIDE DEF grouped, time
    <2>3. Mentioned(grouped) \subseteq Dims(model, e) \cup Times(e)
        BY <1>1, <2>1, <2>2, MentionedAreOf
    <2> QED
        BY <1>1, <2>1, <2>3 DEF Asks, PicksAre
<1>6. q \in {over, series, grouped}
    BY DEF QueriesOf, StatQueries
<1> HIDE DEF over, series, grouped
<1> QED
    BY <1>3, <1>4, <1>5, <1>6

-----------------------------------------------------------------------------
(* The page.                                                                 *)

\* A dashboard shows tiles of the table it is built around, and the page is
\* filtered by columns the tiles may be of.
BoardIsOf(b, filters) ==
    /\ DOMAIN b = {"model", "tiles", "generated"}
    /\ Sound(b.model)
    /\ b.tiles = {} <=> Facts(b.model) = {}
    /\ \A t \in b.tiles : IsTile(b.model, PrimaryFact(b.model), t)
    /\ PicksAre(b.model, PrimaryFact(b.model), filters)

BoardInv ==
    IF board = <<>> THEN picked = <<>> ELSE board = <<board[1]>> /\ BoardIsOf(board[1], picked)

LEMMA GeneratedIsOf ==
    ASSUME NEW w, IsWorkspace(w)
    PROVE  LET model == BuildModel(w.datasets, w.relationships)
           IN  BoardIsOf([model |-> model, tiles |-> GenerateDashboard(model), generated |-> TRUE], <<>>)
<1> DEFINE model == BuildModel(w.datasets, w.relationships)
           b == [model |-> model, tiles |-> GenerateDashboard(model), generated |-> TRUE]
<1>1. Sound(model)
    BY BuildSound
<1>2. DOMAIN b = {"model", "tiles", "generated"}
    OBVIOUS
<1>3. b.model = model /\ b.tiles = GenerateDashboard(model)
    OBVIOUS
<1> HIDE DEF model, b
<1>4. PicksAre(model, PrimaryFact(model), <<>>)
    BY DEF PicksAre, IsSequence
<1>5. CASE Facts(model) = {}
    <2>1. GenerateDashboard(model) = {}
        BY <1>5 DEF GenerateDashboard
    <2> QED
        BY <1>1, <1>2, <1>3, <1>4, <1>5, <2>1 DEF BoardIsOf, b, model
<1>6. CASE Facts(model) # {}
    <2>1. PICK i \in DOMAIN model.entities : PrimaryFact(model) = model.entities[i]
        BY <1>1, <1>6, PrimaryIsFact
    <2>2. GenerateDashboard(model) = TilesFor(model, model.entities[i])
        BY <1>6, <2>1 DEF GenerateDashboard
    <2>3. /\ GenerateDashboard(model) # {}
          /\ \A t \in GenerateDashboard(model) : IsTile(model, PrimaryFact(model), t)
        BY <1>1, <2>1, <2>2, TilesAreOf
    <2> QED
        BY <1>1, <1>2, <1>3, <1>4, <1>6, <2>3 DEF BoardIsOf, b, model
<1> QED
    BY <1>5, <1>6

LEMMA DrilledIsOf ==
    ASSUME NEW b, NEW filters, BoardIsOf(b, filters), NEW t \in b.tiles,
           NEW d \in t.path \cup DimensionsOf(t),
           NEW drilled, drilled = [t EXCEPT !.dimension = <<d>>,
                                            !.path = (@ \ {d}) \cup DimensionsOf(t)]
    PROVE  BoardIsOf(SaveDashboard(b, (b.tiles \ {t}) \cup {drilled}), filters)
<1> DEFINE tiles == (b.tiles \ {t}) \cup {drilled}
           model == b.model
           e == PrimaryFact(model)
           saved == [b EXCEPT !.tiles = tiles, !.generated = FALSE]
<1>1. CASE ~\A x \in tiles : Drawable(x)
    BY <1>1 DEF SaveDashboard
<1>2. CASE \A x \in tiles : Drawable(x)
    <2>1. IsTile(model, e, t)
        BY DEF BoardIsOf
    <2> HIDE DEF e
    <2>2. /\ t = [id |-> t.id, type |-> t.type, measures |-> t.measures, secondary |-> t.secondary,
                  dimension |-> t.dimension, path |-> t.path, time |-> t.time, limit |-> t.limit,
                  foldTail |-> t.foldTail]
          /\ t.dimension \in Seq(Dims(model, e)) /\ t.path \in SUBSET Dims(model, e)
        BY <2>1 DEF IsTile
    <2>3. DimensionsOf(t) \subseteq Dims(model, e)
        BY <2>2 DEF DimensionsOf
    <2>4. drilled = [id |-> t.id, type |-> t.type, measures |-> t.measures, secondary |-> t.secondary,
                     dimension |-> <<d>>, path |-> (t.path \ {d}) \cup DimensionsOf(t), time |-> t.time,
                     limit |-> t.limit, foldTail |-> t.foldTail]
        BY <2>2
    <2>5. <<d>> \in Seq(Dims(model, e)) /\ (t.path \ {d}) \cup DimensionsOf(t) \in SUBSET Dims(model, e)
        BY <2>2, <2>3
    <2>6. /\ drilled.measures = t.measures /\ drilled.time = t.time /\ drilled.dimension = <<d>>
          /\ drilled.path = (t.path \ {d}) \cup DimensionsOf(t)
          /\ drilled = [id |-> drilled.id, type |-> drilled.type, measures |-> drilled.measures,
                        secondary |-> drilled.secondary, dimension |-> drilled.dimension,
                        path |-> drilled.path, time |-> drilled.time, limit |-> drilled.limit,
                        foldTail |-> drilled.foldTail]
        BY <2>4
    <2>7. IsTile(model, e, drilled)
        BY <1>2, <2>1, <2>5, <2>6 DEF IsTile
    <2>8. DOMAIN b = {"model", "tiles", "generated"}
        BY DEF BoardIsOf
    <2>9. saved.model = model /\ saved.tiles = tiles /\ DOMAIN saved = {"model", "tiles", "generated"}
        <3> HIDE DEF tiles
        <3> QED
            BY <2>8
    <2>10. SaveDashboard(b, tiles) = saved
        BY <1>2 DEF SaveDashboard
    <2>11. tiles # {} /\ b.tiles # {} /\ \A x \in tiles : IsTile(model, e, x)
        BY <2>7 DEF BoardIsOf, e
    <2> HIDE DEF saved, tiles
    <2> QED
        BY <2>9, <2>10, <2>11 DEF BoardIsOf, e, tiles
<1> QED
    BY <1>1, <1>2

LEMMA FilteredIsOf ==
    ASSUME NEW b, NEW filters, BoardIsOf(b, filters), NEW t \in b.tiles,
           NEW field \in DimensionsOf(t), NEW value, NEW places \in SUBSET DOMAIN filters
    PROVE  LET others == Picked(filters, places)
               filter == [field |-> field, op |-> "eq", values |-> <<value>>]
           IN  BoardIsOf(b, others) /\ BoardIsOf(b, Append(others, filter))
<1> DEFINE others == Picked(filters, places)
           filter == [field |-> field, op |-> "eq", values |-> <<value>>]
           model == b.model
           e == PrimaryFact(model)
<1>1. IsTile(model, e, t) /\ PicksAre(model, e, filters)
    BY DEF BoardIsOf
<1> HIDE DEF e
<1>2. IsSequence(others) /\ \A k \in DOMAIN others : \E i \in places : others[k] = filters[i]
    BY <1>1, PickedMembers DEF PicksAre
<1> HIDE DEF others
<1>3. PicksAre(model, e, others)
    BY <1>1, <1>2 DEF PicksAre
<1>4. IsPick(model, e, filter)
    <2>1. field \in Dims(model, e)
        BY <1>1 DEF IsTile, DimensionsOf
    <2> QED
        BY <2>1 DEF IsPick
<1> HIDE DEF filter
<1>5. PicksAre(model, e, Append(others, filter))
    <2> DEFINE longer == Append(others, filter)
               n == Len(others)
    <2>1. n \in Nat /\ DOMAIN others = 1..n /\ others = [k \in 1..n |-> others[k]]
        BY <1>2 DEF IsSequence
    <2> DEFINE S == {others[k] : k \in 1..n} \cup {filter}
    <2>2. /\ longer \in Seq(S) /\ Len(longer) = n + 1
          /\ \A k \in 1..(n + 1) : longer[k] = IF k = n + 1 THEN filter ELSE others[k]
        <3>1. others \in Seq(S) /\ filter \in S
            BY <2>1
        <3> HIDE DEF S
        <3> QED
            BY <2>1, <3>1
    <2> HIDE DEF longer, n, S
    <2>3. IsSequence(longer) /\ DOMAIN longer = 1..(n + 1)
        BY <2>1, <2>2 DEF IsSequence
    <2>4. \A k \in 1..(n + 1) : k = n + 1 \/ k \in 1..n
        BY <2>1
    <2>5. \A k \in DOMAIN longer : longer[k] = filter \/ (k \in DOMAIN others /\ longer[k] = others[k])
        BY <2>1, <2>2, <2>3, <2>4
    <2>6. PicksAre(model, e, longer)
        BY <1>3, <1>4, <2>3, <2>5 DEF PicksAre
    <2> QED
        BY <2>6 DEF longer
<1>6. BoardIsOf(b, others) /\ BoardIsOf(b, Append(others, filter))
    BY <1>3, <1>5 DEF BoardIsOf, e
<1> QED
    BY <1>6 DEF others, filter

LEMMA BoardStarts == BoardInit => BoardInv
    BY DEF BoardInit, BoardInv

LEMMA BoardSteps ==
    ASSUME BoardInv, BoardNext
    PROVE  BoardInv'
<1>1. ASSUME NEW w \in Workspaces, GenerateBoard(w) PROVE BoardInv'
    <2> DEFINE model == BuildModel(w.datasets, w.relationships)
               b == [model |-> model, tiles |-> GenerateDashboard(model), generated |-> TRUE]
    <2>1. BoardIsOf(b, <<>>)
        BY WorkspacesAssumption, GeneratedIsOf
    <2>2. picked = <<>> /\ board' = <<b>> /\ picked' = picked
        BY <1>1 DEF GenerateBoard, BoardInv
    <2> HIDE DEF b
    <2>3. board' # <<>> /\ board'[1] = b /\ picked' = <<>>
        BY <2>2
    <2> QED
        BY <2>1, <2>2, <2>3 DEF BoardInv
<1>2. ASSUME NEW k \in DOMAIN board, NEW tile \in board[k].tiles
      PROVE  board # <<>> /\ tile \in board[1].tiles /\ BoardIsOf(board[1], picked)
    <2>1. board # <<>>
        OBVIOUS
    <2>2. board = <<board[1]>> /\ BoardIsOf(board[1], picked)
        BY <2>1 DEF BoardInv
    <2>3. k = 1
        BY <2>2
    <2> QED
        BY <2>1, <2>2, <2>3
<1>3. ASSUME NEW k \in DOMAIN board, NEW tile \in board[k].tiles,
             NEW dimension \in tile.path \cup DimensionsOf(tile), Drill(tile, dimension)
      PROVE  BoardInv'
    <2> DEFINE drilled == [tile EXCEPT !.dimension = <<dimension>>,
                                       !.path = (@ \ {dimension}) \cup DimensionsOf(tile)]
               saved == SaveDashboard(board[1], (board[1].tiles \ {tile}) \cup {drilled})
    <2>1. tile \in board[1].tiles /\ BoardIsOf(board[1], picked)
        BY <1>2
    <2>2. BoardIsOf(saved, picked)
        BY <2>1, DrilledIsOf
    <2>3. board' = <<saved>> /\ picked' = picked
        BY <1>3 DEF Drill
    <2> HIDE DEF saved
    <2>4. board' # <<>> /\ board'[1] = saved
        BY <2>3
    <2> QED
        BY <2>2, <2>3, <2>4 DEF BoardInv
<1>4. ASSUME NEW k \in DOMAIN board, NEW tile \in board[k].tiles,
             NEW field \in DimensionsOf(tile), NEW value \in ClickedValues, CrossFilter(tile, field, value)
      PROVE  BoardInv'
    <2> DEFINE places == {i \in DOMAIN picked : picked[i].field # field}
               others == Picked(picked, places)
               filter == [field |-> field, op |-> "eq", values |-> <<value>>]
    <2>1. board # <<>> /\ tile \in board[1].tiles /\ BoardIsOf(board[1], picked)
        BY <1>2
    <2>2. places \in SUBSET DOMAIN picked
        OBVIOUS
    <2>3. board' = board /\ picked' \in {others, Append(others, filter)}
        BY <1>4 DEF CrossFilter
    <2> HIDE DEF places
    <2>4. BoardIsOf(board[1], others) /\ BoardIsOf(board[1], Append(others, filter))
        BY <2>1, <2>2, FilteredIsOf
    <2> HIDE DEF others, filter
    <2>5. BoardIsOf(board[1], picked')
        BY <2>3, <2>4
    <2> QED
        BY <2>1, <2>3, <2>5 DEF BoardInv
<1> QED
    BY <1>1, <1>3, <1>4 DEF BoardNext

LEMMA BoardCompiles == BoardInv => GeneratedTilesCompile
<1> SUFFICES ASSUME BoardInv, board # <<>>
             PROVE  LET model == board[1].model
                    IN  /\ Facts(model) # {} => board[1].tiles # {}
                        /\ \A tile \in board[1].tiles :
                              /\ Drawable(tile)
                              /\ \A q \in QueriesOf(model, tile, picked) : Compile(model, q, FALSE) # <<>>
    BY DEF GeneratedTilesCompile
<1> DEFINE b == board[1]
           model == b.model
           e == PrimaryFact(model)
<1>1. BoardIsOf(b, picked)
    BY DEF BoardInv
<1> HIDE DEF b
<1>2. Sound(model) /\ (b.tiles = {} <=> Facts(model) = {}) /\ PicksAre(model, e, picked)
    BY <1>1 DEF BoardIsOf
<1>3. ASSUME NEW tile \in b.tiles
      PROVE  Drawable(tile) /\ \A q \in QueriesOf(model, tile, picked) : Compile(model, q, FALSE) # <<>>
    <2>1. IsTile(model, e, tile)
        BY <1>1 DEF BoardIsOf
    <2>2. PICK i \in DOMAIN model.entities : e = model.entities[i]
        BY <1>2, PrimaryIsFact
    <2> HIDE DEF e
    <2>3. \A q \in QueriesOf(model, tile, picked) : Compile(model, q, FALSE) # <<>>
        BY <1>2, <2>1, <2>2, QueriesAsk, AsksCompile
    <2> QED
        BY <2>1, <2>3 DEF IsTile
<1> QED
    BY <1>2, <1>3 DEF b

\* However the tiles of a generated dashboard are drilled and its page is
\* filtered, each can be drawn and each of its questions compiles.
THEOREM GeneratedTilesAnswer == BoardSpec => []GeneratedTilesCompile
<1>1. BoardInv /\ UNCHANGED boardVars => BoardInv'
    BY DEF BoardInv, boardVars
<1>2. BoardInv /\ [BoardNext]_boardVars => BoardInv'
    BY <1>1, BoardSteps
<1> QED
    BY BoardStarts, <1>2, BoardCompiles, PTL DEF BoardSpec

-----------------------------------------------------------------------------
(* What is picked once is picked of one place.                               *)

LEMMA ListedOnce ==
    ASSUME NEW T, IsFiniteSet(T), NEW d \in Nat, T \subseteq [1..d -> Int],
           NEW k \in DOMAIN Listed(T), NEW l \in DOMAIN Listed(T), Listed(T)[k] = Listed(T)[l]
    PROVE  k = l
<1> DEFINE N == Cardinality(T)
           L == Listed(T)
<1>1. /\ N \in Nat /\ DOMAIN L = 1..N
      /\ \A n \in DOMAIN L : L[n] \in T
      /\ \A x \in T : \E n \in DOMAIN L : L[n] = x
    BY ListedKeys
<1>2. L = [n \in 1..N |-> L[n]]
    <2> DEFINE e(n) == CHOOSE x \in T : Cardinality({y \in T : Precedes(y, x)}) = n - 1
    <2>1. L = [n \in 1..N |-> e(n)]
        BY DEF Listed
    <2> HIDE DEF e, L, N
    <2> QED
        BY <2>1
<1>3. k \in 1..N /\ l \in 1..N /\ L[k] = L[l]
    BY <1>1
<1> HIDE DEF L, N
<1>4. L \in Surjection(1..N, T)
    BY <1>1, <1>2 DEF Surjection
<1>5. IsFiniteSet(1..N) /\ Cardinality(1..N) = N
    <2>1. N \in Nat
        BY <1>1
    <2>2. 1 \in Int /\ N \in Int
        BY <2>1
    <2>3. IsFiniteSet(1..N) /\ Cardinality(1..N) = IF 1 > N THEN 0 ELSE N - 1 + 1
        BY <2>2, FS_Interval
    <2> QED
        BY <2>1, <2>3
<1>6. L \in Injection(1..N, T)
    BY <1>4, <1>5, FS_Surjection DEF N
<1> QED
    BY <1>3, <1>6 DEF Injection, IsInjective

\* A place of what is picked is a place of what it is picked of.
LEMMA PickedPlaces ==
    ASSUME NEW s, IsSequence(s), NEW places \in SUBSET DOMAIN s
    PROVE  \E at \in [DOMAIN Picked(s, places) -> places] :
              /\ \A k \in DOMAIN Picked(s, places) : Picked(s, places)[k] = s[at[k]]
              /\ \A k, l \in DOMAIN Picked(s, places) : at[k] = at[l] => k = l
<1> DEFINE T == {<<i>> : i \in places}
           f == [i \in places |-> <<i>>]
           order == Listed(T)
           at == [k \in DOMAIN order |-> order[k][1]]
<1>1. IsFiniteSet(places) /\ places \subseteq Nat
    BY SequencePlaces, FS_Subset
<1>2. IsFiniteSet(T)
    <2>1. T = {f[i] : i \in DOMAIN f} /\ DOMAIN f = places /\ f = [i \in DOMAIN f |-> f[i]]
        OBVIOUS
    <2> HIDE DEF T, f
    <2> QED
        BY <1>1, <2>1, ImageFinite
<1>3. T \subseteq [1..1 -> Int]
    BY <1>1
<1>4. /\ \A k \in DOMAIN order : order[k] \in T
      /\ \A k, l \in DOMAIN order : order[k] = order[l] => k = l
    <2> HIDE DEF T
    <2> QED
        BY <1>2, <1>3, ListedKeys, ListedOnce, 1 \in Nat
<1>5. \A x \in T : x[1] \in places /\ x = <<x[1]>>
    OBVIOUS
<1>6. Picked(s, places) = [k \in DOMAIN order |-> s[order[k][1]]]
    BY DEF Picked
<1> HIDE DEF T, order
<1>7. at \in [DOMAIN Picked(s, places) -> places]
    BY <1>4, <1>5, <1>6
<1>8. \A k \in DOMAIN Picked(s, places) : Picked(s, places)[k] = s[at[k]]
    BY <1>6
<1>9. \A k, l \in DOMAIN Picked(s, places) : at[k] = at[l] => k = l
    BY <1>4, <1>5, <1>6
<1> QED
    BY <1>7, <1>8, <1>9

\* A sequence by its members.
LEMMA SequenceIn ==
    ASSUME NEW s, NEW S, IsSequence(s), \A i \in DOMAIN s : s[i] \in S
    PROVE  s \in Seq(S)
BY DEF IsSequence

LEMMA InSequence ==
    ASSUME NEW S, NEW s \in Seq(S)
    PROVE  IsSequence(s) /\ \A i \in DOMAIN s : s[i] \in S
BY DEF IsSequence

LEMMA JoinedSequences ==
    ASSUME NEW s, NEW t, IsSequence(s), IsSequence(t)
    PROVE  /\ IsSequence(s \o t)
           /\ \A k \in DOMAIN (s \o t) : \/ \E i \in DOMAIN s : (s \o t)[k] = s[i]
                                         \/ \E i \in DOMAIN t : (s \o t)[k] = t[i]
<1> DEFINE S == {s[i] : i \in DOMAIN s} \cup {t[i] : i \in DOMAIN t}
<1>1. s \in Seq(S) /\ t \in Seq(S)
    BY SequenceIn
<1>2. s \o t \in Seq(S)
    BY <1>1
<1> HIDE DEF S
<1>3. IsSequence(s \o t) /\ \A k \in DOMAIN (s \o t) : (s \o t)[k] \in S
    BY <1>2, InSequence
<1> QED
    BY <1>3 DEF S

\* The first rows of a table are its rows, where it has no more.
LEMMA SampleRows ==
    ASSUME NEW table, IsSequence(table.rows), NEW limit \in Nat
    PROVE  /\ IsSequence(Sample(table, limit))
           /\ Len(table.rows) <= limit => Sample(table, limit) = table.rows
<1> DEFINE rows == table.rows
           S == {rows[i] : i \in DOMAIN rows}
           n == IF limit < Len(rows) THEN limit ELSE Len(rows)
<1>1. rows \in Seq(S) /\ n \in Nat /\ n <= Len(rows)
    BY SequenceIn DEF IsSequence
<1>2. Sample(table, limit) = SubSeq(rows, 1, n)
    BY DEF Sample
<1>3. Len(rows) <= limit => n = Len(rows)
    BY DEF IsSequence
<1>4. rows = [i \in 1..Len(rows) |-> rows[i]]
    BY DEF IsSequence
<1> HIDE DEF S, rows, n
<1>5. SubSeq(rows, 1, n) = [i \in 1..n |-> rows[i]]
    BY <1>1
<1>6. IsSequence([i \in 1..n |-> rows[i]])
    BY <1>1 DEF IsSequence
<1> QED
    BY <1>2, <1>3, <1>4, <1>5, <1>6 DEF rows

-----------------------------------------------------------------------------
(* What a profile says of a table.                                           *)

\* A profile has the columns of its table; one it calls unique has a value in
\* every row of what was seen, and no two alike.
LEMMA ProfileColumns ==
    ASSUME NEW table, IsSequence(table.columns), NamesDiffer(table.columns), NEW limit
    PROVE  LET p == ProfileDataset(table, limit)
           IN  /\ IsSequence(p.columns) /\ NamesDiffer(p.columns)
               /\ DOMAIN p.columns = DOMAIN table.columns
               /\ \A k \in DOMAIN p.columns :
                     /\ p.columns[k].name = table.columns[k].name
                     /\ p.columns[k].unique =>
                           /\ Sample(table, limit) # <<>>
                           /\ ProfileColumn(table, table.columns[k], limit).unique
<1> DEFINE p == ProfileDataset(table, limit)
           columns == [i \in DOMAIN table.columns |-> ProfileColumn(table, table.columns[i], limit)]
           none == [i \in DOMAIN columns |-> [columns[i] EXCEPT !.unique = FALSE, !.distinct = 0]]
           rows == Sample(table, limit)
<1>1. p.columns = IF rows = <<>> THEN none ELSE columns
    BY DEF ProfileDataset
<1>2. \A c : /\ ProfileColumn(table, c, limit).name = c.name
             /\ DOMAIN ProfileColumn(table, c, limit)
                    = {"name", "logical", "shadow", "pii", "position", "nulls", "distinct", "domain", "unique"}
    BY DEF ProfileColumn
<1>3. DOMAIN table.columns = 1..Len(table.columns) /\ Len(table.columns) \in Nat
    BY DEF IsSequence
<1>4. \A i \in DOMAIN columns : none[i].name = columns[i].name /\ none[i].unique = FALSE
    BY <1>2
<1>5. \A i \in DOMAIN columns : columns[i].name = table.columns[i].name
    BY <1>2
<1>6. IsSequence(columns) /\ IsSequence(none) /\ DOMAIN columns = DOMAIN table.columns
      /\ DOMAIN none = DOMAIN columns
    <2> DEFINE made(i) == ProfileColumn(table, table.columns[i], limit)
               without(i) == [columns[i] EXCEPT !.unique = FALSE, !.distinct = 0]
    <2>1. columns = [i \in 1..Len(table.columns) |-> made(i)]
        BY <1>3
    <2>2. none = [i \in DOMAIN columns |-> without(i)]
        OBVIOUS
    <2> HIDE DEF made, without, columns, none
    <2>3. IsSequence(columns) /\ DOMAIN columns = 1..Len(table.columns)
        BY <1>3, <2>1 DEF IsSequence
    <2>4. IsSequence(none) /\ DOMAIN none = DOMAIN columns
        BY <1>3, <2>2, <2>3 DEF IsSequence
    <2> QED
        BY <1>3, <2>3, <2>4
<1>7. \A i \in DOMAIN columns :
          columns[i].unique => ProfileColumn(table, table.columns[i], limit).unique
    OBVIOUS
<1> HIDE DEF p, columns, none, rows
<1>8. CASE rows = <<>>
    BY <1>1, <1>4, <1>5, <1>6, <1>8 DEF NamesDiffer, p
<1>9. CASE rows # <<>>
    BY <1>1, <1>5, <1>6, <1>7, <1>9 DEF NamesDiffer, p, rows
<1> QED
    BY <1>8, <1>9

\* As many values as rows: none is repeated.
LEMMA AllDistinct ==
    ASSUME NEW values, IsSequence(values), Cardinality(Distinct(values)) = Len(values),
           Cardinality({i \in DOMAIN values : values[i] = Null}) = 0
    PROVE  \A m, n \in DOMAIN values : values[m] = values[n] => m = n
<1> DEFINE D == DOMAIN values
           nulls == {i \in D : values[i] = Null}
           image == {values[i] : i \in D}
<1>1. IsFiniteSet(D) /\ D = 1..Len(values) /\ Len(values) \in Nat /\ values = [i \in D |-> values[i]]
    <2>1. D = 1..Len(values) /\ Len(values) \in Nat
        BY DEF IsSequence
    <2>2. values = [i \in 1..Len(values) |-> values[i]]
        BY DEF IsSequence
    <2>3. IsFiniteSet(D)
        BY SequencePlaces
    <2> HIDE DEF D
    <2> QED
        BY <2>1, <2>2, <2>3
<1>2. Cardinality(D) = Len(values)
    <2>1. Cardinality(1..Len(values)) = Len(values)
        <3> DEFINE n == Len(values)
        <3>1. n \in Nat
            BY <1>1
        <3> HIDE DEF n
        <3>2. 1 \in Int /\ n \in Int
            BY <3>1
        <3>3. Cardinality(1..n) = IF 1 > n THEN 0 ELSE n - 1 + 1
            BY <3>2, FS_Interval
        <3>4. Cardinality(1..n) = n
            BY <3>1, <3>3
        <3> QED
            BY <3>4 DEF n
    <2> HIDE DEF D
    <2> QED
        BY <1>1, <2>1
<1>3. nulls = {}
    <2>1. nulls \in SUBSET D /\ Cardinality(nulls) = 0
        OBVIOUS
    <2> HIDE DEF nulls, D
    <2> QED
        BY <1>1, <2>1, FS_Subset, FS_EmptySet
<1>4. Distinct(values) = image
    BY <1>3 DEF Distinct
<1>5. values \in Surjection(D, image)
    <2> HIDE DEF D
    <2> QED
        BY <1>1 DEF Surjection
<1>6. Cardinality(D) = Cardinality(image)
    BY <1>2, <1>4
<1> HIDE DEF D, image
<1>7. values \in Injection(D, image)
    BY <1>1, <1>5, <1>6, FS_Surjection
<1> QED
    BY <1>7 DEF Injection, IsInjective, D

\* What a profile of every row calls unique is a key.
LEMMA UniqueIsKeyed ==
    ASSUME NEW table, IsSequence(table.rows), NEW c, SeenWhole(table),
           ProfileColumn(table, c, SampleSize).unique
    PROVE  Keyed(table.rows, c.name)
<1> DEFINE sampled == ColumnOf(Sample(table, SampleSize), c.name)
           values == IF PushdownAvailable(table) THEN ColumnOf(table.rows, c.name) ELSE sampled
           whole == ColumnOf(table.rows, c.name)
<1>1. values = whole
    <2>1. ~PushdownAvailable(table) => Sample(table, SampleSize) = table.rows
        BY SampleRows, InferenceAssumption DEF SeenWhole
    <2> QED
        BY <2>1
<1>2. /\ Cardinality(Distinct(values)) = Len(values)
      /\ Cardinality({i \in DOMAIN values : values[i] = Null}) = 0
    BY DEF ProfileColumn
<1>3. /\ IsSequence(whole) /\ DOMAIN whole = DOMAIN table.rows
      /\ \A i \in DOMAIN table.rows : whole[i] = table.rows[i][c.name]
    BY DEF ColumnOf, IsSequence
<1> HIDE DEF values, whole
<1>4. \A m, n \in DOMAIN whole : whole[m] = whole[n] => m = n
    BY <1>1, <1>2, <1>3, AllDistinct
<1> QED
    BY <1>3, <1>4 DEF Keyed

\* Only a unique column stands for the key of a table.
LEMMA ParentKeysUnique ==
    ASSUME NEW table, IsSequence(table.columns), NEW limit,
           NEW name \in ParentKeys(ProfileDataset(table, limit))
    PROVE  LET columns == ProfileDataset(table, limit).columns
           IN  \E k \in DOMAIN columns : columns[k].unique /\ columns[k].name = name
<1> DEFINE p == ProfileDataset(table, limit)
           unique == {i \in DOMAIN p.columns : p.columns[i].unique}
<1> SUFFICES ASSUME unique = {} PROVE FALSE
    BY DEF ParentKeys
<1>1. PICK i \in DOMAIN p.keys : Len(p.keys[i]) = 1
    BY DEF ParentKeys
<1> DEFINE rows == Sample(table, limit)
           total == IF PushdownAvailable(table) THEN Len(table.rows) ELSE Len(rows)
<1>2. p.keys = KeyCandidates(p.columns, rows, total)
    <2>1. rows # <<>>
        <3>1. rows = <<>> => p.keys = <<>>
            BY DEF ProfileDataset
        <3> QED
            BY <1>1, <3>1
    <2> QED
        BY <2>1 DEF ProfileDataset
<1> DEFINE eligible == {j \in DOMAIN p.columns :
                IsKeyEligible(p.columns[j].name, p.columns[j].logical, p.columns[j].shadow)}
           places == {KeyRank(p.columns[j]) \o <<j>> : j \in {k \in eligible : p.columns[k].unique}}
<1>3. places = {}
    OBVIOUS
<1>4. Listed(places) = <<>>
    <2>1. Cardinality(places) = 0
        BY <1>3, FS_EmptySet
    <2> HIDE DEF places
    <2> QED
        BY <2>1 DEF Listed
<1>5. p.keys = <<>> \/ \E a, b : p.keys = <<<<a, b>>>>
    <2> HIDE DEF places
    <2> QED
        BY <1>2, <1>4 DEF KeyCandidates, places
<1> QED
    BY <1>1, <1>5

-----------------------------------------------------------------------------
(* Silver.                                                                   *)

LEMMA NullStaysNull ==
    ASSUME NEW c
    PROVE  Project(c, Null) = Null
<1>1. BlankToNull(Null) = Null /\ StripNonNumeric(Null) = Null
    BY DEF BlankToNull, StripNonNumeric
<1>2. TryCast(Null, c.shadow) = Null
    BY DEF TryCast
<1> QED
    BY <1>1, <1>2 DEF Project

\* The rows of silver are made of rows of bronze, each of another.
LEMMA SilverRows ==
    ASSUME NEW profile, NEW policy, NEW rows, IsSequence(rows)
    PROVE  LET silver == PlanSilver(profile, Clean(policy, rows))
           IN  /\ IsSequence(silver)
               /\ \E at \in [DOMAIN silver -> DOMAIN rows] :
                     /\ \A k \in DOMAIN silver : silver[k] = SilverRow(profile.columns, rows[at[k]])
                     /\ \A k, l \in DOMAIN silver : at[k] = at[l] => k = l
<1> DEFINE passing == {i \in DOMAIN rows : Passes(policy, rows[i])}
           clean == Clean(policy, rows)
           first == {i \in DOMAIN clean : \A j \in 1..(i - 1) : clean[j] # clean[i]}
           inner == IF profile.duplicates THEN Deduplicated(clean) ELSE clean
           silver == PlanSilver(profile, clean)
<1>1. passing \in SUBSET DOMAIN rows /\ clean = Picked(rows, passing)
    BY DEF Clean
<1> HIDE DEF passing
<1>2. /\ IsSequence(clean)
      /\ \E at \in [DOMAIN clean -> passing] :
            /\ \A k \in DOMAIN clean : clean[k] = rows[at[k]]
            /\ \A k, l \in DOMAIN clean : at[k] = at[l] => k = l
    BY <1>1, PickedMembers, PickedPlaces
<1>3. PICK a \in [DOMAIN clean -> passing] :
          /\ \A k \in DOMAIN clean : clean[k] = rows[a[k]]
          /\ \A k, l \in DOMAIN clean : a[k] = a[l] => k = l
    BY <1>2
<1>4. first \in SUBSET DOMAIN clean /\ Deduplicated(clean) = Picked(clean, first)
    BY DEF Deduplicated
<1> HIDE DEF first, clean
<1>5. /\ IsSequence(inner)
      /\ \E at \in [DOMAIN inner -> DOMAIN clean] :
            /\ \A k \in DOMAIN inner : inner[k] = clean[at[k]]
            /\ \A k, l \in DOMAIN inner : at[k] = at[l] => k = l
    <2>1. CASE profile.duplicates
        BY <1>2, <1>4, <2>1, PickedMembers, PickedPlaces
    <2>2. CASE ~profile.duplicates
        <3> DEFINE same == [k \in DOMAIN clean |-> k]
        <3>1. same \in [DOMAIN clean -> DOMAIN clean] /\ \A k \in DOMAIN clean : same[k] = k
            OBVIOUS
        <3> HIDE DEF same
        <3> QED
            BY <1>2, <2>2, <3>1
    <2> QED
        BY <2>1, <2>2
<1>6. silver = [k \in DOMAIN inner |-> SilverRow(profile.columns, inner[k])]
    BY DEF PlanSilver
<1> HIDE DEF inner, silver
<1>7. PICK b \in [DOMAIN inner -> DOMAIN clean] :
          /\ \A k \in DOMAIN inner : inner[k] = clean[b[k]]
          /\ \A k, l \in DOMAIN inner : b[k] = b[l] => k = l
    BY <1>5
<1> DEFINE at == [k \in DOMAIN inner |-> a[b[k]]]
<1>8. at \in [DOMAIN silver -> DOMAIN rows]
    BY <1>1, <1>6
<1>9. \A k \in DOMAIN silver : silver[k] = SilverRow(profile.columns, rows[at[k]])
    BY <1>3, <1>6, <1>7
<1>10. \A k, l \in DOMAIN silver : at[k] = at[l] => k = l
    BY <1>3, <1>6, <1>7
<1>11. IsSequence(silver)
    BY <1>5, <1>6 DEF IsSequence
<1> HIDE DEF at
<1> QED
    BY <1>8, <1>9, <1>10, <1>11 DEF silver, clean

\* A key of a table that silver tells apart is one of its silver table.
LEMMA SilverKeyed ==
    ASSUME NEW profile, IsSequence(profile.columns), NamesDiffer(profile.columns),
           NEW policy, NEW rows, IsSequence(rows),
           NEW place \in KeptColumns(profile.columns), ToldApart(profile.columns[place], rows),
           NEW name, name = profile.columns[place].name, Keyed(rows, name)
    PROVE  Keyed(PlanSilver(profile, Clean(policy, rows)), name)
<1> DEFINE silver == PlanSilver(profile, Clean(policy, rows))
           columns == profile.columns
           c == columns[place]
<1>1. PICK at \in [DOMAIN silver -> DOMAIN rows] :
          /\ \A k \in DOMAIN silver : silver[k] = SilverRow(columns, rows[at[k]])
          /\ \A k, l \in DOMAIN silver : at[k] = at[l] => k = l
    BY SilverRows
<1> HIDE DEF silver
<1>2. ColumnAt(columns, name) = c
    <2>1. \A i \in KeptColumns(columns) : columns[i].name = name => i = place
        BY DEF KeptColumns, NamesDiffer
    <2> QED
        BY <2>1 DEF ColumnAt
<1>3. \A k \in DOMAIN silver : silver[k][name] = Project(c, rows[at[k]][name])
    <2>1. name \in NamesOf(columns, KeptColumns(columns))
        BY DEF NamesOf
    <2>2. \A row : SilverRow(columns, row)[name] = Project(ColumnAt(columns, name), row[name])
        BY <2>1 DEF SilverRow
    <2> QED
        BY <1>1, <1>2, <2>2
<1>4. ASSUME NEW m \in DOMAIN silver, NEW n \in DOMAIN silver,
             silver[m][name] = silver[n][name], silver[m][name] # Null
      PROVE  m = n
    <2>1. at[m] \in DOMAIN rows /\ at[n] \in DOMAIN rows
        OBVIOUS
    <2>2. rows[at[m]][name] = rows[at[n]][name]
        BY <1>3, <1>4, <2>1 DEF ToldApart
    <2>3. rows[at[m]][name] # Null
        BY <1>3, <1>4, NullStaysNull
    <2>4. at[m] = at[n]
        BY <2>1, <2>2, <2>3 DEF Keyed
    <2> QED
        BY <1>1, <2>4
<1> QED
    BY <1>4 DEF Keyed, silver

-----------------------------------------------------------------------------
(* The joins that are inferred.                                              *)

SourceProfile(s, i) == ProfileDataset(s.tables[i], SampleSize)

\* A row of dataset_relationships leads to what its source keeps unique, or to
\* a column the profile of its table calls unique.
LeadsToKey(s, r) ==
    \E j \in DOMAIN s.tables :
        /\ s.tables[j].name = r.to
        /\ \/ Keyed(s.tables[j].rows, r.target)
           \/ \E k \in DOMAIN SourceProfile(s, j).columns :
                 /\ SourceProfile(s, j).columns[k].unique
                 /\ SourceProfile(s, j).columns[k].name = r.target

IsLink(r) ==
    r = [from |-> r.from, column |-> r.column, to |-> r.to, target |-> r.target, accepted |-> r.accepted,
         confidence |-> r.confidence, cardinality |-> r.cardinality]

Links(s, rows) == IsSequence(rows) /\ \A i \in DOMAIN rows : IsLink(rows[i]) /\ LeadsToKey(s, rows[i])

\* The profiles there are, each that of its table.
Profiles(s, profiles) ==
    /\ DOMAIN profiles \subseteq DOMAIN s.tables
    /\ \A i \in DOMAIN profiles : profiles[i] = SourceProfile(s, i)

LEMMA SampleFinite ==
    ASSUME NEW table, IsSequence(table.rows), NEW name
    PROVE  IsFiniteSet(SampleValues(table, name))
<1> DEFINE rows == Sample(table, RelationshipSample)
           values == ColumnOf(rows, name)
           all == {values[i] : i \in DOMAIN values}
           trim == [v \in all |-> Trim(v)]
           image == {trim[v] : v \in all}
<1>1. IsSequence(rows)
    BY SampleRows, RelationshipSample \in Nat DEF RelationshipSample
<1>2. IsFiniteSet(DOMAIN values) /\ values = [i \in DOMAIN values |-> values[i]]
    <2> HIDE DEF rows
    <2>1. values = [i \in DOMAIN rows |-> rows[i][name]]
        BY DEF ColumnOf
    <2>2. IsFiniteSet(DOMAIN rows)
        BY <1>1, SequencePlaces
    <2> HIDE DEF values
    <2> QED
        BY <2>1, <2>2
<1>3. IsFiniteSet(all)
    <2> HIDE DEF values
    <2> QED
        BY <1>2, ImageFinite
<1>4. IsFiniteSet(image)
    <2> HIDE DEF all
    <2>1. DOMAIN trim = all /\ trim = [v \in DOMAIN trim |-> trim[v]]
        OBVIOUS
    <2> HIDE DEF trim
    <2> QED
        BY <1>3, <2>1, ImageFinite
<1>5. SampleValues(table, name) \in SUBSET image
    BY DEF SampleValues, Distinct
<1> HIDE DEF image
<1> QED
    BY <1>4, <1>5, FS_Subset

LEMMA AffinityNumber ==
    ASSUME NEW tables, NEW p
    PROVE  Affinity(tables, p) \in Int
BY DEF Affinity, NameAffinity

\* What is confirmed has some confidence.
LEMMA ConfidenceNumber ==
    ASSUME NEW tables, NEW p, IsSequence(tables[p[1]].rows), Shared(tables, p) # {}
    PROVE  Confidence(tables, p) \in Int
<1> DEFINE m == Mine(tables, p)
           shared == Shared(tables, p)
           a == Affinity(tables, p)
<1>1. IsFiniteSet(m)
    BY SampleFinite DEF Mine
<1>2. shared \in SUBSET m
    BY DEF Shared
<1>3. a \in Int
    BY AffinityNumber
<1>4. Confidence(tables, p) = Capped((6500 * Cardinality(shared)) \div Cardinality(m) + 35 * a)
    BY DEF Confidence
<1> HIDE DEF m, shared, a
<1>5. Cardinality(shared) \in Nat /\ Cardinality(m) \in Nat /\ Cardinality(m) # 0
    <2>1. IsFiniteSet(shared) /\ m # {}
        BY <1>1, <1>2, FS_Subset DEF shared
    <2> QED
        BY <1>1, <2>1, FS_CardinalityType, FS_EmptySet
<1>6. (6500 * Cardinality(shared)) \div Cardinality(m) \in Int
    BY <1>5
<1> QED
    BY <1>3, <1>4, <1>6 DEF Capped

\* A possible link is one of the places of the columns of two tables.
LEMMA LinkPlace ==
    ASSUME NEW tables, NEW profiles, NEW p \in LinkPlaces(tables, profiles)
    PROVE  /\ p = <<p[1], p[2], p[3], p[4]>>
           /\ p[1] \in DOMAIN profiles /\ p[2] \in DOMAIN profiles
           /\ p[3] \in DOMAIN tables[p[2]].columns /\ p[4] \in DOMAIN tables[p[1]].columns
BY DEF LinkPlaces

LinkKey(tables, p) == <<-Confidence(tables, p), p[1], p[2], p[3], p[4]>>

LEMMA InferredKeys ==
    ASSUME NEW s, IsSource(s), NEW profiles, DOMAIN profiles \subseteq DOMAIN s.tables
    PROVE  LET found == {LinkKey(s.tables, p) : p \in Inferred(s.links, s.tables, profiles)}
           IN  IsFiniteSet(found) /\ found \subseteq [1..5 -> Int]
<1> DEFINE tables == s.tables
           D == DOMAIN tables
           C == UNION {DOMAIN tables[i].columns : i \in D}
           P == (D \X D) \X (C \X C)
           key == [q \in P |-> LinkKey(tables, <<q[1][1], q[1][2], q[2][1], q[2][2]>>)]
           I == Inferred(s.links, tables, profiles)
           found == {LinkKey(tables, p) : p \in I}
           image == {key[q] : q \in P}
<1>1. IsFiniteSet(D) /\ D \in SUBSET Nat
    BY SequencePlaces DEF IsSource
<1>2. \A i \in D : IsFiniteSet(DOMAIN tables[i].columns) /\ DOMAIN tables[i].columns \in SUBSET Nat
    BY SequencePlaces DEF IsSource
<1>3. IsFiniteSet(C) /\ C \in SUBSET Nat
    <2> DEFINE columns == [i \in D |-> DOMAIN tables[i].columns]
    <2>1. DOMAIN columns = D /\ columns = [i \in DOMAIN columns |-> columns[i]]
        OBVIOUS
    <2>2. C = UNION {columns[i] : i \in D} /\ \A i \in D : IsFiniteSet(columns[i])
        BY <1>2
    <2>3. C \in SUBSET Nat
        BY <1>2
    <2> HIDE DEF columns, D, C
    <2>4. IsFiniteSet({columns[i] : i \in D})
        BY <1>1, <2>1, ImageFinite
    <2> QED
        BY <2>2, <2>3, <2>4, FS_UNION
<1>4. IsFiniteSet(P)
    <2> HIDE DEF D, C
    <2>1. IsFiniteSet(D \X D) /\ IsFiniteSet(C \X C)
        BY <1>1, <1>3, FS_Product
    <2> QED
        BY <2>1, FS_Product
<1>5. IsFiniteSet(image)
    <2>1. DOMAIN key = P /\ key = [q \in DOMAIN key |-> key[q]]
        OBVIOUS
    <2> HIDE DEF key, P
    <2> QED
        BY <1>4, <2>1, ImageFinite
<1>6. ASSUME NEW p \in I
      PROVE  /\ <<<<p[1], p[2]>>, <<p[3], p[4]>>>> \in P
             /\ key[<<<<p[1], p[2]>>, <<p[3], p[4]>>>>] = LinkKey(tables, p)
             /\ LinkKey(tables, p) \in [1..5 -> Int]
    <2>1. p \in LinkPlaces(tables, profiles) /\ Confirmed(tables, profiles, p)
        BY DEF Inferred
    <2>2. /\ p = <<p[1], p[2], p[3], p[4]>> /\ p[1] \in D /\ p[2] \in D
          /\ p[3] \in DOMAIN tables[p[2]].columns /\ p[4] \in DOMAIN tables[p[1]].columns
        BY <2>1, LinkPlace
    <2>3. p[3] \in C /\ p[4] \in C
        BY <2>2
    <2>4. <<<<p[1], p[2]>>, <<p[3], p[4]>>>> \in P
        BY <2>2, <2>3
    <2>5. key[<<<<p[1], p[2]>>, <<p[3], p[4]>>>>] = LinkKey(tables, p)
        BY <2>2, <2>4
    <2>6. Confidence(tables, p) \in Int
        BY <2>1, <2>2, ConfidenceNumber DEF Confirmed, IsSource
    <2>7. p[1] \in Int /\ p[2] \in Int /\ p[3] \in Int /\ p[4] \in Int /\ -Confidence(tables, p) \in Int
        BY <1>1, <1>3, <2>2, <2>3, <2>6
    <2> HIDE DEF key, P, I, C, D
    <2>8. LinkKey(tables, p) \in [1..5 -> Int]
        BY <2>7 DEF LinkKey
    <2> QED
        BY <2>4, <2>5, <2>8
<1> HIDE DEF key, P, I
<1>7. found \in SUBSET image /\ found \subseteq [1..5 -> Int]
    BY <1>6
<1> HIDE DEF image, found
<1> QED
    BY <1>5, <1>7, FS_Subset DEF found, I

ChildOf(s, profiles, i) == CHOOSE k \in NamedTable(s.tables, profiles, s.links[i].from) : TRUE

LEMMA DeclaredKeys ==
    ASSUME NEW s, IsSource(s), NEW profiles, DOMAIN profiles \subseteq DOMAIN s.tables
    PROVE  LET given == {<<-Certain, ChildOf(s, profiles, i), 0, 0, i>> :
                            i \in Declared(s.links, s.tables, profiles)}
           IN  IsFiniteSet(given) /\ given \subseteq [1..5 -> Int]
<1> DEFINE D == DOMAIN s.links
           child(i) == ChildOf(s, profiles, i)
           key == [i \in D |-> <<-Certain, child(i), 0, 0, i>>]
           declared == Declared(s.links, s.tables, profiles)
           given == {<<-Certain, child(i), 0, 0, i>> : i \in declared}
           image == {key[i] : i \in D}
<1>1. IsFiniteSet(D) /\ D \in SUBSET Nat /\ DOMAIN s.tables \in SUBSET Nat
    BY SequencePlaces DEF IsSource
<1>2. \A i \in declared : i \in D /\ child(i) \in Int
    BY <1>1 DEF Declared, ChildOf, NamedTable
<1>3. IsFiniteSet(image)
    <2>1. DOMAIN key = D /\ key = [i \in DOMAIN key |-> key[i]]
        OBVIOUS
    <2> HIDE DEF key, D
    <2> QED
        BY <1>1, <2>1, ImageFinite
<1> HIDE DEF declared, child
<1>4. \A i \in declared : <<-Certain, child(i), 0, 0, i>> \in [1..5 -> Int]
    BY <1>1, <1>2 DEF Certain
<1>5. given \in SUBSET image
    BY <1>2
<1> HIDE DEF image
<1>6. IsFiniteSet(given)
    BY <1>3, <1>5, FS_Subset
<1> QED
    BY <1>4, <1>6 DEF child, declared

\* Whatever has been profiled, what is inferred leads to keys.
LEMMA InferredLinks ==
    ASSUME NEW s, IsSource(s), NEW profiles, Profiles(s, profiles)
    PROVE  Links(s, InferRelationships(s.links, s.tables, profiles))
<1> DEFINE tables == s.tables
           links == s.links
           declared == Declared(links, tables, profiles)
           inferred == Inferred(links, tables, profiles)
           given == {<<-Certain, ChildOf(s, profiles, i), 0, 0, i>> : i \in declared}
           found == {LinkKey(tables, p) : p \in inferred}
           T == given \cup found
           order == Listed(T)
           ends(x) == IF x[3] = 0 THEN Ends(links[x[5]]) ELSE EndsAt(tables, Tail(x))
           rows == InferRelationships(links, tables, profiles)
<1>1. DOMAIN profiles \subseteq DOMAIN tables
    BY DEF Profiles
<1>2. /\ IsFiniteSet(given) /\ given \subseteq [1..5 -> Int]
      /\ IsFiniteSet(found) /\ found \subseteq [1..5 -> Int]
    BY <1>1, DeclaredKeys, InferredKeys
<1>3. rows = [k \in DOMAIN order |-> Relationship(ends(order[k]), -order[k][1], profiles[order[k][2]])]
    BY DEF InferRelationships, ChildOf, LinkKey
<1>4. /\ DOMAIN order = 1..Len(order) /\ Len(order) \in Nat
      /\ \A k \in DOMAIN order : order[k] \in T
    <2> HIDE DEF given, found
    <2>1. IsFiniteSet(T) /\ T \subseteq [1..5 -> Int]
        BY <1>2, FS_Union
    <2> HIDE DEF T
    <2>2. /\ Cardinality(T) \in Nat /\ DOMAIN order = 1..Cardinality(T) /\ Len(order) = Cardinality(T)
          /\ \A k \in DOMAIN order : order[k] \in T
        BY <2>1, ListedKeys, 5 \in Nat
    <2> QED
        BY <2>2
<1>5. ASSUME NEW x \in given
      PROVE  \E j \in DOMAIN tables : /\ tables[j].name = ends(x)[3]
                                      /\ Keyed(tables[j].rows, ends(x)[4])
    <2>1. PICK i \in declared : x = <<-Certain, ChildOf(s, profiles, i), 0, 0, i>>
        OBVIOUS
    <2>2. ends(x) = Ends(links[i])
        BY <2>1
    <2>3. ends(x)[3] = links[i].to /\ ends(x)[4] = links[i].target
        BY <2>2 DEF Ends
    <2>4. i \in DOMAIN links /\ \E j \in DOMAIN tables : tables[j].name = links[i].to
        BY <1>1 DEF Declared, NamedTable
    <2> QED
        BY <2>3, <2>4 DEF IsSource
<1>6. ASSUME NEW x \in found
      PROVE  \E j \in DOMAIN tables :
                 /\ tables[j].name = ends(x)[3]
                 /\ \E k \in DOMAIN SourceProfile(s, j).columns :
                       /\ SourceProfile(s, j).columns[k].unique
                       /\ SourceProfile(s, j).columns[k].name = ends(x)[4]
    <2>1. PICK p \in inferred : x = LinkKey(tables, p)
        OBVIOUS
    <2>2. p \in LinkPlaces(tables, profiles) /\ Confirmed(tables, profiles, p)
        BY DEF Inferred
    <2>3. p = <<p[1], p[2], p[3], p[4]>> /\ p[2] \in DOMAIN profiles
        BY <2>2, LinkPlace
    <2>4. p[2] # 0
        BY <1>1, <2>3, SequencePlaces DEF IsSource, IsSequence
    <2>5. x[3] = p[2] /\ Tail(x) = p
        BY <2>1, <2>3 DEF LinkKey
    <2>6. ends(x) = EndsAt(tables, p)
        BY <2>4, <2>5
    <2>7. ends(x)[3] = tables[p[2]].name /\ ends(x)[4] = KeyAt(tables, p).name
        <3>1. /\ EndsAt(tables, p)[3] = tables[p[2]].name
              /\ EndsAt(tables, p)[4] = KeyAt(tables, p).name
            BY DEF EndsAt
        <3> HIDE DEF ends
        <3> QED
            BY <2>6, <3>1
    <2>8. p[2] \in DOMAIN tables /\ KeyAt(tables, p).name \in ParentKeys(SourceProfile(s, p[2]))
        BY <1>1, <2>2, <2>3 DEF Confirmed, Profiles
    <2>9. \E k \in DOMAIN SourceProfile(s, p[2]).columns :
              /\ SourceProfile(s, p[2]).columns[k].unique
              /\ SourceProfile(s, p[2]).columns[k].name = KeyAt(tables, p).name
        BY <2>8, ParentKeysUnique DEF SourceProfile, IsSource
    <2> QED
        BY <2>7, <2>8, <2>9
<1> HIDE DEF order, T, ends, given, found, rows
<1>7. IsSequence(rows)
    <2> DEFINE made(k) == Relationship(ends(order[k]), -order[k][1], profiles[order[k][2]])
    <2>1. rows = [k \in 1..Len(order) |-> made(k)]
        BY <1>3, <1>4
    <2> HIDE DEF made
    <2> QED
        BY <1>4, <2>1 DEF IsSequence
<1>8. ASSUME NEW k \in DOMAIN rows
      PROVE  IsLink(rows[k]) /\ LeadsToKey(s, rows[k])
    <2>1. /\ k \in DOMAIN order
          /\ rows[k] = Relationship(ends(order[k]), -order[k][1], profiles[order[k][2]])
        BY <1>3
    <2>2. IsLink(rows[k]) /\ rows[k].to = ends(order[k])[3] /\ rows[k].target = ends(order[k])[4]
        BY <2>1 DEF Relationship, IsLink
    <2>3. order[k] \in given \/ order[k] \in found
        BY <1>4, <2>1 DEF T
    <2> QED
        BY <1>5, <1>6, <2>2, <2>3 DEF LeadsToKey
<1> QED
    BY <1>7, <1>8 DEF Links, rows

\* Rows that are kept, accepted or rejected lead where they led.
LEMMA PickedLinks ==
    ASSUME NEW s, NEW rows, Links(s, rows), NEW places \in SUBSET DOMAIN rows
    PROVE  Links(s, Picked(rows, places))
BY PickedMembers DEF Links

LEMMA JoinedLinks ==
    ASSUME NEW s, NEW rows, Links(s, rows), NEW more, Links(s, more)
    PROVE  Links(s, rows \o more)
BY JoinedSequences DEF Links

LEMMA AcceptedLinks ==
    ASSUME NEW s, NEW rows, Links(s, rows), NEW i \in DOMAIN rows, NEW accepted
    PROVE  Links(s, [rows EXCEPT ![i].accepted = accepted])
<1> DEFINE r == [rows[i] EXCEPT !.accepted = accepted]
           after == [rows EXCEPT ![i] = r]
<1>1. after = [rows EXCEPT ![i].accepted = accepted]
    OBVIOUS
<1>2. IsLink(r) /\ LeadsToKey(s, r)
    <2>1. IsLink(rows[i]) /\ LeadsToKey(s, rows[i])
        BY DEF Links
    <2>2. DOMAIN rows[i] = {"from", "column", "to", "target", "accepted", "confidence", "cardinality"}
        BY <2>1 DEF IsLink
    <2>3. r = [from |-> rows[i].from, column |-> rows[i].column, to |-> rows[i].to,
               target |-> rows[i].target, accepted |-> accepted,
               confidence |-> rows[i].confidence, cardinality |-> rows[i].cardinality]
        BY <2>1 DEF IsLink
    <2>4. IsLink(r) /\ r.to = rows[i].to /\ r.target = rows[i].target
        BY <2>3 DEF IsLink
    <2> QED
        BY <2>1, <2>4 DEF LeadsToKey
<1> HIDE DEF r
<1>3. IsSequence(after) /\ DOMAIN after = DOMAIN rows
    <2>1. rows = [k \in 1..Len(rows) |-> rows[k]] /\ Len(rows) \in Nat
        BY DEF IsSequence, Links
    <2>2. after = [k \in 1..Len(rows) |-> IF k = i THEN r ELSE rows[k]]
        BY <2>1
    <2> HIDE DEF after
    <2> QED
        BY <2>1, <2>2 DEF IsSequence
<1>4. \A k \in DOMAIN rows : after[k] = IF k = i THEN r ELSE rows[k]
    BY DEF Links, IsSequence
<1> HIDE DEF after
<1>5. Links(s, after)
    BY <1>2, <1>3, <1>4 DEF Links
<1> QED
    BY <1>1, <1>5 DEF after, r

\* The rows of a table come in any order.
LEMMA ArrangedLinks ==
    ASSUME NEW s, NEW rows, Links(s, rows), NEW others \in Arranged(rows)
    PROVE  Links(s, others)
<1>1. PICK f \in [DOMAIN rows -> DOMAIN rows] : others = [k \in DOMAIN rows |-> rows[f[k]]]
    BY DEF Arranged
<1>2. DOMAIN rows = 1..Len(rows) /\ Len(rows) \in Nat
    BY DEF Links, IsSequence
<1>3. IsSequence(others)
    BY <1>1, <1>2 DEF IsSequence
<1> QED
    BY <1>1, <1>3 DEF Links

-----------------------------------------------------------------------------
(* The model that is built of what there is, and the invariant.              *)

\* The silver tables there are, each made of its bronze table with its profile.
SilverTables(s, places, silver) ==
    \A n \in DOMAIN silver : \E i \in places :
        n = s.tables[i].name /\ silver[n] = SilverOf(s.tables[i], SourceProfile(s, i))

\* A model whose entities are of names, and whose joins lead to keys of them.
ModelOver(s, names, model) ==
    /\ Sound(model)
    /\ \A i \in DOMAIN model.entities : model.entities[i].id \in names
    /\ \A i \in DOMAIN model.joins :
          /\ model.joins[i].from \in names /\ model.joins[i].to \in names
          /\ LeadsToKey(s, model.joins[i])

ReplyFrom(s, r) ==
    /\ DOMAIN r.profiles \subseteq DOMAIN s.tables
    /\ SilverTables(s, DOMAIN r.profiles, r.silver)
    /\ \A i \in DOMAIN r.profiles : r.profiles[i] = SourceProfile(s, i)
    /\ ModelOver(s, DOMAIN r.silver, r.model)
    /\ \E q \in s.questions, seePii \in BOOLEAN :
          /\ Answerable(r.model, q, seePii)
          /\ r.compiled = Compiled(r.model, q, seePii) /\ r.answer = Answer(r.compiled, r.silver)

InferenceInv ==
    /\ source \in Sources
    /\ Profiles(source, profiled)
    /\ Links(source, detected)
    /\ SilverTables(source, DOMAIN profiled, refined)
    /\ modelled # <<>> => ModelOver(source, DOMAIN refined, modelled[1])
    /\ replied # <<>> => ReplyFrom(source, replied[1])

\* A model has the datasets that silver has, and joins between them.
LEMMA BuiltOver ==
    ASSUME NEW w, IsWorkspace(w), NEW names,
           \A i \in DOMAIN w.datasets : w.datasets[i].silver => w.datasets[i].name \in names
    PROVE  LET model == BuildModel(w.datasets, w.relationships)
           IN  /\ \A i \in DOMAIN model.entities : model.entities[i].id \in names
               /\ \A i \in DOMAIN model.joins :
                     /\ model.joins[i].from \in names /\ model.joins[i].to \in names
                     /\ \E k \in DOMAIN w.relationships :
                           /\ model.joins[i].to = w.relationships[k].to
                           /\ model.joins[i].target = w.relationships[k].target
<1> DEFINE datasets == w.datasets
           rows == w.relationships
           usable == {i \in DOMAIN datasets : ~datasets[i].internal /\ datasets[i].silver}
           used == Picked(datasets, usable)
           entities == [i \in DOMAIN used |-> EntityOf(used[i], rows)]
           usedNames == {used[i].name : i \in DOMAIN used}
           chosen == {i \in DOMAIN rows :
                        LET r == rows[i]
                        IN  r.accepted /\ r.from \in usedNames /\ r.to \in usedNames /\ r.from # r.to}
           kept == Picked(rows, chosen)
           model == BuildModel(datasets, rows)
<1>1. IsSequence(datasets) /\ IsSequence(rows)
    BY DEF IsWorkspace
<1>2. usable \in SUBSET DOMAIN datasets /\ chosen \in SUBSET DOMAIN rows
    OBVIOUS
<1>3. model.entities = entities /\ model.joins = JoinsFrom(rows, usedNames)
    BY DEF BuildModel
<1>4. JoinsFrom(rows, usedNames) =
        [i \in DOMAIN kept |->
            [from |-> kept[i].from, column |-> kept[i].column, to |-> kept[i].to,
             target |-> kept[i].target, cardinality |-> kept[i].cardinality]]
    BY DEF JoinsFrom
<1>5. \A i \in usable : datasets[i].name \in names
    OBVIOUS
<1>6. \A i \in chosen : rows[i].from \in usedNames /\ rows[i].to \in usedNames
    OBVIOUS
<1> HIDE DEF usable, chosen
<1>7. \A k \in DOMAIN used : used[k].name \in names
    BY <1>1, <1>2, <1>5, PickedMembers
<1>8. \A k \in DOMAIN kept : \E i \in chosen : kept[k] = rows[i]
    BY <1>1, <1>2, PickedMembers
<1> HIDE DEF used, kept
<1>9. \A d : EntityOf(d, rows).id = d.name
    BY DEF EntityOf
<1>10. ASSUME NEW i \in DOMAIN model.entities PROVE model.entities[i].id \in names
    BY <1>3, <1>7, <1>9
<1>11. usedNames \subseteq names
    BY <1>7
<1> HIDE DEF usedNames, model
<1>12. ASSUME NEW i \in DOMAIN model.joins
       PROVE  /\ model.joins[i].from \in names /\ model.joins[i].to \in names
              /\ \E k \in DOMAIN rows :
                    model.joins[i].to = rows[k].to /\ model.joins[i].target = rows[k].target
    <2>1. /\ i \in DOMAIN kept
          /\ model.joins[i].from = kept[i].from /\ model.joins[i].to = kept[i].to
          /\ model.joins[i].target = kept[i].target
        BY <1>3, <1>4
    <2>2. PICK k \in chosen : kept[i] = rows[k]
        BY <1>8, <2>1
    <2> QED
        BY <1>2, <1>6, <1>11, <2>1, <2>2
<1> QED
    BY <1>10, <1>12 DEF model

\* The datasets of a source make a workspace.
LEMMA DatasetsFit ==
    ASSUME InferenceInv, IsSource(source), NEW rows \in Arranged(detected)
    PROVE  LET w == [datasets |-> [i \in DOMAIN source.tables |-> Dataset(i)], relationships |-> rows]
           IN  /\ IsWorkspace(w)
               /\ \A i \in DOMAIN w.datasets : w.datasets[i].silver => w.datasets[i].name \in DOMAIN refined
<1> DEFINE datasets == [i \in DOMAIN source.tables |-> Dataset(i)]
           T == DOMAIN source.tables
<1>1. T = 1..Len(source.tables) /\ Len(source.tables) \in Nat
    BY DEF IsSource, IsSequence
<1>2. \A i \in T : /\ Dataset(i).name = source.tables[i].name /\ Dataset(i).magnitude = 0
                   /\ Dataset(i).silver => source.tables[i].name \in DOMAIN refined
    BY DEF Dataset
<1>3. ASSUME NEW i \in T
      PROVE  IsSequence(Dataset(i).columns) /\ NamesDiffer(Dataset(i).columns)
    <2>1. CASE i \notin DOMAIN profiled
        <3>1. Dataset(i).columns = <<>>
            BY <2>1 DEF Dataset
        <3> QED
            BY <3>1 DEF IsSequence, NamesDiffer
    <2>2. CASE i \in DOMAIN profiled
        <3> DEFINE p == SourceProfile(source, i)
                   columns == p.columns
                   places == KeptColumns(columns)
        <3>1. profiled[i] = p
            BY <2>2 DEF InferenceInv, Profiles
        <3>2. Dataset(i).columns = Picked(columns, places)
            BY <2>2, <3>1 DEF Dataset
        <3>3. IsSequence(columns) /\ NamesDiffer(columns)
            BY ProfileColumns DEF IsSource, SourceProfile
        <3>4. places \in SUBSET DOMAIN columns
            BY DEF KeptColumns
        <3> HIDE DEF places, columns
        <3>5. IsSequence(Picked(columns, places))
            BY <3>3, <3>4, PickedMembers
        <3>6. PICK at \in [DOMAIN Picked(columns, places) -> places] :
                  /\ \A k \in DOMAIN Picked(columns, places) : Picked(columns, places)[k] = columns[at[k]]
                  /\ \A k, l \in DOMAIN Picked(columns, places) : at[k] = at[l] => k = l
            BY <3>3, <3>4, PickedPlaces
        <3>7. NamesDiffer(Picked(columns, places))
            BY <3>3, <3>4, <3>6 DEF NamesDiffer
        <3> QED
            BY <3>2, <3>5, <3>7
    <2> QED
        BY <2>1, <2>2
<1>4. IsSequence(rows)
    BY ArrangedLinks DEF InferenceInv, Links
<1>5. IsSequence(datasets)
    BY <1>1 DEF IsSequence
<1>6. NamesDiffer(datasets)
    BY <1>2 DEF NamesDiffer, IsSource
<1>7. \A i \in T : datasets[i] = Dataset(i)
    OBVIOUS
<1>8. DOMAIN datasets = T
    OBVIOUS
<1> HIDE DEF datasets, T
<1> QED
    BY <1>2, <1>3, <1>4, <1>5, <1>6, <1>7, <1>8 DEF IsWorkspace, datasets

LEMMA InferenceStep ==
    ASSUME InferenceInv, [InferenceNext]_inferenceVars
    PROVE  InferenceInv'
<1>1. IsSource(source)
    BY InferenceAssumption DEF InferenceInv
<1>2. ASSUME NEW i \in DOMAIN source.tables, ProfileTable(i)
      PROVE  InferenceInv'
    <2>1. DOMAIN profiled' = DOMAIN profiled \cup {i} /\ source' = source
        BY <1>2 DEF ProfileTable
    <2>2. Profiles(source, profiled')
        BY <1>2, <2>1 DEF ProfileTable, InferenceInv, Profiles, SourceProfile
    <2>3. SilverTables(source, DOMAIN profiled', refined)
        BY <2>1 DEF InferenceInv, SilverTables
    <2> QED
        BY <1>2, <2>1, <2>2, <2>3 DEF ProfileTable, InferenceInv
<1>3. ASSUME DetectRelationships
      PROVE  InferenceInv'
    <2> DEFINE found == InferRelationships(source.links, source.tables, profiled)
               no == {Ends(detected[i]) : i \in Rejected}
               new == {k \in DOMAIN found : Ends(found[k]) \notin no}
    <2>1. Links(source, found)
        BY <1>1, InferredLinks DEF InferenceInv
    <2>2. new \in SUBSET DOMAIN found /\ Rejected \in SUBSET DOMAIN detected
        BY DEF Rejected
    <2>3. detected' = Picked(detected, Rejected) \o Picked(found, new)
        BY <1>3 DEF DetectRelationships
    <2> HIDE DEF found, new
    <2>4. Links(source, Picked(detected, Rejected)) /\ Links(source, Picked(found, new))
        BY <2>1, <2>2, PickedLinks DEF InferenceInv
    <2>5. Links(source, detected')
        BY <2>3, <2>4, JoinedLinks
    <2> QED
        BY <1>3, <2>5 DEF DetectRelationships, InferenceInv
<1>4. ASSUME NEW i \in DOMAIN detected, NEW accepted \in BOOLEAN, SetRelationshipAccepted(i, accepted)
      PROVE  InferenceInv'
    <2>1. Links(source, detected')
        BY <1>4, AcceptedLinks DEF SetRelationshipAccepted, InferenceInv
    <2> QED
        BY <1>4, <2>1 DEF SetRelationshipAccepted, InferenceInv
<1>5. ASSUME NEW i \in DOMAIN profiled, RefineTable(i)
      PROVE  InferenceInv'
    <2> DEFINE name == source.tables[i].name
    <2>1. DOMAIN refined' = DOMAIN refined \cup {name}
        BY <1>5 DEF RefineTable
    <2>2. profiled[i] = SourceProfile(source, i)
        BY DEF InferenceInv, Profiles
    <2>3. \A n \in DOMAIN refined' :
              refined'[n] = IF n = name THEN SilverOf(source.tables[i], SourceProfile(source, i))
                            ELSE refined[n]
        BY <1>5, <2>2 DEF RefineTable
    <2>4. SilverTables(source, DOMAIN profiled, refined')
        BY <2>1, <2>3 DEF InferenceInv, SilverTables
    <2>5. modelled # <<>> => ModelOver(source, DOMAIN refined', modelled[1])
        BY <2>1 DEF InferenceInv, ModelOver
    <2> QED
        BY <1>5, <2>4, <2>5 DEF RefineTable, InferenceInv
<1>6. ASSUME BuildSemantic
      PROVE  InferenceInv'
    <2> DEFINE datasets == [i \in DOMAIN source.tables |-> Dataset(i)]
    <2>1. PICK rows \in Arranged(detected) : modelled' = <<BuildModel(datasets, rows)>>
        BY <1>6 DEF BuildSemantic
    <2> DEFINE w == [datasets |-> datasets, relationships |-> rows]
               model == BuildModel(w.datasets, w.relationships)
    <2>2. /\ IsWorkspace(w)
          /\ \A i \in DOMAIN w.datasets : w.datasets[i].silver => w.datasets[i].name \in DOMAIN refined
        BY <1>1, DatasetsFit
    <2>3. modelled'[1] = model /\ w.relationships = rows
        BY <2>1
    <2>4. Links(source, rows)
        BY <2>1, ArrangedLinks DEF InferenceInv
    <2> HIDE DEF w
    <2>5. Sound(model)
        BY <2>2, BuildSound
    <2>6. /\ \A i \in DOMAIN model.entities : model.entities[i].id \in DOMAIN refined
          /\ \A i \in DOMAIN model.joins :
                /\ model.joins[i].from \in DOMAIN refined /\ model.joins[i].to \in DOMAIN refined
                /\ \E k \in DOMAIN rows :
                      model.joins[i].to = rows[k].to /\ model.joins[i].target = rows[k].target
        BY <2>2, <2>3, BuiltOver
    <2> HIDE DEF model
    <2>7. \A i \in DOMAIN model.joins : LeadsToKey(source, model.joins[i])
        BY <2>4, <2>6 DEF Links, LeadsToKey
    <2>8. ModelOver(source, DOMAIN refined, model)
        BY <2>5, <2>6, <2>7 DEF ModelOver
    <2> QED
        BY <1>6, <2>3, <2>8 DEF BuildSemantic, InferenceInv
<1>7. ASSUME NEW k \in DOMAIN modelled, NEW q \in source.questions, NEW seePii \in BOOLEAN,
             RunQuery(q, seePii)
      PROVE  InferenceInv'
    <2> DEFINE model == modelled[1]
               c == Compiled(model, q, seePii)
               r == [model |-> model, silver |-> refined, profiles |-> profiled,
                     compiled |-> c, answer |-> Answer(c, refined)]
    <2>1. Answerable(model, q, seePii)
        BY <1>7 DEF RunQuery, Compile
    <2>2. Compile(model, q, seePii) = <<c>>
        BY <2>1 DEF Compile
    <2>3. replied' = <<r>>
        BY <1>7, <2>2 DEF RunQuery
    <2>4. modelled # <<>>
        OBVIOUS
    <2>5. ReplyFrom(source, r)
        <3>1. /\ r.model = model /\ r.silver = refined /\ r.profiles = profiled
              /\ r.compiled = c /\ r.answer = Answer(r.compiled, r.silver)
            OBVIOUS
        <3> HIDE DEF r
        <3> QED
            BY <2>1, <2>4, <3>1 DEF ReplyFrom, InferenceInv, Profiles
    <2> HIDE DEF r
    <2> QED
        BY <1>7, <2>3, <2>5 DEF RunQuery, InferenceInv
<1>8. CASE UNCHANGED inferenceVars
    BY <1>8 DEF InferenceInv, inferenceVars
<1> QED
    BY <1>2, <1>3, <1>4, <1>5, <1>6, <1>7, <1>8 DEF InferenceNext

LEMMA InferenceInvariant == InferenceSpec => []InferenceInv
<1>1. InferenceInit => InferenceInv
    BY DEF InferenceInit, InferenceInv, Profiles, Links, IsSequence, SilverTables
<1>2. InferenceInv /\ [InferenceNext]_inferenceVars => InferenceInv'
    BY InferenceStep
<1> QED
    BY <1>1, <1>2, PTL DEF InferenceSpec

\* What is inferred as a key is one in the silver table that is joined.
LEMMA InferredCardinalities ==
    ASSUME NEW s, IsSource(s), NEW r, ReplyFrom(s, r),
           \A k \in DOMAIN r.model.joins, i \in DOMAIN r.profiles :
               s.tables[i].name = r.model.joins[k].to
                   => KeyKept(s.tables[i], r.profiles[i], r.model.joins[k].target)
    PROVE  CardinalitiesHold(r.model, r.silver)
<1> SUFFICES ASSUME NEW k \in DOMAIN r.model.joins
             PROVE  LET j == r.model.joins[k] IN Keyed(r.silver[j.to], j.target)
    BY DEF CardinalitiesHold, Keyed
<1> DEFINE j == r.model.joins[k]
<1>1. j.to \in DOMAIN r.silver /\ LeadsToKey(s, j)
    BY DEF ReplyFrom, ModelOver
<1>2. PICK i \in DOMAIN r.profiles :
          j.to = s.tables[i].name /\ r.silver[j.to] = SilverOf(s.tables[i], SourceProfile(s, i))
    BY <1>1 DEF ReplyFrom, SilverTables
<1> DEFINE table == s.tables[i]
           p == SourceProfile(s, i)
<1>3. i \in DOMAIN s.tables /\ r.profiles[i] = p
    BY DEF ReplyFrom
<1>4. KeyKept(table, p, j.target)
    BY <1>2, <1>3
<1>5. /\ IsSequence(table.columns) /\ NamesDiffer(table.columns) /\ IsSequence(table.rows)
      /\ \A l \in DOMAIN s.tables : s.tables[l].name = table.name => l = i
    BY <1>3 DEF IsSource, NamesDiffer
<1>6. /\ IsSequence(p.columns) /\ NamesDiffer(p.columns) /\ DOMAIN p.columns = DOMAIN table.columns
      /\ \A l \in DOMAIN p.columns :
            /\ p.columns[l].name = table.columns[l].name
            /\ p.columns[l].unique => ProfileColumn(table, table.columns[l], SampleSize).unique
    BY <1>5, ProfileColumns DEF SourceProfile
<1>7. Keyed(table.rows, j.target)
    <2>1. CASE \E l \in DOMAIN p.columns : p.columns[l].unique /\ p.columns[l].name = j.target
        <3>1. PICK l \in DOMAIN p.columns : p.columns[l].unique /\ p.columns[l].name = j.target
            BY <2>1
        <3>2. SeenWhole(table)
            BY <1>4 DEF KeyKept
        <3>3. Keyed(table.rows, table.columns[l].name)
            BY <1>5, <1>6, <3>1, <3>2, UniqueIsKeyed
        <3> QED
            BY <1>6, <3>1, <3>3
    <2>2. CASE ~\E l \in DOMAIN p.columns : p.columns[l].unique /\ p.columns[l].name = j.target
        BY <1>1, <1>2, <1>5, <2>2 DEF LeadsToKey
    <2> QED
        BY <2>1, <2>2
<1>8. PICK place \in KeptColumns(p.columns) :
          p.columns[place].name = j.target /\ ToldApart(p.columns[place], table.rows)
    BY <1>4 DEF KeyKept
<1> DEFINE policy == DerivePolicy(p, KeysOf(p), SampledRows(table))
<1>9. SilverOf(table, p) = PlanSilver(p, Clean(policy, table.rows))
    BY DEF SilverOf
<1> HIDE DEF policy, p, table, j
<1>10. Keyed(PlanSilver(p, Clean(policy, table.rows)), j.target)
    BY <1>5, <1>6, <1>7, <1>8, SilverKeyed
<1>11. Keyed(r.silver[j.to], j.target)
    BY <1>2, <1>9, <1>10 DEF p, table
<1> QED
    BY <1>11 DEF j

\* The tables and the model of an answer fit together.
LEMMA ReplyFits ==
    ASSUME NEW s, IsSource(s), NEW r, ReplyFrom(s, r)
    PROVE  WellFormed([model |-> r.model, silver |-> r.silver, twin |-> r.silver, questions |-> s.questions])
<1> DEFINE w == [model |-> r.model, silver |-> r.silver, twin |-> r.silver, questions |-> s.questions]
<1>1. w.model = r.model /\ w.silver = r.silver /\ w.twin = r.silver /\ w.questions = s.questions
    OBVIOUS
<1>2. Tables(r.silver)
    <2> SUFFICES ASSUME NEW n \in DOMAIN r.silver PROVE IsSequence(r.silver[n])
        BY DEF Tables
    <2>1. PICK i \in DOMAIN r.profiles : r.silver[n] = SilverOf(s.tables[i], SourceProfile(s, i))
        BY DEF ReplyFrom, SilverTables
    <2>2. IsSequence(s.tables[i].rows)
        BY DEF ReplyFrom, IsSource
    <2> QED
        BY <2>1, <2>2, SilverRows DEF SilverOf
<1>3. Sound(r.model)
    BY DEF ReplyFrom, ModelOver
<1>4. /\ \A i \in DOMAIN r.model.entities : r.model.entities[i].id \in DOMAIN r.silver
      /\ \A i \in DOMAIN r.model.joins : {r.model.joins[i].from, r.model.joins[i].to} \subseteq DOMAIN r.silver
    BY DEF ReplyFrom, ModelOver
<1>5. \A i \in DOMAIN r.model.measures : r.model.measures[i].entity \in DOMAIN r.silver
    BY <1>3, <1>4 DEF Sound, IsMeasureOf
<1>6. /\ IsSequence(r.model.joins) /\ IsSequence(r.model.measures) /\ IsSequence(r.model.entities)
      /\ \A i \in DOMAIN r.model.entities : IsSequence(r.model.entities[i].attributes)
    BY <1>3 DEF Sound, IsEntity
<1>7. \A q \in s.questions : IsSequence(q.measures)
    BY DEF IsSource
<1> HIDE DEF w
<1>8. WellFormed(w)
    BY <1>1, <1>2, <1>4, <1>5, <1>6, <1>7 DEF WellFormed
<1> QED
    BY <1>8 DEF w

\* Whatever a source holds, whatever of it has been profiled and refined when,
\* and whichever joins were inferred, rejected and accepted again: an answer
\* breaks the silver table down, and totals are not changed by what they are
\* broken down by.  What detection takes for the key of a
\* table identifies its rows in silver, where the profile saw all of them and
\* refining tells the keys apart.
THEOREM InferredTotalsAreKept == InferenceSpec => []TotalsSurviveInference
<1>1. InferenceInv => TotalsSurviveInference
    <2> SUFFICES ASSUME InferenceInv, replied # <<>> PROVE TotalsSurviveInference
        BY DEF TotalsSurviveInference
    <2> DEFINE r == replied[1]
               s == source
               w == [model |-> r.model, silver |-> r.silver, twin |-> r.silver, questions |-> s.questions]
               table == r.silver[r.compiled.base]
    <2>1. IsSource(s) /\ ReplyFrom(s, r)
        BY InferenceAssumption DEF InferenceInv
    <2> SUFFICES ASSUME \A k \in DOMAIN r.model.joins, i \in DOMAIN r.profiles :
                            s.tables[i].name = r.model.joins[k].to
                                => KeyKept(s.tables[i], r.profiles[i], r.model.joins[k].target),
                        Summable(r.compiled, table), r.compiled.where = <<>>
                 PROVE  BreaksDown(r.compiled, table, r.answer) /\ AddsUp(r.compiled, table, r.answer)
        BY DEF TotalsSurviveInference
    <2> HIDE DEF r, s
    <2>2. w.model = r.model /\ w.silver = r.silver /\ w.questions = s.questions
        OBVIOUS
    <2>3. WellFormed(w)
        BY <2>1, ReplyFits
    <2>4. CardinalitiesHold(r.model, r.silver)
        BY <2>1, InferredCardinalities
    <2>5. PICK q \in s.questions, seePii \in BOOLEAN :
              /\ Answerable(r.model, q, seePii)
              /\ r.compiled = Compiled(r.model, q, seePii) /\ r.answer = Answer(r.compiled, r.silver)
        BY <2>1 DEF ReplyFrom
    <2> HIDE DEF w
    <2> QED
        BY <2>2, <2>3, <2>4, <2>5, TotalsKept
<1> QED
    BY <1>1, InferenceInvariant, PTL
=============================================================================

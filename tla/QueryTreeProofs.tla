-------------------------- MODULE QueryTreeProofs --------------------------
(***************************************************************************)
(* The one answer of a query with call-tree result aggregation is its      *)
(* exact result, or a failure: for all graphs and queries, in whatever     *)
(* order signals are handled and whichever are lost.                       *)
(*                                                                         *)
(* A process hears once from each one it has asked (Once), so its counter  *)
(* is right (CountersMatch).  Who waits has been asked by somebody who     *)
(* waits, up to the first process (Rooted), although the graph has cycles: *)
(* when that one has heard from all, nobody else waits and no signal is    *)
(* under way.  Processes that have been evaluated have their results on    *)
(* the way to it, and have asked what they had to ask (Covered).           *)
(*                                                                         *)
(* That result is what the documentation says with paths (ResultIsMeaning):*)
(* a step ends where it stops at what lies ahead, and a path that meets no *)
(* vertex twice leads there.                                               *)
(***************************************************************************)
EXTENDS QueryTree, SequenceTheorems, FiniteSetTheorems, WellFoundedInduction, TLAPS

-----------------------------------------------------------------------------
(* Processes that ask each other *)

\* Whom a process asks, and what it finds.
LEMMA AskedIsPart ==
    ASSUME NEW g \in SUBSET Link, NEW q \in Process, NEW p \in Parts(q)
    PROVE  /\ Asked(g, p) \subseteq Parts(q)
           /\ Found(g, p) \subseteq Vertex
  <1> DEFINE s == q[2]
             n == Len(s)
  <1>1. q \in Vertex \X (Seq(Step) \ {<<>>}) /\ g \subseteq Link
    BY DEF Process
  <1>2. s \in Seq(Step) /\ s # <<>> /\ n \in Nat
    BY <1>1
  <1>3. PICK i \in 1 .. n : p[2] = SubSeq(s, i, n)
    BY DEF Parts
  <1>4. p[1] \in Vertex
    BY DEF Parts
  <1>5. ASSUME NEW type, NEW filter PROVE Objects(g, p[1], type, filter) \subseteq Vertex
    BY <1>1, <1>4 DEF Objects, Link
  <1>6. Stops(g, p) \subseteq Vertex /\ Passed(g, p) \subseteq Vertex
    BY <1>5 DEF Stops, Passed
  <1>7. Len(p[2]) = n - i + 1
    BY <1>2, <1>3, SubSeqProperties, ElementOfSeq
  <1>8. ASSUME Len(p[2]) # 1 PROVE i + 1 \in 1 .. n /\ Tail(p[2]) = SubSeq(s, i + 1, n)
    <2>1. n \in i .. n /\ i + 1 \in 1 .. n
      BY <1>2, <1>7, <1>8
    <2>2. Tail(SubSeq(s, i, n)) = SubSeq(s, i + 1, n)
      BY <1>2, <2>1, HeadTailOfSubSeq
    <2> QED
      BY <1>3, <2>1, <2>2
  <1>9. \A v \in Passed(g, p) : <<v, p[2]>> \in Parts(q)
    BY <1>3, <1>6 DEF Parts
  <1>10. Len(p[2]) # 1 => \A v \in Stops(g, p) : <<v, Tail(p[2])>> \in Parts(q)
    BY <1>6, <1>8 DEF Parts
  <1>11. Asked(g, p) \subseteq Parts(q)
    BY <1>9, <1>10 DEF Asked
  <1>12. Found(g, p) \subseteq Vertex
    BY <1>6 DEF Found
  <1> QED
    BY <1>11, <1>12

\* Reached is the least set that has the query and is closed under asking.
LEMMA ReachedIsLeast ==
    ASSUME NEW g \in SUBSET Link, NEW q \in Process
    PROVE  /\ q \in Parts(q) /\ q \in Reached(g, q) /\ Parts(q) \subseteq Process
           /\ Reached(g, q) \subseteq Parts(q)
           /\ \A p \in Reached(g, q) : Asked(g, p) \subseteq Reached(g, q)
           /\ \A S \in SUBSET Parts(q) : q \in S /\ Closed(g, S) => Reached(g, q) \subseteq S
  <1>1. q \in Parts(q)
    <2>1. q \in Vertex \X (Seq(Step) \ {<<>>})
      BY DEF Process
    <2>2. q[2] = SubSeq(q[2], 1, Len(q[2]))
      BY <2>1, SubSeqFull
    <2>3. 1 \in 1 .. Len(q[2])
      BY <2>1, EmptySeq
    <2> QED
      BY <2>1, <2>2, <2>3 DEF Parts
  <1>2. ASSUME NEW p \in Reached(g, q) PROVE Asked(g, p) \subseteq Reached(g, q)
    <2>1. p \in Parts(q) /\ Asked(g, p) \subseteq Parts(q)
      BY AskedIsPart DEF Reached
    <2>2. ASSUME NEW S \in SUBSET Parts(q), q \in S, Closed(g, S) PROVE Asked(g, p) \subseteq S
      BY <2>2 DEF Reached, Closed
    <2> QED
      BY <2>1, <2>2 DEF Reached
  <1>3. Parts(q) \subseteq Process
    <2>1. q[2] \in Seq(Step)
      BY DEF Process
    <2>2. ASSUME NEW i \in 1 .. Len(q[2])
          PROVE  SubSeq(q[2], i, Len(q[2])) \in Seq(Step) \ {<<>>}
      <3>1. Len(q[2]) \in Nat /\ \A j \in i .. Len(q[2]) : q[2][j] \in Step
        BY <2>1, ElementOfSeq
      <3>2. SubSeq(q[2], i, Len(q[2])) \in Seq(Step) /\ Len(SubSeq(q[2], i, Len(q[2]))) > 0
        BY <3>1, SubSeqProperties
      <3>3. SubSeq(q[2], i, Len(q[2])) # <<>>
        <4>1. Len(<<>>) = 0
          BY EmptySeq
        <4> QED
          BY <3>2, <4>1
      <3> QED
        BY <3>2, <3>3
    <2> QED
      BY <2>2 DEF Parts, Process
  <1> QED
    BY <1>1, <1>2, <1>3 DEF Reached

-----------------------------------------------------------------------------
(* Induction over numbers, and along paths *)

\* A set of numbers has a least one.
LEMMA LeastOne ==
    ASSUME NEW B \in SUBSET Nat, B # {}
    PROVE  \E m \in B : \A k \in B : m <= k
  <1> DEFINE R == OpToRel(<, Nat)
  <1>1. IsWellFoundedOn(R, Nat)
    BY NatLessThanWellFounded
  <1>2. \A x, y \in Nat : y < x => <<y, x>> \in R
    BY DEF OpToRel
  <1> HIDE DEF R
  <1>3. \E x \in B : \A y \in B : ~ (<<y, x>> \in R)
    BY <1>1, WFMin
  <1>3a. PICK m \in B : \A y \in B : ~ (<<y, m>> \in R)
    BY <1>3
  <1>4. \A k \in B : ~(k < m) /\ k \in Nat /\ m \in Nat
    BY <1>2, <1>3a
  <1> QED
    BY <1>4

\* What holds at the beginning of an interval, and goes on, holds to its end.
LEMMA Upwards ==
    ASSUME NEW m \in Nat, NEW n \in Nat, NEW G, m \in G,
           \A i \in m .. n : i \in G /\ i < n => i + 1 \in G
    PROVE  \A i \in m .. n : i \in G
  <1> SUFFICES ASSUME (m .. n) \ G # {} PROVE FALSE
    OBVIOUS
  <1>0. (m .. n) \ G \in SUBSET Nat
    OBVIOUS
  <1>1. PICK k \in (m .. n) \ G : \A j \in (m .. n) \ G : k <= j
    BY <1>0, LeastOne
  <1>2. k # m /\ k - 1 \in m .. n /\ k - 1 < n /\ ~(k <= k - 1) /\ k - 1 + 1 = k
    BY <1>1
  <1>3. k - 1 \in G
    BY <1>1, <1>2
  <1> QED
    BY <1>1, <1>2, <1>3

-----------------------------------------------------------------------------
(* Paths *)

\* Where a step of a query stops at v, and where it goes on to.
StopsAt(g, v, s) == Objects(g, v, s.type, s.filter)
GoesOn(g, v, s) == IF s.any THEN Objects(g, v, AnyType, {}) \ StopsAt(g, v, s) ELSE {}

\* A path of n vertices that goes on from v to w, and meets no vertex twice.
Way(g, v, s, w, n, path) ==
    /\ path \in [1 .. n -> Vertex] /\ path[1] = v /\ path[n] = w
    /\ \A i \in 2 .. n : path[i] \in GoesOn(g, path[i - 1], s)
    /\ \A i, j \in 1 .. n : path[i] = path[j] => i = j
Ahead(g, v, s) == {w \in Vertex : \E n \in Nat \ {0} : \E path : Way(g, v, s, w, n, path)}

\* What is ahead goes on to what is ahead: by one vertex more, or, if the path
\* has it, by a shorter path.
LEMMA AheadGoesOn ==
    ASSUME NEW g \in SUBSET Link, NEW v \in Vertex, NEW s
    PROVE  v \in Ahead(g, v, s) /\ \A w \in Ahead(g, v, s) : GoesOn(g, w, s) \subseteq Ahead(g, v, s)
  <1>1. v \in Ahead(g, v, s)
    <2>1. Way(g, v, s, v, 1, [i \in 1 .. 1 |-> v])
      BY DEF Way
    <2> QED
      BY <2>1 DEF Ahead
  <1>2. ASSUME NEW w \in Ahead(g, v, s), NEW z \in GoesOn(g, w, s) PROVE z \in Ahead(g, v, s)
    <2>1. z \in Vertex
      BY <1>2 DEF GoesOn, Objects, Link, Ahead
    <2>length. PICK n \in Nat \ {0} : \E path : Way(g, v, s, w, n, path)
      BY DEF Ahead
    <2>2. PICK path : Way(g, v, s, w, n, path)
      BY <2>length
    <2>3. CASE \E i \in 1 .. n : path[i] = z
      <3>1. PICK i \in 1 .. n : path[i] = z
        BY <2>3
      <3>2. Way(g, v, s, z, i, [j \in 1 .. i |-> path[j]])
        BY <2>2, <3>1 DEF Way
      <3> QED
        BY <2>1, <3>2 DEF Ahead
    <2>4. CASE \A i \in 1 .. n : path[i] # z
      <3> DEFINE longer == [j \in 1 .. n + 1 |-> IF j = n + 1 THEN z ELSE path[j]]
      <3>1. longer \in [1 .. n + 1 -> Vertex] /\ longer[1] = v /\ longer[n + 1] = z
        BY <2>1, <2>2 DEF Way
      <3>2. \A i \in 1 .. n : longer[i] = path[i]
        OBVIOUS
      <3>3. \A i, j \in 1 .. n + 1 : longer[i] = longer[j] => i = j
        BY <2>2, <2>4 DEF Way
      <3>4. ASSUME NEW i \in 2 .. n + 1 PROVE longer[i] \in GoesOn(g, longer[i - 1], s)
        <4>1. CASE i = n + 1
          BY <4>1, <1>2, <2>2, <3>1, <3>2 DEF Way
        <4>2. CASE i \in 2 .. n
          <5>1. i - 1 \in 1 .. n /\ i \in 1 .. n
            BY <4>2
          <5> QED
            BY <4>2, <5>1, <2>2, <3>2 DEF Way
        <4> QED
          BY <4>1, <4>2
      <3> HIDE DEF longer
      <3>5. Way(g, v, s, z, n + 1, longer)
        BY <3>1, <3>3, <3>4 DEF Way
      <3> QED
        BY <2>1, <3>5 DEF Ahead
    <2> QED
      BY <2>3, <2>4
  <1> QED
    BY <1>1, <1>2

\* A path from a set that is never left does not leave it.
LEMMA PathStays ==
    ASSUME NEW g \in SUBSET Link, NEW s, NEW S, \A u \in S : GoesOn(g, u, s) \subseteq S,
           NEW n \in Nat \ {0}, NEW path, path[1] \in S,
           \A i \in 2 .. n : path[i] \in GoesOn(g, path[i - 1], s)
    PROVE  path[n] \in S
  <1> DEFINE G == {i \in 1 .. n : path[i] \in S}
  <1>1. 1 \in G
    OBVIOUS
  <1>2. ASSUME NEW i \in 1 .. n, i \in G, i < n PROVE i + 1 \in G
    <2>1. i + 1 \in 2 .. n /\ i + 1 - 1 = i
      BY <1>2
    <2> QED
      BY <1>2, <2>1
  <1> HIDE DEF G
  <1>3. n \in G
    BY <1>1, <1>2, Upwards
  <1> QED
    BY <1>3 DEF G

\* A step ends where it stops at what is ahead: the paths of the definition are
\* long enough, for one that meets no vertex twice is no longer than there are
\* vertices.
LEMMA EndsAreAhead ==
    ASSUME IsFiniteSet(Vertex), NEW g \in SUBSET Link, NEW v \in Vertex, NEW s, s.any \in BOOLEAN
    PROVE  Ends(g, v, s) = UNION {StopsAt(g, w, s) : w \in Ahead(g, v, s)}
  <1>1. \A w \in Vertex : StopsAt(g, w, s) \subseteq Vertex
    BY DEF StopsAt, Objects, Link
  <1>2. v \in Ahead(g, v, s) /\ \A w \in Ahead(g, v, s) : GoesOn(g, w, s) \subseteq Ahead(g, v, s)
    BY AheadGoesOn
  <1>3. CASE ~s.any
    <2>1. Ends(g, v, s) = StopsAt(g, v, s)
      BY <1>3 DEF Ends, StopsAt
    <2>2. ASSUME NEW w \in Ahead(g, v, s) PROVE w = v
      <3>length. PICK n \in Nat \ {0} : \E path : Way(g, v, s, w, n, path)
        BY DEF Ahead
      <3>1. PICK path : Way(g, v, s, w, n, path)
        BY <3>length
      <3>2. n \notin 2 .. n
        BY <1>3, <3>1 DEF Way, GoesOn
      <3>3. n = 1
        BY <3>2
      <3> QED
        BY <3>1, <3>3 DEF Way
    <2> QED
      BY <1>2, <2>1, <2>2
  <1>4. CASE s.any
    <2>1. Ends(g, v, s) = {w \in Vertex : \E n \in 1 .. Cardinality(Vertex) :
              \E path \in [1 .. n -> Vertex] :
                  /\ path[1] = v /\ w \in StopsAt(g, path[n], s)
                  /\ \A i \in 2 .. n : path[i] \in Objects(g, path[i - 1], AnyType, {})
                                                  \ StopsAt(g, path[i - 1], s)}
      BY <1>4 DEF Ends, StopsAt
    <2>2. \A u : GoesOn(g, u, s) = Objects(g, u, AnyType, {}) \ StopsAt(g, u, s)
      BY <1>4 DEF GoesOn
    <2>3. Cardinality(Vertex) \in Nat
      BY FS_CardinalityType
    <2>4. ASSUME NEW w \in Ends(g, v, s)
          PROVE  \E u \in Ahead(g, v, s) : w \in StopsAt(g, u, s)
      <3>1. PICK n \in 1 .. Cardinality(Vertex) : \E path \in [1 .. n -> Vertex] :
                  /\ path[1] = v /\ w \in StopsAt(g, path[n], s)
                  /\ \A i \in 2 .. n : path[i] \in GoesOn(g, path[i - 1], s)
        BY <2>1, <2>2, <2>4
      <3>2. PICK path \in [1 .. n -> Vertex] :
                  /\ path[1] = v /\ w \in StopsAt(g, path[n], s)
                  /\ \A i \in 2 .. n : path[i] \in GoesOn(g, path[i - 1], s)
        BY <3>1
      <3>3. n \in Nat \ {0}
        BY <2>3
      <3>4. path[n] \in Ahead(g, v, s)
        BY <1>2, <3>2, <3>3, PathStays
      <3> QED
        BY <3>2, <3>4
    <2>5. ASSUME NEW u \in Ahead(g, v, s), NEW w \in StopsAt(g, u, s)
          PROVE  w \in Ends(g, v, s)
      <3>length. PICK n \in Nat \ {0} : \E path : Way(g, v, s, u, n, path)
        BY DEF Ahead
      <3>1. PICK path : Way(g, v, s, u, n, path)
        BY <3>length
      <3>2. path \in Injection(1 .. n, Vertex)
        BY <3>1 DEF Way, Injection, IsInjective
      <3>3. Cardinality(1 .. n) <= Cardinality(Vertex)
        BY <3>2, FS_Injection
      <3>4. Cardinality(1 .. n) = n
        BY FS_Interval
      <3>5. n \in 1 .. Cardinality(Vertex)
        BY <2>3, <3>3, <3>4
      <3>6. w \in Vertex
        BY <1>1 DEF Ahead
      <3>7. \A i \in 2 .. n : path[i] \in Objects(g, path[i - 1], AnyType, {})
                                            \ StopsAt(g, path[i - 1], s)
        BY <2>2, <3>1 DEF Way
      <3> QED
        BY <2>1, <3>1, <3>5, <3>6, <3>7 DEF Way
    <2> QED
      BY <2>4, <2>5
  <1> QED
    BY <1>3, <1>4

-----------------------------------------------------------------------------
(* The meaning of a query *)

\* What the first steps of a query end at, one step after the other.
Levels(g, q, f, n) ==
    f = [i \in 0 .. n |-> IF i = 0 THEN {q[1]} ELSE UNION {Ends(g, v, q[2][i]) : v \in f[i - 1]}]

\* There is such a function: each level gives the next one.
LEMMA LevelsExist ==
    ASSUME NEW g, NEW q, NEW n \in Nat
    PROVE  \E f : Levels(g, q, f, n)
  <1> DEFINE G == {k \in 0 .. n : \E f : Levels(g, q, f, k)}
  <1>1. 0 \in G
    <2> DEFINE f == [i \in 0 .. 0 |-> {q[1]}]
    <2>1. f = [i \in 0 .. 0 |-> IF i = 0 THEN {q[1]} ELSE UNION {Ends(g, v, q[2][i]) : v \in f[i - 1]}]
      OBVIOUS
    <2> HIDE DEF f
    <2>2. Levels(g, q, f, 0)
      BY <2>1 DEF Levels
    <2> QED
      BY <2>2
  <1>2. ASSUME NEW k \in 0 .. n, k \in G, k < n PROVE k + 1 \in G
    <2>1. PICK f : Levels(g, q, f, k)
      BY <1>2
    <2> DEFINE more == [i \in 0 .. k + 1 |->
                          IF i = k + 1 THEN UNION {Ends(g, v, q[2][k + 1]) : v \in f[k]} ELSE f[i]]
    <2>2. \A i \in 0 .. k : more[i] = f[i]
      OBVIOUS
    <2>3. \A i \in 0 .. k : f[i] = IF i = 0 THEN {q[1]} ELSE UNION {Ends(g, v, q[2][i]) : v \in f[i - 1]}
      BY <2>1 DEF Levels
    <2>4. more[0] = {q[1]}
      <3>1. 0 \in 0 .. k
        OBVIOUS
      <3>2. more[0] = f[0]
        BY <2>2, <3>1
      <3> QED
        BY <2>3, <3>1, <3>2
    <2>5. ASSUME NEW i \in 1 .. k PROVE more[i] = UNION {Ends(g, v, q[2][i]) : v \in more[i - 1]}
      <3>1. i \in 0 .. k /\ i - 1 \in 0 .. k /\ i # 0
        BY <2>5
      <3>2. more[i] = f[i] /\ more[i - 1] = f[i - 1]
        BY <2>2, <3>1
      <3>3. f[i] = UNION {Ends(g, v, q[2][i]) : v \in f[i - 1]}
        BY <2>3, <3>1
      <3> QED
        BY <3>2, <3>3
    <2>6. more[k + 1] = UNION {Ends(g, v, q[2][k + 1]) : v \in more[k + 1 - 1]}
      <3>1. k + 1 - 1 = k /\ k \in 0 .. k /\ k + 1 \in 0 .. k + 1
        OBVIOUS
      <3>2. more[k] = f[k]
        BY <2>2, <3>1
      <3> QED
        BY <3>1, <3>2
    <2>7. more = [i \in 0 .. k + 1 |-> more[i]]
      OBVIOUS
    <2> HIDE DEF more
    <2>8. \A i \in 0 .. k + 1 : more[i] =
              IF i = 0 THEN {q[1]} ELSE UNION {Ends(g, v, q[2][i]) : v \in more[i - 1]}
      <3> SUFFICES ASSUME NEW i \in 0 .. k + 1
                   PROVE  more[i] = IF i = 0 THEN {q[1]}
                                    ELSE UNION {Ends(g, v, q[2][i]) : v \in more[i - 1]}
        OBVIOUS
      <3>1. CASE i = 0
        BY <2>4, <3>1
      <3>2. CASE i \in 1 .. k
        BY <2>5, <3>2
      <3>3. CASE i = k + 1
        <4>1. k + 1 # 0
          OBVIOUS
        <4> QED
          BY ONLY <2>6, <3>3, <4>1
      <3> QED
        BY <3>1, <3>2, <3>3
    <2>9. Levels(g, q, more, k + 1)
      BY <2>7, <2>8 DEF Levels
    <2> QED
      BY <1>2, <2>9
  <1> HIDE DEF G
  <1>3. n \in G
    BY <1>1, <1>2, Upwards
  <1> QED
    BY <1>3 DEF G

\* The meaning is the last level.
LEMMA MeaningIsLast ==
    ASSUME NEW g, NEW q, Len(q[2]) \in Nat
    PROVE  \E f : Levels(g, q, f, Len(q[2])) /\ Meaning(g, q) = f[Len(q[2])]
  <1> DEFINE n == Len(q[2])
             chosen == CHOOSE f : f = [i \in 0 .. n |->
                          IF i = 0 THEN {q[1]} ELSE UNION {Ends(g, v, q[2][i]) : v \in f[i - 1]}]
  <1>1. \E f : f = [i \in 0 .. n |->
                          IF i = 0 THEN {q[1]} ELSE UNION {Ends(g, v, q[2][i]) : v \in f[i - 1]}]
    <2>1. \E f : Levels(g, q, f, n)
      BY LevelsExist
    <2> QED
      BY <2>1 DEF Levels
  <1>2. Levels(g, q, chosen, n)
    BY <1>1 DEF Levels
  <1>3. Meaning(g, q) = chosen[n]
    BY DEF Meaning
  <1> QED
    BY <1>2, <1>3

\* The part of q from step i on, for v.
From(q, v, i) == <<v, SubSeq(q[2], i, Len(q[2]))>>

\* What it finds and asks, in terms of that step.
Finds(g, q, v, i) == IF i = Len(q[2]) THEN StopsAt(g, v, q[2][i]) ELSE {}
Asks(g, q, v, i) ==
    {From(q, w, i) : w \in GoesOn(g, v, q[2][i])}
    \cup (IF i = Len(q[2]) THEN {} ELSE {From(q, w, i + 1) : w \in StopsAt(g, v, q[2][i])})

\* The process that is asked step i.
LEMMA AskedOfStep ==
    ASSUME NEW g, NEW q \in Process, NEW v, NEW i \in 1 .. Len(q[2])
    PROVE  /\ Found(g, From(q, v, i)) = Finds(g, q, v, i)
           /\ Asked(g, From(q, v, i)) = Asks(g, q, v, i)
  <1> DEFINE n == Len(q[2])
             s == q[2][i]
             p == From(q, v, i)
  <1>1. q[2] \in Seq(Step) /\ n \in Nat /\ s \in Step
    BY ElementOfSeq DEF Process
  <1>2. i \in 1 .. n /\ n \in i .. n
    BY <1>1
  <1>3. p[1] = v /\ p[2] = SubSeq(q[2], i, n)
    BY DEF From
  <1>4. Head(p[2]) = s /\ Tail(p[2]) = SubSeq(q[2], i + 1, n)
    BY <1>1, <1>2, <1>3, HeadTailOfSubSeq
  <1>5. Len(p[2]) = n - i + 1
    BY <1>1, <1>3, SubSeqProperties, ElementOfSeq
  <1>6. Len(p[2]) = 1 <=> i = n
    BY <1>1, <1>5
  <1>7. Stops(g, p) = StopsAt(g, v, s)
    BY <1>3, <1>4 DEF Stops, StopsAt
  <1>8. Passed(g, p) = GoesOn(g, v, s)
    BY <1>3, <1>4, <1>7 DEF Passed, GoesOn
  <1>9. \A w : <<w, p[2]>> = From(q, w, i) /\ <<w, Tail(p[2])>> = From(q, w, i + 1)
    BY <1>3, <1>4 DEF From
  <1> HIDE DEF p, s, n
  <1>10. Found(g, p) = IF i = n THEN StopsAt(g, v, s) ELSE {}
    BY <1>6, <1>7 DEF Found
  <1>11. Asked(g, p) = {From(q, w, i) : w \in GoesOn(g, v, s)}
            \cup (IF i = n THEN {} ELSE {From(q, w, i + 1) : w \in StopsAt(g, v, s)})
    BY <1>6, <1>7, <1>8, <1>9 DEF Asked
  <1> QED
    BY <1>10, <1>11 DEF p, s, n, Finds, Asks

\* What the evaluation comes to is what the documentation says, with paths.
THEOREM ResultIsMeaning ==
    ASSUME IsFiniteSet(Vertex), NEW g \in SUBSET Link, NEW q \in Process
    PROVE  Result(g, q) = Meaning(g, q)
  <1> DEFINE n == Len(q[2])
             s(i) == q[2][i]
  <1>1. /\ n \in Nat \ {0} /\ q[1] \in Vertex
        /\ \A i \in 1 .. n : s(i) \in Step /\ s(i).any \in BOOLEAN
    <2>1. q[1] \in Vertex /\ q[2] \in Seq(Step) /\ q[2] # <<>>
      BY DEF Process
    <2>2. n \in Nat \ {0}
      BY <2>1, EmptySeq
    <2>3. ASSUME NEW i \in 1 .. n PROVE s(i) \in Step /\ s(i).any \in BOOLEAN
      <3>1. s(i) \in Step
        BY <2>1, ElementOfSeq
      <3> QED
        BY <3>1 DEF Step
    <2> QED
      BY <2>1, <2>2, <2>3
  <1>2. PICK f : Levels(g, q, f, n) /\ Meaning(g, q) = f[n]
    BY <1>1, MeaningIsLast
  <1>3. /\ f[0] = {q[1]}
        /\ \A i \in 1 .. n : f[i] = UNION {Ends(g, v, s(i)) : v \in f[i - 1]}
    <2>1. \A i \in 0 .. n :
             f[i] = IF i = 0 THEN {q[1]} ELSE UNION {Ends(g, v, s(i)) : v \in f[i - 1]}
      BY <1>2 DEF Levels
    <2>2. 0 \in 0 .. n /\ \A i \in 1 .. n : i \in 0 .. n /\ i # 0
      BY <1>1
    <2> QED
      BY <2>1, <2>2
  <1> DEFINE R == Reached(g, q)
  <1>4. /\ \A i \in 1 .. n : \A v \in Vertex :
           Ends(g, v, s(i)) = UNION {StopsAt(g, w, s(i)) : w \in Ahead(g, v, s(i))}
        /\ \A i \in 1 .. n : \A v \in Vertex :
              v \in Ahead(g, v, s(i))
              /\ \A w \in Ahead(g, v, s(i)) : GoesOn(g, w, s(i)) \subseteq Ahead(g, v, s(i))
    BY <1>1, EndsAreAhead, AheadGoesOn
  <1>5. /\ q = From(q, q[1], 1) /\ 1 \in 1 .. n
        /\ \A v \in Vertex : \A i \in 1 .. n : From(q, v, i) \in Parts(q)
        /\ \A v, i : From(q, v, i)[1] = v
    <2>1. q[2] = SubSeq(q[2], 1, n) /\ q = <<q[1], q[2]>>
      BY SubSeqFull DEF Process
    <2>2. \A v \in Vertex : \A i \in 1 .. n : From(q, v, i) \in Parts(q)
      BY DEF From, Parts
    <2> QED
      BY <1>1, <2>1, <2>2 DEF From
  <1>6. \A v \in Vertex : \A i \in 1 .. n :
           StopsAt(g, v, s(i)) \subseteq Vertex /\ GoesOn(g, v, s(i)) \subseteq Vertex
    BY DEF StopsAt, GoesOn, Objects, Link
  <1>7. /\ q \in R /\ R \subseteq Parts(q) /\ \A p \in R : Asked(g, p) \subseteq R
        /\ \A S \in SUBSET Parts(q) : q \in S /\ Closed(g, S) => R \subseteq S
    BY ReachedIsLeast
  <1>8. \A v : \A i \in 1 .. n :
           LET p == From(q, v, i) IN
           /\ Found(g, p) = IF i = n THEN StopsAt(g, v, s(i)) ELSE {}
           /\ Asked(g, p) = {From(q, w, i) : w \in GoesOn(g, v, s(i))}
                 \cup (IF i = n THEN {} ELSE {From(q, w, i + 1) : w \in StopsAt(g, v, s(i))})
    <2> SUFFICES ASSUME NEW v, NEW i \in 1 .. n
                 PROVE  LET p == From(q, v, i) IN
                    /\ Found(g, p) = IF i = n THEN StopsAt(g, v, s(i)) ELSE {}
                    /\ Asked(g, p) = {From(q, w, i) : w \in GoesOn(g, v, s(i))} \cup
                          (IF i = n THEN {} ELSE {From(q, w, i + 1) : w \in StopsAt(g, v, s(i))})
      OBVIOUS
    <2>1. /\ Found(g, From(q, v, i)) = Finds(g, q, v, i)
          /\ Asked(g, From(q, v, i)) = Asks(g, q, v, i)
      BY AskedOfStep
    <2> QED
      BY <2>1 DEF Finds, Asks
  <1> HIDE DEF n, s, R
  <1>9. ASSUME NEW i \in 1 .. n, NEW v \in Vertex, From(q, v, i) \in R,
               NEW z \in Ahead(g, v, s(i))
        PROVE  z \in Vertex /\ From(q, z, i) \in R
    <2> DEFINE S == {w \in Vertex : From(q, w, i) \in R}
    <2>1. ASSUME NEW u \in S, NEW w \in GoesOn(g, u, s(i)) PROVE w \in S
      <3>1. From(q, w, i) \in Asked(g, From(q, u, i))
        BY <1>8, <2>1
      <3> QED
        BY <1>6, <1>7, <2>1, <3>1
    <2>length. PICK k \in Nat \ {0} : \E path : Way(g, v, s(i), z, k, path)
      BY DEF Ahead
    <2>2. PICK path : Way(g, v, s(i), z, k, path)
      BY <2>length
    <2>3. v \in S
      BY <1>9
    <2> HIDE DEF S
    <2>4. z \in S
      BY <2>1, <2>2, <2>3, PathStays DEF Way
    <2> QED
      BY <2>4 DEF S
  <1>10. \A i \in 0 .. n - 1 : \A v \in f[i] : v \in Vertex /\ From(q, v, i + 1) \in R
    <2> DEFINE G == {i \in 0 .. n - 1 : \A v \in f[i] : v \in Vertex /\ From(q, v, i + 1) \in R}
    <2>1. 0 \in G
      BY <1>1, <1>3, <1>5, <1>7
    <2>2. ASSUME NEW i \in 0 .. n - 1, i \in G, i < n - 1 PROVE i + 1 \in G
      <3>1. i + 1 \in 1 .. n /\ i + 1 - 1 = i /\ i + 1 # n /\ i + 1 \in 0 .. n - 1
        BY <1>1, <2>2
      <3>2. ASSUME NEW w \in f[i + 1] PROVE w \in Vertex /\ From(q, w, i + 1 + 1) \in R
        <4>1. PICK v \in f[i] : w \in Ends(g, v, s(i + 1))
          BY <1>3, <3>1
        <4>2. v \in Vertex /\ From(q, v, i + 1) \in R
          BY <2>2
        <4>3. PICK z \in Ahead(g, v, s(i + 1)) : w \in StopsAt(g, z, s(i + 1))
          BY <1>4, <3>1, <4>1, <4>2
        <4>4. z \in Vertex /\ From(q, z, i + 1) \in R
          BY <1>9, <3>1, <4>2
        <4> QED
          BY <1>6, <1>7, <1>8, <3>1, <4>3, <4>4
      <3> QED
        BY <3>1, <3>2
    <2> HIDE DEF G
    <2>3. 0 \in Nat /\ n - 1 \in Nat
      BY <1>1
    <2>4. \A i \in 0 .. n - 1 : i \in G
      BY <2>1, <2>2, <2>3, Upwards
    <2> QED
      BY <2>4 DEF G
  <1>11. ASSUME NEW w \in Meaning(g, q) PROVE w \in Result(g, q)
    <2>1. n \in 1 .. n /\ n - 1 \in 0 .. n - 1 /\ n - 1 + 1 = n
      BY <1>1
    <2>2. PICK v \in f[n - 1] : w \in Ends(g, v, s(n))
      BY <1>2, <1>3, <1>11, <2>1
    <2>3. v \in Vertex /\ From(q, v, n) \in R
      BY <1>10, <2>1
    <2>4. PICK z \in Ahead(g, v, s(n)) : w \in StopsAt(g, z, s(n))
      BY <1>4, <2>1, <2>2, <2>3
    <2>5. From(q, z, n) \in R /\ w \in Found(g, From(q, z, n))
      BY <1>8, <1>9, <2>1, <2>3, <2>4
    <2> QED
      BY <2>5 DEF Result, R
  <1>12. ASSUME NEW w \in Result(g, q) PROVE w \in Meaning(g, q)
    <2> DEFINE S == {p \in Parts(q) : \E i \in 1 .. n : \E v \in f[i - 1] :
                       /\ v \in Vertex /\ p = From(q, p[1], i) /\ p[1] \in Ahead(g, v, s(i))}
    <2>1. q \in S
      <3>1. q \in Parts(q)
        BY <1>7
      <3>2. 1 - 1 = 0 /\ q[1] \in f[1 - 1] /\ q[1] \in Ahead(g, q[1], s(1))
        BY <1>1, <1>3, <1>4, <1>5
      <3> QED
        BY <1>1, <1>5, <3>1, <3>2
    <2>2. ASSUME NEW p \in S, NEW o \in Asked(g, p) PROVE o \in S
      <3>1. PICK i \in 1 .. n : \E v \in f[i - 1] :
                       /\ v \in Vertex /\ p = From(q, p[1], i) /\ p[1] \in Ahead(g, v, s(i))
        BY <2>2
      <3>2. PICK v \in f[i - 1] :
                       /\ v \in Vertex /\ p = From(q, p[1], i) /\ p[1] \in Ahead(g, v, s(i))
        BY <3>1
      <3>3. p[1] \in Vertex
        BY <3>2 DEF Ahead
      <3>4. CASE \E u \in GoesOn(g, p[1], s(i)) : o = From(q, u, i)
        <4>1. PICK u \in GoesOn(g, p[1], s(i)) : o = From(q, u, i)
          BY <3>4
        <4>2. u \in Vertex /\ u \in Ahead(g, v, s(i)) /\ o[1] = u
          BY <1>4, <1>5, <1>6, <3>2, <3>3, <4>1
        <4>3. o \in Parts(q)
          BY <1>5, <4>1, <4>2
        <4> QED
          BY <3>2, <4>1, <4>2, <4>3
      <3>5. CASE i # n /\ \E u \in StopsAt(g, p[1], s(i)) : o = From(q, u, i + 1)
        <4>1. PICK u \in StopsAt(g, p[1], s(i)) : o = From(q, u, i + 1)
          BY <3>5
        <4>2. i + 1 \in 1 .. n /\ i + 1 - 1 = i
          BY <1>1, <3>5
        <4>3. u \in Vertex /\ o[1] = u /\ u \in Ahead(g, u, s(i + 1)) /\ o \in Parts(q)
          BY <1>4, <1>5, <1>6, <3>3, <4>1, <4>2
        <4>4. u \in Ends(g, v, s(i))
          BY <1>4, <3>2, <4>1
        <4>5. u \in f[i + 1 - 1]
          BY <1>3, <3>2, <4>2, <4>4
        <4> QED
          BY <4>1, <4>2, <4>3, <4>5
      <3>6. o \in {From(q, u, i) : u \in GoesOn(g, p[1], s(i))}
              \cup (IF i = n THEN {} ELSE {From(q, u, i + 1) : u \in StopsAt(g, p[1], s(i))})
        BY <1>8, <2>2, <3>2
      <3> QED
        BY <3>4, <3>5, <3>6
    <2>3. R \subseteq S
      BY <1>7, <2>1, <2>2 DEF Closed
    <2>4. PICK p \in R : w \in Found(g, p)
      BY <1>12 DEF Result, R
    <2>5. PICK i \in 1 .. n : \E v \in f[i - 1] :
                       /\ v \in Vertex /\ p = From(q, p[1], i) /\ p[1] \in Ahead(g, v, s(i))
      BY <2>3, <2>4
    <2>6. PICK v \in f[i - 1] :
                       /\ v \in Vertex /\ p = From(q, p[1], i) /\ p[1] \in Ahead(g, v, s(i))
      BY <2>5
    <2>7. i = n /\ w \in StopsAt(g, p[1], s(i))
      BY <1>8, <2>4, <2>6
    <2>8. w \in Ends(g, v, s(i))
      BY <1>4, <2>6, <2>7
    <2> QED
      BY <1>2, <1>3, <2>6, <2>7, <2>8
  <1> QED
    BY <1>11, <1>12

-----------------------------------------------------------------------------
(* The invariant *)

Sent == signals \cup lost

\* Nothing happens before the first signal, which says where the aggregating
\* goroutine is and what it has been told.
Phases ==
    /\ aggregator = "none" => Sent = {} /\ \A p \in Universe : ~Registered(p)
    /\ \A i \in 1 .. Len(channel) : channel[i] = Result(graph, query)
    /\ IF aggregator = "end" THEN answer \in {Result(graph, query), Failed} ELSE answer = None

\* A signal is between two processes of which one has asked the other and
\* waits for it; but nobody waits for the first process.
Asking ==
    /\ \A s \in Sent :
         \/ s = Query(query, None)
         \/ s.result = None /\ s.from \in Universe /\ Registered(s.from) /\ s.to \in Asked(graph, s.from)
         \/ s.result # None /\ s.from \in Universe /\ Registered(s.to) /\ s.from \in Asked(graph, s.to)
    /\ \A x \in Universe : Registered(x) =>
         IF x = query THEN context[x].from = None
         ELSE LET p == context[x].from IN p \in Universe /\ Registered(p) /\ x \in Asked(graph, p)
    /\ Query(query, None) \in Sent => ~Registered(query)

\* A process is asked, evaluates the query, and replies, once for each time
\* that another one asks it.
IsChild(x, p) == Registered(x) /\ context[x].from = p
Replies(x, p) == {s \in Sent : s.result # None /\ s.from = x /\ s.to = p}
Once ==
    /\ signals \cap lost = {} /\ IsFiniteSet(Sent)
    /\ \A x, p \in Universe :
         /\ Query(x, p) \in Sent => ~IsChild(x, p) /\ Replies(x, p) = {}
         /\ IsChild(x, p) => Replies(x, p) = {}
         /\ \A r, s \in Replies(x, p) : r = s

\* Among processes that wait one was asked by another one, or the first one
\* is among them: they do not wait in a circle.
Rooted ==
    \A S \in SUBSET Universe :
        S # {} /\ query \notin S /\ (\A x \in S : Registered(x)) => \E x \in S : context[x].from \notin S

\* All that is collected, by those that wait and in replies.
Collected ==
    UNION ({context[x].result : x \in {y \in Universe : Registered(y)}}
           \cup {s.result : s \in {r \in Sent : r.result # None}})

OnlyReached ==
    /\ \A x \in Universe : Registered(x) => x \in Reached(graph, query)
    /\ \A s \in Sent : s.to \in Reached(graph, query)
    /\ Collected \subseteq Result(graph, query)

\* What has been evaluated, E, is collected, and what it asks is in E as well,
\* or about to be.
Covering(E) ==
    /\ \A x \in Universe : Registered(x) => x \in E
    /\ \A x \in E : /\ Found(graph, x) \subseteq Collected
                    /\ \A y \in Asked(graph, x) : y \in E \/ \E p \in E : Query(y, p) \in Sent
Covered == Registered(query) => \E E \in SUBSET Universe : Covering(E)

IInv ==
    /\ TypeOK /\ Phases
    /\ Asking /\ Once /\ Rooted /\ CountersMatch
    /\ OnlyReached /\ Covered

-----------------------------------------------------------------------------
(* What the actions have in common *)

Message == [to : Universe, from : Universe \cup {None}, result : (SUBSET Vertex) \cup {None}]

LEMMA Processes ==
    ASSUME TypeOK
    PROVE  /\ graph \in SUBSET Link /\ query \in Process
           /\ query \in Universe /\ query \in Reached(graph, query)
           /\ Reached(graph, query) \subseteq Universe
           /\ \A p \in Universe : Asked(graph, p) \subseteq Universe /\ Found(graph, p) \subseteq Vertex
           /\ \A p \in Reached(graph, query) : /\ Asked(graph, p) \subseteq Reached(graph, query)
                                               /\ Found(graph, p) \subseteq Result(graph, query)
           /\ Result(graph, query) \subseteq Vertex
           /\ None \notin Universe /\ None \notin Waiting /\ None \notin SUBSET Vertex
           /\ Sent \subseteq Message
  <1>1. graph \in SUBSET Link /\ query \in Process
    BY GraphsAreGraphs, QueriesAreProcesses DEF TypeOK
  <1>2. Universe \subseteq Process
    BY <1>1, ReachedIsLeast DEF Universe
  <1>3. Waiting \subseteq [callbacks : Nat, result : SUBSET Vertex, from : Process \cup {None}]
    BY <1>2 DEF Waiting
  <1>4. None \notin Universe /\ None \notin Waiting /\ None \notin SUBSET Vertex
    BY <1>2, <1>3, NoneIsNothingElse
  <1>5. query \in Universe /\ query \in Reached(graph, query) /\ Reached(graph, query) \subseteq Universe
        /\ \A p \in Reached(graph, query) : Asked(graph, p) \subseteq Reached(graph, query)
    BY <1>1, ReachedIsLeast DEF Universe
  <1>6. \A p \in Universe : Asked(graph, p) \subseteq Universe /\ Found(graph, p) \subseteq Vertex
    BY <1>1, AskedIsPart DEF Universe
  <1>7. /\ Result(graph, query) \subseteq Vertex
        /\ \A p \in Reached(graph, query) : Found(graph, p) \subseteq Result(graph, query)
    BY <1>5, <1>6 DEF Result
  <1>8. Sent \subseteq Message
    BY DEF TypeOK, Sent, Message
  <1> QED
    BY <1>1, <1>4, <1>5, <1>6, <1>7, <1>8

LEMMA ProblemStays ==
    ASSUME UNCHANGED problem
    PROVE  graph' = graph /\ query' = query /\ Universe' = Universe
           /\ Message' = Message /\ Waiting' = Waiting
  BY DEF problem, Universe, Message, Waiting

\* A process asks finitely many others.
LEMMA AskedIsFinite ==
    ASSUME TypeOK
    PROVE  IsFiniteSet(Universe) /\ \A p \in Universe : IsFiniteSet(Asked(graph, p))
  <1> DEFINE n == Len(query[2])
             f == [i \in 1 .. n |-> SubSeq(query[2], i, n)]
             Rest == {SubSeq(query[2], i, n) : i \in 1 .. n}
  <1>1. n \in Nat
    BY Processes DEF Process
  <1>2. IsFiniteSet(1 .. n)
    BY <1>1, FS_Interval
  <1>3. f \in Surjection(1 .. n, Rest)
    BY DEF Surjection
  <1>4. IsFiniteSet(Rest)
    <2> HIDE DEF f, Rest, n
    <2> QED
      BY <1>2, <1>3, FS_Surjection
  <1>5. IsFiniteSet(Vertex \X Rest)
    <2> HIDE DEF Rest
    <2> QED
      BY <1>4, VerticesAreFinite, FS_Product
  <1>6. IsFiniteSet(Universe)
    BY <1>5 DEF Universe, Parts
  <1>7. ASSUME NEW p \in Universe PROVE IsFiniteSet(Asked(graph, p))
    BY <1>6, Processes, FS_Subset
  <1> QED
    BY <1>6, <1>7

\* s is handled and out is sent, which was not sent before.
LEMMA HandledStep ==
    ASSUME Once, NEW s \in signals, NEW out, out \cap Sent = {}, IsFiniteSet(out), Handled(s, out)
    PROVE  /\ Sent' = (Sent \ {s}) \cup out /\ s \in Sent
           /\ signals' \cap lost' = {} /\ IsFiniteSet(Sent')
  <1>1. signals \cap lost = {} /\ IsFiniteSet(Sent)
    BY DEF Once
  <1>2. PICK failed \in SUBSET out :
          signals' = (signals \ {s}) \cup (out \ failed) /\ lost' = lost \cup failed
    BY DEF Handled
  <1>3. Sent' = (Sent \ {s}) \cup out /\ signals' \cap lost' = {} /\ s \in Sent
    BY <1>1, <1>2 DEF Sent
  <1>4. IsFiniteSet(Sent \ {s})
    BY <1>1, FS_RemoveElement
  <1> QED
    BY <1>1, <1>3, <1>4, FS_Union

\* What the counter of p counts.
QueriesOf(p) == {s \in Sent : s.result = None /\ s.from = p}
RepliesTo(p) == {s \in Sent : s.result # None /\ s.to = p}
ChildrenOf(p) == {x \in Universe : IsChild(x, p)}

Due(p) == Cardinality(QueriesOf(p)) + Cardinality(RepliesTo(p)) + Cardinality(ChildrenOf(p))

LEMMA Counts ==
    ASSUME TypeOK, IsFiniteSet(Sent)
    PROVE  \A p : /\ IsFiniteSet(QueriesOf(p)) /\ Cardinality(QueriesOf(p)) \in Nat
                  /\ IsFiniteSet(RepliesTo(p)) /\ Cardinality(RepliesTo(p)) \in Nat
                  /\ IsFiniteSet(ChildrenOf(p)) /\ Cardinality(ChildrenOf(p)) \in Nat
  <1> TAKE p
  <1>1. QueriesOf(p) \in SUBSET Sent /\ RepliesTo(p) \in SUBSET Sent
    BY DEF QueriesOf, RepliesTo
  <1>2. ChildrenOf(p) \in SUBSET Universe
    BY DEF ChildrenOf
  <1>3. IsFiniteSet(QueriesOf(p)) /\ IsFiniteSet(RepliesTo(p))
    BY <1>1, FS_Subset
  <1>4. IsFiniteSet(ChildrenOf(p))
    BY <1>2, AskedIsFinite, FS_Subset
  <1> QED
    BY <1>3, <1>4, FS_CardinalityType

LEMMA CountersAreDue ==
    CountersMatch <=> \A p \in Universe : Registered(p) => context[p].callbacks = Due(p)
  BY DEF CountersMatch, Due, QueriesOf, RepliesTo, ChildrenOf, IsChild, Registered, Sent

\* A query of f becomes a reply to f, or who is asked waits himself, or what
\* waited replies: nothing is due to f but what was.
LEMMA Moved ==
    ASSUME NEW S, NEW T, NEW x, NEW y, IsFiniteSet(S), IsFiniteSet(T), x \in S, y \notin T
    PROVE  /\ Cardinality(S \ {x}) + Cardinality(T \cup {y}) = Cardinality(S) + Cardinality(T)
           /\ Cardinality(S \ {x}) = Cardinality(S) - 1
           /\ Cardinality(S) \in Nat /\ Cardinality(T) \in Nat
  <1>1. Cardinality(S) \in Nat /\ Cardinality(T) \in Nat
    BY FS_CardinalityType
  <1>2. Cardinality(S \ {x}) = Cardinality(S) - 1 /\ Cardinality(T \cup {y}) = Cardinality(T) + 1
    BY FS_RemoveElement, FS_AddElement
  <1> QED
    BY <1>1, <1>2

\* Until the first process waits, or when it does not any more, nobody waits.
LEMMA NobodyElse ==
    ASSUME IInv, ~Registered(query)
    PROVE  (\A x \in Universe : ~Registered(x)) /\ Sent \subseteq {Query(query, None)}
  <1> DEFINE S == {x \in Universe : Registered(x)}
  <1>1. S = {}
    <2> SUFFICES ASSUME S # {} PROVE FALSE
      OBVIOUS
    <2>1. PICK x \in S : context[x].from \notin S
      BY DEF IInv, Rooted
    <2> QED
      BY <2>1 DEF IInv, Asking
  <1>2. \A s \in Sent : s = Query(query, None)
    <2>1. \A s \in Sent : s.to \in Universe
      BY Processes DEF IInv, Message
    <2> QED
      BY <1>1, <2>1 DEF IInv, Asking
  <1> QED
    BY <1>1, <1>2

LEMMA WhatIsCollected ==
    \A w : w \in Collected <=> \/ \E y \in Universe : Registered(y) /\ w \in context[y].result
                              \/ \E s \in Sent : s.result # None /\ w \in s.result
  BY DEF Collected

-----------------------------------------------------------------------------
(* A process that has been asked replies at once: it waits already, or has *)
(* nobody to ask                                                           *)

LEMMA ReplyStep ==
    ASSUME IInv, NEW s \in signals, NEW f \in Universe, s.result = None, s.from = f,
           NEW R \in SUBSET Result(graph, query), Handled(s, {ResultOf(s.to, f, R)}),
           UNCHANGED <<problem, context, aggregator, answer, channel>>,
           Registered(s.to) \/ (Asked(graph, s.to) = {} /\ R = Found(graph, s.to))
    PROVE  IInv'
  <1> DEFINE x == s.to
             r == ResultOf(x, f, R)
  <1> USE DEF IInv
  <1>1. /\ graph' = graph /\ query' = query /\ Universe' = Universe /\ Message' = Message
        /\ Waiting' = Waiting /\ context' = context /\ channel' = channel
        /\ aggregator' = aggregator /\ answer' = answer
        /\ \A p : (Registered(p)' <=> Registered(p)) /\ \A y : IsChild(y, p)' <=> IsChild(y, p)
    BY ProblemStays DEF Registered, IsChild
  <1>2. s \in Sent /\ s \in Message /\ x \in Universe /\ R \in SUBSET Vertex /\ R # None /\ f # None
    BY Processes DEF Sent, Message
  <1>3. s = Query(x, f) /\ Registered(f) /\ x \in Asked(graph, f)
    BY <1>2, Processes DEF Message, Query, Asking
  <1>4. /\ r \in Message /\ r.result = R /\ r.from = x /\ r.to = f /\ r \notin Sent
        /\ Replies(x, f) = {} /\ ~IsChild(x, f)
    BY <1>2, <1>3 DEF Once, ResultOf, Replies, Message
  <1>5. Sent' = (Sent \ {s}) \cup {r} /\ signals' \cap lost' = {} /\ IsFiniteSet(Sent')
    <2>1. Handled(s, {r})
      OBVIOUS
    <2>2. {r} \cap Sent = {} /\ IsFiniteSet({r})
      BY <1>4, FS_Singleton
    <2> HIDE DEF r, x
    <2> QED
      BY <2>1, <2>2, HandledStep
  <1> HIDE DEF x, r
  <1>6. TypeOK'
    BY <1>1, <1>4, <1>5, Processes DEF TypeOK, Sent, Message
  <1>7. Phases'
    BY <1>1, <1>2 DEF Phases
  <1>8. \A p, y : Query(y, p) \in Sent' => Query(y, p) \in Sent /\ Query(y, p) # s
    BY <1>2, <1>4, <1>5 DEF Query
  <1>9. Asking'
    <2>1. ASSUME NEW m \in Sent'
          PROVE  \/ m = Query(query, None)
                 \/ m.result = None /\ m.from \in Universe /\ Registered(m.from) /\ m.to \in Asked(graph, m.from)
                 \/ m.result # None /\ m.from \in Universe /\ Registered(m.to) /\ m.from \in Asked(graph, m.to)
      <3>1. CASE m = r
        BY <1>2, <1>3, <1>4, <3>1
      <3>2. CASE m \in Sent
        BY <3>2 DEF Asking
      <3> QED
        BY <1>5, <2>1, <3>1, <3>2
    <2>2. Query(query, None) \in Sent' => ~Registered(query)
      BY <1>8 DEF Asking
    <2>3. Query(query, None)' = Query(query, None)
      BY <1>1 DEF Query
    <2> QED
      BY <1>1, <2>1, <2>2, <2>3 DEF Asking
  <1>10. Once'
    <2>1. \A y, p : Replies(y, p)' = IF y = x /\ p = f THEN {r} ELSE Replies(y, p)
      BY <1>2, <1>3, <1>4, <1>5 DEF Replies, Query
    <2>2. ASSUME NEW y \in Universe, NEW p \in Universe
          PROVE  /\ Query(y, p) \in Sent' => ~IsChild(y, p) /\ Replies(y, p)' = {}
                 /\ IsChild(y, p) => Replies(y, p)' = {}
                 /\ \A m, n \in Replies(y, p)' : m = n
      <3>1. CASE y = x /\ p = f
        BY <1>3, <1>4, <1>8, <2>1, <3>1
      <3>2. CASE ~(y = x /\ p = f)
        BY <1>8, <2>1, <3>2 DEF Once
      <3> QED
        BY <3>1, <3>2
    <2>3. \A y, p : Query(y, p)' = Query(y, p)
      BY DEF Query
    <2> QED
      BY <1>1, <1>5, <2>2, <2>3 DEF Once
  <1>11. Rooted'
    BY <1>1 DEF Rooted
  <1>12. CountersMatch'
    <2>1. \A p : ChildrenOf(p)' = ChildrenOf(p)
      BY <1>1 DEF ChildrenOf
    <2>2. QueriesOf(f)' = QueriesOf(f) \ {s} /\ RepliesTo(f)' = RepliesTo(f) \cup {r}
      BY <1>2, <1>4, <1>5 DEF QueriesOf, RepliesTo
    <2>3. s \in QueriesOf(f) /\ r \notin RepliesTo(f)
      BY <1>2, <1>4 DEF QueriesOf, RepliesTo
    <2>4. \A p : p # f => QueriesOf(p)' = QueriesOf(p) /\ RepliesTo(p)' = RepliesTo(p)
      BY <1>2, <1>4, <1>5 DEF QueriesOf, RepliesTo
    <2>5. Due(f)' = Due(f)
      BY <2>1, <2>2, <2>3, Counts, Moved DEF Due, Once
    <2>6. \A p : p # f => Due(p)' = Due(p)
      BY <2>1, <2>4 DEF Due
    <2>7. \A p \in Universe : Registered(p) => context[p].callbacks = Due(p)'
      BY <2>5, <2>6, CountersAreDue
    <2> QED
      BY <1>1, <2>7 DEF CountersMatch, Due, QueriesOf, RepliesTo, ChildrenOf, IsChild, Registered, Sent
  <1>13. Collected' = Collected \cup R
    <2>1. \A w : w \in Collected' <=> \/ \E y \in Universe : Registered(y) /\ w \in context[y].result
                                      \/ \E m \in Sent' : m.result # None /\ w \in m.result
      BY <1>1 DEF Collected
    <2> QED
      BY <1>2, <1>4, <1>5, <2>1, WhatIsCollected
  <1>14. OnlyReached'
    BY <1>1, <1>3, <1>4, <1>5, <1>13 DEF OnlyReached
  <1>15. Covered'
    <2> SUFFICES ASSUME Registered(query) PROVE \E E \in SUBSET Universe : Covering(E)'
      BY <1>1 DEF Covered
    <2>1. PICK E \in SUBSET Universe : Covering(E)
      BY DEF Covered
    <2> DEFINE F == E \cup {x}
    <2>2. \A y \in Universe : Registered(y) => y \in F
      BY <2>1 DEF Covering
    <2>3. \A y \in F : Found(graph, y) \subseteq Collected'
      <3>1. x \in E \/ R = Found(graph, x)
        BY <1>2, <2>1 DEF Covering, x
      <3> QED
        BY <1>13, <2>1, <3>1 DEF Covering
    <2>4. ASSUME NEW y \in F, NEW z \in Asked(graph, y)
          PROVE  z \in F \/ \E p \in F : Query(z, p) \in Sent'
      <3>1. y \in E \/ Asked(graph, y) = {}
        BY <1>2, <2>1 DEF Covering, x
      <3>2. z \in E \/ \E p \in E : Query(z, p) \in Sent
        BY <2>1, <2>4, <3>1 DEF Covering
      <3>3. \A p : Query(z, p) \in Sent /\ Query(z, p) \notin Sent' => z = x
        BY <1>3, <1>5 DEF Query
      <3> QED
        BY <3>2, <3>3
    <2>5. Covering(F)'
      <3> HIDE DEF F
      <3>1. \A z, p : Query(z, p)' = Query(z, p)
        BY DEF Query
      <3>2. F' = F
        OBVIOUS
      <3> QED
        BY <1>1, <2>2, <2>3, <2>4, <3>1 DEF Covering
    <2> QED
      BY <1>2, <2>5
  <1> QED
    BY <1>6, <1>7, <1>9, <1>10, <1>11, <1>12, <1>14, <1>15

-----------------------------------------------------------------------------
(* A process asks others, and waits                                        *)

\* There are as many queries as there are processes to ask.
LEMMA QueriesSent ==
    ASSUME TypeOK, NEW x \in Universe
    PROVE  LET out == {Query(p, x) : p \in Asked(graph, x)}
           IN  IsFiniteSet(out) /\ Cardinality(out) = Cardinality(Asked(graph, x))
  <1> DEFINE asked == Asked(graph, x)
             out == {Query(p, x) : p \in asked}
             f == [p \in asked |-> Query(p, x)]
  <1>1. IsFiniteSet(asked)
    BY AskedIsFinite
  <1>2. f \in Bijection(asked, out)
    <2>1. f \in [asked -> out]
      OBVIOUS
    <2>2. \A p, q \in asked : f[p] = f[q] => p = q
      BY DEF Query
    <2>3. \A m \in out : \E p \in asked : f[p] = m
      OBVIOUS
    <2> HIDE DEF asked, out, f
    <2> QED
      BY <2>1, <2>2, <2>3 DEF Bijection, Injection, Surjection, IsInjective
  <1>3. ExistsBijection(asked, out)
    BY <1>2 DEF ExistsBijection
  <1> HIDE DEF asked, out, f
  <1>4. IsFiniteSet(out) /\ Cardinality(out) = Cardinality(asked)
    BY <1>1, <1>3, FS_Bijection
  <1> QED
    BY <1>4 DEF asked, out

LEMMA HandleQueryStep ==
    ASSUME IInv, NEW s \in signals, HandleQuery(s)
    PROVE  IInv'
  <1> DEFINE x == s.to
             f == s.from
             asked == Asked(graph, x)
             out == {Query(p, x) : p \in asked}
  <1> USE DEF IInv
  <1>1. /\ s.result = None /\ ~Registered(x) /\ asked # {}
        /\ context' = [context EXCEPT ![x] =
              [callbacks |-> Cardinality(asked), result |-> Found(graph, x), from |-> f]]
        /\ Handled(s, out)
        /\ UNCHANGED <<problem, channel, aggregator, answer>>
    BY DEF HandleQuery, NextCalls, Immediate
  <1>2. /\ graph' = graph /\ query' = query /\ Universe' = Universe /\ Message' = Message
        /\ Waiting' = Waiting /\ channel' = channel /\ aggregator' = aggregator /\ answer' = answer
    BY <1>1, ProblemStays
  <1>3. s \in Sent /\ s \in Message /\ x \in Universe /\ f \in Universe \cup {None}
        /\ None \notin Universe /\ asked \subseteq Universe
    BY Processes DEF Sent, Message
  <1>4. s = Query(x, f)
    BY <1>1, <1>3 DEF Message, Query
  <1>5. IF f = None THEN x = query ELSE f \in Universe /\ Registered(f) /\ x \in Asked(graph, f) /\ x # query
    <2>1. CASE f = None
      BY <1>3, <1>4, <2>1 DEF Asking, Query
    <2>2. CASE f # None
      <3>1. f \in Universe /\ Registered(f) /\ x \in Asked(graph, f)
        BY <1>1, <1>3, <2>2 DEF Asking, Query
      <3>2. Registered(query)
        BY <3>1, NobodyElse
      <3> QED
        BY <1>1, <2>2, <3>1, <3>2
    <2> QED
      BY <2>1, <2>2
  <1>6. f # x
    BY <1>1, <1>3, <1>5
  <1>7. \A m \in out : m.result = None /\ m.from = x /\ m.to \in asked /\ m \notin Sent /\ m \in Message
    <2> SUFFICES ASSUME NEW p \in asked, NEW m, m = Query(p, x)
                 PROVE  m.result = None /\ m.from = x /\ m.to \in asked /\ m \notin Sent /\ m \in Message
      OBVIOUS
    <2>1. m \notin Sent
      BY <1>1, <1>3 DEF Asking, Query
    <2>2. m.result = None /\ m.from = x /\ m.to = p
      BY DEF Query
    <2>3. m \in Message
      <3>1. p \in Universe /\ x \in Universe
        BY <1>3
      <3>2. m = [to |-> p, from |-> x, result |-> None]
        BY DEF Query
      <3> QED
        BY <3>1, <3>2 DEF Message
    <2> QED
      BY <2>1, <2>2, <2>3
  <1>8. IsFiniteSet(out) /\ Cardinality(out) = Cardinality(asked)
    BY <1>3, QueriesSent
  <1>9. Cardinality(asked) \in Nat \ {0}
    BY <1>1, <1>3, AskedIsFinite, FS_CardinalityType, FS_EmptySet
  <1>10. Sent' = (Sent \ {s}) \cup out /\ signals' \cap lost' = {} /\ IsFiniteSet(Sent')
    BY <1>1, <1>7, <1>8, HandledStep
  <1>11. \A p : Query(p, x) \in Sent' <=> p \in asked
    BY <1>1, <1>3, <1>6, <1>10 DEF Asking, Query
  <1>12. \A y, p : p # x => (Query(y, p) \in Sent' <=> Query(y, p) \in Sent /\ Query(y, p) # s)
    BY <1>7, <1>10 DEF Query
  <1> HIDE DEF x, f, asked, out
  <1>13. /\ context' \in [Universe -> Waiting \cup {None}]
         /\ context'[x] = [callbacks |-> Cardinality(asked), result |-> Found(graph, x), from |-> f]
         /\ \A y \in Universe : y # x => context'[y] = context[y]
         /\ Found(graph, x) \in SUBSET Vertex
    <2>1. Found(graph, x) \in SUBSET Vertex
      BY <1>3, Processes
    <2>2. [callbacks |-> Cardinality(asked), result |-> Found(graph, x), from |-> f] \in Waiting
      BY <1>3, <1>9, <2>1 DEF Waiting
    <2> QED
      BY <1>1, <1>3, <2>1, <2>2 DEF TypeOK, x, f
  <1>14. /\ \A y \in Universe : Registered(y)' <=> y = x \/ Registered(y)
         /\ \A y \in Universe : \A p : IsChild(y, p)' <=> IF y = x THEN p = f ELSE IsChild(y, p)
         /\ \A p : ~IsChild(x, p)
    <2>1. None \notin Waiting /\ context'[x] \in Waiting
      BY <1>3, <1>9, <1>13, Processes DEF Waiting
    <2> QED
      BY <1>1, <1>3, <1>13, <2>1 DEF Registered, IsChild, x
  <1>15. \A y \in Universe : ~IsChild(y, x)
    BY <1>1, <1>3 DEF IsChild, Asking, x
  <1>16. TypeOK'
    BY <1>2, <1>3, <1>7, <1>10, <1>13 DEF TypeOK, Sent, Message
  <1>17. Phases'
    BY <1>2, <1>3 DEF Phases
  <1>18. Asking'
    <2>1. ASSUME NEW m \in Sent'
          PROVE  \/ m = Query(query, None)
                 \/ m.result = None /\ m.from \in Universe /\ Registered(m.from)' /\ m.to \in Asked(graph, m.from)
                 \/ m.result # None /\ m.from \in Universe /\ Registered(m.to)' /\ m.from \in Asked(graph, m.to)
      <3>1. CASE m \in out
        BY <1>3, <1>7, <1>14, <3>1 DEF asked
      <3>2. CASE m \in Sent
        <4>1. m.to \in Universe
          BY <3>2, Processes DEF Message
        <4> QED
          BY <1>14, <3>2, <4>1 DEF Asking
      <3> QED
        BY <1>10, <2>1, <3>1, <3>2
    <2>2. ASSUME NEW y \in Universe, Registered(y)'
          PROVE  IF y = query THEN context'[y].from = None
                 ELSE /\ context'[y].from \in Universe /\ Registered(context[y].from)'
                      /\ y \in Asked(graph, context'[y].from)
      <3>1. CASE y = x
        <4>1. context'[x].from = f
          BY <1>13
        <4>2. f \in Universe => (Registered(f)' <=> f = x \/ Registered(f))
          BY <1>14
        <4>3. context'[context'[x].from] = context'[f]
          BY <4>1
        <4> QED
          BY <1>5, <3>1, <4>1, <4>2, <4>3 DEF Registered
      <3>2. CASE y # x
        BY <1>13, <1>14, <2>2, <3>2 DEF Asking
      <3> QED
        BY <3>1, <3>2
    <2>3. Query(query, None) \in Sent' => ~Registered(query)'
      <3> SUFFICES ASSUME Query(query, None) \in Sent' PROVE FALSE
        OBVIOUS
      <3>1. Query(query, None) \in Sent /\ Query(query, None) # s
        BY <1>3, <1>12
      <3>2. Sent \subseteq {Query(query, None)}
        BY <3>1, NobodyElse DEF Asking
      <3> QED
        BY <1>3, <3>1, <3>2
    <2>4. Query(query, None)' = Query(query, None)
      BY <1>2 DEF Query
    <2> QED
      BY <1>2, <2>1, <2>2, <2>3, <2>4 DEF Asking
  <1>19. \A y, p : Replies(y, p)' = Replies(y, p)
    BY <1>1, <1>7, <1>10 DEF Replies
  <1>20. Once'
    <2>1. ASSUME NEW y \in Universe
          PROVE  ~IsChild(y, x)' /\ Replies(y, x) = {}
      <3>1. Replies(y, x) = {}
        BY <1>1, <1>3 DEF Replies, Asking, Query, x
      <3> QED
        BY <1>6, <1>14, <1>15, <3>1
    <2>2. ASSUME NEW y \in Universe, NEW p \in Universe \ {x}
          PROVE  /\ Query(y, p) \in Sent' => ~IsChild(y, p)' /\ Replies(y, p) = {}
                 /\ IsChild(y, p)' => Replies(y, p) = {}
                 /\ \A m, n \in Replies(y, p) : m = n
      <3>1. CASE y = x /\ p = f
        BY <1>3, <1>4, <1>12, <2>2, <3>1 DEF Once, x, f
      <3>2. CASE ~(y = x /\ p = f)
        BY <1>12, <1>14, <2>2, <3>2 DEF Once
      <3> QED
        BY <3>1, <3>2
    <2>3. \A y, p : Query(y, p)' = Query(y, p)
      BY DEF Query
    <2> QED
      BY <1>2, <1>10, <1>19, <2>1, <2>2, <2>3 DEF Once
  <1>21. Rooted'
    <2> SUFFICES ASSUME NEW S \in SUBSET Universe, S # {}, query \notin S, \A y \in S : Registered(y)'
                 PROVE  \E y \in S : context'[y].from \notin S
      BY <1>2 DEF Rooted
    <2>1. CASE S \subseteq {x}
      BY <1>6, <1>13, <2>1
    <2>2. CASE ~(S \subseteq {x})
      <3>1. PICK y \in S \ {x} : context[y].from \notin S \ {x}
        BY <1>14, <2>2 DEF Rooted
      <3>2. Registered(context[y].from) /\ context[y].from # x
        BY <1>1, <1>14, <3>1 DEF Asking, x
      <3> QED
        BY <1>13, <3>1, <3>2
    <2> QED
      BY <2>1, <2>2
  <1>22. CountersMatch'
    <2>1. Due(x)' = Cardinality(asked)
      <3>1. QueriesOf(x)' = out
        BY <1>1, <1>3, <1>6, <1>7, <1>10 DEF QueriesOf, Asking, Query, x, f
      <3>2. RepliesTo(x)' = {}
        BY <1>1, <1>3, <1>7, <1>10 DEF RepliesTo, Asking, Query, x
      <3>3. ChildrenOf(x)' = {}
        BY <1>2, <1>6, <1>14, <1>15 DEF ChildrenOf
      <3> QED
        BY <1>8, <1>9, <3>1, <3>2, <3>3, FS_EmptySet DEF Due
    <2>2. \A p : RepliesTo(p)' = RepliesTo(p)
      BY <1>1, <1>7, <1>10 DEF RepliesTo
    <2>3. \A p \in Universe \ {x} : QueriesOf(p)' = QueriesOf(p) \ {s}
      BY <1>7, <1>10 DEF QueriesOf
    <2>4. \A p \in Universe : p # f => s \notin QueriesOf(p) /\ ChildrenOf(p)' = ChildrenOf(p)
      BY <1>2, <1>14 DEF QueriesOf, ChildrenOf, f
    <2>5. ASSUME NEW p \in Universe \ {x} PROVE Due(p)' = Due(p)
      <3>1. CASE p # f
        BY <2>2, <2>3, <2>4, <3>1 DEF Due
      <3>2. CASE p = f
        <4>1. ChildrenOf(p)' = ChildrenOf(p) \cup {x} /\ x \notin ChildrenOf(p) /\ s \in QueriesOf(p)
          BY <1>1, <1>2, <1>3, <1>14, <3>2 DEF ChildrenOf, QueriesOf, f
        <4> QED
          <5>1. /\ Cardinality(QueriesOf(p) \ {s}) + Cardinality(ChildrenOf(p) \cup {x})
                    = Cardinality(QueriesOf(p)) + Cardinality(ChildrenOf(p))
                /\ Cardinality(QueriesOf(p) \ {s}) \in Nat /\ Cardinality(ChildrenOf(p) \cup {x}) \in Nat
                /\ Cardinality(QueriesOf(p)) \in Nat /\ Cardinality(ChildrenOf(p)) \in Nat
                /\ Cardinality(RepliesTo(p)) \in Nat
            BY <4>1, Counts, Moved, FS_RemoveElement, FS_AddElement, FS_CardinalityType DEF Once
          <5>2. QueriesOf(p)' = QueriesOf(p) \ {s} /\ RepliesTo(p)' = RepliesTo(p)
            BY <2>2, <2>3
          <5> QED
            BY <4>1, <5>1, <5>2 DEF Due
      <3> QED
        BY <3>1, <3>2
    <2>6. \A p \in Universe : Registered(p)' => context'[p].callbacks = Due(p)'
      BY <1>13, <1>14, <2>1, <2>5, CountersAreDue
    <2> QED
      BY <1>2, <2>6 DEF CountersMatch, Due, QueriesOf, RepliesTo, ChildrenOf, IsChild, Registered, Sent
  <1>23. Collected' = Collected \cup Found(graph, x)
    <2>1. \A w : w \in Collected' <=> \/ \E y \in Universe : Registered(y)' /\ w \in context'[y].result
                                      \/ \E m \in Sent' : m.result # None /\ w \in m.result
      BY <1>2 DEF Collected
    <2>2. \A m : m \in Sent' /\ m.result # None <=> m \in Sent /\ m.result # None
      BY <1>1, <1>7, <1>10
    <2>3. \A w : (\E y \in Universe : Registered(y)' /\ w \in context'[y].result)
                <=> w \in Found(graph, x) \/ \E y \in Universe : Registered(y) /\ w \in context[y].result
      BY <1>1, <1>3, <1>13, <1>14 DEF x
    <2> QED
      BY <2>1, <2>2, <2>3, WhatIsCollected
  <1>24. OnlyReached'
    <2>1. x \in Reached(graph, query)
      BY <1>3 DEF OnlyReached, x
    <2>2. \A m \in Sent' : m.to \in Reached(graph, query)
      BY <1>7, <1>10, <2>1, Processes DEF OnlyReached, asked
    <2> QED
      BY <1>2, <1>14, <1>23, <2>1, <2>2, Processes DEF OnlyReached
  <1>25. Covered'
    <2>1. PICK E \in SUBSET Universe :
            IF Registered(query) THEN Covering(E) ELSE E = {}
      BY DEF Covered
    <2> DEFINE F == E \cup {x}
    <2>2. \A y \in Universe : Registered(y)' => y \in F
      BY <1>14, <2>1, NobodyElse DEF Covering
    <2>3. \A y \in F : Found(graph, y) \subseteq Collected'
      BY <1>23, <2>1 DEF Covering
    <2>4. ASSUME NEW y \in F, NEW z \in Asked(graph, y)
          PROVE  z \in F \/ \E p \in F : Query(z, p) \in Sent'
      <3>1. CASE y = x
        BY <1>11, <3>1 DEF asked
      <3>2. CASE y \in E
        <4>1. z \in E \/ \E p \in E : Query(z, p) \in Sent
          BY <2>1, <2>4, <3>2 DEF Covering
        <4>2. \A p : Query(z, p) \in Sent /\ Query(z, p) \notin Sent' => z = x
          BY <1>4, <1>10 DEF Query, x
        <4> QED
          BY <4>1, <4>2
      <3> QED
        BY <2>4, <3>1, <3>2
    <2>5. Covering(F)'
      <3> HIDE DEF F
      <3>1. \A z, p : Query(z, p)' = Query(z, p)
        BY DEF Query
      <3> QED
        BY <1>2, <2>2, <2>3, <2>4, <3>1 DEF Covering, F, x
    <2> QED
      BY <1>2, <1>3, <2>5 DEF Covered
  <1> QED
    BY <1>16, <1>17, <1>18, <1>20, <1>21, <1>22, <1>24, <1>25

-----------------------------------------------------------------------------
(* A process that waits gets a reply                                       *)

\* Replies are for processes that wait, and of those they have asked.
LEMMA ReplyIsDue ==
    ASSUME IInv, NEW s \in signals, s.result # None
    PROVE  /\ s \in Sent /\ s \in Message /\ s.to \in Universe /\ s.from \in Universe
           /\ s.result \in SUBSET Vertex
           /\ context[s.to] \in Waiting /\ s.from \in Asked(graph, s.to)
           /\ s \in RepliesTo(s.to) /\ context[s.to].callbacks = Due(s.to)
  <1>1. s \in Sent /\ s \in Message
    BY Processes DEF IInv, Sent
  <1>2. s.to \in Universe /\ s.from \in Universe /\ Registered(s.to) /\ s.from \in Asked(graph, s.to)
    BY <1>1 DEF IInv, Asking, Query, Message
  <1>3. context[s.to] \in Waiting
    BY <1>2 DEF IInv, TypeOK, Registered
  <1>4. s.result \in SUBSET Vertex
    BY <1>1 DEF Message
  <1>5. s \in RepliesTo(s.to) /\ context[s.to].callbacks = Due(s.to)
    BY <1>1, <1>2, CountersAreDue DEF RepliesTo, IInv
  <1> QED
    BY <1>1, <1>2, <1>3, <1>4, <1>5

LEMMA EarlyReplyStep ==
    ASSUME IInv, NEW s \in signals, s.result # None, Handled(s, {}),
           context[s.to].callbacks # 1,
           context' = [context EXCEPT ![s.to].callbacks = @ - 1,
                                      ![s.to].result = context[s.to].result \cup s.result],
           UNCHANGED <<problem, channel, aggregator, answer>>
    PROVE  IInv'
  <1> DEFINE p == s.to
  <1> USE DEF IInv
  <1>1. /\ graph' = graph /\ query' = query /\ Universe' = Universe /\ Message' = Message
        /\ Waiting' = Waiting /\ channel' = channel /\ aggregator' = aggregator /\ answer' = answer
    BY ProblemStays
  <1>2. /\ s \in Sent /\ p \in Universe /\ context[p] \in Waiting /\ s.result \in SUBSET Vertex
        /\ s \in RepliesTo(p) /\ context[p].callbacks = Due(p) /\ Registered(p)
    BY ReplyIsDue, Processes DEF Registered
  <1>3. Sent' = Sent \ {s} /\ signals' \cap lost' = {} /\ IsFiniteSet(Sent')
    BY HandledStep, FS_EmptySet
  <1> HIDE DEF p
  <1>4. /\ context'[p] = [callbacks |-> context[p].callbacks - 1,
                          result |-> context[p].result \cup s.result, from |-> context[p].from]
        /\ context'[p] \in Waiting /\ context' \in [Universe -> Waiting \cup {None}]
        /\ \A y \in Universe : y # p => context'[y] = context[y]
    <2>1. context'[p] = [callbacks |-> context[p].callbacks - 1,
                         result |-> context[p].result \cup s.result, from |-> context[p].from]
      BY <1>2 DEF TypeOK, Waiting, p
    <2>2. context[p].callbacks \in Nat \ {0, 1}
      BY <1>2 DEF Waiting, p
    <2>3. context'[p] \in Waiting
      <3>1. context[p].callbacks - 1 \in Nat \ {0}
        BY <2>2
      <3>2. (context[p].result \cup s.result) \in SUBSET Vertex /\ context[p].from \in Universe \cup {None}
        BY <1>2 DEF Waiting
      <3>3. \A n \in Nat \ {0}, R \in SUBSET Vertex, f \in Universe \cup {None} :
              [callbacks |-> n, result |-> R, from |-> f] \in Waiting
        BY DEF Waiting
      <3> QED
        BY <2>1, <3>1, <3>2, <3>3
    <2>4. \A y \in Universe : y # p => context'[y] = context[y]
      BY DEF TypeOK, p
    <2>5. context' \in [Universe -> Waiting \cup {None}]
      BY <1>2, <2>3, <2>4 DEF TypeOK, p
    <2> QED
      BY <2>1, <2>3, <2>4, <2>5
  <1>5. /\ \A y \in Universe : Registered(y)' <=> Registered(y)
        /\ \A y \in Universe : Registered(y) => context'[y].from = context[y].from
        /\ \A y \in Universe : \A q : IsChild(y, q)' <=> IsChild(y, q)
    <2>1. None \notin Waiting
      BY Processes
    <2>2. context'[p] # None /\ context[p] # None /\ context'[p].from = context[p].from
      BY <1>2, <1>4, <2>1
    <2>3. \A y \in Universe : (context'[y] # None <=> context[y] # None)
                              /\ (context[y] # None => context'[y].from = context[y].from)
      BY <1>4, <2>2
    <2> QED
      BY <2>3 DEF Registered, IsChild
  <1>6. TypeOK' /\ Phases'
    BY <1>1, <1>2, <1>3, <1>4 DEF TypeOK, Phases, Sent
  <1>7. Asking'
    <2>1. ASSUME NEW m \in Sent, m # s
          PROVE  \/ m = Query(query, None)
                 \/ m.result = None /\ m.from \in Universe /\ Registered(m.from)' /\ m.to \in Asked(graph, m.from)
                 \/ m.result # None /\ m.from \in Universe /\ Registered(m.to)' /\ m.from \in Asked(graph, m.to)
      <3>1. m.to \in Universe
        BY Processes DEF Message
      <3> QED
        BY <1>5, <3>1 DEF Asking
    <2>2. ASSUME NEW y \in Universe, Registered(y)
          PROVE  IF y = query THEN context'[y].from = None
                 ELSE /\ context'[y].from \in Universe /\ Registered(context[y].from)'
                      /\ y \in Asked(graph, context'[y].from)
      <3>1. context'[y].from = context[y].from
        BY <1>5, <2>2
      <3>2. context'[context'[y].from] = context'[context[y].from]
        BY <3>1
      <3>3. context[y].from \in Universe => (Registered(context[y].from) <=> context'[context[y].from] # None)
        BY <1>5 DEF Registered
      <3> QED
        BY <2>2, <3>1, <3>2, <3>3 DEF Asking, Registered
    <2>3. Query(query, None)' = Query(query, None)
      BY <1>1 DEF Query
    <2>4. Query(query, None) \in Sent' => ~Registered(query)'
      <3>1. query \in Universe /\ (Query(query, None) \in Sent => ~Registered(query))
        BY Processes DEF Asking
      <3>2. Registered(query)' <=> context'[query] # None
        BY <1>1 DEF Registered
      <3> QED
        BY <1>3, <1>5, <3>1, <3>2 DEF Registered
    <2>5. \A m \in Sent' : m \in Sent /\ m # s
      BY <1>3
    <2>6. \A y \in Universe : Registered(y)' => Registered(y)
      BY <1>5
    <2> QED
      BY <1>1, <2>1, <2>2, <2>3, <2>4, <2>5, <2>6 DEF Asking
  <1>8. Once'
    <2>1. \A y, q : Replies(y, q)' = Replies(y, q) \ {s} /\ Query(y, q)' = Query(y, q)
      BY <1>3 DEF Replies, Query
    <2> QED
      BY <1>1, <1>3, <1>5, <2>1 DEF Once
  <1>9. Rooted'
    BY <1>1, <1>5 DEF Rooted
  <1>10. CountersMatch'
    <2>1. \A q : QueriesOf(q)' = QueriesOf(q) /\ ChildrenOf(q)' = ChildrenOf(q)
      BY <1>1, <1>3, <1>5 DEF QueriesOf, ChildrenOf
    <2>2. \A q : RepliesTo(q)' = IF q = p THEN RepliesTo(p) \ {s} ELSE RepliesTo(q)
      BY <1>3 DEF RepliesTo, p
    <2>3. Due(p)' = Due(p) - 1
      <3>1. /\ Cardinality(RepliesTo(p) \ {s}) = Cardinality(RepliesTo(p)) - 1
            /\ Cardinality(RepliesTo(p)) \in Nat /\ Cardinality(QueriesOf(p)) \in Nat
            /\ Cardinality(ChildrenOf(p)) \in Nat
        BY <1>2, Counts, FS_RemoveElement DEF Once
      <3>2. RepliesTo(p)' = RepliesTo(p) \ {s}
        BY <2>2
      <3> QED
        BY <2>1, <3>1, <3>2 DEF Due
    <2>4. \A q : q # p => Due(q)' = Due(q)
      BY <2>1, <2>2 DEF Due
    <2>5. \A q \in Universe : Registered(q)' => context'[q].callbacks = Due(q)'
      <3>1. context'[p].callbacks = Due(p)'
        BY <1>2, <1>4, <2>3
      <3>2. \A q \in Universe : q # p /\ Registered(q) => context'[q].callbacks = Due(q)'
        BY <1>4, <2>4, CountersAreDue
      <3> QED
        BY <1>5, <3>1, <3>2
    <2> QED
      BY <1>1, <2>5 DEF CountersMatch, Due, QueriesOf, RepliesTo, ChildrenOf, IsChild, Registered, Sent
  <1>11. Collected' = Collected
    <2>1. \A w : w \in Collected' <=> \/ \E y \in Universe : Registered(y)' /\ w \in context'[y].result
                                      \/ \E m \in Sent' : m.result # None /\ w \in m.result
      BY <1>1 DEF Collected
    <2>2. \A w : (\E y \in Universe : Registered(y)' /\ w \in context'[y].result)
                <=> w \in s.result \/ \E y \in Universe : Registered(y) /\ w \in context[y].result
      BY <1>2, <1>4, <1>5
    <2>3. \A w : (\E m \in Sent : m.result # None /\ w \in m.result)
                <=> w \in s.result \/ \E m \in Sent' : m.result # None /\ w \in m.result
      BY <1>2, <1>3
    <2> QED
      BY <2>1, <2>2, <2>3, WhatIsCollected
  <1>12. OnlyReached'
    BY <1>1, <1>3, <1>5, <1>11 DEF OnlyReached
  <1>13. Covered'
    <2> SUFFICES ASSUME Registered(query) PROVE \E E \in SUBSET Universe : Covering(E)'
      BY <1>1, <1>5, Processes DEF Covered
    <2>1. PICK E \in SUBSET Universe : Covering(E)
      BY DEF Covered
    <2>2. \A z, q : Query(z, q)' = Query(z, q) /\ (Query(z, q) \in Sent => Query(z, q) \in Sent')
      BY <1>3 DEF Query
    <2>3. Covering(E)'
      BY <1>1, <1>5, <1>11, <2>1, <2>2 DEF Covering
    <2> QED
      BY <2>3
  <1> QED
    BY <1>6, <1>7, <1>8, <1>9, <1>10, <1>12, <1>13

\* The last reply: nothing else is due.
LEMMA NothingElseIsDue ==
    ASSUME IInv, NEW s \in signals, s.result # None, context[s.to].callbacks = 1
    PROVE  QueriesOf(s.to) = {} /\ RepliesTo(s.to) = {s} /\ ChildrenOf(s.to) = {}
  <1> DEFINE p == s.to
  <1>1. Due(p) = 1 /\ s \in RepliesTo(p)
    BY ReplyIsDue
  <1>2. /\ IsFiniteSet(QueriesOf(p)) /\ IsFiniteSet(RepliesTo(p)) /\ IsFiniteSet(ChildrenOf(p))
        /\ Cardinality(QueriesOf(p)) \in Nat /\ Cardinality(RepliesTo(p)) \in Nat
        /\ Cardinality(ChildrenOf(p)) \in Nat
    BY Counts DEF IInv, Once
  <1> HIDE DEF p
  <1>3. Cardinality(RepliesTo(p)) # 0
    BY <1>1, <1>2, FS_EmptySet
  <1>4. Cardinality(QueriesOf(p)) = 0 /\ Cardinality(ChildrenOf(p)) = 0 /\ Cardinality(RepliesTo(p)) = 1
    BY <1>1, <1>2, <1>3 DEF Due
  <1>5. QueriesOf(p) = {} /\ ChildrenOf(p) = {}
    BY <1>2, <1>4, FS_EmptySet
  <1>6. \E m : RepliesTo(p) = {m}
    BY <1>2, <1>4, FS_Singleton
  <1> QED
    BY <1>1, <1>5, <1>6 DEF p

LEMMA LastReplyStep ==
    ASSUME IInv, NEW s \in signals, s.result # None, context[s.to].callbacks = 1,
           NEW f \in Universe, context[s.to].from = f,
           Handled(s, {ResultOf(s.to, f, context[s.to].result \cup s.result)}),
           context' = [context EXCEPT ![s.to] = None],
           UNCHANGED <<problem, channel, aggregator, answer>>
    PROVE  IInv'
  <1> DEFINE p == s.to
             total == context[p].result \cup s.result
             r == ResultOf(p, f, total)
  <1> USE DEF IInv
  <1>1. /\ graph' = graph /\ query' = query /\ Universe' = Universe /\ Message' = Message
        /\ Waiting' = Waiting /\ channel' = channel /\ aggregator' = aggregator /\ answer' = answer
    BY ProblemStays
  <1>2. /\ s \in Sent /\ p \in Universe /\ context[p] \in Waiting /\ Registered(p)
        /\ s.result \in SUBSET Vertex /\ total \in SUBSET Vertex /\ f # None /\ total # None
    <2>1. s \in Sent /\ p \in Universe /\ context[p] \in Waiting /\ s.result \in SUBSET Vertex
      BY ReplyIsDue
    <2>2. context[p].result \in SUBSET Vertex
      BY <2>1 DEF Waiting
    <2> QED
      BY <2>1, <2>2, Processes DEF Registered
  <1>3. QueriesOf(p) = {} /\ RepliesTo(p) = {s} /\ ChildrenOf(p) = {}
    BY NothingElseIsDue
  <1>4. p # query /\ Registered(f) /\ p \in Asked(graph, f) /\ IsChild(p, f)
    BY <1>2 DEF Asking, IsChild
  <1>5. f # p
    <2>1. {p} \in SUBSET Universe /\ {p} # {} /\ query \notin {p} /\ \A x \in {p} : Registered(x)
      BY <1>2, <1>4
    <2>2. \E x \in {p} : context[x].from \notin {p}
      BY <2>1 DEF Rooted
    <2> QED
      BY <2>2
  <1>6. /\ r \in Message /\ r.result = total /\ r.from = p /\ r.to = f /\ r \notin Sent
        /\ Replies(p, f) = {} /\ Query(p, f) \notin Sent
    <2>1. r.result = total /\ r.from = p /\ r.to = f
      BY DEF ResultOf
    <2>2. Replies(p, f) = {} /\ Query(p, f) \notin Sent
      BY <1>2, <1>4 DEF Once
    <2>3. r \notin Sent
      BY <1>2, <2>1, <2>2 DEF Replies
    <2>4. r \in Message
      BY <1>2 DEF ResultOf, Message
    <2> QED
      BY <2>1, <2>2, <2>3, <2>4
  <1>7. Sent' = (Sent \ {s}) \cup {r} /\ signals' \cap lost' = {} /\ IsFiniteSet(Sent')
    <2>1. Handled(s, {r})
      OBVIOUS
    <2>2. {r} \cap Sent = {} /\ IsFiniteSet({r})
      BY <1>6, FS_Singleton
    <2> HIDE DEF r, p, total
    <2> QED
      BY <2>1, <2>2, HandledStep
  <1>8. \A y \in Universe : IF y = p THEN context'[y] = None ELSE context'[y] = context[y]
    BY <1>2 DEF TypeOK
  <1> HIDE DEF p, r, total
  <1>9. /\ \A y \in Universe : Registered(y)' <=> Registered(y) /\ y # p
        /\ \A y \in Universe : \A q : IsChild(y, q)' <=> IsChild(y, q) /\ y # p
    BY <1>8 DEF Registered, IsChild
  <1>10. TypeOK'
    <2>1. context' \in [Universe -> Waiting \cup {None}]
      BY <1>2 DEF TypeOK
    <2> QED
      BY <1>1, <1>6, <1>7, <2>1, Processes DEF TypeOK, Sent, Message
  <1>11. Phases'
    BY <1>1, <1>2 DEF Phases
  <1>12. \A y, q : Query(y, q) \in Sent' => Query(y, q) \in Sent
    BY <1>2, <1>6, <1>7 DEF Query
  <1>13. Asking'
    <2>1. ASSUME NEW m \in Sent'
          PROVE  \/ m = Query(query, None)
                 \/ m.result = None /\ m.from \in Universe /\ Registered(m.from)' /\ m.to \in Asked(graph, m.from)
                 \/ m.result # None /\ m.from \in Universe /\ Registered(m.to)' /\ m.from \in Asked(graph, m.to)
      <3>1. CASE m = r
        BY <1>2, <1>4, <1>5, <1>6, <1>9, <3>1
      <3>2. CASE m \in Sent /\ m # s
        <4>1. m.to \in Universe
          BY <3>2, Processes DEF Message
        <4>2. m \notin QueriesOf(p) /\ m \notin RepliesTo(p)
          BY <1>3, <3>2
        <4> QED
          BY <1>9, <3>2, <4>1, <4>2 DEF Asking, QueriesOf, RepliesTo
      <3> QED
        BY <1>7, <2>1, <3>1, <3>2
    <2>2. ASSUME NEW y \in Universe, Registered(y), y # p
          PROVE  IF y = query THEN context[y].from = None
                 ELSE /\ context[y].from \in Universe /\ Registered(context[y].from) /\ context[y].from # p
                      /\ y \in Asked(graph, context[y].from)
      BY <1>3, <2>2 DEF Asking, ChildrenOf, IsChild
    <2>3. Query(query, None) \in Sent' => ~Registered(query)
      BY <1>12 DEF Asking
    <2>4. Query(query, None)' = Query(query, None)
      BY <1>1 DEF Query
    <2>5. \A y \in Universe : Registered(y)' => Registered(y) /\ y # p /\ context'[y] = context[y]
      BY <1>8, <1>9
    <2>6. \A y \in Universe : Registered(y) /\ y # p => context'[y] # None
      BY <1>8 DEF Registered
    <2>7. Registered(query)' => Registered(query)
      BY <1>1, <2>5, Processes DEF Registered
    <2> QED
      BY <1>1, <2>1, <2>2, <2>3, <2>4, <2>5, <2>6, <2>7 DEF Asking, Registered
  <1>14. Once'
    <2>1. \A y, q : Replies(y, q)' = IF y = p /\ q = f THEN {r} ELSE Replies(y, q) \ {s}
      BY <1>2, <1>5, <1>6, <1>7 DEF Replies, p
    <2>2. ASSUME NEW y \in Universe, NEW q \in Universe
          PROVE  /\ Query(y, q) \in Sent' => ~IsChild(y, q)' /\ Replies(y, q)' = {}
                 /\ IsChild(y, q)' => Replies(y, q)' = {}
                 /\ \A m, n \in Replies(y, q)' : m = n
      <3>1. CASE y = p /\ q = f
        BY <1>6, <1>9, <1>12, <2>1, <3>1
      <3>2. CASE ~(y = p /\ q = f)
        BY <1>9, <1>12, <2>1, <3>2 DEF Once
      <3> QED
        BY <3>1, <3>2
    <2>3. \A y, q : Query(y, q)' = Query(y, q)
      BY DEF Query
    <2> QED
      BY <1>1, <1>7, <2>2, <2>3 DEF Once
  <1>15. Rooted'
    BY <1>1, <1>8, <1>9 DEF Rooted
  <1>16. CountersMatch'
    <2>1. \A q : QueriesOf(q)' = QueriesOf(q)
      BY <1>2, <1>6, <1>7 DEF QueriesOf
    <2>2. ASSUME NEW q \in Universe, q # p PROVE Due(q)' = Due(q)
      <3>1. CASE q = f
        <4>1. ChildrenOf(q)' = ChildrenOf(q) \ {p} /\ p \in ChildrenOf(q)
          BY <1>1, <1>2, <1>4, <1>9, <3>1 DEF ChildrenOf
        <4>2. RepliesTo(q)' = RepliesTo(q) \cup {r} /\ r \notin RepliesTo(q)
          BY <1>2, <1>6, <1>7, <2>2, <3>1 DEF RepliesTo, p
        <4>3. /\ Cardinality(ChildrenOf(q) \ {p}) + Cardinality(RepliesTo(q) \cup {r})
                  = Cardinality(ChildrenOf(q)) + Cardinality(RepliesTo(q))
              /\ Cardinality(ChildrenOf(q) \ {p}) \in Nat /\ Cardinality(RepliesTo(q) \cup {r}) \in Nat
              /\ Cardinality(ChildrenOf(q)) \in Nat /\ Cardinality(RepliesTo(q)) \in Nat
              /\ Cardinality(QueriesOf(q)) \in Nat
          <5>1. IsFiniteSet(ChildrenOf(q)) /\ IsFiniteSet(RepliesTo(q)) /\ Cardinality(QueriesOf(q)) \in Nat
            BY Counts DEF Once
          <5>2. IsFiniteSet(ChildrenOf(q) \ {p}) /\ IsFiniteSet(RepliesTo(q) \cup {r})
            BY <5>1, FS_RemoveElement, FS_AddElement
          <5> QED
            BY <4>1, <4>2, <5>1, <5>2, Moved, FS_CardinalityType
        <4> QED
          BY <2>1, <4>1, <4>2, <4>3 DEF Due
      <3>2. CASE q # f
        <4>1. ChildrenOf(q)' = ChildrenOf(q)
          BY <1>1, <1>4, <1>9, <3>2 DEF ChildrenOf, IsChild
        <4>2. RepliesTo(q)' = RepliesTo(q)
          BY <1>2, <1>6, <1>7, <2>2, <3>2 DEF RepliesTo, p
        <4> QED
          BY <2>1, <4>1, <4>2 DEF Due
      <3> QED
        BY <3>1, <3>2
    <2>3. \A q \in Universe : Registered(q)' => context'[q].callbacks = Due(q)'
      <3> TAKE q \in Universe
      <3> HAVE Registered(q)'
      <3>1. q # p /\ Registered(q) /\ context'[q] = context[q]
        BY <1>8, <1>9
      <3>2. context[q].callbacks = Due(q)
        BY <3>1, CountersAreDue
      <3> QED
        BY <2>2, <3>1, <3>2
    <2> QED
      BY <1>1, <2>3 DEF CountersMatch, Due, QueriesOf, RepliesTo, ChildrenOf, IsChild, Registered, Sent
  <1>17. Collected' = Collected
    <2>1. \A w : w \in Collected' <=> \/ \E y \in Universe : Registered(y)' /\ w \in context'[y].result
                                      \/ \E m \in Sent' : m.result # None /\ w \in m.result
      BY <1>1 DEF Collected
    <2>2. \A w : (\E y \in Universe : Registered(y) /\ w \in context[y].result)
                <=> w \in context[p].result \/ \E y \in Universe : Registered(y)' /\ w \in context'[y].result
      BY <1>2, <1>8, <1>9
    <2>3. \A w : (\E m \in Sent' : m.result # None /\ w \in m.result)
                <=> w \in total \/ \E m \in Sent \ {s} : m.result # None /\ w \in m.result
      BY <1>2, <1>6, <1>7
    <2>4. \A w : (\E m \in Sent : m.result # None /\ w \in m.result)
                <=> w \in s.result \/ \E m \in Sent \ {s} : m.result # None /\ w \in m.result
      BY <1>2
    <2>5. \A w : w \in total <=> w \in context[p].result \/ w \in s.result
      BY DEF total
    <2> QED
      BY <2>1, <2>2, <2>3, <2>4, <2>5, WhatIsCollected
  <1>18. OnlyReached'
    BY <1>1, <1>4, <1>6, <1>7, <1>9, <1>17 DEF OnlyReached
  <1>19. Covered'
    <2> SUFFICES ASSUME Registered(query) PROVE \E E \in SUBSET Universe : Covering(E)'
      BY <1>1, <1>9, Processes DEF Covered, Registered
    <2>1. PICK E \in SUBSET Universe : Covering(E)
      BY DEF Covered
    <2>2. \A z, q : Query(z, q)' = Query(z, q) /\ (Query(z, q) \in Sent => Query(z, q) \in Sent')
      BY <1>7 DEF Query
    <2>3. Covering(E)'
      BY <1>1, <1>9, <1>17, <2>1, <2>2 DEF Covering
    <2> QED
      BY <2>3
  <1> QED
    BY <1>10, <1>11, <1>13, <1>14, <1>15, <1>16, <1>18, <1>19

-----------------------------------------------------------------------------
(* The first process replies                                               *)

\* When it has heard from all, nobody else waits, nothing is under way, and
\* what it has is the result.
LEMMA FirstHasAll ==
    ASSUME IInv, NEW s \in signals, s.result # None, s.to = query, context[query].callbacks = 1
    PROVE  /\ \A x \in Universe : Registered(x) => x = query
           /\ Sent = {s}
           /\ context[query].result \cup s.result = Result(graph, query)
  <1> USE DEF IInv
  <1>1. query \in Universe /\ Registered(query) /\ s \in Sent
    BY ReplyIsDue, Processes DEF Registered
  <1>2. QueriesOf(query) = {} /\ RepliesTo(query) = {s} /\ ChildrenOf(query) = {}
    BY NothingElseIsDue
  <1>3. \A x \in Universe : Registered(x) => x = query
    <2> DEFINE S == {x \in Universe : Registered(x)} \ {query}
    <2> SUFFICES ASSUME S # {} PROVE FALSE
      OBVIOUS
    <2>1. PICK x \in S : context[x].from \notin S
      BY DEF Rooted
    <2>2. context[x].from = query
      BY <2>1 DEF Asking
    <2> QED
      BY <1>2, <2>1, <2>2 DEF ChildrenOf, IsChild
  <1>4. Sent = {s}
    <2> SUFFICES ASSUME NEW m \in Sent PROVE m = s
      BY <1>1
    <2>1. m.to \in Universe
      BY Processes DEF Message
    <2>2. m \in QueriesOf(query) \/ m \in RepliesTo(query)
      BY <1>1, <1>3, <2>1 DEF Asking, QueriesOf, RepliesTo
    <2> QED
      BY <1>2, <2>2
  <1>5. PICK E \in SUBSET Universe : Covering(E)
    BY <1>1 DEF Covered
  <1>6. query \in E /\ Closed(graph, E)
    BY <1>1, <1>4, <1>5 DEF Covering, Closed, Query
  <1>7. Reached(graph, query) \subseteq E
    BY <1>6, ReachedIsLeast, Processes DEF Universe
  <1>8. Result(graph, query) \subseteq Collected
    BY <1>5, <1>7 DEF Covering, Result
  <1>9. Collected = context[query].result \cup s.result
    BY <1>1, <1>3, <1>4, WhatIsCollected
  <1>10. Collected \subseteq Result(graph, query)
    BY DEF OnlyReached
  <1> QED
    BY <1>3, <1>4, <1>8, <1>9, <1>10

\* A first process that asks nobody has found the result.
LEMMA AloneHasAll ==
    ASSUME TypeOK, Asked(graph, query) = {} PROVE Found(graph, query) = Result(graph, query)
  <1>1. Closed(graph, {query}) /\ {query} \in SUBSET Parts(query)
    <2>1. Closed(graph, {query})
      BY DEF Closed
    <2> QED
      BY <2>1, Processes DEF Universe
  <1>2. Reached(graph, query) = {query}
    <2>1. Reached(graph, query) \subseteq {query}
      BY <1>1, ReachedIsLeast, Processes
    <2> QED
      BY <2>1, Processes
  <1> QED
    BY <1>2 DEF Result

\* Then all is quiet.
LEMMA FirstRepliesStep ==
    ASSUME IInv, NEW s \in signals, Handled(s, {}), Sent = {s},
           aggregator # "none", context' \in [Universe -> {None}],
           channel' \in {channel, Append(channel, Result(graph, query))},
           UNCHANGED <<problem, aggregator, answer>>
    PROVE  IInv'
  <1> USE DEF IInv
  <1>1. /\ graph' = graph /\ query' = query /\ Universe' = Universe
        /\ Waiting' = Waiting /\ aggregator' = aggregator /\ answer' = answer
    BY ProblemStays
  <1>2. Sent' = {} /\ signals' \cap lost' = {} /\ IsFiniteSet(Sent')
    BY HandledStep, FS_EmptySet
  <1>3. \A x \in Universe : ~Registered(x)'
    BY DEF Registered
  <1>4. channel' \in Seq(SUBSET Vertex) /\ \A i \in 1 .. Len(channel') : channel'[i] = Result(graph, query)
    <2> DEFINE R == Result(graph, query)
    <2>1. R \in SUBSET Vertex /\ channel \in Seq(SUBSET Vertex) /\ \A i \in 1 .. Len(channel) : channel[i] = R
      BY Processes DEF TypeOK, Phases
    <2> HIDE DEF R
    <2>2. CASE channel' = channel
      BY <2>1, <2>2 DEF R
    <2>3. CASE channel' = Append(channel, R)
      <3>1. channel' \in Seq(SUBSET Vertex) /\ \A i \in 1 .. Len(channel') : channel'[i] = R
        BY <2>1, <2>3
      <3> QED
        BY <3>1 DEF R
    <2> QED
      BY <2>2, <2>3 DEF R
  <1>5. TypeOK'
    BY <1>1, <1>2, <1>4 DEF TypeOK, Sent
  <1>6. Phases'
    BY <1>1, <1>4 DEF Phases
  <1>7. Asking' /\ Rooted' /\ Covered'
    BY <1>1, <1>2, <1>3, Processes DEF Asking, Rooted, Covered
  <1>8. Once'
    BY <1>1, <1>2, <1>3 DEF Once, IsChild, Replies
  <1>9. CountersMatch'
    BY <1>1, <1>3 DEF CountersMatch, Registered
  <1>10. OnlyReached'
    BY <1>1, <1>2, <1>3 DEF OnlyReached, Collected
  <1> QED
    BY <1>5, <1>6, <1>7, <1>8, <1>9, <1>10

-----------------------------------------------------------------------------
(* The actions                                                             *)

LEMMA HandleStep ==
    ASSUME IInv, NEW s \in signals, Handle(s) PROVE IInv'
  <1> USE DEF IInv
  <1>1. s \in Sent /\ s \in Message /\ aggregator # "none"
    BY Processes DEF Sent, Phases
  <1>2. ASSUME s.result = None PROVE IF s.from = None THEN s = Query(query, None) /\ s.to = query
                                     ELSE s.from \in Universe
    BY <1>1, <1>2, Processes DEF Asking, Query, Message
  <1>3. {} \in SUBSET Result(graph, query)
    OBVIOUS
  <1>4. CASE HandleAgain(s)
    <2>1. s.result = None /\ Registered(s.to) /\ Handled(s, SameQueryReply(s))
          /\ UNCHANGED <<problem, context, channel, aggregator, answer>>
      BY <1>4 DEF HandleAgain
    <2>2. s.from # None
      BY <1>1, <1>2, <2>1 DEF Asking
    <2>3. Handled(s, {ResultOf(s.to, s.from, {})})
      BY <2>1, <2>2 DEF SameQueryReply
    <2> QED
      BY <1>2, <1>3, <2>1, <2>2, <2>3, ReplyStep
  <1>5. CASE HandleLeaf(s)
    <2> DEFINE R == Found(graph, s.to)
    <2>1. s.result = None /\ ~Registered(s.to) /\ Asked(graph, s.to) = {} /\ Reply(s, s.to, s.from, R)
          /\ UNCHANGED <<problem, context, aggregator, answer>>
      BY <1>5 DEF HandleLeaf
    <2>2. R \in SUBSET Result(graph, query)
      BY <1>1, Processes DEF OnlyReached
    <2>3. CASE s.from # None
      <3>1. Handled(s, {ResultOf(s.to, s.from, R)}) /\ channel' = channel
        BY <2>1, <2>3 DEF Reply
      <3> QED
        BY <1>2, <2>1, <2>2, <2>3, <3>1, ReplyStep
    <2>4. CASE s.from = None
      <3>1. s.to = query /\ Sent = {s} /\ \A x \in Universe : ~Registered(x)
        BY <1>1, <1>2, <2>1, <2>4, NobodyElse
      <3>2. R = Result(graph, query)
        BY <2>1, <3>1, AloneHasAll
      <3>3. Handled(s, {}) /\ channel' \in {channel, Append(channel, R)}
        BY <2>1, <2>4 DEF Reply
      <3>4. context' \in [Universe -> {None}]
        BY <2>1, <3>1 DEF TypeOK, Registered
      <3> QED
        BY <1>1, <2>1, <3>1, <3>2, <3>3, <3>4, FirstRepliesStep
    <2> QED
      BY <2>3, <2>4
  <1>6. CASE HandleQuery(s)
    BY <1>6, HandleQueryStep
  <1>7. CASE HandleResult(s)
    <2> DEFINE p == s.to
               total == context[p].result \cup s.result
    <2>1. s.result # None /\ UNCHANGED <<problem, aggregator, answer>>
      BY <1>7 DEF HandleResult
    <2>2. p \in Universe /\ context[p] \in Waiting /\ context[p] # None
      BY <2>1, ReplyIsDue, Processes
    <2>3. CASE context[p].callbacks # 1
      <3>1. /\ context' = [context EXCEPT ![s.to].callbacks = @ - 1,
                                          ![s.to].result = context[s.to].result \cup s.result]
            /\ Handled(s, {}) /\ UNCHANGED channel
        BY <1>7, <2>1, <2>2, <2>3 DEF HandleResult, IsLast
      <3> QED
        BY <2>1, <2>3, <3>1, EarlyReplyStep
    <2>4. CASE context[p].callbacks = 1
      <3>1. context' = [context EXCEPT ![p] = None] /\ Reply(s, p, context[p].from, total)
        BY <1>7, <2>1, <2>2, <2>4 DEF HandleResult, IsLast
      <3>2. CASE context[p].from # None
        <4>1. context[p].from \in Universe
          BY <2>2, <3>2 DEF Waiting
        <4>2. Handled(s, {ResultOf(p, context[p].from, total)}) /\ UNCHANGED channel
          BY <3>1, <3>2 DEF Reply
        <4> QED
          BY <2>1, <2>4, <3>1, <4>1, <4>2, LastReplyStep
      <3>3. CASE context[p].from = None
        <4>1. p = query
          BY <2>2, <3>3, Processes DEF Asking, Registered
        <4>2. Handled(s, {}) /\ channel' \in {channel, Append(channel, total)}
          BY <3>1, <3>3 DEF Reply
        <4>3. /\ \A x \in Universe : Registered(x) => x = query
              /\ Sent = {s} /\ total = Result(graph, query)
          BY <2>1, <2>4, <4>1, FirstHasAll
        <4>4. context' \in [Universe -> {None}]
          BY <2>2, <3>1, <4>1, <4>3 DEF TypeOK, Registered
        <4> QED
          BY <1>1, <2>1, <4>2, <4>3, <4>4, FirstRepliesStep
      <3> QED
        BY <3>2, <3>3
    <2> QED
      BY <2>3, <2>4
  <1> QED
    BY <1>4, <1>5, <1>6, <1>7 DEF Handle

LEMMA RootStep ==
    ASSUME IInv, Root PROVE IInv'
  <1> USE DEF IInv
  <1> DEFINE first == Query(query, None)
  <1>1. /\ graph' = graph /\ query' = query /\ Universe' = Universe /\ Waiting' = Waiting
        /\ context' = context /\ channel' = channel /\ answer' = answer
        /\ aggregator = "none" /\ aggregator' = "signalled" /\ Handled(None, {first})
    BY ProblemStays DEF Root
  <1>2. Sent = {} /\ \A x \in Universe : ~Registered(x)
    BY <1>1 DEF Phases
  <1>3. Sent' = {first} /\ signals' \cap lost' = {}
    BY <1>1, <1>2 DEF Sent, Handled
  <1>4. first.to = query /\ first.from = None /\ first.result = None /\ query \in Universe /\ first \in Message
    BY Processes DEF Query, Message
  <1> HIDE DEF first
  <1>5. \A x \in Universe : ~Registered(x)'
    BY <1>1, <1>2 DEF Registered
  <1>6. TypeOK'
    BY <1>1, <1>3, <1>4 DEF TypeOK, Sent, Message
  <1>7. Phases'
    BY <1>1 DEF Phases
  <1>8. Asking'
    <2>1. Query(query, None)' = first
      BY <1>1 DEF Query, first
    <2> QED
      BY <1>1, <1>3, <1>4, <1>5, <2>1 DEF Asking
  <1>9. Once'
    BY <1>1, <1>3, <1>4, <1>5, FS_Singleton DEF Once, IsChild, Replies
  <1>10. Rooted' /\ Covered'
    BY <1>1, <1>4, <1>5 DEF Rooted, Covered
  <1>11. CountersMatch'
    BY <1>1, <1>5 DEF CountersMatch, Registered
  <1>12. OnlyReached'
    BY <1>1, <1>3, <1>4, <1>5, Processes DEF OnlyReached, Collected
  <1> QED
    BY <1>6, <1>7, <1>8, <1>9, <1>10, <1>11, <1>12

\* Signals and contexts stay as they are.
LEMMA OtherStep ==
    ASSUME IInv, Subscribe \/ Receive \/ Timeout \/ UNCHANGED vars PROVE IInv'
  <1> USE DEF IInv
  <1>1. /\ graph' = graph /\ query' = query /\ Universe' = Universe /\ Waiting' = Waiting
        /\ signals' = signals /\ lost' = lost /\ context' = context /\ channel' = channel
    BY ProblemStays DEF Subscribe, Receive, Timeout, vars, problem
  <1>2. Sent' = Sent /\ \A x : (Registered(x)' <=> Registered(x)) /\ \A p :
           /\ IsChild(x, p)' <=> IsChild(x, p)
           /\ Replies(x, p)' = Replies(x, p) /\ Query(x, p)' = Query(x, p)
    BY <1>1 DEF Sent, Registered, IsChild, Replies, Query
  <1>3. Collected' = Collected
    BY <1>1, <1>2 DEF Collected
  <1>4. TypeOK' /\ Phases'
    <2>1. channel # <<>> => Head(channel) = Result(graph, query)
      BY DEF TypeOK, Phases
    <2>2. aggregator' \in {"none", "signalled", "wait", "end"}
      BY DEF Subscribe, Receive, Timeout, vars, TypeOK
    <2>3. IF aggregator' = "end" THEN answer' \in {Result(graph, query), Failed} ELSE answer' = None
      BY <2>1 DEF Subscribe, Receive, Timeout, vars, Phases
    <2>4. aggregator' = "none" => aggregator = "none"
      BY DEF Subscribe, Receive, Timeout, vars
    <2>5. answer' \in {None, Failed} \cup SUBSET Vertex
      BY <2>3, Processes
    <2>6. TypeOK'
      BY <1>1, <2>2, <2>5 DEF TypeOK
    <2>7. Phases'
      BY <1>1, <1>2, <2>3, <2>4 DEF Phases
    <2> QED
      BY <2>6, <2>7
  <1>5. Asking'
    BY <1>1, <1>2 DEF Asking
  <1>6. Once'
    BY <1>1, <1>2 DEF Once
  <1>7. Rooted' /\ OnlyReached'
    BY <1>1, <1>2, <1>3 DEF Rooted, OnlyReached
  <1>8. CountersMatch'
    BY <1>1 DEF CountersMatch
  <1>9. \A E : Covering(E)' <=> Covering(E)
    BY <1>1, <1>2, <1>3 DEF Covering
  <1>10. Covered'
    BY <1>1, <1>2, <1>9 DEF Covered
  <1> QED
    BY <1>4, <1>5, <1>6, <1>7, <1>8, <1>10

-----------------------------------------------------------------------------
(* The theorems                                                            *)

LEMMA Initially ==
    ASSUME Init PROVE IInv
  <1>1. /\ Sent = {} /\ \A x \in Universe : ~Registered(x)
    BY DEF Init, Sent, Registered
  <1>2. TypeOK
    BY DEF Init, TypeOK
  <1>3. query \in Universe
    BY <1>2, Processes
  <1>4. Phases
    BY <1>1 DEF Init, Phases
  <1>5. Asking /\ Rooted /\ Covered
    BY <1>1, <1>3 DEF Asking, Rooted, Covered
  <1>6. Once
    <2>1. signals \cap lost = {}
      BY DEF Init
    <2> QED
      BY <1>1, <2>1, FS_EmptySet DEF Once, IsChild, Replies
  <1>7. CountersMatch
    BY <1>1 DEF CountersMatch, Registered
  <1>8. OnlyReached
    BY <1>1 DEF OnlyReached, Collected
  <1> QED
    BY <1>2, <1>4, <1>5, <1>6, <1>7, <1>8 DEF IInv

LEMMA Invariance == Spec => []IInv
  <1>1. Init => IInv
    BY Initially
  <1>2. ASSUME IInv, [Next]_vars PROVE IInv'
    <2>1. ASSUME Next PROVE IInv'
      BY <1>2, <2>1, RootStep, HandleStep, OtherStep DEF Next, Aggregate
    <2>2. ASSUME UNCHANGED vars PROVE IInv'
      BY <1>2, <2>2, OtherStep
    <2> QED
      BY <1>2, <2>1, <2>2
  <1> QED
    BY <1>1, <1>2, PTL DEF Spec

\* The state of a query stays well typed: in particular the counter of a process
\* that waits is never zero, so that subtracting from it is safe.
THEOREM TypeCorrect == Spec => []TypeOK
  <1>1. IInv => TypeOK
    BY DEF IInv
  <1> QED
    BY <1>1, Invariance, PTL

\* A counter is the number of replies still due, on every graph: those that
\* are lost keep a process waiting, and none is counted twice.
THEOREM CountersAreRight == Spec => []CountersMatch
  <1>1. IInv => CountersMatch
    BY DEF IInv
  <1> QED
    BY <1>1, Invariance, PTL

\* The operators of JPGQL are the same in both modules.
LEMMA SameResult ==
    ASSUME NEW g, NEW p PROVE Q!Result(g, p) = Result(g, p)
  <1>1. \A h, v, t, f : Q!Objects(h, v, t, f) = Objects(h, v, t, f)
    BY DEF Q!Objects, Objects
  <1>2. \A h, x : Q!Stops(h, x) = Stops(h, x) /\ Q!Passed(h, x) = Passed(h, x)
    BY <1>1 DEF Q!Stops, Stops, Q!Passed, Passed
  <1>3. \A h, x : Q!Found(h, x) = Found(h, x) /\ Q!Asked(h, x) = Asked(h, x)
    BY <1>2 DEF Q!Found, Found, Q!Asked, Asked
  <1>4. \A x : Q!Parts(x) = Parts(x)
    BY DEF Q!Parts, Parts
  <1>5. \A h, S : Q!Closed(h, S) <=> Closed(h, S)
    BY <1>3 DEF Q!Closed, Closed
  <1>6. Q!Reached(g, p) = Reached(g, p)
    BY <1>4, <1>5 DEF Q!Reached, Reached
  <1> QED
    BY <1>3, <1>6 DEF Q!Result, Result

\* The one answer is the exact result of the query on its graph, or a failure,
\* however many cycles the graph has.
THEOREM AnswersExactly == Spec => ImplementsQuery
  <1>1. Init => Q!Init
    BY DEF Init, Q!Init
  <1>2. ASSUME IInv, [Next]_vars PROVE [Q!Answer]_<<graph, query, answer>>
    <2>1. CASE Receive \/ Timeout
      <3>1. aggregator = "wait" /\ aggregator' = "end" /\ UNCHANGED <<graph, query>>
        BY <2>1 DEF Receive, Timeout, problem
      <3>2. answer = None
        BY <1>2, <3>1 DEF IInv, Phases
      <3>3. answer' \in {Result(graph, query), Failed}
        <4>1. channel # <<>> => Head(channel) = Result(graph, query)
          BY <1>2 DEF IInv, TypeOK, Phases
        <4> QED
          BY <2>1, <4>1 DEF Receive, Timeout
      <3> QED
        BY <3>1, <3>2, <3>3, SameResult DEF Q!Answer
    <2>2. CASE [Next]_vars /\ ~(Receive \/ Timeout)
      <3>1. UNCHANGED <<problem, answer>>
        BY <2>2 DEF Next, vars, Root, Handle, HandleAgain, HandleLeaf, HandleQuery, HandleResult,
                    Aggregate, Subscribe
      <3> QED
        BY <3>1 DEF problem
    <2> QED
      BY <1>2, <2>1, <2>2
  <1> QED
    BY <1>1, <1>2, Invariance, PTL DEF Spec, ImplementsQuery, Q!Spec

\* Whenever the query has a result, it is what the documentation of the
\* language says, for all graphs and queries.
THEOREM AnswersHaveMeaning == Spec => []AnswerHasMeaning
  <1>1. IInv => AnswerHasMeaning
    <2> SUFFICES ASSUME IInv, answer \notin {None, Failed} PROVE answer = Meaning(graph, query)
      BY DEF AnswerHasMeaning
    <2>1. answer = Result(graph, query)
      BY DEF IInv, Phases
    <2>2. graph \in SUBSET Link /\ query \in Process
      BY GraphsAreGraphs, QueriesAreProcesses DEF IInv, TypeOK
    <2> QED
      BY <2>1, <2>2, VerticesAreFinite, ResultIsMeaning
  <1> QED
    BY <1>1, Invariance, PTL
=============================================================================

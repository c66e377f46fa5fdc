--------------------------- MODULE AnalysisProofs ---------------------------
(***************************************************************************)
(* Proofs about what Merger computes about a change: the runtime graph     *)
(* traversal (RuntimeGraph), policy evaluation (PolicyEngine), the change  *)
(* analysis (ChangeAnalysis) and the calibration report (Calibration).     *)
(***************************************************************************)
EXTENDS PolicyEngine, RuntimeGraph, ChangeAnalysis, Calibration, Integers, FiniteSetTheorems,
        FunctionTheorems, SequenceTheorems, WellFoundedInduction, TLAPS

-----------------------------------------------------------------------------
(* Lemmas about numbers and sequences. *)

\* A nonempty set of natural numbers has a least element.
LEMMA HasLeast ==
    ASSUME NEW T, T \subseteq Nat, T # {}
    PROVE  \E x \in T : \A y \in T : x <= y
<1>1. \E x \in T : \A y \in T : ~(<<y, x>> \in OpToRel(<, Nat))
    BY NatLessThanWellFounded, WFMin
<1>2. PICK x \in T : \A y \in T : ~(<<y, x>> \in OpToRel(<, Nat))
    BY <1>1
<1>3. \A y \in T : ~(y < x)
    BY <1>2 DEF OpToRel
<1> QED BY <1>3

\* An order of a finite set lists each of its elements once.
LEMMA OrderFacts ==
    ASSUME NEW S, IsFiniteSet(S), NEW s \in SetToSeqs(S)
    PROVE  /\ s \in Seq(S) /\ ToSet(s) = S
           /\ \A i, j \in 1..Len(s) : s[i] = s[j] => i = j
<1> DEFINE D == 1..Cardinality(S)
<1>1. /\ Cardinality(S) \in Nat /\ s \in [D -> S]
      /\ \A i, j \in D : i # j => s[i] # s[j]
    BY FS_CardinalityType DEF SetToSeqs
<1>2. s \in Seq(S) /\ Len(s) = Cardinality(S) /\ DOMAIN s = D
    BY <1>1
<1>3. s \in Injection(D, S)
    BY <1>1 DEF Injection, IsInjective
<1>4. Cardinality(D) = Cardinality(S)
    BY <1>1, FS_Interval
<1>5. s \in Surjection(D, S)
    BY <1>3, <1>4, FS_Injection
<1>6. ToSet(s) = S
    BY <1>1, <1>2, <1>5 DEF Surjection, ToSet
<1> QED BY <1>1, <1>2, <1>6

LEMMA MembersAre ==
    ASSUME NEW S, NEW s \in Seq(S)
    PROVE  \A x : x \in ToSet(s) <=> \E i \in 1..Len(s) : x = s[i]
    BY DEF ToSet

LEMMA WiderSeq ==
    ASSUME NEW S, NEW T, S \subseteq T, NEW s \in Seq(S)
    PROVE  s \in Seq(T)
<1>1. \A i \in 1..Len(s) : s[i] \in T
    OBVIOUS
<1>2. s = [i \in 1..Len(s) |-> s[i]] /\ Len(s) \in Nat
    OBVIOUS
<1>3. s \in [1..Len(s) -> T]
    BY <1>1, <1>2
<1> QED BY <1>2, <1>3

\* The positions of Tail(q) \o s: those of q, one earlier, then those of s.
Moved(q, s, r) ==
    /\ Len(r) = Len(q) - 1 + Len(s)
    /\ \A i \in 1..Len(r) : i < Len(q) => r[i] = q[i + 1]
    /\ \A i \in 1..Len(r) : i >= Len(q) => r[i] = s[i - Len(q) + 1]

LEMMA TailThen ==
    ASSUME NEW S, NEW q \in Seq(S), q # <<>>, NEW s \in Seq(S), NEW r, r = Tail(q) \o s
    PROVE  r \in Seq(S) /\ Moved(q, s, r)
<1>1. /\ Tail(q) \in Seq(S) /\ Len(Tail(q)) = Len(q) - 1 /\ Len(q) \in Nat \ {0} /\ Len(s) \in Nat
      /\ \A i \in 1..(Len(q) - 1) : Tail(q)[i] = q[i + 1]
    OBVIOUS
<1>2. PICK t \in Seq(S) : t = Tail(q)
    BY <1>1
<1>3. /\ t \o s \in Seq(S) /\ Len(t \o s) = Len(t) + Len(s)
      /\ \A i \in 1..(Len(t) + Len(s)) :
            (t \o s)[i] = IF i <= Len(t) THEN t[i] ELSE s[i - Len(t)]
    BY ConcatProperties
<1> QED BY <1>1, <1>2, <1>3 DEF Moved

-----------------------------------------------------------------------------
(* The inductive invariant. *)

\* The input never changes; it is one that the constants allow.
InputOK ==
    /\ resolution.graph \in Manifests
    /\ resolution.options.depth \in Int

Limit == MaxDepth(resolution.options.depth)

WalkType ==
    /\ walk = [on |-> walk.on, queue |-> walk.queue, visited |-> walk.visited,
               depth |-> walk.depth, systems |-> walk.systems, criticality |-> walk.criticality]
    /\ walk.on \in BOOLEAN /\ walk.queue \in Seq(NodeIDs) /\ walk.visited \subseteq NodeIDs
    /\ walk.depth \in [NodeIDs -> Nat]

\* The queue holds visited ids, each once, in the order of their depths, which
\* span two levels at most; nothing visited lies deeper.
InLevels(queue, visited, depth) ==
    /\ \A i, j \in 1..Len(queue) : queue[i] = queue[j] => i = j
    /\ \A i \in 1..Len(queue) : queue[i] \in visited
    /\ \A i, j \in 1..Len(queue) : i <= j => depth[queue[i]] <= depth[queue[j]]
    /\ queue # <<>> => \A id \in visited : depth[id] <= depth[queue[1]] + 1

\* A depth is the length of a walk from a touched node.
DepthsAreWalks(visited, depth) ==
    /\ Affected \subseteq visited
    /\ \A id \in Affected : depth[id] = 0
    /\ \A id \in visited : depth[id] <= Limit /\ Joined(id, depth[id])

\* The neighbours of what was taken from the queue have been met, no deeper
\* than one edge on.
NeighboursMet(processed, visited, depth) ==
    \A id \in processed : depth[id] < Limit =>
        \A next \in Adjacent(id) : next \in visited /\ depth[next] <= depth[id] + 1

\* What was taken from the queue is what is reported.
Reported(processed, systems, criticality) ==
    /\ systems = processed \cap resolution.graph.nodes
    /\ \A id \in systems :
        criticalityRank(resolution.graph.rank[id]) <= criticalityRank(criticality)
    /\ criticality # "" => \E id \in systems : resolution.graph.rank[id] = criticality

Processed == walk.visited \ ToSet(walk.queue)

WalkInv ==
    /\ InputOK /\ WalkType
    /\ walk.on =>
        /\ InLevels(walk.queue, walk.visited, walk.depth)
        /\ DepthsAreWalks(walk.visited, walk.depth)
        /\ NeighboursMet(Processed, walk.visited, walk.depth)
        /\ Reported(Processed, walk.systems, walk.criticality)

-----------------------------------------------------------------------------

LEMMA LimitType == ASSUME InputOK PROVE Limit \in Nat \ {0}
    BY DEF InputOK, Limit, MaxDepth

\* Edges join ids.
LEMMA AdjacentType ==
    ASSUME ManifestsOverIDs, InputOK, NEW id
    PROVE  Adjacent(id) \subseteq NodeIDs
    BY DEF ManifestsOverIDs, InputOK, Adjacent

LEMMA AffectedType ==
    ASSUME ManifestsOverIDs, InputOK
    PROVE  Affected \subseteq NodeIDs
    BY DEF ManifestsOverIDs, InputOK, Affected

\* A walk goes on over one more edge.
LEMMA WalkOn ==
    ASSUME ManifestsOverIDs, InputOK, NEW n \in Nat, NEW id, Joined(id, n), NEW next \in Adjacent(id)
    PROVE  Joined(next, n + 1)
<1>1. PICK path \in [0..n -> NodeIDs] : IsWalk(path, n) /\ path[n] = id
    BY DEF Joined
<1> DEFINE longer == [i \in 0..(n + 1) |-> IF i = n + 1 THEN next ELSE path[i]]
<1>2. next \in NodeIDs
    BY AdjacentType
<1>3. longer \in [0..(n + 1) -> NodeIDs]
    BY <1>1, <1>2
<1>4. longer[0] \in Affected /\ longer[n + 1] = next
    BY <1>1 DEF IsWalk
<1>5. ASSUME NEW i \in 1..(n + 1)
      PROVE  longer[i] \in Adjacent(longer[i - 1])
    <2>1. CASE i = n + 1
        BY <1>1, <2>1
    <2>2. CASE i # n + 1
        <3>1. i \in 1..n /\ i - 1 \in 0..(n + 1) /\ i - 1 # n + 1 /\ i \in 0..(n + 1)
            BY <2>2
        <3>2. longer[i] = path[i] /\ longer[i - 1] = path[i - 1]
            BY <3>1, <2>2
        <3> QED BY <1>1, <3>1, <3>2 DEF IsWalk
    <2> QED BY <2>1, <2>2
<1>6. IsWalk(longer, n + 1)
    BY <1>4, <1>5 DEF IsWalk
<1> HIDE DEF longer
<1> QED BY <1>3, <1>4, <1>6 DEF Joined

\* A touched node is joined to itself.
LEMMA WalkStarts ==
    ASSUME ManifestsOverIDs, InputOK, NEW id \in Affected
    PROVE  Joined(id, 0)
<1> DEFINE path == [i \in 0..0 |-> id]
<1>1. path \in [0..0 -> NodeIDs] /\ path[0] = id
    BY AffectedType
<1>2. IsWalk(path, 0)
    BY <1>1 DEF IsWalk
<1> QED BY <1>1, <1>2 DEF Joined

\* The input decides everything but how far the traversal is.
LEMMA InputStays ==
    ASSUME InputOK, resolution' = resolution
    PROVE  /\ InputOK'
           /\ \A V, d : DepthsAreWalks(V, d)' = DepthsAreWalks(V, d)
           /\ \A P, V, d : NeighboursMet(P, V, d)' = NeighboursMet(P, V, d)
           /\ \A P, S, c : Reported(P, S, c)' = Reported(P, S, c)
<1>1. InputOK' /\ Limit' = Limit /\ Affected' = Affected
    BY DEF InputOK, Limit, Affected
<1>2. \A id : Adjacent(id)' = Adjacent(id)
    BY DEF Adjacent
<1>3. \A id, n : Joined(id, n)' = Joined(id, n)
    BY <1>1, <1>2 DEF Joined, IsWalk
<1> QED BY <1>1, <1>2, <1>3 DEF DepthsAreWalks, NeighboursMet, Reported

\* The invariant of the next state, from what its walk is made of.
LEMMA NextWalk ==
    ASSUME InputOK, resolution' = resolution,
           NEW q \in Seq(NodeIDs), NEW V \in SUBSET NodeIDs, NEW d \in [NodeIDs -> Nat], NEW S, NEW c,
           walk' = [on |-> TRUE, queue |-> q, visited |-> V, depth |-> d, systems |-> S, criticality |-> c],
           InLevels(q, V, d), DepthsAreWalks(V, d), NeighboursMet(V \ ToSet(q), V, d),
           Reported(V \ ToSet(q), S, c)
    PROVE  WalkInv'
<1>1. /\ walk'.on = TRUE /\ walk'.queue = q /\ walk'.visited = V /\ walk'.depth = d
      /\ walk'.systems = S /\ walk'.criticality = c
    OBVIOUS
<1>2. WalkType'
    BY <1>1 DEF WalkType
<1>3. InLevels(walk.queue, walk.visited, walk.depth)' = InLevels(q, V, d)
    BY <1>1 DEF InLevels
<1>4. InputOK' /\ DepthsAreWalks(V, d)' = DepthsAreWalks(V, d)
      /\ NeighboursMet(V \ ToSet(q), V, d)' = NeighboursMet(V \ ToSet(q), V, d)
      /\ Reported(V \ ToSet(q), S, c)' = Reported(V \ ToSet(q), S, c)
    BY InputStays
<1>5. Processed' = V \ ToSet(q)
    BY <1>1 DEF Processed
<1>6. /\ DepthsAreWalks(walk.visited, walk.depth)'
      /\ NeighboursMet(Processed, walk.visited, walk.depth)'
      /\ Reported(Processed, walk.systems, walk.criticality)'
    BY <1>1, <1>4, <1>5 DEF DepthsAreWalks, NeighboursMet, Reported
<1> QED BY <1>1, <1>2, <1>3, <1>4, <1>6 DEF WalkInv

\* The traversal starts with the touched nodes in some order.
LEMMA WalkBegins ==
    ASSUME ManifestsOverIDs, WalkInv, resolution' = resolution,
           NEW listing \in SetToSeqs(Affected),
           walk' = [Idle EXCEPT !.on = TRUE, !.queue = listing, !.visited = Affected]
    PROVE  WalkInv'
<1>1. PICK A \in SUBSET NodeIDs : A = Affected
    BY AffectedType DEF WalkInv
<1>2. IsFiniteSet(A) /\ listing \in SetToSeqs(A)
    BY <1>1, FS_Subset DEF ManifestsOverIDs
<1>3. /\ listing \in Seq(A) /\ ToSet(listing) = A
      /\ \A i, j \in 1..Len(listing) : listing[i] = listing[j] => i = j
    BY <1>2, OrderFacts
<1>4. listing \in Seq(NodeIDs)
    BY <1>3, WiderSeq
<1> DEFINE zero == [id \in NodeIDs |-> 0]
<1>0. zero \in [NodeIDs -> Nat] /\ \A id \in NodeIDs : zero[id] = 0
    OBVIOUS
<1>5. PICK d \in [NodeIDs -> Nat] : d = zero /\ \A id \in NodeIDs : d[id] = 0
    BY <1>0
<1>6. walk' = [on |-> TRUE, queue |-> listing, visited |-> A, depth |-> d, systems |-> {},
               criticality |-> ""]
    BY <1>1, <1>5 DEF Idle
<1>7. InLevels(listing, A, d)
    <2>1. \A i \in 1..Len(listing) : listing[i] \in A /\ d[listing[i]] = 0
        BY <1>3, <1>5
    <2>2. listing # <<>> => 1 \in 1..Len(listing)
        BY <1>3
    <2> QED BY <1>3, <1>5, <2>1, <2>2 DEF InLevels
<1>8. DepthsAreWalks(A, d)
    <2>1. \A id \in A : Joined(id, 0)
        BY <1>1, WalkStarts DEF WalkInv
    <2>2. Limit \in Nat \ {0}
        BY LimitType DEF WalkInv
    <2> QED BY <1>1, <1>5, <2>1, <2>2 DEF DepthsAreWalks
<1>9. A \ ToSet(listing) = {}
    BY <1>3
<1>10. NeighboursMet(A \ ToSet(listing), A, d) /\ Reported(A \ ToSet(listing), {}, "")
    BY <1>9 DEF NeighboursMet, Reported
<1>11. InputOK
    BY DEF WalkInv
<1> QED BY <1>4, <1>5, <1>6, <1>7, <1>8, <1>10, <1>11, NextWalk

OnceEach(s) == \A i, j \in 1..Len(s) : s[i] = s[j] => i = j

\* Taking the head h from the queue and appending the order of F.
LEMMA QueueMembers ==
    ASSUME NEW S, NEW q \in Seq(S), q # <<>>, NEW s \in Seq(S), NEW r \in Seq(S),
           Moved(q, s, r), OnceEach(q)
    PROVE  ToSet(r) = (ToSet(q) \ {q[1]}) \cup ToSet(s)
<1>1. /\ r \in Seq(S) /\ Len(r) = Len(q) - 1 + Len(s)
      /\ \A i \in 1..Len(r) : i < Len(q) => r[i] = q[i + 1]
      /\ \A i \in 1..Len(r) : i >= Len(q) => r[i] = s[i - Len(q) + 1]
    BY DEF Moved
<1>2. Len(q) \in Nat \ {0} /\ Len(s) \in Nat
    OBVIOUS
<1>0. \A x : x \in ToSet(r) <=> \E i \in 1..Len(r) : x = r[i]
    BY MembersAre
<1>3. ASSUME NEW x \in ToSet(r) PROVE x \in (ToSet(q) \ {q[1]}) \cup ToSet(s)
    <2>1. PICK i \in 1..Len(r) : x = r[i]
        BY <1>0, <1>3
    <2>2. CASE i < Len(q)
        <3>1. i + 1 \in 1..Len(q) /\ i + 1 # 1 /\ 1 \in 1..Len(q)
            BY <1>2, <2>2
        <3>2. x = q[i + 1] /\ q[i + 1] # q[1]
            BY <1>1, <2>1, <2>2, <3>1 DEF OnceEach
        <3> QED BY <3>1, <3>2, MembersAre
    <2>3. CASE i >= Len(q)
        <3>1. i - Len(q) + 1 \in 1..Len(s)
            BY <1>1, <1>2, <2>3
        <3>2. x = s[i - Len(q) + 1]
            BY <1>1, <2>1, <2>3
        <3> QED BY <3>1, <3>2, MembersAre
    <2> QED BY <1>2, <2>2, <2>3
<1>4. ASSUME NEW x \in ToSet(q), x # q[1] PROVE x \in ToSet(r)
    <2>1. PICK i \in 1..Len(q) : x = q[i]
        BY <1>4, MembersAre
    <2>2. i # 1
        BY <1>4, <2>1
    <2>3. i - 1 \in 1..Len(r) /\ i - 1 < Len(q) /\ (i - 1) + 1 = i
        BY <1>1, <1>2, <2>2
    <2>4. r[i - 1] = x
        BY <1>1, <2>1, <2>3
    <2> QED BY <1>1, <2>3, <2>4, MembersAre
<1>5. ASSUME NEW x \in ToSet(s) PROVE x \in ToSet(r)
    <2>1. PICK i \in 1..Len(s) : x = s[i]
        BY <1>5, MembersAre
    <2>2. /\ i + Len(q) - 1 \in 1..Len(r) /\ i + Len(q) - 1 >= Len(q)
          /\ (i + Len(q) - 1) - Len(q) + 1 = i
        BY <1>1, <1>2
    <2>3. r[i + Len(q) - 1] = x
        BY <1>1, <2>1, <2>2
    <2> QED BY <1>1, <2>2, <2>3, MembersAre
<1> QED BY <1>3, <1>4, <1>5

(***************************************************************************)
(* The levels stay in order: new ids lie one level below the head, and     *)
(* nothing visited lies lower than that.                                   *)
(***************************************************************************)
LEMMA LevelsStay ==
    ASSUME NEW q \in Seq(NodeIDs), q # <<>>, NEW V \in SUBSET NodeIDs, NEW D \in [NodeIDs -> Nat],
           NEW F \in SUBSET NodeIDs, F \cap V = {}, NEW s \in Seq(F),
           \A i, j \in 1..Len(s) : s[i] = s[j] => i = j,
           NEW d \in [NodeIDs -> Nat],
           \A x \in V : d[x] = D[x], \A x \in F : d[x] = D[q[1]] + 1,
           NEW r \in Seq(NodeIDs), Moved(q, s, r), InLevels(q, V, D)
    PROVE  InLevels(r, V \cup F, d)
<1>1. s \in Seq(NodeIDs)
    BY WiderSeq
<1>2. /\ r \in Seq(NodeIDs) /\ Len(r) = Len(q) - 1 + Len(s)
      /\ \A i \in 1..Len(r) : i < Len(q) => r[i] = q[i + 1]
      /\ \A i \in 1..Len(r) : i >= Len(q) => r[i] = s[i - Len(q) + 1]
    BY DEF Moved
<1>3. Len(q) \in Nat \ {0} /\ Len(s) \in Nat /\ 1 \in 1..Len(q)
    OBVIOUS
<1>4. /\ \A i, j \in 1..Len(q) : q[i] = q[j] => i = j
      /\ \A i \in 1..Len(q) : q[i] \in V
      /\ \A i, j \in 1..Len(q) : i <= j => D[q[i]] <= D[q[j]]
      /\ \A x \in V : D[x] <= D[q[1]] + 1
    BY DEF InLevels
<1>5. ASSUME NEW i \in 1..Len(r), i < Len(q)
      PROVE  /\ i + 1 \in 1..Len(q) /\ r[i] = q[i + 1] /\ r[i] \in V
             /\ d[r[i]] = D[q[i + 1]] /\ d[r[i]] <= D[q[1]] + 1 /\ D[q[1]] <= d[r[i]]
    <2>1. i + 1 \in 1..Len(q) /\ 1 <= i + 1
        BY <1>3, <1>5
    <2>2. r[i] = q[i + 1] /\ q[i + 1] \in V
        BY <1>2, <1>4, <1>5, <2>1
    <2>3. d[r[i]] = D[q[i + 1]] /\ D[q[i + 1]] <= D[q[1]] + 1
        BY <1>4, <2>2
    <2>4. D[q[1]] <= D[q[i + 1]]
        BY <1>3, <1>4, <2>1
    <2> QED BY <2>1, <2>2, <2>3, <2>4
<1>6. ASSUME NEW i \in 1..Len(r), i >= Len(q)
      PROVE  /\ i - Len(q) + 1 \in 1..Len(s) /\ r[i] = s[i - Len(q) + 1] /\ r[i] \in F
             /\ d[r[i]] = D[q[1]] + 1
    <2>0. PICK a \in Nat \ {0}, b \in Nat : a = Len(q) /\ b = Len(s)
        BY <1>3
    <2>1. i - Len(q) + 1 \in 1..Len(s)
        <3>1. i \in 1..(a - 1 + b) /\ i >= a
            BY <1>2, <1>6, <2>0
        <3>2. i - a + 1 \in 1..b
            BY <3>1
        <3> QED BY <2>0, <3>2
    <2>2. s[i - Len(q) + 1] \in F
        BY <2>1
    <2> QED BY <1>2, <1>6, <2>1, <2>2
<1>7. D[q[1]] \in Nat
    BY <1>3
<1>8. ASSUME NEW i \in 1..Len(r), NEW j \in 1..Len(r), r[i] = r[j]
      PROVE  i = j
    <2>1. CASE i < Len(q) /\ j < Len(q)
        <3>1. q[i + 1] = q[j + 1] /\ i + 1 \in 1..Len(q) /\ j + 1 \in 1..Len(q)
            BY <1>5, <1>8, <2>1
        <3>2. i + 1 = j + 1
            BY <1>4, <3>1
        <3> QED BY <3>2
    <2>2. CASE i >= Len(q) /\ j >= Len(q)
        <3>1. /\ s[i - Len(q) + 1] = s[j - Len(q) + 1]
              /\ i - Len(q) + 1 \in 1..Len(s) /\ j - Len(q) + 1 \in 1..Len(s)
            BY <1>6, <1>8, <2>2
        <3>2. i - Len(q) + 1 = j - Len(q) + 1
            BY <3>1
        <3> QED BY <1>3, <3>2
    <2>3. CASE (i < Len(q) /\ j >= Len(q)) \/ (i >= Len(q) /\ j < Len(q))
        <3>1. (r[i] \in V /\ r[j] \in F) \/ (r[i] \in F /\ r[j] \in V)
            BY <1>5, <1>6, <2>3
        <3> QED BY <1>8, <3>1
    <2>4. (i < Len(q) \/ i >= Len(q)) /\ (j < Len(q) \/ j >= Len(q))
        BY <1>3
    <2> QED BY <2>1, <2>2, <2>3, <2>4, Zenon
<1>9. ASSUME NEW i \in 1..Len(r) PROVE r[i] \in V \cup F
    <2>1. CASE i < Len(q)
        BY <1>5, <2>1
    <2>2. CASE i >= Len(q)
        BY <1>6, <2>2
    <2> QED BY <1>3, <2>1, <2>2
<1>10. ASSUME NEW i \in 1..Len(r), NEW j \in 1..Len(r), i <= j
       PROVE  d[r[i]] <= d[r[j]]
    <2>0. Len(r) \in Nat /\ r[i] \in NodeIDs /\ r[j] \in NodeIDs
        BY <1>9
    <2>1. CASE j < Len(q)
        <3>1. i < Len(q) /\ i + 1 <= j + 1
            BY <1>3, <1>10, <2>0, <2>1
        <3>2. i + 1 \in 1..Len(q) /\ j + 1 \in 1..Len(q)
              /\ d[r[i]] = D[q[i + 1]] /\ d[r[j]] = D[q[j + 1]]
            BY <1>5, <2>1, <3>1
        <3> QED BY <1>4, <3>1, <3>2
    <2>2. CASE j >= Len(q) /\ i < Len(q)
        <3>1. d[r[i]] <= D[q[1]] + 1
            BY <1>5, <2>2
        <3>2. d[r[j]] = D[q[1]] + 1
            BY <1>6, <2>2
        <3> QED BY <3>1, <3>2
    <2>3. CASE j >= Len(q) /\ i >= Len(q)
        <3>1. d[r[i]] = D[q[1]] + 1 /\ d[r[j]] = D[q[1]] + 1
            BY <1>6, <2>3
        <3> QED BY <1>7, <3>1
    <2>4. (i < Len(q) \/ i >= Len(q)) /\ (j < Len(q) \/ j >= Len(q))
        BY <1>3
    <2> QED BY <2>1, <2>2, <2>3, <2>4, Zenon
<1>11. ASSUME r # <<>>, NEW id \in V \cup F
       PROVE  d[id] <= d[r[1]] + 1
    <2>1. 1 \in 1..Len(r) /\ d[r[1]] \in Nat
        BY <1>2, <1>9, <1>11
    <2>2. D[q[1]] <= d[r[1]]
        <3>1. CASE 1 < Len(q)
            BY <1>5, <2>1, <3>1
        <3>2. CASE 1 >= Len(q)
            <4>1. d[r[1]] = D[q[1]] + 1
                BY <1>6, <2>1, <3>2
            <4> QED BY <1>7, <4>1
        <3>3. 1 < Len(q) \/ 1 >= Len(q)
            BY <1>3
        <3> QED BY <3>1, <3>2, <3>3, Zenon
    <2>3. d[id] <= D[q[1]] + 1
        <3>1. CASE id \in V
            BY <1>4, <3>1
        <3>2. CASE id \in F
            BY <1>7, <3>2
        <3> QED BY <1>11, <3>1, <3>2
    <2>4. d[id] \in Nat
        BY <1>11
    <2>5. PICK a \in Nat, b \in Nat, c \in Nat : a = D[q[1]] /\ b = d[r[1]] /\ c = d[id]
        BY <1>7, <2>1, <2>4
    <2>6. c <= b + 1
        <3>1. a <= b /\ c <= a + 1
            BY <2>2, <2>3, <2>5
        <3> QED BY <3>1
    <2> QED BY <2>5, <2>6
<1> QED BY <1>8, <1>9, <1>10, <1>11 DEF InLevels

LEMMA RankIsOrdered ==
    ASSUME NEW a, NEW b, NEW c, criticalityRank(a) <= criticalityRank(b),
           criticalityRank(b) <= criticalityRank(c)
    PROVE  criticalityRank(a) <= criticalityRank(c)
    BY DEF criticalityRank

LEMMA PromoteIsMaximum ==
    ASSUME NEW a, NEW b
    PROVE  /\ criticalityRank(a) <= criticalityRank(promote(a, b))
           /\ criticalityRank(b) <= criticalityRank(promote(a, b))
           /\ promote(a, b) \in {a, b}
<1>1. criticalityRank(a) \in 1..4 /\ criticalityRank(b) \in 1..4
    BY DEF criticalityRank
<1>2. PICK m \in 1..4, n \in 1..4 : m = criticalityRank(a) /\ n = criticalityRank(b)
    BY <1>1
<1>3. CASE n > m
    BY <1>2, <1>3 DEF promote
<1>4. CASE ~(n > m)
    BY <1>2, <1>4 DEF promote
<1> QED BY <1>3, <1>4

\* One pass of the loop: the head of the queue is processed, its new
\* neighbours are queued one level further down.
LEMMA WalkGoesOn ==
    ASSUME ManifestsOverIDs, WalkInv, Traverse
    PROVE  WalkInv'
<1>1. /\ walk.on /\ walk.queue # <<>> /\ resolution' = resolution /\ InputOK
      /\ InLevels(walk.queue, walk.visited, walk.depth) /\ DepthsAreWalks(walk.visited, walk.depth)
      /\ NeighboursMet(Processed, walk.visited, walk.depth)
      /\ Reported(Processed, walk.systems, walk.criticality)
    BY DEF Traverse, WalkInv
<1>2. PICK q \in Seq(NodeIDs), V \in SUBSET NodeIDs, D \in [NodeIDs -> Nat] :
        q = walk.queue /\ V = walk.visited /\ D = walk.depth
    BY DEF WalkInv, WalkType
<1>3. PICK S, c : S = walk.systems /\ c = walk.criticality
    OBVIOUS
<1>4. /\ q # <<>> /\ InLevels(q, V, D) /\ DepthsAreWalks(V, D)
      /\ NeighboursMet(V \ ToSet(q), V, D) /\ Reported(V \ ToSet(q), S, c)
    BY <1>1, <1>2, <1>3 DEF Processed
<1>5. walk = [on |-> TRUE, queue |-> q, visited |-> V, depth |-> D, systems |-> S, criticality |-> c]
    BY <1>1, <1>2, <1>3 DEF WalkInv, WalkType
<1>6. PICK h \in V : h = q[1] /\ h = Head(q)
    BY <1>4 DEF InLevels
<1>7. PICK F \in SUBSET NodeIDs : F = Fresh(h)
    BY <1>1, AdjacentType DEF Fresh
<1>8. PICK s \in SetToSeqs(F) : walk' = Visit(h, Tail(q), s)
    BY <1>2, <1>6, <1>7 DEF Traverse
<1>9. /\ s \in Seq(F) /\ ToSet(s) = F
      /\ \A i, j \in 1..Len(s) : s[i] = s[j] => i = j
    BY FS_Subset, OrderFacts DEF ManifestsOverIDs
<1>10. /\ Limit \in Nat /\ D[h] \in Nat /\ F \cap V = {} /\ F \subseteq Adjacent(h)
       /\ D[h] < Limit => F = Adjacent(h) \ V
       /\ D[h] >= Limit => F = {}
    <2>1. Limit \in Nat /\ D[h] \in Nat
        BY <1>1, LimitType
    <2> QED BY <1>2, <1>7, <2>1 DEF Fresh, Limit
<1> DEFINE deeper == [x \in NodeIDs |-> IF x \in F THEN D[h] + 1 ELSE D[x]]
<1>11. deeper \in [NodeIDs -> Nat]
    BY <1>10
<1>12. PICK d \in [NodeIDs -> Nat] : d = deeper
    BY <1>11
<1>13. (\A x \in V : d[x] = D[x]) /\ (\A x \in F : d[x] = D[h] + 1)
    BY <1>10, <1>12
<1>14. PICK c1 : c1 = IF h \in resolution.graph.nodes THEN promote(c, resolution.graph.rank[h]) ELSE c
    OBVIOUS
<1>15. PICK S1 : S1 = S \cup ({h} \cap resolution.graph.nodes)
    OBVIOUS
<1>16. s \in Seq(NodeIDs)
    BY <1>9, WiderSeq
<1>17. PICK r \in Seq(NodeIDs) : r = Tail(q) \o s /\ Moved(q, s, r)
    BY <1>4, <1>16, TailThen
<1>18. walk' = [on |-> TRUE, queue |-> r, visited |-> V \cup F, depth |-> d, systems |-> S1,
                criticality |-> c1]
    BY <1>1, <1>5, <1>8, <1>9, <1>12, <1>14, <1>15, <1>17 DEF Visit
<1>19. ToSet(r) = (ToSet(q) \ {h}) \cup F
    <2>1. OnceEach(q)
        BY <1>4 DEF InLevels, OnceEach
    <2>0. q # <<>> /\ Moved(q, s, r)
        BY <1>4, <1>17
    <2>2. ToSet(r) = (ToSet(q) \ {q[1]}) \cup ToSet(s)
        BY <1>16, <2>0, <2>1, QueueMembers
    <2> QED BY <1>6, <1>9, <2>2
<1>20. (V \cup F) \ ToSet(r) = (V \ ToSet(q)) \cup {h}
    <2>1. \A x : x \in ToSet(q) <=> \E i \in 1..Len(q) : x = q[i]
        BY MembersAre
    <2>2. \A i \in 1..Len(q) : q[i] \in V
        BY <1>4 DEF InLevels
    <2>3. h \in ToSet(q)
        BY <1>4, <1>6, <2>1
    <2> QED BY <1>10, <1>19, <2>1, <2>2, <2>3
<1>21. InLevels(r, V \cup F, d)
    BY <1>4, <1>6, <1>9, <1>10, <1>13, <1>17, LevelsStay
<1>22. DepthsAreWalks(V \cup F, d)
    <2>1. ASSUME NEW id \in F PROVE d[id] <= Limit /\ Joined(id, d[id])
        <3>1. D[h] < Limit /\ d[id] = D[h] + 1 /\ id \in Adjacent(h)
            BY <1>10, <1>13, <2>1
        <3>2. Joined(h, D[h])
            BY <1>4 DEF DepthsAreWalks
        <3>3. Joined(id, D[h] + 1)
            BY <1>1, <1>10, <3>1, <3>2, WalkOn
        <3> QED BY <1>10, <3>1, <3>3
    <2>2. ASSUME NEW id \in V PROVE d[id] <= Limit /\ Joined(id, d[id])
        BY <1>4, <1>13, <2>2 DEF DepthsAreWalks
    <2>3. Affected \subseteq V /\ \A id \in Affected : d[id] = 0
        BY <1>4, <1>13 DEF DepthsAreWalks
    <2> QED BY <2>1, <2>2, <2>3 DEF DepthsAreWalks
<1>23. NeighboursMet((V \ ToSet(q)) \cup {h}, V \cup F, d)
    <2>1. ASSUME NEW id \in V \ ToSet(q), d[id] < Limit, NEW next \in Adjacent(id)
          PROVE  next \in V \cup F /\ d[next] <= d[id] + 1
        <3>1. D[id] < Limit
            BY <1>13, <2>1
        <3>2. next \in V /\ D[next] <= D[id] + 1
            BY <1>4, <2>1, <3>1 DEF NeighboursMet
        <3> QED BY <1>13, <2>1, <3>2
    <2>2. ASSUME d[h] < Limit, NEW next \in Adjacent(h)
          PROVE  next \in V \cup F /\ d[next] <= d[h] + 1
        <3>1. d[h] = D[h]
            BY <1>13
        <3>2. CASE next \in V
            <4>1. D[next] <= D[h] + 1
                BY <1>4, <1>6, <3>2 DEF InLevels
            <4> QED BY <1>13, <3>1, <3>2, <4>1
        <3>3. CASE next \notin V
            BY <1>10, <1>13, <2>2, <3>1, <3>3
        <3> QED BY <3>2, <3>3
    <2> QED BY <2>1, <2>2 DEF NeighboursMet
<1>24. Reported((V \ ToSet(q)) \cup {h}, S1, c1)
    <2>1. /\ S = (V \ ToSet(q)) \cap resolution.graph.nodes
          /\ \A id \in S : criticalityRank(resolution.graph.rank[id]) <= criticalityRank(c)
          /\ c # "" => \E id \in S : resolution.graph.rank[id] = c
        BY <1>4 DEF Reported
    <2>3. CASE h \in resolution.graph.nodes
        <3>1. S1 = S \cup {h} /\ c1 = promote(c, resolution.graph.rank[h])
            BY <1>14, <1>15, <2>3
        <3>2. /\ criticalityRank(c) <= criticalityRank(c1)
              /\ criticalityRank(resolution.graph.rank[h]) <= criticalityRank(c1)
              /\ c1 = c \/ c1 = resolution.graph.rank[h]
            BY <3>1, PromoteIsMaximum
        <3>3. ASSUME NEW id \in S1
              PROVE  criticalityRank(resolution.graph.rank[id]) <= criticalityRank(c1)
            <4>1. CASE id \in S
                <5>1. criticalityRank(resolution.graph.rank[id]) <= criticalityRank(c)
                    BY <2>1, <4>1
                <5> QED BY <3>2, <5>1, RankIsOrdered
            <4>2. CASE id = h
                BY <3>2, <4>2
            <4> QED BY <3>1, <4>1, <4>2
        <3>4. c1 # "" => \E id \in S1 : resolution.graph.rank[id] = c1
            BY <2>1, <3>1, <3>2
        <3>5. S1 = ((V \ ToSet(q)) \cup {h}) \cap resolution.graph.nodes
            BY <2>1, <2>3, <3>1
        <3> QED BY <3>3, <3>4, <3>5 DEF Reported
    <2>4. CASE h \notin resolution.graph.nodes
        BY <1>14, <1>15, <2>1, <2>4 DEF Reported
    <2> QED BY <2>3, <2>4
<1>25. PICK V1 \in SUBSET NodeIDs : V1 = V \cup F
    OBVIOUS
<1>26. /\ InLevels(r, V1, d) /\ DepthsAreWalks(V1, d)
       /\ NeighboursMet(V1 \ ToSet(r), V1, d) /\ Reported(V1 \ ToSet(r), S1, c1)
       /\ walk' = [on |-> TRUE, queue |-> r, visited |-> V1, depth |-> d, systems |-> S1,
                   criticality |-> c1]
    BY <1>18, <1>20, <1>21, <1>22, <1>23, <1>24, <1>25
<1> HIDE DEF deeper
<1> QED BY <1>1, <1>26, NextWalk

LEMMA IdleWalk ==
    /\ Idle = [on |-> Idle.on, queue |-> Idle.queue, visited |-> Idle.visited,
               depth |-> Idle.depth, systems |-> Idle.systems, criticality |-> Idle.criticality]
    /\ Idle.on = FALSE /\ Idle.on \in BOOLEAN /\ Idle.queue \in Seq(NodeIDs)
    /\ Idle.visited \subseteq NodeIDs /\ Idle.depth \in [NodeIDs -> Nat]
<1>1. Idle.on = FALSE /\ Idle.queue = <<>> /\ Idle.visited = {}
    BY DEF Idle
<1>2. Idle.depth = [id \in NodeIDs |-> 0]
    BY DEF Idle
<1>3. Idle = [on |-> Idle.on, queue |-> Idle.queue, visited |-> Idle.visited,
              depth |-> Idle.depth, systems |-> Idle.systems, criticality |-> Idle.criticality]
    BY DEF Idle
<1>4. Idle.depth \in [NodeIDs -> Nat]
    BY <1>2
<1>5. <<>> \in Seq(NodeIDs) /\ {} \subseteq NodeIDs
    OBVIOUS
<1>6. Idle.on \in BOOLEAN /\ Idle.queue \in Seq(NodeIDs) /\ Idle.visited \subseteq NodeIDs
    BY <1>1, <1>5
<1> QED BY <1>1, <1>3, <1>4, <1>6, Zenon

LEMMA WalkStart ==
    ASSUME ManifestsOverIDs, ResolveInit
    PROVE  WalkInv
<1>1. PICK files \in ChangedFiles, loads \in BOOLEAN, parses \in BOOLEAN, graph \in Manifests,
           forwards \in Forwards :
        resolution = [files |-> files, loads |-> loads, parses |-> parses, graph |-> graph,
                 options |-> IF forwards THEN options ELSE NoOptions]
    BY DEF ResolveInit
<1>2. resolution.graph \in Manifests /\ (resolution.options = options \/ resolution.options = NoOptions)
    BY <1>1
<1>3. options.depth \in Int /\ NoOptions.depth \in Int
    BY DEF ResolveInit, ManifestsOverIDs, NoOptions
<1>4. InputOK
    BY <1>2, <1>3 DEF InputOK
<1>5. walk = Idle
    BY DEF ResolveInit
<1>6. WalkType /\ walk.on = FALSE
    BY <1>5, IdleWalk DEF WalkType
<1> QED BY <1>4, <1>6 DEF WalkInv

\* Only CollectGraph, Traverse and IndexTraversal touch the walk.
LEMMA WalkStep ==
    ASSUME ManifestsOverIDs, WalkInv, [ResolveNext]_resolveVars
    PROVE  WalkInv'
<1>1. CASE Traverse
    BY <1>1, WalkGoesOn
<1>2. ASSUME resolution' = resolution, walk' = walk PROVE WalkInv'
    <2>1. /\ InputOK' /\ WalkType' /\ Processed' = Processed
          /\ InLevels(walk.queue, walk.visited, walk.depth)' = InLevels(walk.queue, walk.visited, walk.depth)
        BY <1>2 DEF WalkInv, InputOK, WalkType, Processed, InLevels
    <2>2. PICK P, V, d, S, c : /\ P = Processed /\ V = walk.visited /\ d = walk.depth
                              /\ S = walk.systems /\ c = walk.criticality
        OBVIOUS
    <2>3. /\ DepthsAreWalks(V, d)' = DepthsAreWalks(V, d)
          /\ NeighboursMet(P, V, d)' = NeighboursMet(P, V, d)
          /\ Reported(P, S, c)' = Reported(P, S, c)
        BY <1>2, InputStays DEF WalkInv
    <2>4. /\ DepthsAreWalks(walk.visited, walk.depth)' = DepthsAreWalks(V, d)'
          /\ NeighboursMet(Processed, walk.visited, walk.depth)' = NeighboursMet(P, V, d)'
          /\ Reported(Processed, walk.systems, walk.criticality)' = Reported(P, S, c)'
        BY <1>2, <2>1, <2>2 DEF DepthsAreWalks, NeighboursMet, Reported
    <2> QED BY <1>2, <2>1, <2>2, <2>3, <2>4 DEF WalkInv
<1>3. ASSUME resolution' = resolution, walk' = Idle PROVE WalkInv'
    <2>1. InputOK'
        BY <1>3 DEF WalkInv, InputOK
    <2>2. WalkType' /\ walk'.on = FALSE
        BY <1>3, IdleWalk DEF WalkType
    <2> QED BY <2>1, <2>2 DEF WalkInv
<1>4. CASE IndexTraversal
    BY <1>3, <1>4 DEF IndexTraversal
<1>5. CASE CollectGraph
    <2>1. CASE UNCHANGED <<resolution, walk>>
        BY <1>2, <2>1
    <2>2. CASE /\ UNCHANGED resolution
               /\ \E listing \in SetToSeqs(Affected) :
                      walk' = [Idle EXCEPT !.on = TRUE, !.queue = listing, !.visited = Affected]
        BY <2>2, WalkBegins
    <2> QED BY <1>5, <2>1, <2>2 DEF CollectGraph, IndexFragment
<1>6. CASE CollectTopology \/ CollectManifest \/ CollectCodeOwners \/ FinishResolve \/ UNCHANGED resolveVars
    <2>1. resolution' = resolution /\ walk' = walk
        BY <1>6 DEF CollectTopology, CollectManifest, CollectCodeOwners, FinishResolve, IndexFragment, resolveVars
    <2> QED BY <1>2, <2>1
<1> QED BY <1>1, <1>4, <1>5, <1>6 DEF ResolveNext, ResolveImpact

(***************************************************************************)
(* Once the queue is empty, the visited ids are those within the depth: on *)
(* a walk from a touched node, a first id that was not met at its depth    *)
(* would have a predecessor whose neighbours were all met.                 *)
(***************************************************************************)
LEMMA VisitedIsWithin ==
    ASSUME ManifestsOverIDs, InputOK, NEW V \in SUBSET NodeIDs, NEW d \in [NodeIDs -> Nat],
           DepthsAreWalks(V, d), NeighboursMet(V, V, d)
    PROVE  V = Within
<1>0. Limit \in Nat
    BY LimitType
<1>1. ASSUME NEW id \in V PROVE id \in Within
    <2>1. d[id] <= Limit /\ Joined(id, d[id]) /\ d[id] \in Nat
        BY <1>1 DEF DepthsAreWalks
    <2>2. d[id] \in 0..Limit
        BY <1>0, <2>1
    <2> QED BY <2>1, <2>2 DEF Within, Limit
<1>2. ASSUME NEW id \in Within PROVE id \in V
    <2>1. PICK n \in 0..Limit : Joined(id, n)
        BY <1>2 DEF Within, Limit
    <2>2. PICK path \in [0..n -> NodeIDs] : IsWalk(path, n) /\ path[n] = id
        BY <2>1 DEF Joined
    <2> DEFINE missed == {i \in 0..n : ~(path[i] \in V /\ d[path[i]] <= i)}
    <2>3. missed = {}
        <3> SUFFICES ASSUME missed # {} PROVE FALSE
            OBVIOUS
        <3>0. n \in Nat
            BY <1>0
        <3>1. missed \subseteq Nat
            BY <3>0
        <3>2. PICK x \in missed : \A y \in missed : x <= y
            BY <3>1, HasLeast
        <3>3. x \in 0..n /\ ~(path[x] \in V /\ d[path[x]] <= x)
            BY <3>2
        <3>4. x # 0
            <4>1. path[0] \in V /\ d[path[0]] = 0
                BY <2>2 DEF IsWalk, DepthsAreWalks
            <4> QED BY <3>3, <4>1
        <3>5. x - 1 \in 0..n /\ x - 1 \notin missed /\ x \in 1..n /\ x - 1 < n /\ x \in Nat
            <4>1. x - 1 \in 0..n /\ x \in 1..n /\ x - 1 < n /\ x \in Nat /\ ~(x <= x - 1)
                BY <3>0, <3>3, <3>4
            <4> QED BY <3>2, <4>1
        <3>6. path[x - 1] \in V /\ d[path[x - 1]] <= x - 1
            BY <3>5
        <3>7. path[x] \in Adjacent(path[x - 1])
            BY <2>2, <3>5 DEF IsWalk
        <3>8. d[path[x - 1]] \in Nat /\ d[path[x - 1]] < Limit
            BY <1>0, <3>0, <3>5, <3>6
        <3>9. path[x] \in V /\ d[path[x]] <= d[path[x - 1]] + 1
            BY <3>6, <3>7, <3>8 DEF NeighboursMet
        <3>10. d[path[x]] \in Nat
            BY <3>9
        <3> QED BY <3>3, <3>5, <3>6, <3>8, <3>9, <3>10
    <2>4. n \in 0..n
        BY <1>0
    <2> QED BY <2>2, <2>3, <2>4
<1> QED BY <1>1, <1>2

(***************************************************************************)
(* traverseGraph reports exactly the systems within the traversal depth of *)
(* a touched node, and the highest criticality among them, for every       *)
(* manifest, every change and every order of the edges.                    *)
(***************************************************************************)
THEOREM TraversalExactHolds ==
    ASSUME ManifestsOverIDs
    PROVE  ResolveSpec => []TraversalExact
<1>1. ResolveInit => WalkInv
    BY WalkStart
<1>2. WalkInv /\ [ResolveNext]_resolveVars => WalkInv'
    BY WalkStep
<1>3. WalkInv => TraversalExact
    <2> SUFFICES ASSUME WalkInv, walk.on, walk.queue = <<>>
                 PROVE  /\ walk.systems = Within \cap resolution.graph.nodes
                        /\ \A id \in walk.systems :
                            criticalityRank(resolution.graph.rank[id]) <= criticalityRank(walk.criticality)
                        /\ walk.criticality # "" =>
                            \E id \in walk.systems : resolution.graph.rank[id] = walk.criticality
        BY DEF TraversalExact
    <2>1. PICK V \in SUBSET NodeIDs, d \in [NodeIDs -> Nat] : V = walk.visited /\ d = walk.depth
        BY DEF WalkInv, WalkType
    <2>2. Processed = V
        BY <2>1 DEF Processed, ToSet
    <2>3. DepthsAreWalks(V, d) /\ NeighboursMet(V, V, d) /\ InputOK
        BY <2>1, <2>2 DEF WalkInv
    <2>4. V = Within
        BY <2>3, VisitedIsWithin
    <2>5. Reported(Within, walk.systems, walk.criticality)
        BY <2>2, <2>4 DEF WalkInv
    <2> QED BY <2>5 DEF Reported
<1> QED BY <1>1, <1>2, <1>3, PTL DEF ResolveSpec

-----------------------------------------------------------------------------
(* PolicyEngine, for any configurations and changes. *)

(***************************************************************************)
(* policy.maxLane returns one of its arguments, not below either of them.  *)
(***************************************************************************)
LEMMA MaxMinimumLaneFacts ==
    ASSUME NEW a \in Lane \cup {NoLane}, NEW b \in Lane \cup {NoLane}
    PROVE  /\ maxMinimumLane(a, b) \in {a, b}
           /\ order[a] <= order[maxMinimumLane(a, b)]
           /\ order[b] <= order[maxMinimumLane(a, b)]
           /\ b # NoLane => maxMinimumLane(a, b) # NoLane
  <1>1. order[NoLane] = 0 /\ \A l \in Lane : order[l] \in 1..4
    BY DEF order, Lane, NoLane
  <1>2. order[a] \in 0..4 /\ order[b] \in 0..4
    BY <1>1
  <1>3. CASE b = NoLane
    BY <1>1, <1>2, <1>3 DEF maxMinimumLane
  <1>4. CASE b # NoLane /\ (a = NoLane \/ order[b] > order[a])
    BY <1>1, <1>2, <1>4 DEF maxMinimumLane
  <1>5. CASE b # NoLane /\ ~(a = NoLane \/ order[b] > order[a])
    BY <1>1, <1>2, <1>5 DEF maxMinimumLane
  <1>6. QED
    BY <1>3, <1>4, <1>5

(***************************************************************************)
(* The check found for a rule's evidence is one that the rule binds it to. *)
(***************************************************************************)
LEMMA GithubCheckFacts ==
    ASSUME NEW rule \in Rule, NEW name \in Names
    PROVE  \/ /\ githubCheck(rule, name) \in Checks
              /\ [evidence |-> name, check |-> githubCheck(rule, name)] \in rule.githubChecks
           \/ /\ githubCheck(rule, name) = NoCheck
              /\ \A binding \in rule.githubChecks : binding.evidence # name
  <1>1. CASE \E binding \in rule.githubChecks : binding.evidence = name
    <2> DEFINE bound == CHOOSE binding \in rule.githubChecks : binding.evidence = name
    <2>1. bound \in rule.githubChecks /\ bound.evidence = name
      BY <1>1
    <2>2. bound \in Binding
      BY <2>1 DEF Rule
    <2>3. githubCheck(rule, name) = bound.check
      BY <1>1 DEF githubCheck
    <2> HIDE DEF bound
    <2>4. bound = [evidence |-> name, check |-> bound.check] /\ bound.check \in Checks
      BY <2>1, <2>2 DEF Binding
    <2>5. QED
      BY <2>1, <2>3, <2>4
  <1>2. CASE ~(\E binding \in rule.githubChecks : binding.evidence = name)
    BY <1>2 DEF githubCheck
  <1>3. QED
    BY <1>1, <1>2

(***************************************************************************)
(* Folding a rule into an evaluation gives an evaluation.                  *)
(***************************************************************************)
LEMMA ApplyRuleType ==
    ASSUME NEW before \in Evaluation, NEW rule \in Rule
    PROVE  applyRule(before, rule) \in Evaluation
  <1> DEFINE reviewers == before.reviewers \cup rule.reviewers
             evidence == applyEvidenceRequirements(before.evidence, rule)
  <1>1. reviewers \in SUBSET Teams
    BY DEF Evaluation, Rule
  <1>2. evidence \in [Names -> Checks \cup {NoCheck, NotRequired}]
    BY GithubCheckFacts DEF applyEvidenceRequirements, appendUniqueEvidence, Evaluation
  <1>3. policyAction(before.status, rule, reviewers, evidence) \in {"approved", "pending", "blocked"}
    BY DEF policyAction, Evaluation
  <1>4. maxMinimumLane(before.minimumLane, rule.minimumLane) \in Lane \cup {NoLane}
    BY MaxMinimumLaneFacts DEF Evaluation, Rule
  <1>5. deploymentStrategy(before.strategy, rule) \in Strategies
    BY DEF deploymentStrategy, Evaluation, Rule
  <1>6. (before.requiresCanary \/ rule.requiresCanary) \in BOOLEAN
    OBVIOUS
  <1>7. (IF rule.block THEN before.violations \cup {rule.name} ELSE before.violations)
            \in SUBSET RuleNames
    BY DEF Evaluation, Rule
  <1> HIDE DEF reviewers, evidence
  <1>8. QED
    BY <1>1, <1>2, <1>3, <1>4, <1>5, <1>6, <1>7 DEF applyRule, Evaluation, reviewers, evidence

(***************************************************************************)
(* Every variable of the policy engine stays in its type, in particular    *)
(* the loop stays within the configuration.                                *)
(***************************************************************************)
THEOREM PolicyTypeCorrect == Spec => []TypeOK
  <1>1. Init => TypeOK
    <2> SUFFICES ASSUME Init PROVE TypeOK
      OBVIOUS
    <2>1. NewEvaluation \in Evaluation
      BY PolicyConstants DEF NewEvaluation, Evaluation
    <2>2. Len(policies) \in Nat
      BY PolicyConstants DEF Init
    <2>3. QED
      BY <2>1, <2>2 DEF Init, TypeOK
  <1>2. TypeOK /\ [Next]_vars => TypeOK'
    <2> SUFFICES ASSUME TypeOK, [Next]_vars PROVE TypeOK'
      OBVIOUS
    <2>0. policies \in Seq(Rule) /\ Len(policies) \in Nat
      BY PolicyConstants DEF TypeOK
    <2>1. CASE Begin
      BY <2>1 DEF Begin, TypeOK
    <2>2. CASE SkipRule
      <3>1. index' \in 1..Len(policies) + 1
        BY <2>0, <2>2 DEF SkipRule, TypeOK
      <3>2. QED
        BY <2>2, <3>1 DEF SkipRule, TypeOK
    <2>3. CASE ApplyRule
      <3>1. index' \in 1..Len(policies) + 1 /\ policies[index] \in Rule
        BY <2>0, <2>3 DEF ApplyRule, TypeOK
      <3>2. evaluation' \in Evaluation
        BY <2>3, <3>1, ApplyRuleType DEF ApplyRule, TypeOK
      <3>3. QED
        BY <2>3, <3>1, <3>2 DEF ApplyRule, TypeOK
    <2>4. CASE Finish
      BY <2>4 DEF Finish, TypeOK
    <2>5. CASE UNCHANGED vars
      BY <2>5 DEF vars, TypeOK
    <2>6. QED
      BY <2>1, <2>2, <2>3, <2>4, <2>5 DEF Next
  <1>3. QED
    BY <1>1, <1>2, PTL DEF Spec

-----------------------------------------------------------------------------

\* Rules are only folded in after the configuration has been validated.
ValidInv ==
    /\ stage \in {"start", "refused"} => index = 1
    /\ stage \in {"evaluating", "done"} => Validate(policies)

\* What RequirementsOrderFree says of an evaluation and the rules folded into it.
Reflects(eval, rules) ==
    /\ eval.reviewers = UNION { rule.reviewers : rule \in rules }
    /\ \A name \in Names :
        (eval.evidence[name] # NotRequired) <=> (\E rule \in rules : name \in rule.evidence)
    /\ \A rule \in rules : \A binding \in rule.githubChecks :
        eval.evidence[binding.evidence] = binding.check
    /\ \A name \in Names : eval.evidence[name] \in Checks =>
        \E rule \in rules : [evidence |-> name, check |-> eval.evidence[name]] \in rule.githubChecks
    /\ \A rule \in rules : order[rule.minimumLane] <= order[eval.minimumLane]
    /\ eval.minimumLane = NoLane \/ \E rule \in rules : eval.minimumLane = rule.minimumLane
    /\ eval.requiresCanary <=> \E rule \in rules : rule.requiresCanary

\* No two bindings of the rules disagree, and each is for evidence of its rule.
Consistent(rules) ==
    /\ \A r, s \in rules : \A a \in r.githubChecks, b \in s.githubChecks :
        a.evidence = b.evidence <=> a.check = b.check
    /\ \A r \in rules : \A a \in r.githubChecks : a.evidence \in r.evidence

(***************************************************************************)
(* Folding a consistent rule into an evaluation that reflects some rules   *)
(* gives one that reflects these rules and the new one.                    *)
(***************************************************************************)
LEMMA ApplyRuleReflects ==
    ASSUME NEW rules \in SUBSET Rule, NEW before \in Evaluation, NEW rule \in Rule,
           Reflects(before, rules), Consistent(rules \cup {rule})
    PROVE  Reflects(applyRule(before, rule), rules \cup {rule})
  <1> DEFINE after == applyRule(before, rule)
             all == rules \cup {rule}
  <1>1. /\ after.reviewers = before.reviewers \cup rule.reviewers
        /\ after.evidence = applyEvidenceRequirements(before.evidence, rule)
        /\ after.minimumLane = maxMinimumLane(before.minimumLane, rule.minimumLane)
        /\ after.requiresCanary = (before.requiresCanary \/ rule.requiresCanary)
    BY DEF applyRule
  <1>2. /\ NotRequired # NoCheck /\ NotRequired \notin Checks /\ NoCheck \notin Checks
    BY PolicyConstants
  <1>3. \A name \in Names :
            \/ name \notin rule.evidence /\ after.evidence[name] = before.evidence[name]
            \/ /\ name \in rule.evidence
               /\ before.evidence[name] \in {NotRequired, NoCheck}
               /\ after.evidence[name] = githubCheck(rule, name)
            \/ /\ name \in rule.evidence
               /\ before.evidence[name] \in Checks
               /\ after.evidence[name] = before.evidence[name]
    BY <1>1 DEF applyEvidenceRequirements, appendUniqueEvidence, Evaluation
  <1>4. \A binding \in rule.githubChecks :
            binding.evidence \in Names /\ binding.check \in Checks
            /\ binding.evidence \in rule.evidence
    BY DEF Rule, Binding, Consistent
  <1>5. \A r \in rules : \A binding \in r.githubChecks :
            binding.evidence \in Names /\ binding.check \in Checks
            /\ binding.evidence \in r.evidence
    BY DEF Rule, Binding, Consistent
  <1> HIDE DEF after
  <1>6. after.reviewers = UNION { r.reviewers : r \in all }
    BY <1>1 DEF Reflects
  <1>7. \A name \in Names :
            (after.evidence[name] # NotRequired) <=> (\E r \in all : name \in r.evidence)
    <2> SUFFICES ASSUME NEW name \in Names
                 PROVE  (after.evidence[name] # NotRequired)
                            <=> (\E r \in all : name \in r.evidence)
      OBVIOUS
    <2>1. (before.evidence[name] # NotRequired) <=> (\E r \in rules : name \in r.evidence)
      BY DEF Reflects
    <2>2. githubCheck(rule, name) # NotRequired
      BY <1>2, GithubCheckFacts
    <2>3. CASE name \in rule.evidence
      BY <1>2, <1>3, <2>2, <2>3
    <2>4. CASE name \notin rule.evidence
      BY <1>3, <2>1, <2>4
    <2>5. QED
      BY <2>3, <2>4
  <1>8. \A r \in all : \A binding \in r.githubChecks :
            after.evidence[binding.evidence] = binding.check
    <2>1. ASSUME NEW r \in rules, NEW binding \in r.githubChecks
          PROVE  after.evidence[binding.evidence] = binding.check
      <3>1. before.evidence[binding.evidence] = binding.check
        BY <2>1 DEF Reflects
      <3>2. QED
        BY <1>2, <1>3, <1>5, <2>1, <3>1
    <2>2. ASSUME NEW binding \in rule.githubChecks
          PROVE  after.evidence[binding.evidence] = binding.check
      <3> DEFINE name == binding.evidence
      <3>1. name \in Names /\ binding.check \in Checks /\ name \in rule.evidence
        BY <1>4, <2>2
      <3>2. CASE before.evidence[name] \in {NotRequired, NoCheck}
        <4>1. after.evidence[name] = githubCheck(rule, name)
          BY <1>2, <1>3, <3>1, <3>2
        <4>2. [evidence |-> name, check |-> githubCheck(rule, name)] \in rule.githubChecks
          BY <2>2, <3>1, GithubCheckFacts
        <4>3. githubCheck(rule, name) = binding.check
          BY <2>2, <4>2 DEF Consistent
        <4>4. QED
          BY <4>1, <4>3
      <3>3. CASE before.evidence[name] \in Checks
        <4>1. after.evidence[name] = before.evidence[name]
          BY <1>2, <1>3, <3>1, <3>3
        <4>2. PICK r \in rules :
                [evidence |-> name, check |-> before.evidence[name]] \in r.githubChecks
          BY <3>1, <3>3 DEF Reflects
        <4>3. before.evidence[name] = binding.check
          BY <2>2, <4>2 DEF Consistent
        <4>4. QED
          BY <4>1, <4>3
      <3>4. QED
        BY <3>1, <3>2, <3>3 DEF Evaluation
    <2>3. QED
      BY <2>1, <2>2
  <1>9. \A name \in Names : after.evidence[name] \in Checks =>
            \E r \in all : [evidence |-> name, check |-> after.evidence[name]] \in r.githubChecks
    BY <1>2, <1>3, GithubCheckFacts DEF Reflects
  <1>10. /\ \A r \in all : order[r.minimumLane] <= order[after.minimumLane]
         /\ after.minimumLane = NoLane \/ \E r \in all : after.minimumLane = r.minimumLane
    <2>1. before.minimumLane \in Lane \cup {NoLane} /\ rule.minimumLane \in Lane \cup {NoLane}
          /\ \A r \in rules : r.minimumLane \in Lane \cup {NoLane}
      BY DEF Evaluation, Rule
    <2>2. \A l \in Lane \cup {NoLane} : order[l] \in Int
      BY DEF order, Lane, NoLane
    <2>3. /\ after.minimumLane \in {before.minimumLane, rule.minimumLane}
          /\ order[before.minimumLane] <= order[after.minimumLane]
          /\ order[rule.minimumLane] <= order[after.minimumLane]
      BY <1>1, <2>1, MaxMinimumLaneFacts
    <2>4. ASSUME NEW r \in rules PROVE order[r.minimumLane] <= order[after.minimumLane]
      <3>1. order[r.minimumLane] <= order[before.minimumLane]
        BY <2>4 DEF Reflects
      <3>2. QED
        BY <2>1, <2>2, <2>3, <2>4, <3>1
    <2>5. QED
      BY <2>3, <2>4 DEF Reflects
  <1>11. after.requiresCanary <=> \E r \in all : r.requiresCanary
    BY <1>1 DEF Reflects
  <1>12. QED
    BY <1>6, <1>7, <1>8, <1>9, <1>10, <1>11 DEF Reflects, after

(***************************************************************************)
(* For every configuration and change, at each point of the evaluation     *)
(* what is required is what the set of rules matched so far asks for.      *)
(***************************************************************************)
THEOREM RequirementsOrderFreeHolds == Spec => []RequirementsOrderFree
  <1>0. RequirementsOrderFree <=> Reflects(evaluation, Applied)
    BY DEF RequirementsOrderFree, Reflects
  <1>1. Init => ValidInv /\ Reflects(evaluation, Applied)
    <2> SUFFICES ASSUME Init PROVE ValidInv /\ Reflects(evaluation, Applied)
      OBVIOUS
    <2>1. Applied = {}
      BY DEF Init, Applied
    <2>2. QED
      BY <2>1, PolicyConstants DEF Init, ValidInv, Reflects, NewEvaluation
  <1>2. TypeOK /\ ValidInv /\ Reflects(evaluation, Applied) /\ [Next]_vars
        => (ValidInv /\ Reflects(evaluation, Applied))'
    <2> SUFFICES ASSUME TypeOK, ValidInv, Reflects(evaluation, Applied), [Next]_vars
                 PROVE  ValidInv' /\ Reflects(evaluation, Applied)'
      OBVIOUS
    <2>0. policies \in Seq(Rule) /\ Len(policies) \in Nat /\ index \in Nat
      BY PolicyConstants DEF TypeOK
    <2>1. CASE Begin
      BY <2>1 DEF Begin, ValidInv, Reflects, Applied
    <2>2. CASE SkipRule
      <3>1. Applied' = Applied
        BY <2>0, <2>2 DEF SkipRule, Applied, TypeOK
      <3>2. UNCHANGED evaluation /\ ValidInv'
        BY <2>2 DEF SkipRule, ValidInv
      <3>3. QED
        BY <3>1, <3>2
    <2>3. CASE ApplyRule
      <3> DEFINE rule == policies[index]
      <3>1. /\ index \in 1..Len(policies) /\ rule \in Rule /\ matchesRule(rule, change)
            /\ stage = "evaluating" /\ evaluation' = applyRule(evaluation, rule)
            /\ index' = index + 1 /\ UNCHANGED <<policies, change, stage>>
        BY <2>0, <2>3 DEF ApplyRule, TypeOK
      <3>2. Applied' = Applied \cup {rule}
        BY <2>0, <3>1 DEF Applied
      <3>3. \A r \in Applied \cup {rule} : \E i \in 1..Len(policies) : r = policies[i]
        BY <2>0, <3>1 DEF Applied
      <3>4. Consistent(Applied \cup {rule}) /\ Applied \in SUBSET Rule
        BY <2>0, <3>1, <3>3 DEF Consistent, ValidInv, Validate, validateRule, validateRequirements
      <3> HIDE DEF rule
      <3>5. Reflects(evaluation', Applied')
        BY <3>1, <3>2, <3>4, ApplyRuleReflects DEF TypeOK
      <3>6. QED
        BY <3>1, <3>5 DEF ValidInv
    <2>4. CASE Finish
      BY <2>4 DEF Finish, ValidInv, Reflects, Applied
    <2>5. CASE UNCHANGED vars
      BY <2>5 DEF vars, ValidInv, Reflects, Applied
    <2>6. QED
      BY <2>1, <2>2, <2>3, <2>4, <2>5 DEF Next
  <1>3. QED
    BY <1>0, <1>1, <1>2, PolicyTypeCorrect, PTL DEF Spec

(***************************************************************************)
(* For every configuration and change, an approved evaluation requires     *)
(* nothing: the fact about ingestion that EvidenceService assumes.         *)
(***************************************************************************)
THEOREM ApprovedIsUnconstrainedHolds == Spec => []ApprovedIsUnconstrained
  <1>1. Init => ApprovedIsUnconstrained
    BY DEF Init, NewEvaluation, ApprovedIsUnconstrained
  <1>2. ApprovedIsUnconstrained /\ [Next]_vars => ApprovedIsUnconstrained'
    <2> SUFFICES ASSUME ApprovedIsUnconstrained, [Next]_vars PROVE ApprovedIsUnconstrained'
      OBVIOUS
    <2>1. CASE ApplyRule
      <3> DEFINE rule == policies[index]
      <3>1. /\ evaluation'.status = policyAction(evaluation.status, rule,
                                        evaluation'.reviewers, evaluation'.evidence)
            /\ evaluation'.violations = IF rule.block THEN evaluation.violations \cup {rule.name}
                                        ELSE evaluation.violations
        BY <2>1 DEF ApplyRule, applyRule
      <3> HIDE DEF rule
      <3>2. QED
        BY <3>1 DEF policyAction, ApprovedIsUnconstrained
    <2>2. CASE UNCHANGED evaluation
      BY <2>2 DEF ApprovedIsUnconstrained
    <2>3. QED
      BY <2>1, <2>2 DEF Next, vars, Begin, SkipRule, Finish
  <1>3. QED
    BY <1>1, <1>2, PTL DEF Spec

(***************************************************************************)
(* For every configuration and change, no two pieces of evidence are bound *)
(* to the same check, because Validate compares the bindings of all rules. *)
(***************************************************************************)
THEOREM CheckSettlesOneEvidenceHolds == Spec => []CheckSettlesOneEvidence
  <1>1. Init => ValidInv
    BY DEF Init, ValidInv
  <1>2. ValidInv /\ [Next]_vars => ValidInv'
    BY DEF ValidInv, Next, vars, Begin, SkipRule, ApplyRule, Finish
  <1>3. TypeOK /\ ValidInv /\ RequirementsOrderFree => CheckSettlesOneEvidence
    <2> SUFFICES ASSUME TypeOK, ValidInv, RequirementsOrderFree, NEW a \in Names, NEW b \in Names,
                        a # b, evaluation.evidence[a] \in Checks,
                        evaluation.evidence[a] = evaluation.evidence[b]
                 PROVE  FALSE
      BY DEF CheckSettlesOneEvidence
    <2>0. Len(policies) \in Nat /\ index \in 1..Len(policies) + 1
      BY PolicyConstants DEF TypeOK
    <2>1. PICK r \in Applied :
            [evidence |-> a, check |-> evaluation.evidence[a]] \in r.githubChecks
      BY DEF RequirementsOrderFree
    <2>2. PICK s \in Applied :
            [evidence |-> b, check |-> evaluation.evidence[b]] \in s.githubChecks
      BY DEF RequirementsOrderFree
    <2>3. \E i, j \in 1..Len(policies) : r = policies[i] /\ s = policies[j]
      BY <2>0, <2>1, <2>2 DEF Applied
    <2>4. Validate(policies)
      BY <2>0, <2>1 DEF ValidInv, TypeOK, Applied
    <2>5. a = b
      BY <2>1, <2>2, <2>3, <2>4 DEF Validate
    <2>6. QED
      BY <2>5
  <1>4. QED
    BY <1>1, <1>2, <1>3, PolicyTypeCorrect, RequirementsOrderFreeHolds, PTL DEF Spec

-----------------------------------------------------------------------------
(* The calibration report.  A new outcome adds one to the samples of its    *)
(* key and drops at most one older outcome from the window; the adverse     *)
(* samples lose no more than the samples do.                                *)

Window(s, key) == {k \in ListDeploymentOutcomes(s) : s[k].key = key}
Adverse(s, key) == {k \in Window(s, key) : s[k].kind \in {"rollback", "incident"}}

LEMMA WindowFinite ==
    ASSUME NEW S, NEW s \in Seq(S), NEW key
    PROVE  IsFiniteSet(Window(s, key)) /\ IsFiniteSet(Adverse(s, key))
  <1>1. IsFiniteSet(1..Len(s))
    BY FS_Interval
  <1>2. Window(s, key) \subseteq 1..Len(s) /\ Adverse(s, key) \subseteq Window(s, key)
    BY DEF Window, Adverse, ListDeploymentOutcomes
  <1>3. QED
    BY <1>1, <1>2, FS_Subset

\* B is A without x and with y, which is new.
Replaces(A, B, x, y) == B = (A \ {x}) \cup {y}
Lost(A, x) == IF x \in A THEN 1 ELSE 0

LEMMA Replaced ==
    ASSUME NEW A, IsFiniteSet(A), NEW x, NEW y, y \notin A, NEW B, Replaces(A, B, x, y)
    PROVE  Cardinality(A) \in Nat /\ Cardinality(B) = Cardinality(A) + 1 - Lost(A, x)
  <1>1. PICK C : C = A \ {x}
    OBVIOUS
  <1>2. IsFiniteSet(C) /\ y \notin C /\ B = C \cup {y}
    BY <1>1, FS_RemoveElement DEF Replaces
  <1>3. PICK n, c : n = Cardinality(A) /\ c = Cardinality(C)
    OBVIOUS
  <1>4. n \in Nat /\ c \in Nat /\ Cardinality(B) = c + 1
    BY <1>2, <1>3, FS_AddElement, FS_CardinalityType
  <1>5. CASE x \in A
    <2>1. c = n - 1 /\ Lost(A, x) = 1
      BY <1>1, <1>3, <1>5, FS_RemoveElement DEF Lost
    <2>2. QED
      BY <1>3, <1>4, <2>1
  <1>6. CASE x \notin A
    <2>1. C = A /\ Lost(A, x) = 0
      BY <1>1, <1>6 DEF Lost
    <2>2. QED
      BY <1>3, <1>4, <2>1
  <1>7. QED
    BY <1>5, <1>6

\* The recommendation, from the numbers alone.
LEMMA NeverCalmer ==
    ASSUME NEW n \in Nat, NEW a \in Nat, NEW d \in 0..1, NEW e \in 0..1, e <= d, a <= n,
           NEW before, before = [samples |-> n, adverse |-> a],
           NEW after, after = [samples |-> n + 1 - d, adverse |-> a + 1 - e]
    PROVE  /\ calibrationMetrics(before) = "review" => calibrationMetrics(after) = "review"
           /\ calibrationMetrics(before) # "monitor" => calibrationMetrics(after) # "monitor"
  <1>1. /\ before.samples = n /\ before.adverse = a
        /\ after.samples = n + 1 - d /\ after.adverse = a + 1 - e
    OBVIOUS
  <1>2. /\ (n >= 5 /\ 5 * a >= n) => (n + 1 - d >= 5 /\ 5 * (a + 1 - e) >= n + 1 - d)
        /\ (n + 1 - d >= 5 /\ 20 * (a + 1 - e) < n + 1 - d) => (n >= 5 /\ 20 * a < n /\ ~(5 * a >= n))
    OBVIOUS
  <1>3. QED
    BY <1>1, <1>2 DEF calibrationMetrics

OutcomesSeq == \E S : outcomes \in Seq(S)

LEMMA OutcomesType == ReportSpec => []OutcomesSeq
  <1>1. ReportInit => OutcomesSeq
    <2> SUFFICES ASSUME ReportInit PROVE outcomes \in Seq({})
      BY DEF OutcomesSeq
    <2>1. QED
      BY DEF ReportInit
  <1>2. OutcomesSeq /\ [ReportNext]_outcomes => OutcomesSeq'
    <2> SUFFICES ASSUME NEW S, outcomes \in Seq(S), ReportNext PROVE \E T : outcomes' \in Seq(T)
      BY DEF OutcomesSeq
    <2>1. PICK e : outcomes' = Append(outcomes, e)
      BY DEF ReportNext, SaveDeploymentOutcome
    <2>2. PICK T : T = S \cup {e}
      OBVIOUS
    <2>3. outcomes \in Seq(T) /\ e \in T
      BY <2>2, WiderSeq
    <2>4. QED
      BY <2>1, <2>3
  <1>3. QED
    BY <1>1, <1>2, PTL DEF ReportSpec

\* The window after one more outcome e, for its key.
LEMMA WindowMoves ==
    ASSUME NEW S, NEW s \in Seq(S), NEW e \in S, e.kind \in {"rollback", "incident"},
           NEW t, t = Append(s, e), NEW key, key = e.key
    PROVE  \E x : /\ Replaces(Window(s, key), Window(t, key), x, Len(s) + 1)
                  /\ Replaces(Adverse(s, key), Adverse(t, key), x, Len(s) + 1)
  <1>1. PICK n \in Nat : n = Len(s)
    OBVIOUS
  <1>2. PICK m \in Nat : m = MaxListed /\ m > 0
    BY CalibrationConstants
  <1>3. PICK x \in Int : x = n + 1 - m
    BY <1>1, <1>2
  <1>4. /\ DOMAIN s = 1..n /\ DOMAIN t = 1..n + 1 /\ Len(t) = n + 1 /\ t[n + 1] = e
        /\ \A k \in 1..n : t[k] = s[k]
    BY <1>1
  <1>5. ASSUME NEW k PROVE k \in ListDeploymentOutcomes(t) <=>
                             (k = n + 1 \/ (k \in ListDeploymentOutcomes(s) /\ k # x))
    <2>1. /\ k \in ListDeploymentOutcomes(t) <=> (k \in 1..n + 1 /\ k + m > n + 1)
          /\ k \in ListDeploymentOutcomes(s) <=> (k \in 1..n /\ k + m > n)
      BY <1>1, <1>2, <1>4 DEF ListDeploymentOutcomes
    <2>2. (k \in 1..n + 1 /\ k + m > n + 1) <=> (k = n + 1 \/ (k \in 1..n /\ k + m > n /\ k # x))
      BY <1>2, <1>3
    <2>3. QED
      BY <2>1, <2>2
  <1>6. \A k \in ListDeploymentOutcomes(s) : k # n + 1 /\ t[k] = s[k]
    BY <1>1, <1>4 DEF ListDeploymentOutcomes
  <1>7. Window(t, key) = (Window(s, key) \ {x}) \cup {n + 1}
    BY <1>4, <1>5, <1>6 DEF Window
  <1>8. Adverse(t, key) = (Adverse(s, key) \ {x}) \cup {n + 1}
    <2>1. \A k \in Window(s, key) : k # n + 1 /\ t[k] = s[k]
      BY <1>6 DEF Window
    <2>2. QED
      BY <1>4, <1>7, <2>1 DEF Adverse
  <1>9. QED
    BY <1>1, <1>7, <1>8 DEF Replaces

LEMMA ReportStep ==
    ASSUME NEW S, NEW s \in Seq(S), NEW e \in S, e.kind \in {"rollback", "incident"},
           NEW t, t = Append(s, e), NEW key, key = e.key
    PROVE  /\ Recommendation(s, key) = "review" => Recommendation(t, key) = "review"
           /\ Recommendation(s, key) # "monitor" => Recommendation(t, key) # "monitor"
  <1>1. PICK x : /\ Replaces(Window(s, key), Window(t, key), x, Len(s) + 1)
                 /\ Replaces(Adverse(s, key), Adverse(t, key), x, Len(s) + 1)
    BY WindowMoves
  <1>2. /\ IsFiniteSet(Window(s, key)) /\ IsFiniteSet(Adverse(s, key))
        /\ Adverse(s, key) \subseteq Window(s, key)
    BY WindowFinite DEF Adverse
  <1>3. Len(s) + 1 \notin Window(s, key) /\ Len(s) + 1 \notin Adverse(s, key)
    BY <1>2 DEF Window, ListDeploymentOutcomes
  <1>4. PICK n, d : n = Cardinality(Window(s, key)) /\ d = Lost(Window(s, key), x)
    OBVIOUS
  <1>5. PICK a, c : a = Cardinality(Adverse(s, key)) /\ c = Lost(Adverse(s, key), x)
    OBVIOUS
  <1>6. n \in Nat /\ Cardinality(Window(t, key)) = n + 1 - d
    BY <1>1, <1>2, <1>3, <1>4, Replaced
  <1>7. a \in Nat /\ Cardinality(Adverse(t, key)) = a + 1 - c
    BY <1>1, <1>2, <1>3, <1>5, Replaced
  <1>8. a <= n
    BY <1>2, <1>4, <1>5, FS_Subset
  <1>9. d \in 0..1 /\ c \in 0..1 /\ c <= d
    BY <1>2, <1>4, <1>5 DEF Lost
  <1>10. PICK before, after : before = addCalibration(s, key) /\ after = addCalibration(t, key)
    OBVIOUS
  <1>11. /\ before = [samples |-> n, adverse |-> a]
         /\ after = [samples |-> n + 1 - d, adverse |-> a + 1 - c]
    BY <1>4, <1>5, <1>6, <1>7, <1>10 DEF addCalibration, Window, Adverse
  <1>12. /\ calibrationMetrics(before) = "review" => calibrationMetrics(after) = "review"
         /\ calibrationMetrics(before) # "monitor" => calibrationMetrics(after) # "monitor"
    BY <1>6, <1>7, <1>8, <1>9, <1>11, NeverCalmer
  <1>13. QED
    BY <1>10, <1>12 DEF Recommendation

(***************************************************************************)
(* A rollback or an incident never turns a call for review of its key into *)
(* anything calmer, nor leads to "no change recommended", however long the *)
(* history is and whatever the report's limit drops.                       *)
(***************************************************************************)
THEOREM AdverseNeverCalmsHolds == ReportSpec => AdverseNeverCalms
  <1>1. OutcomesSeq /\ [ReportNext]_outcomes => [AdverseIsHeeded]_outcomes
    <2> SUFFICES ASSUME NEW S, outcomes \in Seq(S), ReportNext PROVE AdverseIsHeeded
      BY DEF OutcomesSeq
    <2>1. PICK e : outcomes' = Append(outcomes, e)
      BY DEF ReportNext, SaveDeploymentOutcome
    <2>2. PICK T : T = S \cup {e}
      OBVIOUS
    <2>3. PICK s, t, key : s = outcomes /\ t = outcomes' /\ key = e.key
      OBVIOUS
    <2>4. s \in Seq(T) /\ e \in T /\ t = Append(s, e) /\ t \in Seq(T)
      BY <2>1, <2>2, <2>3, WiderSeq
    <2>5. t[Len(t)] = e
      BY <2>4
    <2>6. SUFFICES ASSUME e.kind \in {"rollback", "incident"}
                   PROVE  /\ Recommendation(s, key) = "review" => Recommendation(t, key) = "review"
                          /\ Recommendation(s, key) # "monitor" => Recommendation(t, key) # "monitor"
      BY <2>3, <2>5 DEF AdverseIsHeeded
    <2>7. QED
      BY <2>3, <2>4, <2>6, ReportStep
  <1>2. QED
    BY <1>1, OutcomesType, PTL DEF ReportSpec, AdverseNeverCalms

-----------------------------------------------------------------------------
(* Classify's map.  A map that is the maximum of some reports is the        *)
(* maximum of these and m once m is added.                                  *)

IsMutation(m) ==
    /\ m = [kind |-> m.kind, severity |-> m.severity, confidence |-> m.confidence, files |-> m.files]
    /\ m.confidence \in Int

LEMMA RankType == ASSUME NEW s PROVE severityRank(s) \in 1..4
  BY DEF severityRank

LEMMA MergeIs ==
    ASSUME NEW old, IsMutation(old), NEW m, IsMutation(m), NEW r, r = Merge(old, m)
    PROVE  /\ IsMutation(r) /\ r.kind = old.kind /\ r.files = old.files \cup m.files
           /\ r.confidence = IF m.confidence > old.confidence THEN m.confidence ELSE old.confidence
           /\ r.severity = IF severityRank(m.severity) > severityRank(old.severity)
                           THEN m.severity ELSE old.severity
  <1>1. PICK kind, severity, confidence, files :
            old = [kind |-> kind, severity |-> severity, confidence |-> confidence, files |-> files]
    BY DEF IsMutation
  <1>2. PICK f, c, v : /\ f = old.files \cup m.files
                       /\ c = IF m.confidence > old.confidence THEN m.confidence ELSE old.confidence
                       /\ v = IF severityRank(m.severity) > severityRank(old.severity)
                              THEN m.severity ELSE old.severity
    OBVIOUS
  <1>3. r = [old EXCEPT !.files = f, !.confidence = c, !.severity = v]
    BY <1>1, <1>2 DEF Merge
  <1>4. /\ DOMAIN r = {"kind", "severity", "confidence", "files"} /\ r = [x \in DOMAIN r |-> r[x]]
        /\ r.kind = old.kind /\ r.files = f /\ r.confidence = c /\ r.severity = v
    BY <1>1, <1>3
  <1>5. c \in Int
    BY <1>2 DEF IsMutation
  <1>6. IsMutation(r)
    BY <1>4, <1>5 DEF IsMutation
  <1>7. QED
    BY <1>2, <1>4, <1>6

\* IsMaximum, kind by kind.
OfKind(reports, kind) == {m \in reports : m.kind = kind}

IsBest(v, ofKind) ==
    /\ IsMutation(v)
    /\ v.files = UNION {m.files : m \in ofKind}
    /\ \A m \in ofKind : /\ severityRank(m.severity) <= severityRank(v.severity)
                         /\ m.confidence <= v.confidence
    /\ \E m \in ofKind : m.severity = v.severity
    /\ \E m \in ofKind : m.confidence = v.confidence

Merged(map, reports) ==
    /\ map = [k \in DOMAIN map |-> map[k]]
    /\ DOMAIN map = {m.kind : m \in reports}
    /\ \A kind \in DOMAIN map : IsBest(map[kind], OfKind(reports, kind))

LEMMA MergedIsMaximum ==
    ASSUME NEW map, NEW reports, Merged(map, reports)
    PROVE  IsMaximum(map, reports)
  BY DEF Merged, IsMaximum, IsBest, OfKind

LEMMA BestAlone == ASSUME NEW m, IsMutation(m) PROVE IsBest(m, {m})
  <1>1. UNION {r.files : r \in {m}} = m.files
    OBVIOUS
  <1>2. severityRank(m.severity) <= severityRank(m.severity)
    BY RankType
  <1>3. m.confidence <= m.confidence
    BY DEF IsMutation
  <1>4. QED
    BY <1>1, <1>2, <1>3 DEF IsBest

LEMMA BestMerged ==
    ASSUME NEW old, NEW A, IsBest(old, A), NEW m, IsMutation(m), \A r \in A : IsMutation(r)
    PROVE  IsBest(Merge(old, m), A \cup {m})
  <1>1. PICK v : v = Merge(old, m)
    OBVIOUS
  <1>2. /\ IsMutation(v) /\ IsMutation(old) /\ v.files = old.files \cup m.files
        /\ v.confidence = IF m.confidence > old.confidence THEN m.confidence ELSE old.confidence
        /\ v.severity = IF severityRank(m.severity) > severityRank(old.severity)
                        THEN m.severity ELSE old.severity
    BY <1>1, MergeIs DEF IsBest
  <1>3. v.files = UNION {r.files : r \in A \cup {m}}
    <2>1. old.files = UNION {r.files : r \in A}
      BY DEF IsBest
    <2>2. QED
      BY <1>2, <2>1
  <1>4. /\ severityRank(old.severity) \in Int /\ severityRank(m.severity) \in Int
        /\ old.confidence \in Int /\ m.confidence \in Int
    BY <1>2, RankType DEF IsMutation
  <1>5. /\ severityRank(old.severity) <= severityRank(v.severity)
        /\ severityRank(m.severity) <= severityRank(v.severity)
        /\ old.confidence <= v.confidence /\ m.confidence <= v.confidence
    BY <1>2, <1>4
  <1>6. ASSUME NEW r \in A \cup {m}
        PROVE  severityRank(r.severity) <= severityRank(v.severity) /\ r.confidence <= v.confidence
    <2>1. CASE r = m
      BY <1>5, <2>1
    <2>2. CASE r \in A
      <3>1. /\ severityRank(r.severity) <= severityRank(old.severity)
            /\ r.confidence <= old.confidence /\ IsMutation(r)
        BY <2>2 DEF IsBest
      <3>2. severityRank(r.severity) \in Int /\ severityRank(v.severity) \in Int
            /\ r.confidence \in Int /\ v.confidence \in Int
        BY <1>2, <3>1, RankType DEF IsMutation
      <3>3. QED
        BY <1>4, <1>5, <3>1, <3>2
    <2>3. QED
      BY <2>1, <2>2
  <1>7. \E r \in A \cup {m} : r.severity = v.severity
    BY <1>2 DEF IsBest
  <1>8. \E r \in A \cup {m} : r.confidence = v.confidence
    BY <1>2 DEF IsBest
  <1>9. QED
    BY <1>1, <1>2, <1>3, <1>6, <1>7, <1>8 DEF IsBest

LEMMA AddMutationMerges ==
    ASSUME NEW map, NEW reports, Merged(map, reports), \A r \in reports : IsMutation(r),
           NEW m, IsMutation(m)
    PROVE  Merged(addMutation(map, m), reports \cup {m})
  <1>1. PICK next : next = addMutation(map, m)
    OBVIOUS
  <1>2. /\ DOMAIN next = DOMAIN map \cup {m.kind} /\ next = [k \in DOMAIN next |-> next[k]]
        /\ \A k \in DOMAIN next :
              next[k] = IF k # m.kind THEN map[k]
                        ELSE IF k \in DOMAIN map THEN Merge(map[k], m) ELSE m
    BY <1>1 DEF addMutation
  <1>3. DOMAIN next = {r.kind : r \in reports \cup {m}}
    BY <1>2 DEF Merged
  <1>4. ASSUME NEW k \in DOMAIN next PROVE IsBest(next[k], OfKind(reports \cup {m}, k))
    <2>1. CASE k # m.kind
      <3>1. OfKind(reports \cup {m}, k) = OfKind(reports, k)
        BY <2>1 DEF OfKind
      <3>2. QED
        BY <1>2, <2>1, <3>1 DEF Merged
    <2>2. CASE k = m.kind /\ k \in DOMAIN map
      <3>1. OfKind(reports \cup {m}, k) = OfKind(reports, k) \cup {m}
        BY <2>2 DEF OfKind
      <3>2. IsBest(map[k], OfKind(reports, k)) /\ next[k] = Merge(map[k], m)
        BY <1>2, <2>2 DEF Merged
      <3>3. \A r \in OfKind(reports, k) : IsMutation(r)
        BY DEF OfKind
      <3>4. QED
        BY <3>1, <3>2, <3>3, BestMerged
    <2>3. CASE k = m.kind /\ k \notin DOMAIN map
      <3>1. OfKind(reports \cup {m}, k) = {m}
        BY <2>3 DEF OfKind, Merged
      <3>2. next[k] = m
        BY <1>2, <2>3
      <3>3. QED
        BY <3>1, <3>2, BestAlone
    <2>4. QED
      BY <2>1, <2>2, <2>3
  <1>5. QED
    BY <1>1, <1>2, <1>3, <1>4 DEF Merged

-----------------------------------------------------------------------------
(* What a file gives rise to.                                               *)

LEMMA RulesAreWeighed ==
    \A r \in DefaultRules : r.confidence \in Int /\ r.kind \in DOMAIN defaultWeights \ {"unknown"}
  BY DEF DefaultRules, MutationRule, defaultWeights

LEMMA MutationIs ==
    ASSUME NEW kind, NEW severity, NEW confidence \in Int, NEW file
    PROVE  IsMutation(Mutation(kind, severity, confidence, file))
  BY DEF IsMutation, Mutation

LEMMA AnalyzersReport ==
    ASSUME NEW file, NEW content, NEW m \in DefaultAnalyzers(file, content)
    PROVE  \E kind, severity : \E confidence \in Int : m = Mutation(kind, severity, confidence, file)
  BY DEF DefaultAnalyzers, goASTAnalyzer, sqlDDLAnalyzer, openAPIAnalyzer, manifestAnalyzer,
         runtimeConfigAnalyzer

LEMMA FoundAre ==
    ASSUME NEW file, file.path \in DOMAIN External, NEW content, NEW engine,
           NEW m \in Found(file, content, engine)
    PROVE  IsMutation(m)
  <1>1. CASE m \in RuleMutations(file)
    <2>1. PICK r \in DefaultRules : m = Mutation(r.kind, r.severity, r.confidence, file)
      BY <1>1 DEF RuleMutations
    <2>2. QED
      BY <2>1, RulesAreWeighed, MutationIs
  <1>2. CASE m \in DefaultAnalyzers(file, content)
    BY <1>2, AnalyzersReport, MutationIs
  <1>3. CASE m \in External[file.path]
    BY <1>3, AnalysisConstants DEF IsMutation
  <1>4. QED
    BY <1>1, <1>2, <1>3 DEF Found

\* Nothing is found in content that does not load and not in content that does.
LEMMA FoundGrows ==
    ASSUME NEW file, NEW content, NEW engine
    PROVE  Found(file, {}, engine) \subseteq Found(file, content, engine)
  <1>1. /\ goASTAnalyzer(file, {}) \subseteq goASTAnalyzer(file, content)
        /\ sqlDDLAnalyzer(file, {}) \subseteq sqlDDLAnalyzer(file, content)
        /\ openAPIAnalyzer(file, {}) \subseteq openAPIAnalyzer(file, content)
        /\ runtimeConfigAnalyzer(file, {}) \subseteq runtimeConfigAnalyzer(file, content)
    BY DEF goASTAnalyzer, sqlDDLAnalyzer, openAPIAnalyzer, runtimeConfigAnalyzer
  <1>2. DefaultAnalyzers(file, {}) \subseteq DefaultAnalyzers(file, content)
    BY <1>1 DEF DefaultAnalyzers
  <1>3. QED
    BY <1>2 DEF Found

\* A change: its files are a sequence of files that external analyzers know.
IsInput(in) ==
    /\ in.files \in Seq(ToSet(in.files)) /\ in.padding \in Nat /\ in.drift \in BOOLEAN
    /\ \A file \in ToSet(in.files) : file.path \in DOMAIN External

ContentOf(in, missing, i) == IF i \in missing THEN {} ELSE in.files[i].body

LEMMA ReportsAre ==
    ASSUME NEW in, NEW missing, NEW k
    PROVE  \A m : m \in ReportsOf(in, missing, k) <=>
                  \E i \in 1..k : m \in Found(in.files[i], ContentOf(in, missing, i), in.engine)
  BY DEF ReportsOf, ContentOf

LEMMA ReportsAreMutations ==
    ASSUME NEW in, IsInput(in), NEW missing, NEW k \in 0..Len(in.files)
    PROVE  \A m \in ReportsOf(in, missing, k) : IsMutation(m)
  <1> SUFFICES ASSUME NEW m \in ReportsOf(in, missing, k) PROVE IsMutation(m)
    OBVIOUS
  <1>1. PICK i \in 1..k : m \in Found(in.files[i], ContentOf(in, missing, i), in.engine)
    BY ReportsAre
  <1>2. Len(in.files) \in Nat /\ DOMAIN in.files = 1..Len(in.files)
    BY DEF IsInput
  <1>3. i \in DOMAIN in.files
    BY <1>2
  <1>4. in.files[i].path \in DOMAIN External
    BY <1>3 DEF IsInput, ToSet
  <1>5. QED
    BY <1>1, <1>4, FoundAre

\* One file more, loaded or not.
IsNext(missing2, missing, next, k) ==
    /\ k \in Nat /\ missing \subseteq 1..k
    /\ next = k + 1 /\ (missing2 = missing \/ missing2 = missing \cup {next})

LEMMA ReportsNext ==
    ASSUME NEW in, NEW k, NEW missing, NEW missing2, NEW next, IsNext(missing2, missing, next, k)
    PROVE  /\ missing2 \subseteq 1..next
           /\ ReportsOf(in, missing2, next) =
                 ReportsOf(in, missing, k) \cup Found(in.files[next], ContentOf(in, missing2, next), in.engine)
  <1>1. 1..next = (1..k) \cup {next} /\ next \notin 1..k
    BY DEF IsNext
  <1>2. missing2 \subseteq 1..next
    BY <1>1 DEF IsNext
  <1>4. \A i \in 1..k : ContentOf(in, missing2, i) = ContentOf(in, missing, i)
    BY <1>1 DEF ContentOf, IsNext
  <1>5. PICK N : N = Found(in.files[next], ContentOf(in, missing2, next), in.engine)
    OBVIOUS
  <1>6. ASSUME NEW m
        PROVE  m \in ReportsOf(in, missing2, next) <=> (m \in ReportsOf(in, missing, k) \/ m \in N)
    <2>1. m \in ReportsOf(in, missing2, next) <=>
              \E i \in 1..next : m \in Found(in.files[i], ContentOf(in, missing2, i), in.engine)
      BY ReportsAre
    <2>2. m \in ReportsOf(in, missing, k) <=>
              \E i \in 1..k : m \in Found(in.files[i], ContentOf(in, missing, i), in.engine)
      BY ReportsAre
    <2>3. QED
      BY <1>1, <1>4, <1>5, <2>1, <2>2
  <1>7. QED
    BY <1>2, <1>5, <1>6

-----------------------------------------------------------------------------
(* Conflict findings.                                                       *)

LEMMA ConcatMembers ==
    ASSUME NEW S, NEW s \in Seq(S), NEW t \in Seq(S)
    PROVE  s \o t \in Seq(S) /\ ToSet(s \o t) = ToSet(s) \cup ToSet(t)
  <1>1. PICK r : r = s \o t
    OBVIOUS
  <1>2. PICK n \in Nat, m \in Nat : n = Len(s) /\ m = Len(t)
    OBVIOUS
  <1>3. /\ r \in Seq(S) /\ Len(r) = n + m
        /\ \A i \in 1..(n + m) : r[i] = IF i <= n THEN s[i] ELSE t[i - n]
    BY <1>1, <1>2, ConcatProperties
  <1>4. /\ \A x : x \in ToSet(r) <=> \E i \in 1..n + m : x = r[i]
        /\ \A x : x \in ToSet(s) <=> \E i \in 1..n : x = s[i]
        /\ \A x : x \in ToSet(t) <=> \E i \in 1..m : x = t[i]
    BY <1>2, <1>3, MembersAre
  <1>5. ASSUME NEW x, x \in ToSet(r) PROVE x \in ToSet(s) \cup ToSet(t)
    <2>1. PICK i \in 1..n + m : x = r[i]
      BY <1>4, <1>5
    <2>2. CASE i <= n
      <3>1. i \in 1..n /\ x = s[i]
        BY <1>3, <2>1, <2>2
      <3>2. QED
        BY <1>4, <3>1
    <2>3. CASE i > n
      <3>1. i - n \in 1..m /\ x = t[i - n]
        BY <1>3, <2>1, <2>3
      <3>2. QED
        BY <1>4, <3>1
    <2>4. QED
      BY <2>2, <2>3
  <1>6. ASSUME NEW x, x \in ToSet(s) PROVE x \in ToSet(r)
    <2>1. PICK i \in 1..n : x = s[i]
      BY <1>4, <1>6
    <2>2. i \in 1..n + m /\ r[i] = x
      BY <1>3, <2>1
    <2>3. QED
      BY <1>4, <2>2
  <1>7. ASSUME NEW x, x \in ToSet(t) PROVE x \in ToSet(r)
    <2>1. PICK i \in 1..m : x = t[i]
      BY <1>4, <1>7
    <2>2. i + n \in 1..n + m /\ ~(i + n <= n) /\ (i + n) - n = i
      BY <2>1
    <2>3. r[i + n] = x
      BY <1>3, <2>1, <2>2
    <2>4. QED
      BY <1>4, <2>2, <2>3
  <1>8. ToSet(r) = ToSet(s) \cup ToSet(t)
    BY <1>5, <1>6, <1>7
  <1>9. QED
    BY <1>1, <1>3, <1>8

LEMMA OverlapsFinite ==
    ASSUME NEW files, files \in Seq(ToSet(files))
    PROVE  IsFiniteSet(Overlaps(files))
  <1>1. IsFiniteSet(1..Len(files)) /\ DOMAIN files = 1..Len(files)
    BY FS_Interval
  <1>2. PICK norms : norms = [i \in 1..Len(files) |-> files[i].norm]
    OBVIOUS
  <1>3. PICK T : T = {norms[i] : i \in 1..Len(files)}
    OBVIOUS
  <1>4. norms \in Surjection(1..Len(files), T)
    BY <1>2, <1>3 DEF Surjection
  <1>5. IsFiniteSet(T)
    BY <1>1, <1>4, FS_Surjection
  <1>6. Overlaps(files) \subseteq T
    BY <1>1, <1>2, <1>3 DEF Overlaps, Named, ToSet
  <1>7. QED
    BY <1>5, <1>6, FS_Subset

\* The findings of one kind, when there is at most one.
LEMMA AtMostOne ==
    ASSUME NEW condition \in BOOLEAN, NEW x, NEW s, s = IF condition THEN <<x>> ELSE <<>>
    PROVE  s \in Seq(ToSet(s)) /\ (\A y : y \in ToSet(s) <=> condition /\ y = x)
  <1>1. CASE condition
    <2>1. s = <<x>> /\ DOMAIN s = {1} /\ s[1] = x
      BY <1>1
    <2>2. ToSet(s) = {x}
      BY <2>1 DEF ToSet
    <2>3. QED
      BY <1>1, <2>1, <2>2
  <1>2. CASE ~condition
    <2>1. s = <<>> /\ DOMAIN s = {}
      BY <1>2
    <2>2. ToSet(s) = {}
      BY <2>1 DEF ToSet
    <2>3. QED
      BY <1>2, <2>1, <2>2
  <1>3. QED
    BY <1>1, <1>2

\* Which kinds of findings there are.
IsKinds(K, files, drift) ==
    /\ K \subseteq {"base_drift", "overlapping_diff_entries", "policy_sensitive_files", "conflict_markers"}
    /\ ("base_drift" \in K) <=> drift
    /\ ("overlapping_diff_entries" \in K) <=> (Overlaps(files) # {})
    /\ ("policy_sensitive_files" \in K) <=> (Sensitive(files) # {})
    /\ ("conflict_markers" \in K) <=> (Marked(files) # {})

LEMMA KindsAre ==
    ASSUME NEW files, files \in Seq(ToSet(files)), NEW drift \in BOOLEAN,
           NEW overlaps \in SetToSeqs(Overlaps(files))
    PROVE  IsKinds({f.kind : f \in ToSet(Findings(files, drift, overlaps))}, files, drift)
  <1>1. /\ overlaps \in Seq(Overlaps(files)) /\ ToSet(overlaps) = Overlaps(files)
    BY OverlapsFinite, OrderFacts
  <1>2. PICK bd, ov, ps, cm : /\ bd = "base_drift" /\ ov = "overlapping_diff_entries"
                              /\ ps = "policy_sensitive_files" /\ cm = "conflict_markers"
    OBVIOUS
  <1>3. PICK fa, fc, fd : /\ fa = Finding(bd, {}) /\ fc = Finding(ps, PathsOf(Sensitive(files)))
                          /\ fd = Finding(cm, PathsOf(Marked(files)))
    OBVIOUS
  <1>4. PICK ovs \in BOOLEAN, sens \in BOOLEAN, mark \in BOOLEAN :
            /\ ovs = (Overlaps(files) # {}) /\ sens = (Sensitive(files) # {})
            /\ mark = (Marked(files) # {})
    OBVIOUS
  <1>5. PICK a, c, d : /\ a = IF drift THEN <<fa>> ELSE <<>>
                       /\ c = IF sens THEN <<fc>> ELSE <<>>
                       /\ d = IF mark THEN <<fd>> ELSE <<>>
    OBVIOUS
  <1>6. PICK b : b = [i \in 1..Len(overlaps) |->
                        Finding(ov, PathsOf({f \in Named(files) : f.norm = overlaps[i]}))]
    OBVIOUS
  <1>7. Findings(files, drift, overlaps) = a \o b \o c \o d
    BY <1>2, <1>3, <1>4, <1>5, <1>6 DEF Findings
  <1>8. \A k, p : Finding(k, p).kind = k
    BY DEF Finding
  <1>9. PICK S : S = ToSet(a) \cup ToSet(b) \cup ToSet(c) \cup ToSet(d)
    OBVIOUS
  <1>10. /\ a \in Seq(ToSet(a)) /\ \A f : f \in ToSet(a) <=> drift /\ f = fa
    BY <1>5, AtMostOne
  <1>11. /\ c \in Seq(ToSet(c)) /\ \A f : f \in ToSet(c) <=> sens /\ f = fc
    BY <1>5, AtMostOne
  <1>12. /\ d \in Seq(ToSet(d)) /\ \A f : f \in ToSet(d) <=> mark /\ f = fd
    BY <1>5, AtMostOne
  <1>13. b \in Seq(ToSet(b)) /\ (\A f \in ToSet(b) : f.kind = ov) /\ (ToSet(b) # {} <=> ovs)
    <2>1. PICK n \in Nat : n = Len(overlaps)
      BY <1>1
    <2>2. DOMAIN overlaps = 1..n /\ DOMAIN b = 1..n
      BY <1>1, <1>6, <2>1
    <2>3. \A i \in 1..n : b[i].kind = ov
      <3>1. TAKE i \in 1..n
      <3>2. PICK p : p = PathsOf({f \in Named(files) : f.norm = overlaps[i]})
        OBVIOUS
      <3>3. b[i] = Finding(ov, p)
        BY <1>6, <2>1, <3>2
      <3>4. QED
        BY <1>8, <3>3
    <2>4. \A x : x \in ToSet(b) <=> \E i \in 1..n : x = b[i]
      BY <2>2 DEF ToSet
    <2>5. \A i \in 1..n : b[i] \in ToSet(b)
      BY <2>4
    <2>6. b = [i \in 1..n |-> b[i]]
      <3>1. b = [i \in DOMAIN b |-> b[i]]
        BY <1>6
      <3>2. QED
        BY <2>2, <3>1
    <2>7. b \in Seq(ToSet(b))
      BY <2>5, <2>6
    <2>8. (1..n # {}) <=> ovs
      BY <1>1, <1>4, <2>2 DEF ToSet
    <2>9. QED
      BY <2>3, <2>4, <2>7, <2>8
  <1>14. ToSet(Findings(files, drift, overlaps)) = S
    <2>1. a \in Seq(S) /\ b \in Seq(S) /\ c \in Seq(S) /\ d \in Seq(S)
      BY <1>9, <1>10, <1>11, <1>12, <1>13, WiderSeq
    <2>2. PICK ab : ab = a \o b
      OBVIOUS
    <2>3. ab \in Seq(S) /\ ToSet(ab) = ToSet(a) \cup ToSet(b)
      BY <2>1, <2>2, ConcatMembers
    <2>4. PICK abc : abc = ab \o c
      OBVIOUS
    <2>5. abc \in Seq(S) /\ ToSet(abc) = ToSet(ab) \cup ToSet(c)
      BY <2>1, <2>3, <2>4, ConcatMembers
    <2>6. ToSet(abc \o d) = ToSet(abc) \cup ToSet(d)
      BY <2>1, <2>5, ConcatMembers
    <2>7. Findings(files, drift, overlaps) = abc \o d
      BY <1>7, <2>2, <2>4
    <2>8. QED
      BY <1>9, <2>3, <2>5, <2>6, <2>7
  <1>15. PICK K : K = {f.kind : f \in S}
    OBVIOUS
  <1>16. fa.kind = bd /\ fc.kind = ps /\ fd.kind = cm
    BY <1>3, <1>8
  <1>17. (bd \in K <=> drift) /\ (ps \in K <=> sens) /\ (cm \in K <=> mark) /\ (ov \in K <=> ovs)
    <2>1. \A f \in S : \/ f = fa /\ drift
                       \/ f \in ToSet(b)
                       \/ f = fc /\ sens
                       \/ f = fd /\ mark
      BY <1>9, <1>10, <1>11, <1>12
    <2>2. (bd \in K => drift) /\ (ps \in K => sens) /\ (cm \in K => mark) /\ (ov \in K => ovs)
      BY <1>2, <1>13, <1>15, <1>16, <2>1
    <2>3. (drift => bd \in K) /\ (sens => ps \in K) /\ (mark => cm \in K)
      BY <1>9, <1>10, <1>11, <1>12, <1>15, <1>16
    <2>4. ovs => ov \in K
      BY <1>9, <1>13, <1>15
    <2>5. QED
      BY <2>2, <2>3, <2>4
  <1>18. K \subseteq {bd, ov, ps, cm}
    BY <1>9, <1>10, <1>11, <1>12, <1>13, <1>15, <1>16
  <1>19. IsKinds(K, files, drift)
    BY <1>2, <1>4, <1>17, <1>18 DEF IsKinds
  <1>20. QED
    BY <1>14, <1>15, <1>19

-----------------------------------------------------------------------------
(* A job.  The values of one job are parameters here: its input, its stage, *)
(* and what it has computed.                                                *)

\* k files are read; what they give rise to is in the map or at hand.
ReadSoFar(in, td, ur, fd, mu, k) ==
    /\ td \in Seq(ToSet(in.files)) /\ Len(td) = Len(in.files) - k
    /\ \A i \in 1..Len(td) : td[i] = in.files[k + i]
    /\ ur \subseteq 1..k
    /\ \E added : Merged(mu, added) /\ added \cup fd = ReportsOf(in, ur, k)

Classifying(in, td, ur, fd, mu) ==
    \E k \in 0..Len(in.files) : ReadSoFar(in, td, ur, fd, mu, k)

\* The map holds what all files give rise to, or says that this is nothing.
IsClassified(in, ur, mu) ==
    LET reports == ReportsOf(in, ur, Len(in.files)) IN
    \/ Merged(mu, reports) /\ (reports = {} => Len(in.files) + in.padding = 0)
    \/ reports = {} /\ Len(in.files) + in.padding > 0 /\ DOMAIN mu = {"unknown"}

IsAssessed(in, cf) ==
    \E overlaps \in SetToSeqs(Overlaps(in.files)) : cf = Analyze(in.files, in.drift, overlaps)

IsEvaluated(in, mu, cf, rk) ==
    rk = Evaluate(DOMAIN mu, cf.score, in.criticality, Len(in.files) + in.padding)

JobOK(in, st, td, ur, fd, mu, cf, rk, ln) ==
    /\ st \in {"classify", "failed", "conflict", "risk", "lane", "done"}
    /\ st = "classify" => Classifying(in, td, ur, fd, mu)
    /\ st \in {"conflict", "risk", "lane", "done"} => IsClassified(in, ur, mu)
    /\ st \in {"risk", "lane", "done"} => IsAssessed(in, cf)
    /\ st \in {"lane", "done"} => IsEvaluated(in, mu, cf, rk)
    /\ st = "done" => ln = Assign(Packet(DOMAIN mu, rk.score, cf.route))

LEMMA NothingRead ==
    ASSUME NEW in, IsInput(in)
    PROVE  Classifying(in, in.files, {}, {}, NoFunction)
  <1>1. PICK n \in Nat : n = Len(in.files)
    BY DEF IsInput
  <1>2. Merged(NoFunction, {})
    BY DEF Merged, NoFunction
  <1>3. ReportsOf(in, {}, 0) = {}
    BY ReportsAre
  <1>4. ReadSoFar(in, in.files, {}, {}, NoFunction, 0)
    <2>1. \A i \in 1..n : in.files[i] = in.files[0 + i]
      OBVIOUS
    <2>2. in.files \in Seq(ToSet(in.files)) /\ n = n - 0
      BY DEF IsInput
    <2>3. \E added : Merged(NoFunction, added) /\ added \cup {} = ReportsOf(in, {}, 0)
      BY <1>2, <1>3
    <2>4. QED
      BY <1>1, <2>1, <2>2, <2>3 DEF ReadSoFar
  <1>5. 0 \in 0..Len(in.files)
    BY <1>1
  <1>6. QED
    BY <1>4, <1>5 DEF Classifying

LEMMA OneMoreRead ==
    ASSUME NEW in, IsInput(in), NEW td, NEW ur, NEW mu, Classifying(in, td, ur, {}, mu),
           td # <<>>, NEW loads \in BOOLEAN,
           NEW ur2, ur2 = IF loads THEN ur ELSE ur \cup {Len(in.files) - Len(td) + 1},
           NEW fd2, fd2 = Found(Head(td), IF loads THEN Head(td).body ELSE {}, in.engine)
    PROVE  Classifying(in, Tail(td), ur2, fd2, mu)
  <1>1. PICK k \in 0..Len(in.files) : ReadSoFar(in, td, ur, {}, mu, k)
    BY DEF Classifying
  <1>2. PICK t : t = Tail(td)
    OBVIOUS
  <1>3. PICK n \in Nat : n = Len(in.files)
    BY DEF IsInput
  <1>4. /\ td \in Seq(ToSet(in.files)) /\ Len(td) = n - k /\ k \in Nat /\ ur \subseteq 1..k
        /\ \A i \in 1..Len(td) : td[i] = in.files[k + i]
    BY <1>1, <1>3 DEF ReadSoFar
  <1>5. PICK added : Merged(mu, added) /\ added \cup {} = ReportsOf(in, ur, k)
    BY <1>1 DEF ReadSoFar
  <1>6. Len(td) >= 1 /\ k + 1 \in 0..n
    BY <1>3, <1>4
  <1>7. Head(td) = in.files[k + 1]
    BY <1>4, <1>6
  <1>8. Len(in.files) - Len(td) + 1 = k + 1
    BY <1>3, <1>4
  <1>9. /\ ur2 \subseteq 1..k + 1
        /\ ReportsOf(in, ur2, k + 1) = ReportsOf(in, ur, k) \cup fd2
    <2>1. PICK next : next = k + 1
      OBVIOUS
    <2>2. IsNext(ur2, ur, next, k)
      BY <1>4, <1>8, <2>1 DEF IsNext
    <2>3. loads <=> next \notin ur2
      BY <1>4, <1>8, <2>1
    <2>4. fd2 = Found(in.files[next], ContentOf(in, ur2, next), in.engine)
      BY <1>7, <2>1, <2>3 DEF ContentOf
    <2>5. /\ ur2 \subseteq 1..next
          /\ ReportsOf(in, ur2, next) =
                ReportsOf(in, ur, k) \cup Found(in.files[next], ContentOf(in, ur2, next), in.engine)
      BY <2>2, ReportsNext
    <2>6. QED
      BY <2>1, <2>4, <2>5
  <1>10. /\ t \in Seq(ToSet(in.files)) /\ Len(t) = n - (k + 1)
        /\ \A i \in 1..Len(t) : t[i] = td[i + 1]
    BY <1>2, <1>4, <1>6, HeadTailProperties
  <1>11. ASSUME NEW i \in 1..Len(t) PROVE t[i] = in.files[k + 1 + i]
    <2>1. i \in Int /\ i + 1 \in 1..Len(td) /\ k + (i + 1) = k + 1 + i
      BY <1>4, <1>10
    <2>2. QED
      BY <1>4, <1>10, <2>1
  <1>12. Merged(mu, added) /\ added \cup fd2 = ReportsOf(in, ur2, k + 1)
    BY <1>5, <1>9
  <1>13. ReadSoFar(in, t, ur2, fd2, mu, k + 1)
    BY <1>3, <1>9, <1>10, <1>11, <1>12 DEF ReadSoFar
  <1>14. QED
    BY <1>2, <1>3, <1>6, <1>13 DEF Classifying

LEMMA OneMoreAdded ==
    ASSUME NEW in, IsInput(in), NEW td, NEW ur, NEW fd, NEW mu, Classifying(in, td, ur, fd, mu),
           NEW m \in fd
    PROVE  Classifying(in, td, ur, fd \ {m}, addMutation(mu, m))
  <1>1. PICK k \in 0..Len(in.files) : ReadSoFar(in, td, ur, fd, mu, k)
    BY DEF Classifying
  <1>2. PICK added : Merged(mu, added) /\ added \cup fd = ReportsOf(in, ur, k)
    BY <1>1 DEF ReadSoFar
  <1>3. \A r \in added \cup fd : IsMutation(r)
    BY <1>2, ReportsAreMutations
  <1>4. Merged(addMutation(mu, m), added \cup {m})
    BY <1>2, <1>3, AddMutationMerges
  <1>5. (added \cup {m}) \cup (fd \ {m}) = added \cup fd
    OBVIOUS
  <1>6. ReadSoFar(in, td, ur, fd \ {m}, addMutation(mu, m), k)
    BY <1>1, <1>2, <1>4, <1>5 DEF ReadSoFar
  <1>7. QED
    BY <1>6 DEF Classifying

LEMMA AllRead ==
    ASSUME NEW in, IsInput(in), NEW td, NEW ur, NEW mu, Classifying(in, td, ur, {}, mu), td = <<>>,
           NEW mu2, NEW unknown, DOMAIN unknown = {"unknown"},
           mu2 = IF DOMAIN mu = {} /\ Len(in.files) + in.padding > 0 THEN unknown ELSE mu
    PROVE  IsClassified(in, ur, mu2)
  <1>1. PICK k \in 0..Len(in.files) : ReadSoFar(in, td, ur, {}, mu, k)
    BY DEF Classifying
  <1>2. PICK n \in Nat, p \in Nat : n = Len(in.files) /\ p = in.padding
    BY DEF IsInput
  <1>3. k = n
    BY <1>1, <1>2 DEF ReadSoFar
  <1>4. PICK reports : reports = ReportsOf(in, ur, n)
    OBVIOUS
  <1>5. Merged(mu, reports)
    BY <1>1, <1>3, <1>4 DEF ReadSoFar
  <1>6. reports = {} <=> DOMAIN mu = {}
    BY <1>5 DEF Merged
  <1>7. CASE DOMAIN mu = {} /\ n + p > 0
    BY <1>2, <1>4, <1>6, <1>7 DEF IsClassified
  <1>8. CASE ~(DOMAIN mu = {} /\ n + p > 0)
    <2>1. mu2 = mu /\ (reports = {} => n + p = 0)
      BY <1>2, <1>6, <1>8
    <2>2. QED
      BY <1>2, <1>4, <1>5, <2>1 DEF IsClassified
  <1>9. QED
    BY <1>7, <1>8

-----------------------------------------------------------------------------
(* All jobs.  A step of one job leaves the others alone.                    *)

OverJobs(f) == f = [i \in Jobs |-> f[i]]

OthersKept(f2, f, j) == OverJobs(f2) /\ \A i \in Jobs \ {j} : f2[i] = f[i]

JobsOverJobs ==
    /\ OverJobs(jobStage) /\ OverJobs(todo) /\ OverJobs(unread) /\ OverJobs(found)
    /\ OverJobs(mutations) /\ OverJobs(conflict) /\ OverJobs(risk) /\ OverJobs(lane)

JobHolds(j) ==
    JobOK(input[j], jobStage[j], todo[j], unread[j], found[j], mutations[j], conflict[j], risk[j], lane[j])

JobsInv == input \in Inputs /\ JobsOverJobs /\ \A j \in Jobs : JobHolds(j)

LEMMA NotTouched ==
    ASSUME NEW f, OverJobs(f), NEW j \in Jobs, NEW f2, f2 = f
    PROVE  OthersKept(f2, f, j) /\ f2[j] = f[j]
  BY DEF OverJobs, OthersKept

LEMMA InputsAre ==
    ASSUME input \in Inputs, NEW j \in Jobs
    PROVE  IsInput(input[j])
  BY AnalysisConstants DEF IsInput

LEMMA JobsStart == AnalysisInit => JobsInv
  <1> SUFFICES ASSUME AnalysisInit PROVE JobsInv
    OBVIOUS
  <1>1. input \in Inputs /\ JobsOverJobs
    BY DEF AnalysisInit, JobsOverJobs, OverJobs
  <1>2. ASSUME NEW j \in Jobs PROVE JobHolds(j)
    <2>1. IsInput(input[j])
      BY <1>1, InputsAre
    <2>2. jobStage[j] = "classify" /\ todo[j] = input[j].files /\ unread[j] = {} /\ found[j] = {}
      BY DEF AnalysisInit
    <2>3. mutations[j] = NoFunction
      BY DEF AnalysisInit
    <2>4. Classifying(input[j], todo[j], unread[j], found[j], mutations[j])
      BY <2>1, <2>2, <2>3, NothingRead
    <2>5. QED
      BY <2>2, <2>4 DEF JobHolds, JobOK
  <1>3. QED
    BY <1>1, <1>2 DEF JobsInv

\* What a step of j does to the values of all jobs.
IsStepOf(j) ==
    /\ input' = input
    /\ OthersKept(jobStage', jobStage, j) /\ OthersKept(todo', todo, j)
    /\ OthersKept(unread', unread, j) /\ OthersKept(found', found, j)
    /\ OthersKept(mutations', mutations, j) /\ OthersKept(conflict', conflict, j)
    /\ OthersKept(risk', risk, j) /\ OthersKept(lane', lane, j)

LEMMA OthersHold ==
    ASSUME JobsInv, NEW j \in Jobs, IsStepOf(j), JobHolds(j)'
    PROVE  JobsInv'
  <1>1. (input \in Inputs)'
    BY DEF JobsInv, IsStepOf
  <1>2. JobsOverJobs'
    BY DEF IsStepOf, OthersKept, JobsOverJobs
  <1>3. ASSUME NEW i \in Jobs, i # j PROVE JobHolds(i)'
    <2>1. JobHolds(i)
      BY DEF JobsInv
    <2>2. /\ input'[i] = input[i] /\ jobStage'[i] = jobStage[i] /\ todo'[i] = todo[i]
          /\ unread'[i] = unread[i] /\ found'[i] = found[i] /\ mutations'[i] = mutations[i]
          /\ conflict'[i] = conflict[i] /\ risk'[i] = risk[i] /\ lane'[i] = lane[i]
      BY <1>3 DEF IsStepOf, OthersKept
    <2>3. QED
      BY <2>1, <2>2 DEF JobHolds
  <1>4. QED
    BY <1>1, <1>2, <1>3 DEF JobsInv

LEMMA ReadFileKeeps ==
    ASSUME JobsInv, NEW j \in Jobs, NEW loads \in BOOLEAN, ReadFile(j, loads)
    PROVE  JobsInv'
  <1>1. JobsOverJobs /\ JobHolds(j) /\ IsInput(input[j])
    BY InputsAre DEF JobsInv
  <1>2. PICK fd2, ur2, td2 :
            /\ fd2 = Found(Head(todo[j]), IF loads THEN Head(todo[j]).body ELSE {}, input[j].engine)
            /\ ur2 = IF loads THEN unread[j] ELSE unread[j] \cup {Len(input[j].files) - Len(todo[j]) + 1}
            /\ td2 = Tail(todo[j])
    OBVIOUS
  <1>3. /\ found' = [found EXCEPT ![j] = fd2] /\ unread' = [unread EXCEPT ![j] = ur2]
        /\ todo' = [todo EXCEPT ![j] = td2]
    BY <1>2 DEF ReadFile
  <1>4. /\ input' = input /\ jobStage' = jobStage /\ mutations' = mutations /\ conflict' = conflict
        /\ risk' = risk /\ lane' = lane /\ jobStage[j] = "classify" /\ found[j] = {} /\ todo[j] # <<>>
    BY DEF ReadFile
  <1>5. OthersKept(found', found, j) /\ found'[j] = fd2
    BY <1>1, <1>3 DEF JobsOverJobs, OverJobs, OthersKept
  <1>6. OthersKept(unread', unread, j) /\ unread'[j] = ur2
    BY <1>1, <1>3 DEF JobsOverJobs, OverJobs, OthersKept
  <1>7. OthersKept(todo', todo, j) /\ todo'[j] = td2
    BY <1>1, <1>3 DEF JobsOverJobs, OverJobs, OthersKept
  <1>8. IsStepOf(j)
    BY <1>1, <1>4, <1>5, <1>6, <1>7, NotTouched DEF IsStepOf, JobsOverJobs
  <1>9. Classifying(input[j], todo[j], unread[j], {}, mutations[j])
    BY <1>1, <1>4 DEF JobHolds, JobOK
  <1>10. Classifying(input[j], td2, ur2, fd2, mutations[j])
    BY <1>1, <1>2, <1>4, <1>9, OneMoreRead
  <1>11. JobHolds(j)'
    BY <1>4, <1>5, <1>6, <1>7, <1>10 DEF JobHolds, JobOK
  <1>12. QED
    BY <1>8, <1>11, OthersHold

LEMMA AddMutationKeeps ==
    ASSUME JobsInv, NEW j \in Jobs, NEW m \in found[j], AddMutation(j, m)
    PROVE  JobsInv'
  <1>1. JobsOverJobs /\ JobHolds(j) /\ IsInput(input[j])
    BY InputsAre DEF JobsInv
  <1>2. PICK fd2, mu2 : fd2 = found[j] \ {m} /\ mu2 = addMutation(mutations[j], m)
    OBVIOUS
  <1>3. found' = [found EXCEPT ![j] = fd2] /\ mutations' = [mutations EXCEPT ![j] = mu2]
    BY <1>2 DEF AddMutation
  <1>4. /\ input' = input /\ jobStage' = jobStage /\ todo' = todo /\ unread' = unread
        /\ conflict' = conflict /\ risk' = risk /\ lane' = lane /\ jobStage[j] = "classify"
    BY DEF AddMutation
  <1>5. OthersKept(found', found, j) /\ found'[j] = fd2
    BY <1>1, <1>3 DEF JobsOverJobs, OverJobs, OthersKept
  <1>6. OthersKept(mutations', mutations, j) /\ mutations'[j] = mu2
    BY <1>1, <1>3 DEF JobsOverJobs, OverJobs, OthersKept
  <1>7. IsStepOf(j)
    BY <1>1, <1>4, <1>5, <1>6, NotTouched DEF IsStepOf, JobsOverJobs
  <1>8. Classifying(input[j], todo[j], unread[j], found[j], mutations[j])
    BY <1>1, <1>4 DEF JobHolds, JobOK
  <1>9. Classifying(input[j], todo[j], unread[j], fd2, mu2)
    BY <1>1, <1>2, <1>8, OneMoreAdded
  <1>10. JobHolds(j)'
    BY <1>4, <1>5, <1>6, <1>9 DEF JobHolds, JobOK
  <1>11. QED
    BY <1>7, <1>10, OthersHold

LEMMA AnalyzerFailsKeeps ==
    ASSUME JobsInv, NEW j \in Jobs, AnalyzerFails(j)
    PROVE  JobsInv'
  <1>1. JobsOverJobs /\ JobHolds(j)
    BY DEF JobsInv
  <1>2. /\ input' = input /\ todo' = todo /\ unread' = unread /\ found' = found
        /\ mutations' = mutations /\ conflict' = conflict /\ risk' = risk /\ lane' = lane
        /\ jobStage' = [jobStage EXCEPT ![j] = "failed"]
    BY DEF AnalyzerFails
  <1>3. OthersKept(jobStage', jobStage, j) /\ jobStage'[j] = "failed"
    BY <1>1, <1>2 DEF JobsOverJobs, OverJobs, OthersKept
  <1>4. IsStepOf(j)
    BY <1>1, <1>2, <1>3, NotTouched DEF IsStepOf, JobsOverJobs
  <1>5. JobHolds(j)'
    BY <1>2, <1>3 DEF JobHolds, JobOK
  <1>6. QED
    BY <1>4, <1>5, OthersHold

LEMMA ClassifiedKeeps ==
    ASSUME JobsInv, NEW j \in Jobs, Classified(j)
    PROVE  JobsInv'
  <1>1. JobsOverJobs /\ JobHolds(j) /\ IsInput(input[j])
    BY InputsAre DEF JobsInv
  <1>2. PICK unk : unk = Unknown(j)
    OBVIOUS
  <1>3. PICK mu2 : mu2 = IF DOMAIN mutations[j] = {} /\ Len(input[j].files) + input[j].padding > 0
                         THEN unk ELSE mutations[j]
    OBVIOUS
  <1>4. mutations' = [mutations EXCEPT ![j] = mu2] /\ jobStage' = [jobStage EXCEPT ![j] = "conflict"]
    BY <1>2, <1>3 DEF Classified, FileCount
  <1>5. /\ input' = input /\ todo' = todo /\ unread' = unread /\ found' = found
        /\ conflict' = conflict /\ risk' = risk /\ lane' = lane
        /\ jobStage[j] = "classify" /\ found[j] = {} /\ todo[j] = <<>>
    BY DEF Classified
  <1>6. OthersKept(mutations', mutations, j) /\ mutations'[j] = mu2
    BY <1>1, <1>4 DEF JobsOverJobs, OverJobs, OthersKept
  <1>7. OthersKept(jobStage', jobStage, j) /\ jobStage'[j] = "conflict"
    BY <1>1, <1>4 DEF JobsOverJobs, OverJobs, OthersKept
  <1>8. IsStepOf(j)
    BY <1>1, <1>5, <1>6, <1>7, NotTouched DEF IsStepOf, JobsOverJobs
  <1>9. Classifying(input[j], todo[j], unread[j], {}, mutations[j])
    BY <1>1, <1>5 DEF JobHolds, JobOK
  <1>10. DOMAIN unk = {"unknown"}
    BY <1>2 DEF Unknown
  <1>11. IsClassified(input[j], unread[j], mu2)
    BY <1>1, <1>3, <1>5, <1>9, <1>10, AllRead
  <1>12. JobHolds(j)'
    BY <1>5, <1>6, <1>7, <1>11 DEF JobHolds, JobOK
  <1>13. QED
    BY <1>8, <1>12, OthersHold

LEMMA AnalyzeConflictKeeps ==
    ASSUME JobsInv, NEW j \in Jobs, AnalyzeConflict(j)
    PROVE  JobsInv'
  <1>1. JobsOverJobs /\ JobHolds(j)
    BY DEF JobsInv
  <1>2. PICK overlaps \in SetToSeqs(Overlaps(input[j].files)) :
            conflict' = [conflict EXCEPT ![j] = Analyze(input[j].files, input[j].drift, overlaps)]
    BY DEF AnalyzeConflict
  <1>3. PICK cf : cf = Analyze(input[j].files, input[j].drift, overlaps)
    OBVIOUS
  <1>4. /\ input' = input /\ todo' = todo /\ unread' = unread /\ found' = found
        /\ mutations' = mutations /\ risk' = risk /\ lane' = lane
        /\ jobStage[j] = "conflict" /\ jobStage' = [jobStage EXCEPT ![j] = "risk"]
    BY DEF AnalyzeConflict
  <1>5. OthersKept(conflict', conflict, j) /\ conflict'[j] = cf
    BY <1>1, <1>2, <1>3 DEF JobsOverJobs, OverJobs, OthersKept
  <1>6. OthersKept(jobStage', jobStage, j) /\ jobStage'[j] = "risk"
    BY <1>1, <1>4 DEF JobsOverJobs, OverJobs, OthersKept
  <1>7. IsStepOf(j)
    BY <1>1, <1>4, <1>5, <1>6, NotTouched DEF IsStepOf, JobsOverJobs
  <1>8. IsAssessed(input[j], cf)
    BY <1>2, <1>3 DEF IsAssessed
  <1>9. IsClassified(input[j], unread[j], mutations[j])
    BY <1>1, <1>4 DEF JobHolds, JobOK
  <1>10. JobHolds(j)'
    BY <1>4, <1>5, <1>6, <1>8, <1>9 DEF JobHolds, JobOK
  <1>11. QED
    BY <1>7, <1>10, OthersHold

LEMMA EvaluateRiskKeeps ==
    ASSUME JobsInv, NEW j \in Jobs, EvaluateRisk(j)
    PROVE  JobsInv'
  <1>1. JobsOverJobs /\ JobHolds(j)
    BY DEF JobsInv
  <1>2. PICK rk : rk = Evaluate(DOMAIN mutations[j], conflict[j].score, input[j].criticality,
                                Len(input[j].files) + input[j].padding)
    OBVIOUS
  <1>3. /\ input' = input /\ todo' = todo /\ unread' = unread /\ found' = found
        /\ mutations' = mutations /\ conflict' = conflict /\ lane' = lane
        /\ jobStage[j] = "risk" /\ jobStage' = [jobStage EXCEPT ![j] = "lane"]
        /\ risk' = [risk EXCEPT ![j] = rk]
    BY <1>2 DEF EvaluateRisk, FileCount
  <1>4. OthersKept(risk', risk, j) /\ risk'[j] = rk
    BY <1>1, <1>3 DEF JobsOverJobs, OverJobs, OthersKept
  <1>5. OthersKept(jobStage', jobStage, j) /\ jobStage'[j] = "lane"
    BY <1>1, <1>3 DEF JobsOverJobs, OverJobs, OthersKept
  <1>6. IsStepOf(j)
    BY <1>1, <1>3, <1>4, <1>5, NotTouched DEF IsStepOf, JobsOverJobs
  <1>7. IsEvaluated(input[j], mutations[j], conflict[j], rk)
    BY <1>2 DEF IsEvaluated
  <1>8. IsClassified(input[j], unread[j], mutations[j]) /\ IsAssessed(input[j], conflict[j])
    BY <1>1, <1>3 DEF JobHolds, JobOK
  <1>9. JobHolds(j)'
    BY <1>3, <1>4, <1>5, <1>7, <1>8 DEF JobHolds, JobOK
  <1>10. QED
    BY <1>6, <1>9, OthersHold

LEMMA AssignLaneKeeps ==
    ASSUME JobsInv, NEW j \in Jobs, AssignLane(j)
    PROVE  JobsInv'
  <1>1. JobsOverJobs /\ JobHolds(j)
    BY DEF JobsInv
  <1>2. PICK ln : ln = Assign(Packet(DOMAIN mutations[j], risk[j].score, conflict[j].route))
    OBVIOUS
  <1>3. /\ input' = input /\ todo' = todo /\ unread' = unread /\ found' = found
        /\ mutations' = mutations /\ conflict' = conflict /\ risk' = risk
        /\ jobStage[j] = "lane" /\ jobStage' = [jobStage EXCEPT ![j] = "done"]
        /\ lane' = [lane EXCEPT ![j] = ln]
    BY <1>2 DEF AssignLane
  <1>4. OthersKept(lane', lane, j) /\ lane'[j] = ln
    BY <1>1, <1>3 DEF JobsOverJobs, OverJobs, OthersKept
  <1>5. OthersKept(jobStage', jobStage, j) /\ jobStage'[j] = "done"
    BY <1>1, <1>3 DEF JobsOverJobs, OverJobs, OthersKept
  <1>6. IsStepOf(j)
    BY <1>1, <1>3, <1>4, <1>5, NotTouched DEF IsStepOf, JobsOverJobs
  <1>7. /\ IsClassified(input[j], unread[j], mutations[j]) /\ IsAssessed(input[j], conflict[j])
        /\ IsEvaluated(input[j], mutations[j], conflict[j], risk[j])
    BY <1>1, <1>3 DEF JobHolds, JobOK
  <1>8. JobHolds(j)'
    BY <1>2, <1>3, <1>4, <1>5, <1>7 DEF JobHolds, JobOK
  <1>9. QED
    BY <1>6, <1>8, OthersHold

LEMMA JobsStay == AnalysisSpec => []JobsInv
  <1>1. ASSUME JobsInv, AnalysisNext PROVE JobsInv'
    <2>1. PICK j \in Jobs : Step(j)
      BY <1>1 DEF AnalysisNext
    <2>2. ASSUME NEW loads \in BOOLEAN, ReadFile(j, loads) PROVE JobsInv'
      BY <1>1, <2>2, ReadFileKeeps
    <2>3. ASSUME NEW m \in found[j], AddMutation(j, m) PROVE JobsInv'
      BY <1>1, <2>3, AddMutationKeeps
    <2>4. CASE AnalyzerFails(j)
      BY <1>1, <2>4, AnalyzerFailsKeeps
    <2>5. CASE Classified(j)
      BY <1>1, <2>5, ClassifiedKeeps
    <2>6. CASE AnalyzeConflict(j)
      BY <1>1, <2>6, AnalyzeConflictKeeps
    <2>7. CASE EvaluateRisk(j)
      BY <1>1, <2>7, EvaluateRiskKeeps
    <2>8. CASE AssignLane(j)
      BY <1>1, <2>8, AssignLaneKeeps
    <2>9. QED
      BY <2>1, <2>2, <2>3, <2>4, <2>5, <2>6, <2>7, <2>8 DEF Step
  <1>2. ASSUME JobsInv, UNCHANGED jobVars PROVE JobsInv'
    <2>1. \A j \in Jobs : JobHolds(j)'
      BY <1>2 DEF jobVars, JobsInv, JobHolds
    <2>2. JobsOverJobs' /\ (input \in Inputs)'
      BY <1>2 DEF jobVars, JobsInv, JobsOverJobs
    <2>3. QED
      BY <2>1, <2>2 DEF JobsInv
  <1>3. QED
    BY JobsStart, <1>1, <1>2, PTL DEF AnalysisSpec

(***************************************************************************)
(* Classify's result does not depend on the order of files, rules and      *)
(* analyzers, for every change and every external analyzer: the map is the *)
(* maximum of what the files give rise to (mutations/engine.go 63-126).    *)
(***************************************************************************)
THEOREM ClassifyIsMaximumHolds == AnalysisSpec => []ClassifyIsMaximum
  <1>1. ASSUME JobsInv PROVE ClassifyIsMaximum
    <2> SUFFICES ASSUME NEW j \in Jobs, Analysed(j)
                 PROVE  \/ IsMaximum(mutations[j], Reports(j)) /\ (Reports(j) = {} => FileCount(j) = 0)
                        \/ Reports(j) = {} /\ FileCount(j) > 0 /\ DOMAIN mutations[j] = {"unknown"}
      BY DEF ClassifyIsMaximum
    <2>1. IsClassified(input[j], unread[j], mutations[j])
      BY <1>1 DEF JobsInv, JobHolds, JobOK, Analysed
    <2>2. PICK reports : reports = ReportsOf(input[j], unread[j], Len(input[j].files))
      OBVIOUS
    <2>3. Reports(j) = reports /\ FileCount(j) = Len(input[j].files) + input[j].padding
      BY <2>2 DEF Reports, FileCount
    <2>4. CASE Merged(mutations[j], reports) /\ (reports = {} => Len(input[j].files) + input[j].padding = 0)
      BY <2>3, <2>4, MergedIsMaximum
    <2>5. CASE /\ reports = {} /\ Len(input[j].files) + input[j].padding > 0
               /\ DOMAIN mutations[j] = {"unknown"}
      BY <2>3, <2>5
    <2>6. QED
      BY <2>1, <2>2, <2>4, <2>5 DEF IsClassified
  <1>2. QED
    BY <1>1, JobsStay, PTL

-----------------------------------------------------------------------------
(* From findings to lanes.                                                  *)

\* The signs of a conflict other than markers.
MustRefresh(in) == in.drift \/ Overlaps(in.files) # {} \/ Sensitive(in.files) # {}

LEMMA RouteIs ==
    ASSUME NEW in, IsInput(in), NEW cf, IsAssessed(in, cf)
    PROVE  cf.route = IF Marked(in.files) # {} THEN "human_resolution"
                      ELSE IF MustRefresh(in) THEN "refresh_and_verify" ELSE "none"
  <1>1. PICK overlaps \in SetToSeqs(Overlaps(in.files)) : cf = Analyze(in.files, in.drift, overlaps)
    BY DEF IsAssessed
  <1>2. PICK K : K = {f.kind : f \in ToSet(Findings(in.files, in.drift, overlaps))}
    OBVIOUS
  <1>3. cf.route = Route(K)
    BY <1>1, <1>2 DEF Analyze
  <1>4. IsKinds(K, in.files, in.drift)
    BY <1>2, KindsAre DEF IsInput
  <1>5. "conflict_markers" \in K <=> Marked(in.files) # {}
    BY <1>4 DEF IsKinds
  <1>6. K = {} <=> ~MustRefresh(in) /\ Marked(in.files) = {}
    BY <1>4 DEF IsKinds, MustRefresh
  <1>7. QED
    BY <1>3, <1>5, <1>6 DEF Route

\* The lane of a packet, as the assigner decides it.
LaneOf(reviewed, score, route) ==
    IF route = "human_resolution" THEN "BLACK"
    ELSE IF route = "refresh_and_verify" \/ reviewed THEN "RED"
    ELSE IF score <= GreenMax THEN "GREEN"
    ELSE IF score <= YellowMax THEN "YELLOW"
    ELSE IF score <= RedMax THEN "RED" ELSE "BLACK"

LEMMA LaneIs ==
    ASSUME NEW kinds, NEW score, NEW route
    PROVE  Assign(Packet(kinds, score, route)) = LaneOf(kinds \cap Reviewed # {}, score, route)
  <1>1. PICK packet : packet = Packet(kinds, score, route)
    OBVIOUS
  <1>2. /\ packet.minimumLane = "unset" /\ packet.score = score /\ packet.canary = FALSE
        /\ packet.route = route
        /\ packet.status = IF kinds \cap Reviewed # {} THEN "pending" ELSE "approved"
    BY <1>1 DEF Packet, NoLane
  <1>3. kinds \cap Reviewed = {} => packet.reviewers = {}
    BY <1>1 DEF Packet
  <1>4. \A l : maxLane(l, packet.minimumLane) = l
    BY <1>2 DEF maxLane, NoLane
  <1>5. MustBlock(packet) <=> route = "human_resolution"
    BY <1>2 DEF MustBlock
  <1>6. IsForced(packet) <=>
            \/ route = "human_resolution" \/ route = "refresh_and_verify" \/ kinds \cap Reviewed # {}
    BY <1>2, <1>5 DEF IsForced
  <1>7. CASE IsForced(packet)
    BY <1>1, <1>4, <1>5, <1>6, <1>7 DEF Assign, forcedLane, LaneOf
  <1>8. CASE ~IsForced(packet)
    <2>1. packet.reviewers = {} /\ ~requiresEscalatedReview(packet)
      BY <1>3, <1>6, <1>8 DEF requiresEscalatedReview
    <2>2. thresholdLane(packet) = IF score <= GreenMax THEN "GREEN"
                                  ELSE IF score <= YellowMax THEN "YELLOW"
                                  ELSE IF score <= RedMax THEN "RED" ELSE "BLACK"
      BY <1>2, <1>4, <2>1 DEF thresholdLane, Automatable
    <2>3. QED
      BY <1>1, <1>6, <1>8, <2>2 DEF Assign, LaneOf
  <1>9. QED
    BY <1>7, <1>8

LEMMA LaneRanks ==
    order["GREEN"] = 1 /\ order["YELLOW"] = 2 /\ order["RED"] = 3 /\ order["BLACK"] = 4
  BY DEF order

LEMMA DoneIs ==
    ASSUME JobsInv, NEW j \in Jobs, jobStage[j] = "done"
    PROVE  /\ IsInput(input[j]) /\ IsClassified(input[j], unread[j], mutations[j])
           /\ IsAssessed(input[j], conflict[j])
           /\ IsEvaluated(input[j], mutations[j], conflict[j], risk[j])
           /\ lane[j] = LaneOf(DOMAIN mutations[j] \cap Reviewed # {}, risk[j].score, conflict[j].route)
  <1>1. JobOK(input[j], jobStage[j], todo[j], unread[j], found[j], mutations[j], conflict[j], risk[j], lane[j])
    BY DEF JobsInv, JobHolds
  <1>2. lane[j] = Assign(Packet(DOMAIN mutations[j], risk[j].score, conflict[j].route))
    BY <1>1 DEF JobOK
  <1>3. QED
    BY <1>1, <1>2, LaneIs, InputsAre DEF JobOK, JobsInv

(***************************************************************************)
(* Conflict signs reach the lane (docs/getting-started.md:216), for every  *)
(* change: conflictrisk/analyzer.go's findings decide the route, and the   *)
(* assigner looks at the route before it looks at the score.               *)
(***************************************************************************)
THEOREM ConflictsAreRoutedHolds == AnalysisSpec => []ConflictsAreRouted
  <1>1. ASSUME JobsInv PROVE ConflictsAreRouted
    <2> SUFFICES ASSUME NEW j \in Jobs, jobStage[j] = "done"
                 PROVE  /\ (\E file \in Named(input[j].files) : file.markers) => lane[j] = "BLACK"
                        /\ (input[j].drift \/ Overlaps(input[j].files) # {} \/
                              \E file \in Named(input[j].files) : isPolicySensitive(file)) =>
                               order[lane[j]] >= order["RED"]
      BY DEF ConflictsAreRouted
    <2>1. /\ conflict[j].route = IF Marked(input[j].files) # {} THEN "human_resolution"
                                 ELSE IF MustRefresh(input[j]) THEN "refresh_and_verify" ELSE "none"
          /\ lane[j] = LaneOf(DOMAIN mutations[j] \cap Reviewed # {}, risk[j].score, conflict[j].route)
      BY <1>1, DoneIs, RouteIs
    <2>2. (\E file \in Named(input[j].files) : file.markers) => Marked(input[j].files) # {}
      BY DEF Marked
    <2>3. (input[j].drift \/ Overlaps(input[j].files) # {} \/
              \E file \in Named(input[j].files) : isPolicySensitive(file)) => MustRefresh(input[j])
      BY DEF MustRefresh, Sensitive
    <2>4. Marked(input[j].files) # {} => lane[j] = "BLACK"
      BY <2>1 DEF LaneOf
    <2>5. MustRefresh(input[j]) => lane[j] \in {"RED", "BLACK"}
      BY <2>1 DEF LaneOf
    <2>6. QED
      BY <2>2, <2>3, <2>4, <2>5, LaneRanks
  <1>2. QED
    BY <1>1, JobsStay, PTL

-----------------------------------------------------------------------------
(* Wider changes.  fn and fw are the files of a change and of a wider one.  *)

Embeds(at, fn, fw) ==
    /\ at \in [DOMAIN fn -> DOMAIN fw]
    /\ \A i, k \in DOMAIN at : at[i] = at[k] => i = k
    /\ \A i \in DOMAIN at : fw[at[i]] = fn[i]

LEMMA ReportsWiden ==
    ASSUME NEW in, IsInput(in), NEW iw, IsInput(iw), NEW at, Embeds(at, in.files, iw.files),
           in.engine = iw.engine, NEW missing
    PROVE  ReportsOf(in, missing, Len(in.files)) \subseteq ReportsOf(iw, {}, Len(iw.files))
  <1> SUFFICES ASSUME NEW m \in ReportsOf(in, missing, Len(in.files))
               PROVE  m \in ReportsOf(iw, {}, Len(iw.files))
    OBVIOUS
  <1>1. PICK i \in 1..Len(in.files) : m \in Found(in.files[i], ContentOf(in, missing, i), in.engine)
    BY ReportsAre
  <1>2. DOMAIN in.files = 1..Len(in.files) /\ DOMAIN iw.files = 1..Len(iw.files)
    BY DEF IsInput
  <1>3. PICK k : k = at[i]
    OBVIOUS
  <1>4. k \in 1..Len(iw.files) /\ iw.files[k] = in.files[i]
    BY <1>2, <1>3 DEF Embeds
  <1>5. PICK file : file = in.files[i]
    OBVIOUS
  <1>6. ContentOf(in, missing, i) = {} \/ ContentOf(in, missing, i) = file.body
    BY <1>5 DEF ContentOf
  <1>7. m \in Found(file, file.body, in.engine)
    BY <1>1, <1>5, <1>6, FoundGrows
  <1>8. ContentOf(iw, {}, k) = file.body
    BY <1>4, <1>5 DEF ContentOf
  <1>9. m \in Found(iw.files[k], ContentOf(iw, {}, k), iw.engine)
    BY <1>4, <1>5, <1>7, <1>8
  <1>10. QED
    BY <1>4, <1>9, ReportsAre

\* The kinds stay, but for "unknown".
KindsGrow(K, L) == K \subseteq L \/ (K = {"unknown"} /\ L # {})

LEMMA KindsWiden ==
    ASSUME NEW in, IsInput(in), NEW iw, IsInput(iw), NEW at, Embeds(at, in.files, iw.files),
           in.engine = iw.engine, Len(in.files) <= Len(iw.files), in.padding <= iw.padding,
           NEW missing, NEW mn, IsClassified(in, missing, mn), NEW mw, IsClassified(iw, {}, mw)
    PROVE  KindsGrow(DOMAIN mn, DOMAIN mw)
  <1>1. PICK rn, rw : /\ rn = ReportsOf(in, missing, Len(in.files))
                      /\ rw = ReportsOf(iw, {}, Len(iw.files))
    OBVIOUS
  <1>2. rn \subseteq rw
    BY <1>1, ReportsWiden
  <1>3. PICK n \in Nat, w \in Nat : /\ n = Len(in.files) + in.padding
                                    /\ w = Len(iw.files) + iw.padding
    BY DEF IsInput
  <1>4. n <= w
    BY <1>3 DEF IsInput
  <1>5. PICK kn, kw : kn = {m.kind : m \in rn} /\ kw = {m.kind : m \in rw}
    OBVIOUS
  <1>6. (rn = {} <=> kn = {}) /\ (rw = {} <=> kw = {}) /\ kn \subseteq kw
    BY <1>2, <1>5
  <1>7. \/ DOMAIN mn = kn /\ (kn = {} => n = 0)
        \/ kn = {} /\ n > 0 /\ DOMAIN mn = {"unknown"}
    BY <1>1, <1>3, <1>5, <1>6 DEF IsClassified, Merged
  <1>8. \/ DOMAIN mw = kw /\ (kw = {} => w = 0)
        \/ kw = {} /\ w > 0 /\ DOMAIN mw = {"unknown"}
    BY <1>1, <1>3, <1>5, <1>6 DEF IsClassified, Merged
  <1>9. CASE kn # {}
    BY <1>6, <1>7, <1>8, <1>9 DEF KindsGrow
  <1>10. CASE kn = {} /\ n = 0
    BY <1>7, <1>10 DEF KindsGrow
  <1>11. CASE kn = {} /\ n > 0
    <2>1. DOMAIN mn = {"unknown"} /\ w > 0
      BY <1>4, <1>7, <1>11
    <2>2. w # 0
      BY <2>1
    <2>3. DOMAIN mw # {}
      BY <1>8, <2>2
    <2>4. QED
      BY <2>1, <2>3 DEF KindsGrow
  <1>12. n = 0 \/ n > 0
    OBVIOUS
  <1>13. QED
    BY <1>9, <1>10, <1>11, <1>12

LEMMA OverlapsWiden ==
    ASSUME NEW fn, NEW fw, NEW at, Embeds(at, fn, fw)
    PROVE  /\ Overlaps(fn) \subseteq Overlaps(fw)
           /\ Sensitive(fn) \subseteq Sensitive(fw) /\ Marked(fn) \subseteq Marked(fw)
  <1>1. Named(fn) \subseteq Named(fw)
    BY DEF Named, ToSet, Embeds
  <1>2. ASSUME NEW n \in Overlaps(fn) PROVE n \in Overlaps(fw)
    <2>1. PICK i, k \in DOMAIN fn : i # k /\ fn[i].norm = n /\ fn[k].norm = n
      BY DEF Overlaps
    <2>2. PICK a, b : a = at[i] /\ b = at[k]
      OBVIOUS
    <2>3. a \in DOMAIN fw /\ b \in DOMAIN fw /\ a # b /\ fw[a].norm = n /\ fw[b].norm = n
      BY <2>1, <2>2 DEF Embeds
    <2>4. n \in {file.norm : file \in Named(fw)}
      BY <1>1 DEF Overlaps
    <2>5. QED
      BY <2>3, <2>4 DEF Overlaps
  <1>3. QED
    BY <1>1, <1>2 DEF Sensitive, Marked

LEMMA OrderLength ==
    ASSUME NEW S, IsFiniteSet(S), NEW s \in SetToSeqs(S)
    PROVE  Len(s) = Cardinality(S) /\ Len(s) \in Nat
  <1>1. Cardinality(S) \in Nat /\ s \in [1..Cardinality(S) -> S]
    BY FS_CardinalityType DEF SetToSeqs
  <1>2. QED
    BY <1>1

\* The conflict score.
LEMMA ConflictWidens ==
    ASSUME NEW in, IsInput(in), NEW iw, IsInput(iw), NEW at, Embeds(at, in.files, iw.files),
           in.drift => iw.drift, NEW cn, IsAssessed(in, cn), NEW cw, IsAssessed(iw, cw)
    PROVE  cn.score \in Int /\ cw.score \in Int /\ 0 <= cn.score /\ cn.score <= cw.score
  <1>1. PICK on \in SetToSeqs(Overlaps(in.files)) : cn = Analyze(in.files, in.drift, on)
    BY DEF IsAssessed
  <1>2. PICK ow \in SetToSeqs(Overlaps(iw.files)) : cw = Analyze(iw.files, iw.drift, ow)
    BY DEF IsAssessed
  <1>3. IsFiniteSet(Overlaps(in.files)) /\ IsFiniteSet(Overlaps(iw.files))
    BY OverlapsFinite DEF IsInput
  <1>4. PICK ln \in Nat, lw \in Nat : ln = Len(on) /\ lw = Len(ow)
    BY <1>1, <1>2, <1>3, OrderLength
  <1>5. ln <= lw
    <2>1. Overlaps(in.files) \subseteq Overlaps(iw.files)
      BY OverlapsWiden
    <2>2. Cardinality(Overlaps(in.files)) <= Cardinality(Overlaps(iw.files))
      BY <1>3, <2>1, FS_Subset
    <2>3. QED
      BY <1>1, <1>2, <1>3, <1>4, <2>2, OrderLength
  <1>6. PICK dn \in Int, dw \in Int : /\ dn = IF in.drift THEN 25 ELSE 0
                                      /\ dw = IF iw.drift THEN 25 ELSE 0
    OBVIOUS
  <1>7. PICK pn \in Int, pw \in Int : /\ pn = IF Sensitive(in.files) # {} THEN 10 ELSE 0
                                      /\ pw = IF Sensitive(iw.files) # {} THEN 10 ELSE 0
    OBVIOUS
  <1>8. PICK mn \in Int, mw \in Int : /\ mn = IF Marked(in.files) # {} THEN 45 ELSE 0
                                      /\ mw = IF Marked(iw.files) # {} THEN 45 ELSE 0
    OBVIOUS
  <1>9. /\ 0 <= dn /\ dn <= dw /\ 0 <= pn /\ pn <= pw /\ 0 <= mn /\ mn <= mw
    BY <1>6, <1>7, <1>8, OverlapsWiden
  <1>10. PICK sn \in Int, sw \in Int : /\ sn = dn + 20 * ln + pn + mn
                                       /\ sw = dw + 20 * lw + pw + mw
    OBVIOUS
  <1>11. 0 <= sn /\ sn <= sw
    BY <1>5, <1>9, <1>10
  <1>12. cn.score = AtMost(sn, 100) /\ cw.score = AtMost(sw, 100)
    BY <1>1, <1>2, <1>4, <1>6, <1>7, <1>8, <1>10 DEF Analyze, FindingScore
  <1>13. QED
    BY <1>11, <1>12 DEF AtMost

\* The sum over the kinds.
Counts(kinds, kind) == IF kind \in kinds THEN defaultWeights[kind] ELSE 0

KindSum(kinds) ==
    Counts(kinds, "auth") + Counts(kinds, "schema") + Counts(kinds, "dependency")
      + Counts(kinds, "runtime_config") + Counts(kinds, "deployment") + Counts(kinds, "api")
      + Counts(kinds, "infrastructure") + Counts(kinds, "data_access")
      + Counts(kinds, "observability") + Counts(kinds, "unknown")

LEMMA WeightsAre ==
    /\ DOMAIN defaultWeights = {"auth", "schema", "dependency", "runtime_config", "deployment", "api",
                                "infrastructure", "data_access", "observability", "unknown"}
    /\ \A k \in DOMAIN defaultWeights : defaultWeights[k] \in Nat /\ defaultWeights[k] >= 8
    /\ defaultWeights["unknown"] = 8
  BY DEF defaultWeights

LEMMA CountsAre ==
    ASSUME NEW kinds, NEW kind \in DOMAIN defaultWeights
    PROVE  Counts(kinds, kind) \in Nat /\ (kind \in kinds => Counts(kinds, kind) >= 8)
  BY WeightsAre DEF Counts

LEMMA CountsGrow ==
    ASSUME NEW K, NEW L, K \subseteq L, NEW kind \in DOMAIN defaultWeights
    PROVE  Counts(K, kind) <= Counts(L, kind)
  BY WeightsAre DEF Counts

LEMMA KindSumType == ASSUME NEW kinds PROVE KindSum(kinds) \in Nat
  BY WeightsAre, CountsAre DEF KindSum

LEMMA KindSumGrows ==
    ASSUME NEW K, NEW L, KindsGrow(K, L), L \subseteq DOMAIN defaultWeights
    PROVE  KindSum(K) <= KindSum(L)
  <1>1. CASE K \subseteq L
    <2>1. \A kind \in DOMAIN defaultWeights :
              /\ Counts(K, kind) \in Nat /\ Counts(L, kind) \in Nat
              /\ Counts(K, kind) <= Counts(L, kind)
      BY <1>1, CountsAre, CountsGrow
    <2>2. QED
      BY <2>1, WeightsAre DEF KindSum
  <1>2. CASE K = {"unknown"} /\ L # {}
    <2>1. KindSum(K) = 8
      BY <1>2, WeightsAre DEF KindSum, Counts
    <2>2. PICK kind \in L : TRUE
      BY <1>2
    <2>3. kind \in DOMAIN defaultWeights /\ Counts(L, kind) >= 8
      BY <2>2, CountsAre
    <2>4. \A k \in DOMAIN defaultWeights : Counts(L, k) \in Nat
      BY CountsAre
    <2>5. KindSum(L) >= 8
      BY <2>3, <2>4, WeightsAre DEF KindSum
    <2>6. KindSum(L) \in Nat
      BY KindSumType
    <2>7. QED
      BY <2>1, <2>5, <2>6
  <1>3. QED
    BY <1>1, <1>2 DEF KindsGrow

LEMMA ScoreIs ==
    ASSUME NEW kinds, NEW score \in Int, NEW criticality, NEW count \in Nat
    PROVE  Evaluate(kinds, score, criticality, count).score =
              clampScore(KindSum(kinds) + score + CriticalityScore(criticality)
                           + (IF count > 20 THEN 8 ELSE 0))
  <1>1. PICK t : t = ByType(kinds, score)
    OBVIOUS
  <1>2. /\ t.security = Counts(kinds, "auth") /\ t.schema = Counts(kinds, "schema")
        /\ t.dependency = Counts(kinds, "dependency")
        /\ t.rollout = Counts(kinds, "runtime_config") + Counts(kinds, "deployment")
        /\ t.runtime = Counts(kinds, "api") + Counts(kinds, "infrastructure") + Counts(kinds, "data_access")
                         + Counts(kinds, "observability") + Counts(kinds, "unknown")
        /\ t.conflict = score
    BY <1>1 DEF ByType, Counts, Weight
  <1>3. PICK c \in Int, v \in Int : /\ c = CriticalityScore(criticality)
                                    /\ v = IF count > 20 THEN 8 ELSE 0
    BY DEF CriticalityScore
  <1>4. \A k \in DOMAIN defaultWeights : Counts(kinds, k) \in Int
    BY CountsAre
  <1>5. t.security + t.schema + t.dependency + t.rollout + t.runtime + t.conflict + c + v =
            KindSum(kinds) + score + c + v
    BY <1>2, <1>4, WeightsAre DEF KindSum
  <1>6. Evaluate(kinds, score, criticality, count).score =
            clampScore(t.security + t.schema + t.dependency + t.rollout + t.runtime + t.conflict + c + v)
    BY <1>1, <1>3 DEF Evaluate
  <1>7. QED
    BY <1>3, <1>5, <1>6

LEMMA LaneGrows ==
    ASSUME NEW r1 \in BOOLEAN, NEW r2 \in BOOLEAN, r1 => r2, NEW s1 \in Int, NEW s2 \in Int, s1 <= s2,
           NEW route1 \in ConflictRoute, NEW route2 \in ConflictRoute,
           route1 = "human_resolution" => route2 = "human_resolution",
           route1 = "refresh_and_verify" => route2 # "none"
    PROVE  \/ order[LaneOf(r1, s1, route1)] <= order[LaneOf(r2, s2, route2)]
           \/ /\ s1 > RedMax /\ LaneOf(r2, s2, route2) = "RED"
              /\ route2 = "refresh_and_verify" \/ r2
  <1>1. GreenMax \in Int /\ YellowMax \in Int /\ RedMax \in Int /\ GreenMax < YellowMax /\ YellowMax < RedMax
    BY ThresholdsOrdered
  <1>2. CASE route2 = "human_resolution"
    <2>1. LaneOf(r2, s2, route2) = "BLACK"
      BY <1>2 DEF LaneOf
    <2>2. LaneOf(r1, s1, route1) \in {"GREEN", "YELLOW", "RED", "BLACK"}
      BY DEF LaneOf
    <2>3. QED
      BY <2>1, <2>2, LaneRanks
  <1>3. CASE route2 # "human_resolution" /\ (route2 = "refresh_and_verify" \/ r2)
    <2>1. LaneOf(r2, s2, route2) = "RED"
      BY <1>3 DEF LaneOf
    <2>2. route1 # "human_resolution"
      BY <1>3
    <2>3. LaneOf(r1, s1, route1) \in {"GREEN", "YELLOW", "RED"} \/ s1 > RedMax
      BY <1>1, <2>2 DEF LaneOf
    <2>4. QED
      BY <1>3, <2>1, <2>3, LaneRanks
  <1>4. CASE route2 = "none" /\ ~r2
    <2>1. route1 = "none" /\ ~r1
      BY <1>4 DEF ConflictRoute
    <2>2. /\ LaneOf(r1, s1, route1) = IF s1 <= GreenMax THEN "GREEN" ELSE IF s1 <= YellowMax THEN "YELLOW"
                                      ELSE IF s1 <= RedMax THEN "RED" ELSE "BLACK"
          /\ LaneOf(r2, s2, route2) = IF s2 <= GreenMax THEN "GREEN" ELSE IF s2 <= YellowMax THEN "YELLOW"
                                      ELSE IF s2 <= RedMax THEN "RED" ELSE "BLACK"
      BY <1>4, <2>1 DEF LaneOf
    <2>3. QED
      BY <1>1, <2>2, LaneRanks
  <1>5. QED
    BY <1>2, <1>3, <1>4 DEF ConflictRoute

LEMMA ScoreGrows ==
    ASSUME NEW K, NEW L, KindsGrow(K, L), L \subseteq DOMAIN defaultWeights,
           NEW s1 \in Int, NEW s2 \in Int, s1 <= s2, NEW criticality,
           NEW n1 \in Nat, NEW n2 \in Nat, n1 <= n2,
           NEW e1, e1 = Evaluate(K, s1, criticality, n1), NEW e2, e2 = Evaluate(L, s2, criticality, n2)
    PROVE  e1.score \in Int /\ e2.score \in Int /\ e1.score <= e2.score
  <1>1. PICK c \in Int, v1 \in Int, v2 \in Int :
            /\ c = CriticalityScore(criticality)
            /\ v1 = (IF n1 > 20 THEN 8 ELSE 0) /\ v2 = (IF n2 > 20 THEN 8 ELSE 0)
    BY DEF CriticalityScore
  <1>2. v1 <= v2
    BY <1>1
  <1>3. PICK k1 \in Int, k2 \in Int : k1 = KindSum(K) /\ k2 = KindSum(L)
    BY KindSumType
  <1>4. k1 <= k2
    BY <1>3, KindSumGrows
  <1>5. PICK t1 \in Int, t2 \in Int : t1 = k1 + s1 + c + v1 /\ t2 = k2 + s2 + c + v2
    OBVIOUS
  <1>6. t1 <= t2
    BY <1>2, <1>4, <1>5
  <1>7. e1.score = clampScore(t1)
    BY <1>1, <1>3, <1>5, ScoreIs
  <1>8. e2.score = clampScore(t2)
    BY <1>1, <1>3, <1>5, ScoreIs
  <1>9. QED
    BY <1>6, <1>7, <1>8 DEF clampScore

(***************************************************************************)
(* Adding files to a change never lowers its risk score, and its lane only *)
(* from a BLACK it has for the score to a RED that waits for a refresh or  *)
(* a review: for every pair of changes, every analyzer and all thresholds  *)
(* (mutations/engine.go, conflictrisk/analyzer.go, risk/engine.go and      *)
(* lanes/assigner.go together).                                            *)
(***************************************************************************)
THEOREM WiderChangeIsNoSaferHolds == AnalysisSpec => []WiderChangeIsNoSafer
  <1>1. ASSUME JobsInv PROVE WiderChangeIsNoSafer
    <2> SUFFICES ASSUME NEW w \in Jobs, NEW n \in Jobs, jobStage[w] = "done", jobStage[n] = "done",
                        Widens(w, n)
                 PROVE  /\ risk[n].score <= risk[w].score
                        /\ \/ order[lane[n]] <= order[lane[w]]
                           \/ risk[n].score > RedMax /\ Waits(w)
      BY DEF WiderChangeIsNoSafer
    <2>1. PICK in, iw, un, mn, mw : /\ in = input[n] /\ iw = input[w] /\ un = unread[n]
                                    /\ mn = mutations[n] /\ mw = mutations[w]
      OBVIOUS
    <2>2. PICK cn, cw, rn, rw : /\ cn = conflict[n] /\ cw = conflict[w] /\ rn = risk[n] /\ rw = risk[w]
      OBVIOUS
    <2>3. /\ IsInput(in) /\ IsClassified(in, un, mn) /\ IsAssessed(in, cn) /\ IsEvaluated(in, mn, cn, rn)
          /\ lane[n] = LaneOf(DOMAIN mn \cap Reviewed # {}, rn.score, cn.route)
      BY <1>1, <2>1, <2>2, DoneIs
    <2>4. /\ IsInput(iw) /\ IsClassified(iw, {}, mw) /\ IsAssessed(iw, cw) /\ IsEvaluated(iw, mw, cw, rw)
          /\ lane[w] = LaneOf(DOMAIN mw \cap Reviewed # {}, rw.score, cw.route)
      BY <1>1, <2>1, <2>2, DoneIs DEF Widens
    <2>5. /\ in.engine = iw.engine /\ in.criticality = iw.criticality /\ (in.drift => iw.drift)
          /\ Len(in.files) <= Len(iw.files) /\ in.padding <= iw.padding
          /\ DOMAIN mw \subseteq DOMAIN defaultWeights /\ "unknown" \notin Reviewed
      BY <2>1 DEF Widens
    <2>6. PICK at : Embeds(at, in.files, iw.files)
      BY <2>1 DEF Widens, Embeds
    <2>7. KindsGrow(DOMAIN mn, DOMAIN mw)
      BY <2>3, <2>4, <2>5, <2>6, KindsWiden
    <2>8. cn.score \in Int /\ cw.score \in Int /\ cn.score <= cw.score
      BY <2>3, <2>4, <2>5, <2>6, ConflictWidens
    <2>9. PICK nn \in Nat, nw \in Nat : /\ nn = Len(in.files) + in.padding
                                        /\ nw = Len(iw.files) + iw.padding
      BY <2>3, <2>4 DEF IsInput
    <2>10. nn <= nw
      BY <2>3, <2>4, <2>5, <2>9 DEF IsInput
    <2>11. /\ rn = Evaluate(DOMAIN mn, cn.score, in.criticality, nn)
           /\ rw = Evaluate(DOMAIN mw, cw.score, in.criticality, nw)
      BY <2>3, <2>4, <2>5, <2>9 DEF IsEvaluated
    <2>12. rn.score \in Int /\ rw.score \in Int /\ rn.score <= rw.score
      BY <2>5, <2>7, <2>8, <2>10, <2>11, ScoreGrows
    <2>13. /\ cn.route = IF Marked(in.files) # {} THEN "human_resolution"
                         ELSE IF MustRefresh(in) THEN "refresh_and_verify" ELSE "none"
           /\ cw.route = IF Marked(iw.files) # {} THEN "human_resolution"
                         ELSE IF MustRefresh(iw) THEN "refresh_and_verify" ELSE "none"
      BY <2>3, <2>4, RouteIs
    <2>14. (Marked(in.files) # {} => Marked(iw.files) # {}) /\ (MustRefresh(in) => MustRefresh(iw))
      BY <2>5, <2>6, OverlapsWiden DEF MustRefresh
    <2>15. /\ cn.route \in ConflictRoute /\ cw.route \in ConflictRoute
           /\ cn.route = "human_resolution" => cw.route = "human_resolution"
           /\ cn.route = "refresh_and_verify" => cw.route # "none"
      BY <2>13, <2>14 DEF ConflictRoute
    <2>16. PICK r1 \in BOOLEAN, r2 \in BOOLEAN : /\ r1 = (DOMAIN mn \cap Reviewed # {})
                                                 /\ r2 = (DOMAIN mw \cap Reviewed # {})
      OBVIOUS
    <2>17. r1 => r2
      BY <2>5, <2>7, <2>16 DEF KindsGrow
    <2>18. \/ order[lane[n]] <= order[lane[w]]
           \/ rn.score > RedMax /\ lane[w] = "RED" /\ (cw.route = "refresh_and_verify" \/ r2)
      <3>1. PICK s1 \in Int, s2 \in Int : s1 = rn.score /\ s2 = rw.score
        BY <2>12
      <3>2. PICK route1 \in ConflictRoute, route2 \in ConflictRoute : route1 = cn.route /\ route2 = cw.route
        BY <2>15
      <3>3. lane[n] = LaneOf(r1, s1, route1) /\ lane[w] = LaneOf(r2, s2, route2)
        BY <2>3, <2>4, <2>16, <3>1, <3>2
      <3>4. s1 <= s2
        BY <2>12, <3>1
      <3>5. /\ route1 = "human_resolution" => route2 = "human_resolution"
            /\ route1 = "refresh_and_verify" => route2 # "none"
        BY <2>15, <3>2
      <3>6. \/ order[LaneOf(r1, s1, route1)] <= order[LaneOf(r2, s2, route2)]
            \/ /\ s1 > RedMax /\ LaneOf(r2, s2, route2) = "RED"
               /\ route2 = "refresh_and_verify" \/ r2
        BY <2>17, <3>4, <3>5, LaneGrows
      <3>7. QED
        BY <3>1, <3>2, <3>3, <3>6
    <2>19. QED
      BY <2>1, <2>2, <2>12, <2>16, <2>18 DEF Waits
  <1>2. QED
    BY <1>1, JobsStay, PTL

=============================================================================

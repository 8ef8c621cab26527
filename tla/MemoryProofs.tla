---------------------------- MODULE MemoryProofs ----------------------------
(***************************************************************************)
(* Theorems about the components whose state is a small record of what     *)
(* happened: the signature ledger, the log of decisions, and the shipped   *)
(* changes.                                                                *)
(***************************************************************************)
EXTENDS SignatureLedger, DecisionLog, ShippedChanges, SequenceTheorems, FiniteSetTheorems,
        WellFoundedInduction, TLAPS

-----------------------------------------------------------------------------
(* The signature ledger.                                                   *)

\* Descent along edges, for any edges.

Edges == [Signatures -> Signatures \cup {None}]

\* C is closed under the edges e: with a signature it has what that became.
Closed(e, C) == \A x \in C : e[x] \in C \cup {None}

\* Descends, for any edges.
Reach(e, s, t) == \A C \in SUBSET Signatures : s \in C /\ Closed(e, C) => t \in C

\* e2 has every edge of e1.
Grown(e1, e2) == \A x \in Signatures : e1[x] # None => e2[x] = e1[x]

LEMMA DescendsIsReach == \A s, t : Descends(s, t) <=> Reach(edge, s, t)
BY DEF Descends, Reach, Closed

\* Descent is reflexive and goes on along an edge.
LEMMA ReachSelf == \A e, s : Reach(e, s, s)
BY DEF Reach

LEMMA ReachIn ==
    ASSUME NEW e \in Edges, NEW s \in Signatures, NEW t, Reach(e, s, t)
    PROVE  t \in Signatures
<1>1. Closed(e, Signatures) BY DEF Closed, Edges
<1>2. QED BY <1>1 DEF Reach

LEMMA ReachStep ==
    ASSUME NEW e \in Edges, NEW s \in Signatures, NEW t, Reach(e, s, t), e[t] # None
    PROVE  Reach(e, s, e[t])
<1>0. t \in Signatures BY ReachIn
<1>1. SUFFICES ASSUME NEW C \in SUBSET Signatures, s \in C, Closed(e, C) PROVE e[t] \in C
  BY DEF Reach
<1>2. t \in C BY <1>1 DEF Reach
<1>3. QED BY <1>1, <1>2 DEF Closed

LEMMA ReachTrans ==
    ASSUME NEW e, NEW r, NEW s, NEW t, Reach(e, r, s), Reach(e, s, t)
    PROVE  Reach(e, r, t)
BY DEF Reach

\* What a signature descends from it has, itself apart, through its edge.
LEMMA ReachFirst ==
    ASSUME NEW e \in Edges, NEW s \in Signatures, NEW t, Reach(e, s, t), t # s
    PROVE  e[s] # None /\ e[s] \in Signatures /\ Reach(e, e[s], t)
<1> DEFINE C == {x \in Signatures : x = s \/ (e[s] # None /\ Reach(e, e[s], x))}
<1>1. s \in C OBVIOUS
<1>2. ASSUME NEW x \in C, e[x] # None PROVE e[x] \in C
  <2>1. e[x] \in Signatures BY <1>2 DEF Edges
  <2>2. CASE x = s BY <1>2, <2>1, <2>2, ReachSelf
  <2>3. CASE e[s] # None /\ Reach(e, e[s], x)
    <3>1. e[s] \in Signatures BY <2>3 DEF Edges
    <3>2. Reach(e, e[s], e[x]) BY <1>2, <2>3, <3>1, ReachStep
    <3>3. QED BY <2>1, <2>3, <3>2
  <2>4. QED BY <1>2, <2>2, <2>3
<1>3. Closed(e, C) BY <1>2 DEF Closed
<1>4. t \in C BY <1>1, <1>3 DEF Reach
<1>5. QED BY <1>4 DEF Edges

\* A walk does not fork: of two signatures derived from one, one derives from
\* the other.
LEMMA ReachLinear ==
    ASSUME NEW e \in Edges, NEW s \in Signatures, NEW t, NEW u,
           Reach(e, s, t), Reach(e, s, u)
    PROVE  Reach(e, t, u) \/ Reach(e, u, t)
<1>0. t \in Signatures BY ReachIn
<1> DEFINE C == {x \in Signatures : Reach(e, t, x) \/ Reach(e, x, t)}
<1>1. s \in C OBVIOUS
<1>2. ASSUME NEW x \in C, e[x] # None PROVE e[x] \in C
  <2>1. e[x] \in Signatures BY <1>2 DEF Edges
  <2>2. CASE Reach(e, t, x)
    <3>1. Reach(e, t, e[x]) BY <1>0, <1>2, <2>2, ReachStep
    <3>2. QED BY <2>1, <3>1
  <2>3. CASE Reach(e, x, t) /\ x # t
    <3>1. Reach(e, e[x], t) BY <2>3, ReachFirst
    <3>2. QED BY <2>1, <3>1
  <2>4. x = t => Reach(e, t, x) BY ReachSelf
  <2>5. QED BY <1>2, <2>2, <2>3, <2>4
<1>3. Closed(e, C) BY <1>2 DEF Closed
<1>4. u \in C BY <1>1, <1>3 DEF Reach
<1>5. QED BY <1>4

\* More edges, more descent.
LEMMA ReachGrows ==
    ASSUME NEW e1 \in Edges, NEW e2 \in Edges, Grown(e1, e2), NEW s, NEW t, Reach(e1, s, t)
    PROVE  Reach(e2, s, t)
<1>1. SUFFICES ASSUME NEW C \in SUBSET Signatures, s \in C, Closed(e2, C) PROVE t \in C
  BY DEF Reach
<1>2. ASSUME NEW x \in C PROVE e1[x] \in C \cup {None}
  BY <1>1 DEF Closed, Grown
<1>3. Closed(e1, C) BY <1>2 DEF Closed
<1>4. QED BY <1>1, <1>3 DEF Reach

\* t descends from nothing that descends from itself.
Proper(e, t) ==
    \A s \in Signatures : Reach(e, s, t) => ~(e[s] # None /\ Reach(e, e[s], s))

LEMMA ProperBefore ==
    ASSUME NEW e1 \in Edges, NEW e2 \in Edges, Grown(e1, e2), NEW t, Proper(e2, t)
    PROVE  Proper(e1, t)
<1>1. SUFFICES ASSUME NEW s \in Signatures, Reach(e1, s, t), e1[s] # None, Reach(e1, e1[s], s)
               PROVE  FALSE
  BY DEF Proper
<1>2. e2[s] = e1[s] BY <1>1 DEF Grown
<1>3. Reach(e2, s, t) /\ Reach(e2, e2[s], s) BY <1>1, <1>2, ReachGrows
<1>4. QED BY <1>1, <1>2, <1>3 DEF Proper

LEMMA ProperAncestor ==
    ASSUME NEW e \in Edges, NEW s, NEW t, Reach(e, s, t), Proper(e, t)
    PROVE  Proper(e, s)
BY ReachTrans DEF Proper

Ancestors(e, t) == {s \in Signatures : Reach(e, s, t)}

\* When an edge from a to b closes no cycle, what a descends from and what b
\* descends from are apart, and b then descends from both.
LEMMA AncestorsMeet ==
    ASSUME NEW e1 \in Edges, NEW a \in Signatures, NEW b \in Signatures, a # b,
           e1[a] = None, NEW e2 \in Edges, e2 = [e1 EXCEPT ![a] = b], Proper(e2, b)
    PROVE  /\ Proper(e1, a) /\ Proper(e1, b)
           /\ Ancestors(e1, a) \cap Ancestors(e1, b) = {}
           /\ Ancestors(e1, a) \cup Ancestors(e1, b) \subseteq Ancestors(e2, b)
<1>1. Grown(e1, e2) BY DEF Grown, Edges
<1>2. e2[a] = b BY DEF Edges
<1>3. b # None BY LedgerAssumption
<1>4. Reach(e2, a, b) BY <1>2, <1>3, ReachSelf, ReachStep
<1>5. Proper(e2, a) BY <1>4, ProperAncestor
<1>6. Proper(e1, a) /\ Proper(e1, b) BY <1>1, <1>5, ProperBefore
<1>7. ASSUME NEW x \in Signatures, Reach(e1, x, a), Reach(e1, x, b) PROVE FALSE
  <2>1. CASE Reach(e1, a, b) BY <2>1, ReachFirst
  <2>2. CASE Reach(e1, b, a)
    <3>1. Reach(e2, e2[a], a) BY <1>1, <1>2, <2>2, ReachGrows
    <3>2. QED BY <1>2, <1>3, <1>4, <3>1 DEF Proper
  <2>3. QED BY <1>7, <2>1, <2>2, ReachLinear
<1>8. ASSUME NEW x \in Signatures, Reach(e1, x, a) \/ Reach(e1, x, b) PROVE Reach(e2, x, b)
  BY <1>1, <1>4, <1>8, ReachGrows, ReachTrans
<1>9. QED BY <1>6, <1>7, <1>8 DEF Ancestors

\* Induction over the numbers up to a number, which the provers take as a fact
\* about a set: a set of numbers has a least one.
LEMMA LeastNumber ==
    ASSUME NEW S \in SUBSET Nat, S # {}
    PROVE  \E n \in S : \A m \in S : n <= m
<1> DEFINE below(x) == {y \in S : y < x}
           F == {below(x) : x \in S}
<1>1. IsWellFoundedOn(StrictSubsetOrdering(S), FiniteSubsetsOf(S))
  BY FS_StrictSubsetOrderingWellFounded
<1>2. \A x \in S : below(x) \in FiniteSubsetsOf(S)
  <2>1. SUFFICES ASSUME NEW x \in S PROVE below(x) \in FiniteSubsetsOf(S) OBVIOUS
  <2>2. x \in Nat /\ below(x) \in SUBSET Nat OBVIOUS
  <2>3. \A y \in below(x) : y <= x BY <2>2
  <2>4. IsFiniteSet(below(x)) BY <2>2, <2>3, FS_BoundedSetOfNaturals
  <2>5. below(x) \in SUBSET S OBVIOUS
  <2>6. QED BY <2>4, <2>5 DEF FiniteSubsetsOf
<1>3. \A x, y \in S : y < x => <<below(y), below(x)>> \in StrictSubsetOrdering(S)
  <2>1. SUFFICES ASSUME NEW x \in S, NEW y \in S, y < x
                 PROVE  <<below(y), below(x)>> \in StrictSubsetOrdering(S)
    OBVIOUS
  <2>2. x \in Nat /\ y \in Nat /\ \A z \in S : z \in Nat OBVIOUS
  <2>3. \A z \in S : z < y => z < x BY <2>1, <2>2
  <2>4. below(y) \subseteq below(x) BY <2>3
  <2>5. y \in below(x) /\ y \notin below(y) BY <2>1, <2>2
  <2>6. QED BY <2>4, <2>5 DEF StrictSubsetOrdering
<1> HIDE DEF below
<1>4. F \subseteq FiniteSubsetsOf(S) /\ F # {} BY <1>2
<1>5. PICK T \in F : \A U \in F : ~(<<U, T>> \in StrictSubsetOrdering(S))
  <2> HIDE DEF F
  <2>1. QED BY <1>1, <1>4, WFMin
<1>6. PICK x \in S : T = below(x) BY <1>5
<1>7. \A y \in S : ~(y < x) BY <1>3, <1>5, <1>6
<1>8. \A y \in S : x <= y BY <1>7
<1>9. QED BY <1>8

\* A set that has 0 and, with a number, the next one, has every number.
LEMMA AllNumbers ==
    ASSUME NEW S, 0 \in S, \A n \in Nat : n \in S => n + 1 \in S
    PROVE  Nat \subseteq S
<1>1. SUFFICES ASSUME Nat \ S # {} PROVE FALSE OBVIOUS
<1>2. PICK n \in Nat \ S : \A m \in Nat \ S : n <= m BY <1>1, LeastNumber
<1>3. n \in Nat /\ n # 0 BY <1>2
<1>4. n - 1 \in Nat /\ (n - 1) + 1 = n /\ ~(n <= n - 1) BY <1>3
<1>5. n - 1 \in S BY <1>2, <1>4
<1>6. QED BY <1>2, <1>4, <1>5

\* Forward, for any edges.
WalkOf(e, s) ==
    LET walk[k \in Nat] == IF k = 0 THEN s
                           ELSE IF walk[k - 1] = None THEN None ELSE e[walk[k - 1]]
    IN  walk

LEMMA ForwardIsWalk == \A s : Forward(s) = WalkOf(edge, s)
BY DEF Forward, WalkOf

\* f is the first n steps of the walk from s.
Walks(e, s, n, f) ==
    /\ f \in [0 .. n -> Signatures \cup {None}]
    /\ f[0] = s
    /\ \A k \in 1 .. n : f[k] = IF f[k - 1] = None THEN None ELSE e[f[k - 1]]

LEMMA WalksExist ==
    ASSUME NEW e \in Edges, NEW s \in Signatures
    PROVE  \A n \in Nat : \E f : Walks(e, s, n, f)
<1> DEFINE N == {n \in Nat : \E f : Walks(e, s, n, f)}
<1>1. 0 \in N
  <2>1. Walks(e, s, 0, [k \in 0 .. 0 |-> s]) BY DEF Walks
  <2>2. QED BY <2>1
<1>2. ASSUME NEW n \in Nat, n \in N PROVE n + 1 \in N
  <2>1. PICK f : Walks(e, s, n, f) BY <1>2
  <2> DEFINE x == IF f[n] = None THEN None ELSE e[f[n]]
             g == [k \in 0 .. n + 1 |-> IF k = n + 1 THEN x ELSE f[k]]
  <2>2. f[n] \in Signatures \cup {None} BY <2>1 DEF Walks
  <2>3. x \in Signatures \cup {None} BY <2>2 DEF Edges
  <2>4. \A k \in 0 .. n : k # n + 1 /\ g[k] = f[k] OBVIOUS
  <2>5. g[n + 1] = x OBVIOUS
  <2> HIDE DEF x
  <2>6. \A k \in 0 .. n + 1 : k = n + 1 \/ k \in 0 .. n OBVIOUS
  <2>7. g \in [0 .. n + 1 -> Signatures \cup {None}] BY <2>1, <2>3, <2>6 DEF Walks
  <2> HIDE DEF g
  <2>8. g[0] = s BY <2>1, <2>4 DEF Walks
  <2>9. ASSUME NEW k \in 1 .. n + 1
        PROVE  g[k] = IF g[k - 1] = None THEN None ELSE e[g[k - 1]]
    <3>1. CASE k = n + 1
      <4>1. k - 1 = n BY <3>1
      <4>2. g[k - 1] = f[n] BY <2>4, <4>1
      <4>3. QED BY <2>5, <3>1, <4>2 DEF x
    <3>2. CASE k \in 1 .. n
      <4>1. k - 1 \in 0 .. n /\ k \in 0 .. n BY <3>2
      <4>2. g[k - 1] = f[k - 1] /\ g[k] = f[k] BY <2>4, <4>1
      <4>3. QED BY <2>1, <3>2, <4>2 DEF Walks
    <3>3. QED BY <3>1, <3>2
  <2>10. Walks(e, s, n + 1, g) BY <2>7, <2>8, <2>9 DEF Walks
  <2>11. QED BY <2>10
<1> HIDE DEF N
<1>3. Nat \subseteq N BY <1>1, <1>2, AllNumbers
<1>4. QED BY <1>3 DEF N

LEMMA WalksAgree ==
    ASSUME NEW e, NEW s, NEW n \in Nat, NEW m \in Nat, NEW f, NEW g,
           Walks(e, s, n, f), Walks(e, s, m, g)
    PROVE  \A k \in Nat : k <= n /\ k <= m => f[k] = g[k]
<1> DEFINE K == {k \in Nat : k <= n /\ k <= m => f[k] = g[k]}
<1>1. 0 \in K BY DEF Walks
<1>2. ASSUME NEW k \in Nat, k \in K PROVE k + 1 \in K
  <2>1. SUFFICES ASSUME k + 1 <= n, k + 1 <= m PROVE f[k + 1] = g[k + 1] OBVIOUS
  <2>2. k + 1 \in 1 .. n /\ k + 1 \in 1 .. m /\ (k + 1) - 1 = k BY <2>1
  <2>3. f[k] = g[k] BY <1>2, <2>1
  <2>4. f[k + 1] = IF f[k] = None THEN None ELSE e[f[k]] BY <2>2 DEF Walks
  <2>5. g[k + 1] = IF g[k] = None THEN None ELSE e[g[k]] BY <2>2 DEF Walks
  <2>6. QED BY <2>3, <2>4, <2>5
<1> HIDE DEF K
<1>3. Nat \subseteq K BY <1>1, <1>2, AllNumbers
<1>4. QED BY <1>3 DEF K

\* The walk is what its definition says.
LEMMA WalkSteps ==
    ASSUME NEW e \in Edges, NEW s \in Signatures
    PROVE  /\ WalkOf(e, s) \in [Nat -> Signatures \cup {None}]
           /\ WalkOf(e, s)[0] = s
           /\ \A k \in Nat : WalkOf(e, s)[k + 1] =
                  IF WalkOf(e, s)[k] = None THEN None ELSE e[WalkOf(e, s)[k]]
<1> DEFINE first(n) == CHOOSE f : Walks(e, s, n, f)
           w == [n \in Nat |-> first(n)[n]]
           step(f) == [k \in Nat |-> IF k = 0 THEN s
                                     ELSE IF f[k - 1] = None THEN None ELSE e[f[k - 1]]]
<1>1. \A n \in Nat : Walks(e, s, n, first(n)) BY WalksExist
<1>2. \A n \in Nat : w[n] = first(n)[n] OBVIOUS
<1> HIDE DEF first
<1>3. w \in [Nat -> Signatures \cup {None}] BY <1>1 DEF Walks
<1>4. w[0] = s BY <1>1, <1>2 DEF Walks
<1>5. ASSUME NEW k \in Nat PROVE w[k + 1] = IF w[k] = None THEN None ELSE e[w[k]]
  <2>1. k + 1 \in Nat /\ k + 1 \in 1 .. k + 1 /\ (k + 1) - 1 = k /\ k <= k /\ k <= k + 1 OBVIOUS
  <2>2. first(k + 1)[k] = first(k)[k] BY <1>1, <2>1, WalksAgree
  <2>3. first(k + 1)[k + 1] =
            IF first(k + 1)[k] = None THEN None ELSE e[first(k + 1)[k]]
    BY <1>1, <2>1 DEF Walks
  <2>4. QED BY <1>2, <2>1, <2>2, <2>3
<1>6. w = [n \in Nat |-> w[n]] OBVIOUS
<1> HIDE DEF w
<1>7. ASSUME NEW k \in Nat PROVE w[k] = step(w)[k]
  <2>1. CASE k = 0 BY <1>4, <2>1
  <2>2. CASE k # 0
    <3>1. k - 1 \in Nat /\ (k - 1) + 1 = k BY <2>2
    <3>2. w[k] = IF w[k - 1] = None THEN None ELSE e[w[k - 1]] BY <1>5, <3>1
    <3>3. QED BY <2>2, <3>2
  <2>3. QED BY <2>1, <2>2
<1>8. w = step(w) BY <1>6, <1>7
<1>9. WalkOf(e, s) = CHOOSE f : f = step(f) BY DEF WalkOf
<1>10. WalkOf(e, s) = step(WalkOf(e, s))
  <2>1. \E f : f = step(f) BY <1>8
  <2> HIDE DEF step
  <2>2. QED BY <1>9, <2>1
<1> DEFINE v == WalkOf(e, s)
<1>11. \A k \in Nat : v[k] = IF k = 0 THEN s ELSE IF v[k - 1] = None THEN None ELSE e[v[k - 1]]
  BY <1>10
<1>d. v = [k \in Nat |-> v[k]] BY <1>10
<1> HIDE DEF v
<1>12. v[0] = s BY <1>11
<1>13. ASSUME NEW k \in Nat PROVE v[k + 1] = IF v[k] = None THEN None ELSE e[v[k]]
  <2>1. k + 1 \in Nat /\ k + 1 # 0 /\ (k + 1) - 1 = k OBVIOUS
  <2>2. QED BY <1>11, <2>1
<1>14. \A k \in Nat : v[k] \in Signatures \cup {None}
  <2> DEFINE K == {k \in Nat : v[k] \in Signatures \cup {None}}
  <2>1. 0 \in K BY <1>12
  <2>2. \A k \in Nat : k \in K => k + 1 \in K BY <1>13 DEF Edges
  <2> HIDE DEF K
  <2>3. Nat \subseteq K BY <2>1, <2>2, AllNumbers
  <2>4. QED BY <2>3 DEF K
<1>15. v \in [Nat -> Signatures \cup {None}] BY <1>d, <1>14
<1>16. QED BY <1>12, <1>13, <1>15 DEF v

\* Where a walk gets to descends from where it started.
LEMMA WalkReaches ==
    ASSUME NEW e \in Edges, NEW s \in Signatures
    PROVE  \A k \in Nat : WalkOf(e, s)[k] # None => Reach(e, s, WalkOf(e, s)[k])
<1> DEFINE w == WalkOf(e, s)
           K == {k \in Nat : w[k] # None => Reach(e, s, w[k])}
<1>1. /\ w[0] = s
      /\ \A k \in Nat : w[k + 1] = IF w[k] = None THEN None ELSE e[w[k]]
  BY WalkSteps
<1> HIDE DEF w
<1>2. 0 \in K BY <1>1, ReachSelf
<1>3. ASSUME NEW k \in Nat, k \in K PROVE k + 1 \in K
  <2>1. SUFFICES ASSUME w[k + 1] # None PROVE Reach(e, s, w[k + 1]) OBVIOUS
  <2>2. w[k] # None /\ w[k + 1] = e[w[k]] BY <1>1, <2>1
  <2>3. QED BY <1>3, <2>1, <2>2, ReachStep
<1> HIDE DEF K
<1>4. Nat \subseteq K BY <1>2, <1>3, AllNumbers
<1>5. QED BY <1>4 DEF K, w

\* A walk that is over stays over.
LEMMA WalkStaysOver ==
    ASSUME NEW e \in Edges, NEW s \in Signatures, NEW j \in Nat, WalkOf(e, s)[j] = None
    PROVE  \A k \in Nat : k >= j => WalkOf(e, s)[k] = None
<1> DEFINE w == WalkOf(e, s)
           K == {k \in Nat : k >= j => w[k] = None}
<1>1. \A k \in Nat : w[k + 1] = IF w[k] = None THEN None ELSE e[w[k]] BY WalkSteps
<1>0. w[j] = None OBVIOUS
<1> HIDE DEF w
<1>2. 0 \in K BY <1>0
<1>3. ASSUME NEW k \in Nat, k \in K PROVE k + 1 \in K
  <2>1. CASE k + 1 = j BY <1>0, <2>1
  <2>2. CASE k + 1 < j BY <2>2
  <2>3. CASE k >= j BY <1>1, <1>3, <2>3
  <2>4. QED BY <2>1, <2>2, <2>3
<1> HIDE DEF K
<1>4. Nat \subseteq K BY <1>2, <1>3, AllNumbers
<1>5. QED BY <1>4 DEF K, w

\* A walk ends at one signature.
LEMMA WalkEndsOnce ==
    ASSUME NEW e \in Edges, NEW s \in Signatures, NEW t \in Signatures, NEW u \in Signatures,
           e[t] = None, e[u] = None, NEW j \in Nat, NEW k \in Nat,
           WalkOf(e, s)[j] = t, WalkOf(e, s)[k] = u
    PROVE  t = u
<1>0. t # None /\ u # None BY LedgerAssumption
<1>1. WalkOf(e, s)[j + 1] = None /\ WalkOf(e, s)[k + 1] = None BY <1>0, WalkSteps
<1>2. ~(k >= j + 1) BY <1>0, <1>1, WalkStaysOver
<1>3. ~(j >= k + 1) BY <1>0, <1>1, WalkStaysOver
<1>4. j = k BY <1>2, <1>3
<1>5. QED BY <1>4

\* The walk from s does not come to a in fewer than n steps.
Avoids(e, s, a, n) == \A j \in Nat : j < n => WalkOf(e, s)[j] # a

\* The edges differ at a only.
SameBut(e1, e2, a) == \A x \in Signatures : x # a => e2[x] = e1[x]

\* A new edge changes a walk only past the signature it leaves.
LEMMA WalkUpToTheEdge ==
    ASSUME NEW e1 \in Edges, NEW a \in Signatures, NEW e2 \in Edges, SameBut(e1, e2, a),
           NEW s \in Signatures, NEW n \in Nat, Avoids(e1, s, a, n)
    PROVE  \A k \in Nat : k <= n => WalkOf(e2, s)[k] = WalkOf(e1, s)[k]
<1> DEFINE w1 == WalkOf(e1, s)
           w2 == WalkOf(e2, s)
           K == {k \in Nat : k <= n => w2[k] = w1[k]}
<1>1. /\ w1[0] = s /\ w2[0] = s
      /\ \A k \in Nat : w1[k] \in Signatures \cup {None}
      /\ \A k \in Nat : w1[k + 1] = IF w1[k] = None THEN None ELSE e1[w1[k]]
      /\ \A k \in Nat : w2[k + 1] = IF w2[k] = None THEN None ELSE e2[w2[k]]
  BY WalkSteps
<1>0. \A j \in Nat : j < n => w1[j] # a BY DEF Avoids
<1> HIDE DEF w1, w2
<1>2. 0 \in K BY <1>1
<1>3. ASSUME NEW k \in Nat, k \in K PROVE k + 1 \in K
  <2>1. SUFFICES ASSUME k + 1 <= n PROVE w2[k + 1] = w1[k + 1] OBVIOUS
  <2>2. w2[k] = w1[k] /\ w1[k] # a BY <1>0, <1>3, <2>1
  <2>3. QED BY <1>1, <2>2 DEF SameBut
<1> HIDE DEF K
<1>4. Nat \subseteq K BY <1>2, <1>3, AllNumbers
<1>5. QED BY <1>4 DEF K, w1, w2

\* EndsAt, for any edges.
Ends(e, s, t) == e[t] = None /\ \E k \in 0 .. MaxHops : WalkOf(e, s)[k] = t

LEMMA EndsAtIsEnds == \A s, t : EndsAt(s, t) <=> Ends(edge, s, t)
BY ForwardIsWalk DEF EndsAt, Ends

\* What resolve answers is where the walk ends, and a writer of stamps works on
\* a signature that derives from the one it was given.
LEMMA ResolvedEnds ==
    ASSUME edge \in Edges, NEW s \in Signatures, NEW t \in Signatures, Ends(edge, s, t)
    PROVE  Resolvable(s) /\ Resolved(s) = t
<1>0. \A k \in 0 .. MaxHops : k \in Nat BY LedgerAssumption
<1>1. \A u \in Signatures : EndsAt(s, u) => u = t
  BY <1>0, EndsAtIsEnds, WalkEndsOnce DEF Ends
<1>2. EndsAt(s, t) BY EndsAtIsEnds
<1>3. QED BY <1>1, <1>2 DEF Resolvable, Resolved

LEMMA ResolveForwardDescends ==
    ASSUME edge \in Edges, NEW s \in Signatures
    PROVE  Reach(edge, s, ResolveForward(s))
<1>0. \A k \in 0 .. MaxHops : k \in Nat BY LedgerAssumption
<1>1. CASE Resolvable(s)
  <2>1. Resolved(s) \in Signatures /\ EndsAt(s, Resolved(s)) BY <1>1 DEF Resolvable, Resolved
  <2>2. PICK k \in 0 .. MaxHops : WalkOf(edge, s)[k] = Resolved(s) BY <2>1, EndsAtIsEnds DEF Ends
  <2>3. Resolved(s) # None BY <2>1, LedgerAssumption
  <2>4. Reach(edge, s, Resolved(s)) BY <1>0, <2>2, <2>3, WalkReaches
  <2>5. QED BY <1>1, <2>4 DEF ResolveForward
<1>2. CASE ~Resolvable(s) BY <1>2, ReachSelf DEF ResolveForward
<1>3. QED BY <1>1, <1>2

\* Seen, for any counts.
SeenBy(n, S) == UNION {{s} \X (1 .. n[s]) : s \in S}

Counts == [Signatures -> Nat]

\* The sightings of finitely many signatures are finitely many.
LEMMA SeenIsFinite ==
    ASSUME NEW n \in Counts, NEW S \in SUBSET Signatures
    PROVE  IsFiniteSet(SeenBy(n, S)) /\ Cardinality(SeenBy(n, S)) \in Nat
<1> DEFINE of(s) == {s} \X (1 .. n[s])
           all == {of(s) : s \in S}
           f == [s \in S |-> of(s)]
<1>1. IsFiniteSet(S) BY LedgerAssumption, FS_Subset
<1>2. ASSUME NEW s \in S PROVE IsFiniteSet(of(s))
  <2>1. IsFiniteSet({s}) BY FS_Singleton
  <2>2. n[s] \in Nat BY DEF Counts
  <2>3. IsFiniteSet(1 .. n[s]) BY <2>2, FS_Interval
  <2>4. QED BY <2>1, <2>3, FS_Product
<1>3. \A x \in all : IsFiniteSet(x) BY <1>2
<1>4. f \in Surjection(S, all) BY DEF Surjection
<1>5. SeenBy(n, S) = UNION all BY DEF SeenBy
<1> HIDE DEF f, all
<1>6. IsFiniteSet(all) BY <1>1, <1>4, FS_Surjection
<1>7. IsFiniteSet(SeenBy(n, S)) BY <1>3, <1>5, <1>6, FS_UNION
<1>8. QED BY <1>7, FS_CardinalityType

\* More counts and more signatures, more sightings.
LEMMA SeenGrows ==
    ASSUME NEW n \in Counts, NEW m \in Counts, \A s \in Signatures : n[s] <= m[s],
           NEW T \in SUBSET Signatures, NEW S \in SUBSET T
    PROVE  Cardinality(SeenBy(n, S)) <= Cardinality(SeenBy(m, T))
<1>1. ASSUME NEW s \in S PROVE 1 .. n[s] \subseteq 1 .. m[s]
  <2>1. n[s] \in Nat /\ m[s] \in Nat /\ n[s] <= m[s] BY DEF Counts
  <2>2. QED BY <2>1
<1>2. SeenBy(n, S) \subseteq SeenBy(m, T) BY <1>1 DEF SeenBy
<1>3. QED BY <1>2, SeenIsFinite, FS_Subset

\* The sightings of signatures apart from each other add up.
LEMMA SeenApart ==
    ASSUME NEW n \in Counts, NEW S \in SUBSET Signatures, NEW T \in SUBSET Signatures,
           S \cap T = {}
    PROVE  Cardinality(SeenBy(n, S \cup T)) =
               Cardinality(SeenBy(n, S)) + Cardinality(SeenBy(n, T))
<1> DEFINE X == SeenBy(n, S)
           Y == SeenBy(n, T)
<1>1. SeenBy(n, S \cup T) = X \cup Y BY DEF SeenBy
<1>2. X \cap Y = {} BY DEF SeenBy
<1>3. /\ IsFiniteSet(X) /\ IsFiniteSet(Y) /\ Cardinality(X) \in Nat /\ Cardinality(Y) \in Nat
  BY SeenIsFinite
<1> HIDE DEF X, Y
<1>4. Cardinality(X \cup Y) = Cardinality(X) + Cardinality(Y) - Cardinality(X \cap Y)
  BY <1>3, FS_Union
<1>5. Cardinality(X \cap Y) = 0 BY <1>2, FS_EmptySet
<1>6. Cardinality(X \cup Y) = Cardinality(X) + Cardinality(Y) BY <1>3, <1>4, <1>5
<1>7. QED BY <1>1, <1>6 DEF X, Y

\* One more sighting of one of them is one more.
LEMMA SeenAgain ==
    ASSUME NEW n \in Counts, NEW s \in Signatures, NEW m \in Counts,
           m = [n EXCEPT ![s] = @ + 1], NEW S \in SUBSET Signatures, s \in S
    PROVE  Cardinality(SeenBy(n, S)) + 1 <= Cardinality(SeenBy(m, S))
<1>1. n[s] \in Nat /\ m[s] = n[s] + 1 BY DEF Counts
<1>2. \A x \in Signatures : n[x] <= m[x] /\ n[x] \in Nat /\ m[x] \in Nat
  <2>1. SUFFICES ASSUME NEW x \in Signatures PROVE n[x] <= m[x] /\ n[x] \in Nat /\ m[x] \in Nat
    OBVIOUS
  <2>2. n[x] \in Nat /\ m[x] \in Nat BY DEF Counts
  <2>3. x # s => m[x] = n[x] BY DEF Counts
  <2>4. QED BY <1>1, <2>2, <2>3
<1>3. SeenBy(n, S) \subseteq SeenBy(m, S)
  <2>1. \A x \in S : 1 .. n[x] \subseteq 1 .. m[x] BY <1>2
  <2>2. QED BY <2>1 DEF SeenBy
<1> DEFINE new == <<s, m[s]>>
<1>4. m[s] \in 1 .. m[s] /\ ~(m[s] \in 1 .. n[s]) BY <1>1
<1>5. new \in SeenBy(m, S) BY <1>4 DEF SeenBy
<1>6. new \notin SeenBy(n, S) BY <1>4 DEF SeenBy
<1> HIDE DEF new
<1>7. IsFiniteSet(SeenBy(n, S)) /\ Cardinality(SeenBy(n, S)) \in Nat BY SeenIsFinite
<1>8. Cardinality(SeenBy(n, S) \cup {new}) = Cardinality(SeenBy(n, S)) + 1
  BY <1>6, <1>7, FS_AddElement
<1>9. SeenBy(n, S) \cup {new} \subseteq SeenBy(m, S) BY <1>3, <1>5
<1>10. IsFiniteSet(SeenBy(m, S)) BY SeenIsFinite
<1>11. Cardinality(SeenBy(n, S) \cup {new}) <= Cardinality(SeenBy(m, S))
  BY <1>9, <1>10, FS_Subset
<1>12. QED BY <1>8, <1>11

\* A count of t is no more than what was seen of its ancestors, unless one of
\* them descends from itself.
Bounded(e, n, x, t) == Proper(e, t) => x <= Cardinality(SeenBy(n, Ancestors(e, t)))

LEMMA BoundGrows ==
    ASSUME NEW e1 \in Edges, NEW e2 \in Edges, Grown(e1, e2),
           NEW n \in Counts, NEW m \in Counts, \A s \in Signatures : n[s] <= m[s],
           NEW x \in Nat, NEW t \in Signatures, Bounded(e1, n, x, t)
    PROVE  Bounded(e2, m, x, t)
<1>1. SUFFICES ASSUME Proper(e2, t) PROVE x <= Cardinality(SeenBy(m, Ancestors(e2, t)))
  BY DEF Bounded
<1>2. Proper(e1, t) BY <1>1, ProperBefore
<1>3. x <= Cardinality(SeenBy(n, Ancestors(e1, t))) BY <1>2 DEF Bounded
<1>4. /\ Ancestors(e1, t) \subseteq Ancestors(e2, t)
      /\ Ancestors(e1, t) \in SUBSET Signatures /\ Ancestors(e2, t) \in SUBSET Signatures
  BY ReachGrows DEF Ancestors
<1>5. Cardinality(SeenBy(n, Ancestors(e1, t))) <= Cardinality(SeenBy(m, Ancestors(e2, t)))
  BY <1>4, SeenGrows
<1>6. /\ Cardinality(SeenBy(n, Ancestors(e1, t))) \in Nat
      /\ Cardinality(SeenBy(m, Ancestors(e2, t))) \in Nat
  BY <1>4, SeenIsFinite
<1>7. QED BY <1>3, <1>5, <1>6

LEMMA BoundAgain ==
    ASSUME NEW e \in Edges, NEW n \in Counts, NEW m \in Counts, NEW s \in Signatures,
           m = [n EXCEPT ![s] = @ + 1], NEW x \in Nat, Bounded(e, n, x, s)
    PROVE  Bounded(e, m, x + 1, s)
<1>1. s \in Ancestors(e, s) /\ Ancestors(e, s) \in SUBSET Signatures
  BY ReachSelf DEF Ancestors
<1>2. Cardinality(SeenBy(n, Ancestors(e, s))) + 1 <= Cardinality(SeenBy(m, Ancestors(e, s)))
  BY <1>1, SeenAgain
<1>3. /\ Cardinality(SeenBy(n, Ancestors(e, s))) \in Nat
      /\ Cardinality(SeenBy(m, Ancestors(e, s))) \in Nat
  BY <1>1, SeenIsFinite
<1>4. QED BY <1>2, <1>3 DEF Bounded

\* A row that is carried along a new edge was seen apart from the one it meets.
LEMMA BoundsMeet ==
    ASSUME NEW e1 \in Edges, NEW a \in Signatures, NEW b \in Signatures, a # b,
           e1[a] = None, NEW e2 \in Edges, e2 = [e1 EXCEPT ![a] = b],
           NEW n \in Counts, NEW x \in Nat, NEW y \in Nat,
           Bounded(e1, n, x, a), Bounded(e1, n, y, b)
    PROVE  Bounded(e2, n, y + x, b)
<1>1. SUFFICES ASSUME Proper(e2, b) PROVE y + x <= Cardinality(SeenBy(n, Ancestors(e2, b)))
  BY DEF Bounded
<1> DEFINE A == Ancestors(e1, a)
           B == Ancestors(e1, b)
           C == Ancestors(e2, b)
<1>2. Proper(e1, a) /\ Proper(e1, b) /\ A \cap B = {} /\ A \cup B \subseteq C
  BY <1>1, AncestorsMeet
<1>3. A \in SUBSET Signatures /\ B \in SUBSET Signatures /\ C \in SUBSET Signatures
  BY DEF Ancestors
<1>4. x <= Cardinality(SeenBy(n, A)) /\ y <= Cardinality(SeenBy(n, B)) BY <1>2 DEF Bounded
<1> HIDE DEF A, B, C
<1>5. Cardinality(SeenBy(n, A \cup B)) =
          Cardinality(SeenBy(n, A)) + Cardinality(SeenBy(n, B))
  BY <1>2, <1>3, SeenApart
<1>6. \A s \in Signatures : n[s] <= n[s] BY DEF Counts
<1>7. Cardinality(SeenBy(n, A \cup B)) <= Cardinality(SeenBy(n, C))
  BY <1>2, <1>3, <1>6, SeenGrows
<1>8. /\ Cardinality(SeenBy(n, A)) \in Nat /\ Cardinality(SeenBy(n, B)) \in Nat
      /\ Cardinality(SeenBy(n, C)) \in Nat
  BY <1>3, SeenIsFinite
<1>9. y + x <= Cardinality(SeenBy(n, C)) BY <1>4, <1>5, <1>7, <1>8
<1>10. QED BY <1>9 DEF C

\* What a write of a stamp resolves to is a signature, whatever the edges are.
LEMMA ResolveForwardType ==
    ASSUME NEW s \in Signatures
    PROVE  ResolveForward(s) \in Signatures
<1>1. CASE Resolvable(s)
  <2>1. Resolved(s) \in Signatures BY <1>1 DEF Resolvable, Resolved
  <2>2. QED BY <1>1, <2>1 DEF ResolveForward
<1>2. CASE ~Resolvable(s) BY <1>2 DEF ResolveForward
<1>3. QED BY <1>1, <1>2

\* carryForward merges two ledger rows into a ledger row that forgets neither.
LEMMA MergedType ==
    ASSUME NEW new \in Row, NEW old \in Row
    PROVE  /\ Merged(new, old) \in Row
           /\ new.times <= Merged(new, old).times
           /\ new.dismissed \/ old.dismissed => Merged(new, old).dismissed
           /\ new.delivered \/ old.delivered => Merged(new, old).delivered
<1>1. new.times \in Nat /\ old.times \in Nat BY DEF Row
<1>2. new.dismissed \in BOOLEAN /\ old.dismissed \in BOOLEAN BY DEF Row
<1>3. new.delivered \in BOOLEAN /\ old.delivered \in BOOLEAN BY DEF Row
<1>4. Merged(new, old) \in Row BY <1>1, <1>2, <1>3 DEF Row, Merged
<1>5. new.times <= Merged(new, old).times BY <1>1 DEF Merged
<1>6. new.dismissed \/ old.dismissed => Merged(new, old).dismissed BY DEF Merged
<1>7. new.delivered \/ old.delivered => Merged(new, old).delivered BY DEF Merged
<1>8. QED BY <1>4, <1>5, <1>6, <1>7

\* What a call in progress carries, by the operation it belongs to.
LEMMA CallParts ==
    ASSUME LedgerTypeOK, NEW c \in Callers
    PROVE  /\ call[c].op = "dismiss" => call[c].press \in Presses /\ call[c].at \in Signatures
           /\ call[c].op = "deliver" => call[c].at \in Signatures
           /\ call[c].op = "carry" => /\ call[c].from \in Signatures
                                      /\ call[c].to \in Signatures
                                      /\ call[c].old \in Row
<1>1. call[c] \in Call BY DEF LedgerTypeOK
<1>2. CASE call[c] = NoCall BY <1>2 DEF NoCall
<1>3. CASE call[c] \in [op : {"dismiss"}, press : Presses, at : Signatures] BY <1>3
<1>4. CASE call[c] \in [op : {"deliver"}, at : Signatures] BY <1>4
<1>5. CASE call[c] \in [op : {"carry"}, from : Signatures, to : Signatures, old : Row] BY <1>5
<1>6. QED BY <1>1, <1>2, <1>3, <1>4, <1>5 DEF Call

\* Every step keeps the type invariant and takes nothing back.
LEMMA StepKeeps ==
    ASSUME LedgerTypeOK, OneCarryPerEdge, [LedgerNext]_ledgerVars
    PROVE  LedgerTypeOK' /\ Grows
<1> USE LedgerAssumption
<1>0. /\ ledger \in [Signatures -> Row]
      /\ edge \in [Signatures -> Signatures \cup {None}]
      /\ dismissals \in [Presses -> Signatures \cup {None}]
      /\ call \in [Callers -> Call]
      /\ sightings \in [Signatures -> Nat]
  BY DEF LedgerTypeOK
<1>r. \A s \in Signatures : /\ ledger[s].times \in Nat
                            /\ ledger[s].times <= ledger[s].times
                            /\ ledger[s].dismissed \in BOOLEAN
                            /\ ledger[s].delivered \in BOOLEAN
  BY <1>0 DEF Row
<1>c. ASSUME NEW c \in Callers, UNCHANGED <<ledger, edge, dismissals, sightings>>,
             NEW x \in Call, call' = [call EXCEPT ![c] = x]
      PROVE  LedgerTypeOK' /\ Grows
  <2>1. call' \in [Callers -> Call] BY <1>0, <1>c
  <2>2. LedgerTypeOK' BY <1>0, <1>c, <2>1 DEF LedgerTypeOK
  <2>3. Grows BY <1>c, <1>r DEF Grows
  <2>4. QED BY <2>2, <2>3
<1>i. NoCall \in Call BY DEF Call
<1>1. ASSUME NEW s \in Signatures, RecordSignature(s) PROVE LedgerTypeOK' /\ Grows
  <2> DEFINE r == [ledger[s] EXCEPT !.times = @ + 1]
  <2>1. r \in Row BY <1>0 DEF Row
  <2>2. /\ r.times >= ledger[s].times /\ r.dismissed = ledger[s].dismissed
        /\ r.delivered = ledger[s].delivered
    BY <1>0, <1>r DEF Row
  <2>3. ledger' = [ledger EXCEPT ![s] = r] BY <1>1 DEF RecordSignature
  <2>4. UNCHANGED <<edge, dismissals, call>> BY <1>1 DEF RecordSignature
  <2>5. sightings' \in [Signatures -> Nat] BY <1>0, <1>1 DEF RecordSignature
  <2> HIDE DEF r
  <2>6. ledger' \in [Signatures -> Row] BY <1>0, <2>1, <2>3
  <2>7. LedgerTypeOK' BY <1>0, <2>4, <2>5, <2>6 DEF LedgerTypeOK
  <2>8. Grows BY <1>0, <1>r, <2>2, <2>3, <2>4 DEF Grows
  <2>9. QED BY <2>7, <2>8
<1>2. ASSUME NEW c \in Callers, NEW p \in Presses, BeginDismissal(c, p) PROVE LedgerTypeOK' /\ Grows
  <2> DEFINE x == [op |-> "dismiss", press |-> p, at |-> ResolveForward(SigOf[p])]
  <2>1. x \in Call BY ResolveForwardType DEF Call
  <2>2. UNCHANGED <<ledger, edge, dismissals, sightings>> /\ call' = [call EXCEPT ![c] = x]
    BY <1>2 DEF BeginDismissal
  <2> HIDE DEF x
  <2>3. QED BY <1>c, <2>1, <2>2
<1>3. ASSUME NEW c \in Callers, NEW s \in Signatures, BeginDelivered(c, s)
      PROVE  LedgerTypeOK' /\ Grows
  <2> DEFINE x == [op |-> "deliver", at |-> ResolveForward(s)]
  <2>1. x \in Call BY ResolveForwardType DEF Call
  <2>2. UNCHANGED <<ledger, edge, dismissals, sightings>> /\ call' = [call EXCEPT ![c] = x]
    BY <1>3 DEF BeginDelivered
  <2> HIDE DEF x
  <2>3. QED BY <1>c, <2>1, <2>2
<1>4. ASSUME NEW c \in Callers, NEW e \in Renames, BeginCarry(c, e[1], e[2])
      PROVE  LedgerTypeOK' /\ Grows
  <2> DEFINE x == [op |-> "carry", from |-> e[1], to |-> e[2], old |-> ledger[e[1]]]
  <2>1. e[1] \in Signatures /\ e[2] \in Signatures OBVIOUS
  <2>2. x \in Call BY <1>0, <2>1 DEF Call
  <2>3. UNCHANGED <<ledger, edge, dismissals, sightings>> /\ call' = [call EXCEPT ![c] = x]
    BY <1>4 DEF BeginCarry
  <2> HIDE DEF x
  <2>4. QED BY <1>c, <2>2, <2>3
<1>5. ASSUME NEW c \in Callers, CommitDismissal(c) PROVE LedgerTypeOK' /\ Grows
  <2> DEFINE s == call[c].at
             p == call[c].press
             r == [ledger[s] EXCEPT !.dismissed = @ \/ Exists(s)]
             d == IF dismissals[p] = None THEN s ELSE dismissals[p]
  <2>1. s \in Signatures /\ p \in Presses BY <1>5, CallParts DEF CommitDismissal
  <2> DEFINE b == ledger[s].dismissed \/ Exists(s)
  <2>b. b \in BOOLEAN /\ r = [ledger[s] EXCEPT !.dismissed = b] OBVIOUS
  <2>m. ledger[s].dismissed => b OBVIOUS
  <2> HIDE DEF b, r
  <2>2. r \in Row BY <1>0, <2>1, <2>b DEF Row
  <2>k. r.times = ledger[s].times /\ r.delivered = ledger[s].delivered /\ r.dismissed = b
    BY <1>0, <2>1, <2>b DEF Row
  <2>3. /\ r.times = ledger[s].times /\ r.delivered = ledger[s].delivered
        /\ ledger[s].dismissed => r.dismissed
    BY <2>k, <2>m
  <2>4. d \in Signatures \cup {None} /\ (dismissals[p] # None => d = dismissals[p]) BY <1>0, <2>1
  <2>5. /\ dismissals' = [dismissals EXCEPT ![p] = d]
        /\ ledger' = [ledger EXCEPT ![s] = r]
        /\ call' = [call EXCEPT ![c] = NoCall]
        /\ UNCHANGED <<edge, sightings>>
    BY <1>5 DEF CommitDismissal, r
  <2> HIDE DEF r, d, s, p
  <2>6. LedgerTypeOK' BY <1>0, <1>i, <2>1, <2>2, <2>4, <2>5 DEF LedgerTypeOK
  <2>7. Grows BY <1>0, <1>r, <2>1, <2>3, <2>4, <2>5 DEF Grows
  <2>8. QED BY <2>6, <2>7
<1>6. ASSUME NEW c \in Callers, CommitDelivered(c) PROVE LedgerTypeOK' /\ Grows
  <2> DEFINE s == call[c].at
             r == [ledger[s] EXCEPT !.delivered = @ \/ Exists(s)]
  <2>1. s \in Signatures BY <1>6, CallParts DEF CommitDelivered
  <2> DEFINE b == ledger[s].delivered \/ Exists(s)
  <2>b. b \in BOOLEAN /\ r = [ledger[s] EXCEPT !.delivered = b] OBVIOUS
  <2>m. ledger[s].delivered => b OBVIOUS
  <2> HIDE DEF b, r
  <2>2. r \in Row BY <1>0, <2>1, <2>b DEF Row
  <2>k. r.times = ledger[s].times /\ r.dismissed = ledger[s].dismissed /\ r.delivered = b
    BY <1>0, <2>1, <2>b DEF Row
  <2>3. /\ r.times = ledger[s].times /\ r.dismissed = ledger[s].dismissed
        /\ ledger[s].delivered => r.delivered
    BY <2>k, <2>m
  <2>4. /\ ledger' = [ledger EXCEPT ![s] = r]
        /\ call' = [call EXCEPT ![c] = NoCall]
        /\ UNCHANGED <<edge, dismissals, sightings>>
    BY <1>6 DEF CommitDelivered, r
  <2> HIDE DEF r, s
  <2>5. LedgerTypeOK' BY <1>0, <1>i, <2>1, <2>2, <2>4 DEF LedgerTypeOK
  <2>6. Grows BY <1>0, <1>r, <2>1, <2>3, <2>4 DEF Grows
  <2>7. QED BY <2>5, <2>6
<1>7. ASSUME NEW c \in Callers, CommitCarry(c) PROVE LedgerTypeOK' /\ Grows
  <2> DEFINE s == call[c].from
             t == call[c].to
             r == Merged(ledger[t], call[c].old)
  <2>0. call[c].op = "carry" BY <1>7 DEF CommitCarry
  <2>1. s \in Signatures /\ t \in Signatures /\ call[c].old \in Row BY <2>0, CallParts
  <2>2. ledger[t] \in Row BY <1>0, <2>1
  <2>3. /\ r \in Row
        /\ ledger[t].times <= r.times
        /\ ledger[t].dismissed => r.dismissed
        /\ ledger[t].delivered => r.delivered
    BY <2>1, <2>2, MergedType
  <2>4. edge[s] = None BY <2>0 DEF OneCarryPerEdge, Carrying
  <2>5. /\ edge' = [edge EXCEPT ![s] = t]
        /\ ledger' = [ledger EXCEPT ![t] = r]
        /\ call' = [call EXCEPT ![c] = NoCall]
        /\ UNCHANGED <<dismissals, sightings>>
    BY <1>7 DEF CommitCarry
  <2> HIDE DEF r, t, s
  <2>6. LedgerTypeOK' BY <1>0, <1>i, <2>1, <2>3, <2>5 DEF LedgerTypeOK
  <2>7. Grows BY <1>0, <1>r, <2>1, <2>3, <2>4, <2>5 DEF Grows
  <2>8. QED BY <2>6, <2>7
<1>8. ASSUME NEW c \in Callers, Abort(c) PROVE LedgerTypeOK' /\ Grows
  BY <1>8, <1>c, <1>i DEF Abort
<1>9. CASE UNCHANGED ledgerVars
  <2>1. LedgerTypeOK' BY <1>0, <1>9 DEF LedgerTypeOK, ledgerVars
  <2>2. Grows BY <1>9, <1>r DEF Grows, ledgerVars
  <2>3. QED BY <2>1, <2>2
<1>10. QED BY <1>1, <1>2, <1>3, <1>4, <1>5, <1>6, <1>7, <1>8, <1>9 DEF LedgerNext, Step

\* A claim keeps every other claim off its edge until the edge is there.
LEMMA StepKeepsClaims ==
    ASSUME LedgerTypeOK, OneCarryPerEdge, [LedgerNext]_ledgerVars
    PROVE  OneCarryPerEdge'
<1>0. call \in [Callers -> Call] /\ edge \in [Signatures -> Signatures \cup {None}]
  BY DEF LedgerTypeOK
<1>n. NoCall.op # "carry" BY DEF NoCall
<1>c. ASSUME NEW c \in Callers, UNCHANGED edge,
             NEW x, call' = [call EXCEPT ![c] = x], x.op # "carry"
      PROVE  OneCarryPerEdge'
  BY <1>0, <1>c DEF OneCarryPerEdge, Carrying
<1>1. ASSUME NEW s \in Signatures, RecordSignature(s) PROVE OneCarryPerEdge'
  BY <1>1 DEF RecordSignature, OneCarryPerEdge, Carrying
<1>2. ASSUME NEW c \in Callers, NEW p \in Presses, BeginDismissal(c, p) PROVE OneCarryPerEdge'
  <2> DEFINE x == [op |-> "dismiss", press |-> p, at |-> ResolveForward(SigOf[p])]
  <2>1. x.op # "carry" OBVIOUS
  <2>2. UNCHANGED edge /\ call' = [call EXCEPT ![c] = x] BY <1>2 DEF BeginDismissal
  <2> HIDE DEF x
  <2>3. QED BY <1>c, <2>1, <2>2
<1>3. ASSUME NEW c \in Callers, NEW s \in Signatures, BeginDelivered(c, s) PROVE OneCarryPerEdge'
  <2> DEFINE x == [op |-> "deliver", at |-> ResolveForward(s)]
  <2>1. x.op # "carry" OBVIOUS
  <2>2. UNCHANGED edge /\ call' = [call EXCEPT ![c] = x] BY <1>3 DEF BeginDelivered
  <2> HIDE DEF x
  <2>3. QED BY <1>c, <2>1, <2>2
<1>4. ASSUME NEW c \in Callers, NEW e \in Renames, BeginCarry(c, e[1], e[2]) PROVE OneCarryPerEdge'
  <2> DEFINE x == [op |-> "carry", from |-> e[1], to |-> e[2], old |-> ledger[e[1]]]
  <2>1. x.from = e[1] OBVIOUS
  <2>2. UNCHANGED edge /\ call' = [call EXCEPT ![c] = x] BY <1>4 DEF BeginCarry
  <2>3. edge[e[1]] = None /\ \A d \in Callers : Carrying(d) => call[d].from # e[1]
    BY <1>4 DEF BeginCarry, Claimable, Carrying
  <2> HIDE DEF x
  <2>4. QED BY <1>0, <2>1, <2>2, <2>3 DEF OneCarryPerEdge, Carrying
<1>5. ASSUME NEW c \in Callers, CommitDismissal(c) PROVE OneCarryPerEdge'
  BY <1>5, <1>c, <1>n DEF CommitDismissal
<1>6. ASSUME NEW c \in Callers, CommitDelivered(c) PROVE OneCarryPerEdge'
  BY <1>6, <1>c, <1>n DEF CommitDelivered
<1>7. ASSUME NEW c \in Callers, CommitCarry(c) PROVE OneCarryPerEdge'
  <2>1. Carrying(c) /\ call[c].from \in Signatures BY <1>7, CallParts DEF CommitCarry, Carrying
  <2>2. /\ edge' = [edge EXCEPT ![call[c].from] = call[c].to]
        /\ call' = [call EXCEPT ![c] = NoCall]
    BY <1>7 DEF CommitCarry
  <2>3. SUFFICES ASSUME NEW d \in Callers, Carrying(d)'
                 PROVE  /\ edge'[call'[d].from] = None
                        /\ \A e \in Callers \ {d} : Carrying(e)' => call'[e].from # call'[d].from
    BY DEF OneCarryPerEdge
  <2>4. d # c BY <1>0, <1>n, <2>2, <2>3 DEF Carrying
  <2>5. call'[d] = call[d] /\ Carrying(d) BY <1>0, <2>2, <2>3, <2>4 DEF Carrying
  <2>6. edge[call[d].from] = None /\ call[d].from # call[c].from
    BY <2>1, <2>4, <2>5 DEF OneCarryPerEdge
  <2>7. call[d].from \in Signatures BY <2>5, CallParts DEF Carrying
  <2>8. edge'[call'[d].from] = None BY <1>0, <2>2, <2>5, <2>6, <2>7
  <2>9. ASSUME NEW e \in Callers \ {d}, Carrying(e)' PROVE call'[e].from # call'[d].from
    <3>1. e # c BY <1>0, <1>n, <2>2, <2>9 DEF Carrying
    <3>2. call'[e] = call[e] /\ Carrying(e) BY <1>0, <2>2, <2>9, <3>1 DEF Carrying
    <3>3. QED BY <2>5, <3>2 DEF OneCarryPerEdge
  <2>10. QED BY <2>8, <2>9
<1>8. ASSUME NEW c \in Callers, Abort(c) PROVE OneCarryPerEdge'
  BY <1>8, <1>c, <1>n DEF Abort
<1>9. CASE UNCHANGED ledgerVars BY <1>9 DEF ledgerVars, OneCarryPerEdge, Carrying
<1>10. QED BY <1>1, <1>2, <1>3, <1>4, <1>5, <1>6, <1>7, <1>8, <1>9 DEF LedgerNext, Step

\* No row counts more than what was seen of it and what it was made of; a carry
\* in progress holds such a count of another signature.
CountInv ==
    /\ \A t \in Signatures :
           sightings[t] <= ledger[t].times /\ Bounded(edge, sightings, ledger[t].times, t)
    /\ \A c \in Callers : Carrying(c) =>
           /\ call[c].from # call[c].to
           /\ Bounded(edge, sightings, call[c].old.times, call[c].from)

\* Somebody dismissed a signature t derives from.
Asked(e, d, t) == \E p \in Presses : d[p] # None /\ Reach(e, SigOf[p], t)

\* Every stamp has a press behind it, the ones about to be written too.
CauseInv ==
    /\ \A t \in Signatures : ledger[t].dismissed => Asked(edge, dismissals, t)
    /\ \A c \in Callers :
           /\ call[c].op = "dismiss" => Reach(edge, SigOf[call[c].press], call[c].at)
           /\ Carrying(c) /\ call[c].old.dismissed => Asked(edge, dismissals, call[c].from)

LEMMA AskedGrows ==
    ASSUME NEW e1 \in Edges, NEW e2 \in Edges, Grown(e1, e2), NEW d1, NEW d2,
           \A p \in Presses : d1[p] # None => d2[p] = d1[p],
           NEW t, Asked(e1, d1, t)
    PROVE  Asked(e2, d2, t)
BY ReachGrows DEF Asked

\* What every step does to what the bounds and the causes speak of.
LEMMA StepGrows ==
    ASSUME LedgerTypeOK, OneCarryPerEdge, [LedgerNext]_ledgerVars
    PROVE  /\ edge \in Edges /\ edge' \in Edges /\ Grown(edge, edge')
           /\ sightings \in Counts /\ sightings' \in Counts
           /\ \A s \in Signatures : sightings[s] <= sightings'[s]
           /\ \A p \in Presses : dismissals[p] # None => dismissals'[p] = dismissals[p]
           /\ \A s \in Signatures : ledger[s].times \in Nat /\ ledger'[s].times \in Nat
           /\ \A c \in Callers : Carrying(c) => call[c].old.times \in Nat
<1>1. LedgerTypeOK' /\ Grows BY StepKeeps
<1>2. edge \in Edges /\ edge' \in Edges BY <1>1 DEF LedgerTypeOK, Edges
<1>3. Grown(edge, edge') BY <1>1 DEF Grows, Grown
<1>4. sightings \in Counts /\ sightings' \in Counts BY <1>1 DEF LedgerTypeOK, Counts
<1>5. \A s \in Signatures : sightings[s] \in Nat /\ sightings[s] <= sightings[s]
  BY <1>4 DEF Counts
<1>6. \A s \in Signatures : sightings[s] <= sightings'[s]
  <2>1. CASE \E s \in Signatures : RecordSignature(s)
    <3>1. PICK s \in Signatures : RecordSignature(s) BY <2>1
    <3>2. sightings' = [sightings EXCEPT ![s] = @ + 1] BY <3>1 DEF RecordSignature
    <3>3. QED BY <1>4, <1>5, <3>2 DEF Counts
  <2>2. CASE UNCHANGED sightings BY <1>5, <2>2
  <2>3. QED BY <2>1, <2>2 DEF LedgerNext, Step, BeginDismissal, BeginDelivered, BeginCarry,
               CommitDismissal, CommitDelivered, CommitCarry, Abort, ledgerVars
<1>7. \A p \in Presses : dismissals[p] # None => dismissals'[p] = dismissals[p]
  BY <1>1 DEF Grows
<1>8. \A s \in Signatures : ledger[s].times \in Nat /\ ledger'[s].times \in Nat
  BY <1>1 DEF LedgerTypeOK, Row
<1>9. \A c \in Callers : Carrying(c) => call[c].old.times \in Nat
  BY CallParts DEF Carrying, Row
<1>10. QED BY <1>2, <1>3, <1>4, <1>6, <1>7, <1>8, <1>9

\* What a call that is not new carries, it carried before.
LEMMA StepKeepsBounds ==
    ASSUME LedgerTypeOK, OneCarryPerEdge, CountInv, [LedgerNext]_ledgerVars
    PROVE  CountInv'
<1> USE LedgerAssumption
<1>g. /\ edge \in Edges /\ edge' \in Edges /\ Grown(edge, edge')
      /\ sightings \in Counts /\ sightings' \in Counts
      /\ \A s \in Signatures : sightings[s] <= sightings'[s]
      /\ \A s \in Signatures : ledger[s].times \in Nat /\ ledger'[s].times \in Nat
      /\ \A c \in Callers : Carrying(c) => call[c].old.times \in Nat
  BY StepGrows
<1>0. /\ ledger \in [Signatures -> Row] /\ call \in [Callers -> Call]
      /\ edge \in [Signatures -> Signatures \cup {None}]
  BY DEF LedgerTypeOK
<1>n. NoCall.op # "carry" BY DEF NoCall
\* The bound of what was counted before the step.
<1>t. ASSUME NEW t \in Signatures PROVE Bounded(edge', sightings', ledger[t].times, t)
  BY <1>g, BoundGrows DEF CountInv
<1>o. ASSUME NEW c \in Callers, Carrying(c)
      PROVE  Bounded(edge', sightings', call[c].old.times, call[c].from)
  <2>1. call[c].from \in Signatures BY <1>o, CallParts DEF Carrying
  <2>2. Bounded(edge, sightings, call[c].old.times, call[c].from) BY <1>o DEF CountInv
  <2>3. QED BY <1>g, <1>o, <2>1, <2>2, BoundGrows
<1>k. ASSUME \A c \in Callers : Carrying(c)' => Carrying(c) /\ call'[c] = call[c]
      PROVE  \A c \in Callers : Carrying(c)' =>
                 /\ call'[c].from # call'[c].to
                 /\ Bounded(edge', sightings', call'[c].old.times, call'[c].from)
  BY <1>k, <1>o DEF CountInv
<1>e. ASSUME NEW c \in Callers, NEW x, call' = [call EXCEPT ![c] = x], x.op # "carry"
      PROVE  \A d \in Callers : Carrying(d)' => Carrying(d) /\ call'[d] = call[d]
  BY <1>0, <1>e DEF Carrying
<1>r. ASSUME UNCHANGED sightings, \A t \in Signatures : ledger'[t].times = ledger[t].times
      PROVE  \A t \in Signatures :
                 /\ sightings'[t] <= ledger'[t].times
                 /\ Bounded(edge', sightings', ledger'[t].times, t)
  <2>1. SUFFICES ASSUME NEW t \in Signatures
                 PROVE  /\ sightings'[t] <= ledger'[t].times
                        /\ Bounded(edge', sightings', ledger'[t].times, t)
    OBVIOUS
  <2>2. ledger'[t].times = ledger[t].times /\ sightings'[t] = sightings[t] BY <1>r
  <2>3. sightings[t] <= ledger[t].times BY DEF CountInv
  <2>4. QED BY <1>t, <2>2, <2>3
<1>1. ASSUME NEW s \in Signatures, RecordSignature(s) PROVE CountInv'
  <2>1. /\ sightings' = [sightings EXCEPT ![s] = @ + 1]
        /\ ledger' = [ledger EXCEPT ![s].times = @ + 1]
        /\ UNCHANGED <<edge, call>>
    BY <1>1 DEF RecordSignature
  <2>2. ASSUME NEW t \in Signatures
        PROVE  /\ sightings'[t] <= ledger'[t].times
               /\ Bounded(edge', sightings', ledger'[t].times, t)
    <3>1. sightings[t] \in Nat /\ sightings[t] <= ledger[t].times /\ ledger[t].times \in Nat
      BY <1>g DEF CountInv, Counts
    <3>2. CASE t = s
      <4>1. sightings'[t] = sightings[t] + 1 BY <1>g, <2>1, <3>2 DEF Counts
      <4>2. ledger'[t].times = ledger[t].times + 1 BY <1>0, <2>1, <3>2 DEF Row
      <4>3. Bounded(edge, sightings, ledger[t].times, t) BY DEF CountInv
      <4>4. Bounded(edge, sightings', ledger[t].times + 1, t)
        BY <1>g, <2>1, <3>1, <3>2, <4>3, BoundAgain
      <4>5. QED BY <2>1, <3>1, <4>1, <4>2, <4>4
    <3>3. CASE t # s
      <4>1. sightings'[t] = sightings[t] /\ ledger'[t] = ledger[t]
        BY <1>0, <1>g, <2>1, <3>3 DEF Counts
      <4>2. QED BY <1>t, <3>1, <4>1
    <3>4. QED BY <3>2, <3>3
  <2>3. \A c \in Callers : Carrying(c)' => Carrying(c) /\ call'[c] = call[c]
    BY <2>1 DEF Carrying
  <2>4. QED BY <1>k, <2>2, <2>3 DEF CountInv
<1>2. ASSUME NEW c \in Callers, NEW p \in Presses, BeginDismissal(c, p) PROVE CountInv'
  <2> DEFINE x == [op |-> "dismiss", press |-> p, at |-> ResolveForward(SigOf[p])]
  <2>1. x.op # "carry" OBVIOUS
  <2>2. UNCHANGED <<ledger, sightings>> /\ call' = [call EXCEPT ![c] = x]
    BY <1>2 DEF BeginDismissal
  <2> HIDE DEF x
  <2>3. QED BY <1>e, <1>k, <1>r, <2>1, <2>2 DEF CountInv
<1>3. ASSUME NEW c \in Callers, NEW s \in Signatures, BeginDelivered(c, s) PROVE CountInv'
  <2> DEFINE x == [op |-> "deliver", at |-> ResolveForward(s)]
  <2>1. x.op # "carry" OBVIOUS
  <2>2. UNCHANGED <<ledger, sightings>> /\ call' = [call EXCEPT ![c] = x]
    BY <1>3 DEF BeginDelivered
  <2> HIDE DEF x
  <2>3. QED BY <1>e, <1>k, <1>r, <2>1, <2>2 DEF CountInv
<1>4. ASSUME NEW c \in Callers, NEW e \in Renames, BeginCarry(c, e[1], e[2]) PROVE CountInv'
  <2> DEFINE x == [op |-> "carry", from |-> e[1], to |-> e[2], old |-> ledger[e[1]]]
  <2>1. e[1] \in Signatures /\ e[1] # e[2] OBVIOUS
  <2>2. x.from = e[1] /\ x.to = e[2] /\ x.old = ledger[e[1]] OBVIOUS
  <2>3. UNCHANGED <<ledger, sightings>> /\ call' = [call EXCEPT ![c] = x]
    BY <1>4 DEF BeginCarry
  <2> HIDE DEF x
  <2>4. ASSUME NEW d \in Callers, Carrying(d)'
        PROVE  /\ call'[d].from # call'[d].to
               /\ Bounded(edge', sightings', call'[d].old.times, call'[d].from)
    <3>1. CASE d = c
      <4>1. call'[d] = x BY <1>0, <2>3, <3>1
      <4>2. QED BY <1>t, <2>1, <2>2, <4>1
    <3>2. CASE d # c
      <4>1. call'[d] = call[d] /\ Carrying(d) BY <1>0, <2>3, <2>4, <3>2 DEF Carrying
      <4>2. QED BY <1>o, <4>1 DEF CountInv
    <3>3. QED BY <3>1, <3>2
  <2>5. QED BY <1>r, <2>3, <2>4 DEF CountInv
<1>5. ASSUME NEW c \in Callers, CommitDismissal(c) PROVE CountInv'
  <2>1. /\ call' = [call EXCEPT ![c] = NoCall] /\ UNCHANGED sightings
        /\ ledger' = [ledger EXCEPT ![call[c].at].dismissed = @ \/ Exists(call[c].at)]
    BY <1>5 DEF CommitDismissal
  <2>2. \A t \in Signatures : ledger'[t].times = ledger[t].times BY <1>0, <2>1 DEF Row
  <2>3. QED BY <1>e, <1>k, <1>n, <1>r, <2>1, <2>2 DEF CountInv
<1>6. ASSUME NEW c \in Callers, CommitDelivered(c) PROVE CountInv'
  <2>1. /\ call' = [call EXCEPT ![c] = NoCall] /\ UNCHANGED sightings
        /\ ledger' = [ledger EXCEPT ![call[c].at].delivered = @ \/ Exists(call[c].at)]
    BY <1>6 DEF CommitDelivered
  <2>2. \A t \in Signatures : ledger'[t].times = ledger[t].times BY <1>0, <2>1 DEF Row
  <2>3. QED BY <1>e, <1>k, <1>n, <1>r, <2>1, <2>2 DEF CountInv
<1>7. ASSUME NEW c \in Callers, CommitCarry(c) PROVE CountInv'
  <2> DEFINE a == call[c].from
             b == call[c].to
             old == call[c].old
  <2>1. Carrying(c) BY <1>7 DEF CommitCarry, Carrying
  <2>2. a \in Signatures /\ b \in Signatures /\ old \in Row BY <2>1, CallParts DEF Carrying
  <2>3. a # b /\ Bounded(edge, sightings, old.times, a) BY <2>1 DEF CountInv
  <2>4. edge[a] = None BY <2>1 DEF OneCarryPerEdge
  <2>5. /\ edge' = [edge EXCEPT ![a] = b] /\ UNCHANGED sightings
        /\ ledger' = [ledger EXCEPT ![b] = Merged(@, old)]
        /\ call' = [call EXCEPT ![c] = NoCall]
    BY <1>7 DEF CommitCarry
  <2>6. old.times \in Nat BY <1>g, <2>1
  <2> HIDE DEF a, b, old
  <2>7. ASSUME NEW t \in Signatures
        PROVE  /\ sightings'[t] <= ledger'[t].times
               /\ Bounded(edge', sightings', ledger'[t].times, t)
    <3>1. sightings[t] \in Nat /\ sightings[t] <= ledger[t].times /\ ledger[t].times \in Nat
      BY <1>g DEF CountInv, Counts
    <3>2. CASE t = b
      <4>1. ledger'[t].times = ledger[t].times + old.times
        BY <1>0, <2>2, <2>5, <3>2 DEF Merged
      <4>2. Bounded(edge, sightings, ledger[t].times, b) BY <3>2 DEF CountInv
      <4>3. Bounded(edge', sightings, ledger[t].times + old.times, b)
        BY <1>g, <2>2, <2>3, <2>4, <2>5, <2>6, <3>1, <4>2, BoundsMeet
      <4>4. sightings[t] <= ledger[t].times + old.times BY <2>6, <3>1
      <4>5. QED BY <2>5, <3>2, <4>1, <4>3, <4>4
    <3>3. CASE t # b
      <4>1. ledger'[t] = ledger[t] BY <1>0, <2>5, <3>3
      <4>2. QED BY <1>t, <2>5, <3>1, <4>1
    <3>4. QED BY <3>2, <3>3
  <2>8. QED BY <1>e, <1>k, <1>n, <2>5, <2>7 DEF CountInv
<1>8. ASSUME NEW c \in Callers, Abort(c) PROVE CountInv'
  <2>1. call' = [call EXCEPT ![c] = NoCall] /\ UNCHANGED <<ledger, sightings>>
    BY <1>8 DEF Abort
  <2>2. QED BY <1>e, <1>k, <1>n, <1>r, <2>1 DEF CountInv
<1>9. CASE UNCHANGED ledgerVars BY <1>9 DEF ledgerVars, CountInv, Carrying
<1>10. QED BY <1>1, <1>2, <1>3, <1>4, <1>5, <1>6, <1>7, <1>8, <1>9 DEF LedgerNext, Step

LEMMA StepKeepsCauses ==
    ASSUME LedgerTypeOK, OneCarryPerEdge, CauseInv, [LedgerNext]_ledgerVars
    PROVE  CauseInv'
<1> USE LedgerAssumption
<1>g. /\ edge \in Edges /\ edge' \in Edges /\ Grown(edge, edge')
      /\ \A p \in Presses : dismissals[p] # None => dismissals'[p] = dismissals[p]
  BY StepGrows
<1>0. /\ ledger \in [Signatures -> Row] /\ call \in [Callers -> Call]
      /\ edge \in [Signatures -> Signatures \cup {None}]
      /\ dismissals \in [Presses -> Signatures \cup {None}]
  BY DEF LedgerTypeOK
<1>n. NoCall.op = "none" BY DEF NoCall
<1>a. ASSUME NEW t, Asked(edge, dismissals, t) PROVE Asked(edge', dismissals', t)
  BY <1>a, <1>g, AskedGrows
<1>t. ASSUME NEW t \in Signatures, ledger[t].dismissed PROVE Asked(edge', dismissals', t)
  BY <1>a, <1>t DEF CauseInv
\* What a call carries stays caused, and so does the row it may leave alone.
<1>o. ASSUME NEW c \in Callers, call'[c] = call[c]
      PROVE  /\ call'[c].op = "dismiss" => Reach(edge', SigOf[call'[c].press], call'[c].at)
             /\ Carrying(c)' /\ call'[c].old.dismissed =>
                    Asked(edge', dismissals', call'[c].from)
  BY <1>a, <1>g, <1>o, ReachGrows DEF CauseInv, Carrying
<1>e. ASSUME NEW c \in Callers, call' = [call EXCEPT ![c] = NoCall]
      PROVE  \A d \in Callers :
                 /\ call'[d].op = "dismiss" => Reach(edge', SigOf[call'[d].press], call'[d].at)
                 /\ Carrying(d)' /\ call'[d].old.dismissed =>
                        Asked(edge', dismissals', call'[d].from)
  <2>1. TAKE d \in Callers
  <2>2. CASE d = c
    <3>1. call'[d] = NoCall BY <1>0, <1>e, <2>2
    <3>2. QED BY <1>n, <3>1 DEF Carrying
  <2>3. CASE d # c
    <3>1. call'[d] = call[d] BY <1>0, <1>e, <2>3
    <3>2. QED BY <1>o, <3>1
  <2>4. QED BY <2>2, <2>3
<1>r. ASSUME \A t \in Signatures : ledger'[t].dismissed = ledger[t].dismissed
      PROVE  \A t \in Signatures : ledger'[t].dismissed => Asked(edge', dismissals', t)
  BY <1>r, <1>t
<1>1. ASSUME NEW s \in Signatures, RecordSignature(s) PROVE CauseInv'
  <2>1. ledger' = [ledger EXCEPT ![s].times = @ + 1] /\ UNCHANGED call
    BY <1>1 DEF RecordSignature
  <2>2. \A t \in Signatures : ledger'[t].dismissed = ledger[t].dismissed
    BY <1>0, <2>1 DEF Row
  <2>3. QED BY <1>o, <1>r, <2>1, <2>2 DEF CauseInv
<1>2. ASSUME NEW c \in Callers, NEW p \in Presses, BeginDismissal(c, p) PROVE CauseInv'
  <2> DEFINE at == ResolveForward(SigOf[p])
             x == [op |-> "dismiss", press |-> p, at |-> at]
  <2>1. SigOf[p] \in Signatures OBVIOUS
  <2>2. Reach(edge, SigOf[p], at) BY <1>g, <2>1, ResolveForwardDescends
  <2>3. x.op = "dismiss" /\ x.press = p /\ x.at = at OBVIOUS
  <2>4. UNCHANGED <<ledger, edge>> /\ call' = [call EXCEPT ![c] = x]
    BY <1>2 DEF BeginDismissal
  <2> HIDE DEF x, at
  <2>5. ASSUME NEW d \in Callers
        PROVE  /\ call'[d].op = "dismiss" => Reach(edge', SigOf[call'[d].press], call'[d].at)
               /\ Carrying(d)' /\ call'[d].old.dismissed =>
                      Asked(edge', dismissals', call'[d].from)
    <3>1. CASE d = c
      <4>1. call'[d] = x BY <1>0, <2>4, <3>1
      <4>2. QED BY <2>2, <2>3, <2>4, <4>1 DEF Carrying
    <3>2. CASE d # c
      <4>1. call'[d] = call[d] BY <1>0, <2>4, <3>2
      <4>2. QED BY <1>o, <4>1
    <3>3. QED BY <3>1, <3>2
  <2>6. QED BY <1>r, <2>4, <2>5 DEF CauseInv
<1>3. ASSUME NEW c \in Callers, NEW s \in Signatures, BeginDelivered(c, s) PROVE CauseInv'
  <2> DEFINE x == [op |-> "deliver", at |-> ResolveForward(s)]
  <2>1. x.op = "deliver" OBVIOUS
  <2>2. UNCHANGED <<ledger, edge>> /\ call' = [call EXCEPT ![c] = x]
    BY <1>3 DEF BeginDelivered
  <2> HIDE DEF x
  <2>3. ASSUME NEW d \in Callers
        PROVE  /\ call'[d].op = "dismiss" => Reach(edge', SigOf[call'[d].press], call'[d].at)
               /\ Carrying(d)' /\ call'[d].old.dismissed =>
                      Asked(edge', dismissals', call'[d].from)
    <3>1. CASE d = c
      <4>1. call'[d] = x BY <1>0, <2>2, <3>1
      <4>2. QED BY <2>1, <4>1 DEF Carrying
    <3>2. CASE d # c
      <4>1. call'[d] = call[d] BY <1>0, <2>2, <3>2
      <4>2. QED BY <1>o, <4>1
    <3>3. QED BY <3>1, <3>2
  <2>4. QED BY <1>r, <2>2, <2>3 DEF CauseInv
<1>4. ASSUME NEW c \in Callers, NEW e \in Renames, BeginCarry(c, e[1], e[2]) PROVE CauseInv'
  <2> DEFINE x == [op |-> "carry", from |-> e[1], to |-> e[2], old |-> ledger[e[1]]]
  <2>1. e[1] \in Signatures OBVIOUS
  <2>2. x.op = "carry" /\ x.from = e[1] /\ x.old = ledger[e[1]] OBVIOUS
  <2>3. UNCHANGED <<ledger, edge>> /\ call' = [call EXCEPT ![c] = x]
    BY <1>4 DEF BeginCarry
  <2> HIDE DEF x
  <2>4. ASSUME NEW d \in Callers
        PROVE  /\ call'[d].op = "dismiss" => Reach(edge', SigOf[call'[d].press], call'[d].at)
               /\ Carrying(d)' /\ call'[d].old.dismissed =>
                      Asked(edge', dismissals', call'[d].from)
    <3>1. CASE d = c
      <4>1. call'[d] = x BY <1>0, <2>3, <3>1
      <4>2. QED BY <1>t, <2>1, <2>2, <4>1 DEF Carrying
    <3>2. CASE d # c
      <4>1. call'[d] = call[d] BY <1>0, <2>3, <3>2
      <4>2. QED BY <1>o, <4>1
    <3>3. QED BY <3>1, <3>2
  <2>5. QED BY <1>r, <2>3, <2>4 DEF CauseInv
<1>5. ASSUME NEW c \in Callers, CommitDismissal(c) PROVE CauseInv'
  <2> DEFINE s == call[c].at
             p == call[c].press
  <2>0. call[c].op = "dismiss" BY <1>5 DEF CommitDismissal
  <2>1. s \in Signatures /\ p \in Presses BY <2>0, CallParts
  <2>2. Reach(edge, SigOf[p], s) BY <2>0 DEF CauseInv
  <2>3. /\ call' = [call EXCEPT ![c] = NoCall]
        /\ dismissals' = [dismissals EXCEPT ![p] = IF @ = None THEN s ELSE @]
        /\ ledger' = [ledger EXCEPT ![s].dismissed = @ \/ Exists(s)]
    BY <1>5 DEF CommitDismissal
  <2> HIDE DEF s, p
  <2>4. dismissals'[p] # None BY <1>0, <2>1, <2>3
  <2>5. Asked(edge', dismissals', s) BY <1>g, <2>1, <2>2, <2>4, ReachGrows DEF Asked
  <2>6. \A t \in Signatures : t # s => ledger'[t] = ledger[t] BY <1>0, <2>3
  <2>7. \A t \in Signatures : ledger'[t].dismissed => Asked(edge', dismissals', t)
    BY <1>t, <2>5, <2>6
  <2>8. QED BY <1>e, <2>3, <2>7 DEF CauseInv
<1>6. ASSUME NEW c \in Callers, CommitDelivered(c) PROVE CauseInv'
  <2>1. /\ call' = [call EXCEPT ![c] = NoCall]
        /\ ledger' = [ledger EXCEPT ![call[c].at].delivered = @ \/ Exists(call[c].at)]
    BY <1>6 DEF CommitDelivered
  <2>2. \A t \in Signatures : ledger'[t].dismissed = ledger[t].dismissed
    BY <1>0, <2>1 DEF Row
  <2>3. QED BY <1>e, <1>r, <2>1, <2>2 DEF CauseInv
<1>7. ASSUME NEW c \in Callers, CommitCarry(c) PROVE CauseInv'
  <2> DEFINE a == call[c].from
             b == call[c].to
             old == call[c].old
  <2>1. Carrying(c) BY <1>7 DEF CommitCarry, Carrying
  <2>2. a \in Signatures /\ b \in Signatures BY <2>1, CallParts DEF Carrying
  <2>3. old.dismissed => Asked(edge, dismissals, a) BY <2>1 DEF CauseInv
  <2>4. /\ edge' = [edge EXCEPT ![a] = b]
        /\ ledger' = [ledger EXCEPT ![b] = Merged(@, old)]
        /\ call' = [call EXCEPT ![c] = NoCall]
    BY <1>7 DEF CommitCarry
  <2> HIDE DEF a, b, old
  <2>5. edge'[a] = b /\ b # None BY <1>0, <2>2, <2>4
  <2>6. ASSUME old.dismissed PROVE Asked(edge', dismissals', b)
    <3>1. Asked(edge', dismissals', a) BY <1>a, <2>3, <2>6
    <3>2. PICK p \in Presses : dismissals'[p] # None /\ Reach(edge', SigOf[p], a)
      BY <3>1 DEF Asked
    <3>3. SigOf[p] \in Signatures OBVIOUS
    <3>4. Reach(edge', SigOf[p], b) BY <1>g, <2>5, <3>2, <3>3, ReachStep
    <3>5. QED BY <3>2, <3>4 DEF Asked
  <2>7. ASSUME NEW t \in Signatures, ledger'[t].dismissed PROVE Asked(edge', dismissals', t)
    <3>1. CASE t = b
      <4>1. ledger[t].dismissed \/ old.dismissed BY <1>0, <2>4, <2>7, <3>1 DEF Merged
      <4>2. QED BY <1>t, <2>6, <3>1, <4>1
    <3>2. CASE t # b BY <1>0, <1>t, <2>4, <2>7, <3>2
    <3>3. QED BY <3>1, <3>2
  <2>8. QED BY <1>e, <2>4, <2>7 DEF CauseInv
<1>8. ASSUME NEW c \in Callers, Abort(c) PROVE CauseInv'
  <2>1. call' = [call EXCEPT ![c] = NoCall] /\ UNCHANGED ledger BY <1>8 DEF Abort
  <2>2. QED BY <1>e, <1>r, <2>1 DEF CauseInv
<1>9. CASE UNCHANGED ledgerVars BY <1>9 DEF ledgerVars, CauseInv, Carrying
<1>10. QED BY <1>1, <1>2, <1>3, <1>4, <1>5, <1>6, <1>7, <1>8, <1>9 DEF LedgerNext, Step

\* Quiet is quiet wherever the walk ends.
LEMMA QuietAtTheEnd ==
    ASSUME edge \in Edges, NEW s \in Signatures, Suppressed(s),
           NEW t \in Signatures, Ends(edge, s, t)
    PROVE  IsHeld(t)
BY ResolvedEnds DEF Suppressed

LEMMA LoudSomewhere ==
    ASSUME NEW s \in Signatures, ~Suppressed(s)'
    PROVE  \E t \in Signatures : Ends(edge', s, t) /\ ~IsHeld(t)'
<1>1. Resolvable(s)' /\ ~IsHeld(Resolved(s))' BY DEF Suppressed
<1>2. \E t \in Signatures : EndsAt(s, t)' BY <1>1 DEF Resolvable
<1>3. Resolved(s)' \in Signatures /\ EndsAt(s, Resolved(s))' BY <1>2 DEF Resolved
<1>4. Ends(edge', s, Resolved(s)') BY <1>3 DEF EndsAt, Ends, Forward, WalkOf
<1>5. ~IsHeld(Resolved(s))' BY <1>1
<1>6. QED BY <1>3, <1>4, <1>5 DEF IsHeld, DismissedAt

\* A step that makes a quiet signature loud writes an edge without a stamp to
\* carry, or onto a signature that has an edge itself.
LEMMA StepForgets ==
    ASSUME LedgerTypeOK, OneCarryPerEdge, CountInv, [LedgerNext]_ledgerVars,
           NEW s \in Signatures, Suppressed(s), ~Suppressed(s)'
    PROVE  \E c \in Callers :
               CommitCarry(c) /\ (~Stamped(call[c].old) \/ edge[call[c].to] # None)
<1> USE LedgerAssumption
<1>g. /\ edge \in Edges /\ edge' \in Edges
      /\ \A p \in Presses : dismissals[p] # None => dismissals'[p] = dismissals[p]
  BY StepGrows
<1>0. /\ ledger \in [Signatures -> Row] /\ call \in [Callers -> Call]
      /\ edge \in [Signatures -> Signatures \cup {None}]
  BY DEF LedgerTypeOK
<1>h. ASSUME NEW t \in Signatures, IsHeld(t) PROVE IsHeld(t)'
  <2>1. Grows BY StepKeeps
  <2>2. /\ ledger[t].dismissed => ledger'[t].dismissed
        /\ ledger[t].delivered => ledger'[t].delivered
    BY <2>1 DEF Grows
  <2>3. t # None OBVIOUS
  <2>4. \A p \in Presses : dismissals[p] = t => dismissals'[p] = t BY <1>g, <2>3
  <2>5. QED BY <1>h, <2>2, <2>4 DEF IsHeld, DismissedAt
<1>1. PICK t \in Signatures : Ends(edge', s, t) /\ ~IsHeld(t)' BY LoudSomewhere
<1>2. ~Ends(edge, s, t) BY <1>1, <1>g, <1>h, QuietAtTheEnd
<1>3. edge' # edge BY <1>1, <1>2
<1>4. PICK c \in Callers : CommitCarry(c)
  BY <1>3 DEF LedgerNext, Step, RecordSignature, BeginDismissal, BeginDelivered, BeginCarry,
      CommitDismissal, CommitDelivered, Abort, ledgerVars
<1>5. SUFFICES ASSUME Stamped(call[c].old), edge[call[c].to] = None PROVE FALSE BY <1>4
<1> DEFINE a == call[c].from
           b == call[c].to
           old == call[c].old
           w1 == WalkOf(edge, s)
           w2 == WalkOf(edge', s)
<1>6. Carrying(c) BY <1>4 DEF CommitCarry, Carrying
<1>7. a \in Signatures /\ b \in Signatures /\ old \in Row BY <1>6, CallParts DEF Carrying
<1>8. a # b /\ edge[a] = None BY <1>6 DEF CountInv, OneCarryPerEdge
<1>9. edge' = [edge EXCEPT ![a] = b] /\ ledger' = [ledger EXCEPT ![b] = Merged(@, old)]
  BY <1>4 DEF CommitCarry
<1>10. Stamped(old) /\ edge[b] = None BY <1>5
<1> HIDE DEF a, b, old
<1>11. t # b
  <2>1. SUFFICES ASSUME t = b PROVE FALSE OBVIOUS
  <2>2. ledger'[t] = Merged(ledger[t], old) /\ ledger[t] \in Row BY <1>0, <1>9, <2>1
  <2>3. ledger'[t].dismissed \/ ledger'[t].delivered
    BY <1>7, <1>10, <2>2, MergedType DEF Stamped
  <2>4. QED BY <1>1, <2>3 DEF IsHeld
<1>12. edge'[a] = b /\ edge'[b] = None /\ \A x \in Signatures : x # a => edge'[x] = edge[x]
  BY <1>0, <1>7, <1>8, <1>9, <1>10
<1>13. PICK n \in 0 .. MaxHops : w2[n] = t BY <1>1 DEF Ends
<1>14. n \in Nat /\ n <= MaxHops BY <1>13
<1>15. edge'[t] = None BY <1>1 DEF Ends
<1>16. CASE \A j \in Nat : j < n => w1[j] # a
  <2>1. \A k \in Nat : k <= n => w2[k] = w1[k]
    <3>1. Avoids(edge, s, a, n) BY <1>16 DEF Avoids
    <3>2. SameBut(edge, edge', a) BY <1>12 DEF SameBut
    <3>3. QED BY <1>g, <1>7, <1>14, <3>1, <3>2, WalkUpToTheEdge
  <2>2. w1[n] = t BY <1>13, <1>14, <2>1
  <2>3. t # a BY <1>7, <1>12, <1>15
  <2>4. edge[t] = None BY <1>12, <1>15, <2>3
  <2>5. Ends(edge, s, t) BY <1>13, <2>2, <2>4 DEF Ends
  <2>6. QED BY <1>2, <2>5
<1>17. CASE \E j \in Nat : j < n /\ w1[j] = a
  <2> DEFINE J == {j \in Nat : w1[j] = a}
  <2>1. J # {} BY <1>17
  <2>2. PICK j \in J : \A i \in J : j <= i
    <3> HIDE DEF J
    <3>1. J \in SUBSET Nat BY DEF J
    <3>2. QED BY <2>1, <3>1, LeastNumber
  <2>3. j \in Nat /\ w1[j] = a BY <2>2
  <2>4. \A i \in Nat : i < j => w1[i] # a
    <3>1. SUFFICES ASSUME NEW i \in Nat, i < j, w1[i] = a PROVE FALSE OBVIOUS
    <3>2. i \in J BY <3>1
    <3>3. j <= i BY <2>2, <3>2
    <3>4. QED BY <2>3, <3>1, <3>3
  <2>5. w2[j] = a
    <3>1. \A k \in Nat : k <= j => w2[k] = w1[k]
      <4>1. Avoids(edge, s, a, j) BY <2>4 DEF Avoids
      <4>2. SameBut(edge, edge', a) BY <1>12 DEF SameBut
      <4>3. QED BY <1>g, <1>7, <2>3, <4>1, <4>2, WalkUpToTheEdge
    <3>2. QED BY <2>3, <3>1
  <2>6. a # None /\ b # None BY <1>7
  <2>7. w2[j + 1] = b BY <1>g, <1>12, <2>3, <2>5, <2>6, WalkSteps
  <2>8. j + 1 \in Nat BY <2>3
  <2>9. t = b BY <1>g, <1>7, <1>12, <1>13, <1>14, <1>15, <2>7, <2>8, WalkEndsOnce
  <2>10. QED BY <1>11, <2>9
<1>18. QED BY <1>16, <1>17

LedgerInv == LedgerTypeOK /\ OneCarryPerEdge /\ CountInv /\ CauseInv

LEMMA LedgerInvariant == LedgerSpec => []LedgerInv
<1>1. LedgerInit => LedgerInv
  <2>1. LedgerInit => LedgerTypeOK
    BY LedgerAssumption DEF LedgerInit, LedgerTypeOK, Row, NoRow, Call
  <2>2. LedgerInit => OneCarryPerEdge BY DEF LedgerInit, OneCarryPerEdge, Carrying, NoCall
  <2>3. LedgerInit => CauseInv BY DEF LedgerInit, CauseInv, Carrying, NoCall, NoRow
  <2>4. ASSUME LedgerInit PROVE CountInv
    <3>1. \A c \in Callers : ~Carrying(c) BY <2>4 DEF LedgerInit, Carrying, NoCall
    <3>2. \A t \in Signatures : sightings[t] = 0 /\ ledger[t].times = 0
      BY <2>4 DEF LedgerInit, NoRow
    <3>3. sightings \in Counts BY <2>4 DEF LedgerInit, Counts
    <3>4. \A t \in Signatures : Cardinality(SeenBy(sightings, Ancestors(edge, t))) \in Nat
      BY <3>3, SeenIsFinite DEF Ancestors
    <3>5. \A t \in Signatures : Bounded(edge, sightings, 0, t) BY <3>4 DEF Bounded
    <3>6. QED BY <3>1, <3>2, <3>5 DEF CountInv
  <2>5. QED BY <2>1, <2>2, <2>3, <2>4 DEF LedgerInv
<1>2. LedgerInv /\ [LedgerNext]_ledgerVars => LedgerInv'
  BY StepKeeps, StepKeepsClaims, StepKeepsBounds, StepKeepsCauses DEF LedgerInv
<1>3. QED BY <1>1, <1>2, PTL DEF LedgerSpec

\* A retried or racing recordAncestry never merges a row twice: each edge is
\* written by at most one call, whatever number of calls are in progress.
THEOREM AncestryIsClaimedOnce == LedgerSpec => []OneCarryPerEdge
<1>1. LedgerInv => OneCarryPerEdge BY DEF LedgerInv
<1>2. QED BY <1>1, LedgerInvariant, PTL

\* No retry, race or abort takes back an edge, a dismissal, a stamp or a count.
\* The count and the stamps need no invariant; the edges need the claim.
THEOREM LedgerForgetsNothing == LedgerSpec => MemoryOnlyGrows
<1>1. LedgerInv /\ [LedgerNext]_ledgerVars => [Grows]_ledgerVars BY StepKeeps DEF LedgerInv
<1>2. QED BY <1>1, LedgerInvariant, PTL DEF LedgerSpec, MemoryOnlyGrows

\* What the ledger holds is accounted for, whatever signatures, presses and calls
\* there are: a stamp has a dismissal behind it, and a count is made of at least
\* the row's own sightings and of no sighting twice.
THEOREM LedgerIsAccountedFor == LedgerSpec => []LedgerAddsUp
<1>1. ASSUME LedgerInv PROVE LedgerAddsUp
  <2>1. LedgerTypeOK /\ OneCarryPerEdge BY <1>1 DEF LedgerInv
  <2>2. NothingIsDismissedUnasked
    BY <1>1, DescendsIsReach DEF LedgerInv, CauseInv, Asked, NothingIsDismissedUnasked
  <2>3. ASSUME NEW t \in Signatures
        PROVE  /\ sightings[t] <= ledger[t].times
               /\ (\A s \in Signatures : Descends(s, t) => ~OnACycle(s)) =>
                     ledger[t].times <= Cardinality(Seen({s \in Signatures : Descends(s, t)}))
    <3>1. sightings[t] <= ledger[t].times /\ Bounded(edge, sightings, ledger[t].times, t)
      BY <1>1 DEF LedgerInv, CountInv
    <3>2. Seen({s \in Signatures : Descends(s, t)}) = SeenBy(sightings, Ancestors(edge, t))
      BY DescendsIsReach DEF Seen, SeenBy, Ancestors
    <3>3. (\A s \in Signatures : Descends(s, t) => ~OnACycle(s)) => Proper(edge, t)
      BY DescendsIsReach DEF OnACycle, Proper
    <3>4. QED BY <3>1, <3>2, <3>3 DEF Bounded
  <2>4. EverySightingCountsOnce BY <2>3 DEF EverySightingCountsOnce
  <2>5. QED BY <2>1, <2>2, <2>4 DEF LedgerAddsUp
<1>2. QED BY <1>1, LedgerInvariant, PTL

\* Nothing recorded is taken back, and what is quiet stays quiet, whichever chains,
\* forks, merges and cycles the edges make, but for an edge written without the
\* stamp in hand or onto a signature that was replaced already.
THEOREM LedgerNeverForgets == LedgerSpec => LedgerRemembers
<1>1. ASSUME LedgerInv, [LedgerNext]_ledgerVars
      PROVE  \A s \in Signatures :
                 Suppressed(s) /\ ~Suppressed(s)' =>
                     \E c \in Callers :
                         /\ CommitCarry(c)
                         /\ ~Stamped(call[c].old) \/ edge[call[c].to] # None
  BY <1>1, StepForgets DEF LedgerInv
<1>2. LedgerSpec => ForgetsOnlyThroughAnEdge
  BY <1>1, LedgerInvariant, PTL DEF LedgerSpec, ForgetsOnlyThroughAnEdge
<1>3. QED BY <1>2, LedgerForgetsNothing DEF LedgerRemembers

-----------------------------------------------------------------------------
(* The decision log, for any number of overlapping ticks, answers, aborted  *)
(* transactions and recorded decisions.                                    *)

\* The open run, whichever row the conflict target finds, is the newest run.
LEMMA OpenRunIsLast ==
    ASSUME LogTypeOK, LastRunIsOpen
    PROVE  OpenRun = Len(runs)
<1>1. runs \in Seq(Run) BY DEF LogTypeOK
<1>2. CASE runs = <<>>
  <2>1. ~\E i \in DOMAIN runs : IsOpen(i) BY <1>2
  <2>2. QED BY <1>2, <2>1 DEF OpenRun
<1>3. CASE runs # <<>>
  <2>1. Len(runs) \in DOMAIN runs BY <1>1, <1>3
  <2>2. IsOpen(Len(runs)) BY <2>1 DEF LastRunIsOpen
  <2>3. \A i \in DOMAIN runs : IsOpen(i) => i = Len(runs) BY DEF LastRunIsOpen
  <2>4. QED BY <2>1, <2>2, <2>3 DEF OpenRun
<1>4. QED BY <1>2, <1>3

\* A step moves at most one tick.
LEMMA TickTypes ==
    ASSUME LogTypeOK, LastRunIsOpen, [LogNext]_logVars
    PROVE  recorder' \in [Recorders -> {NotRecording} \cup Deciding \cup Recording]
<1>1. \A w \in Recorders : recorder[w] \in {NotRecording} \cup Deciding \cup Recording
  BY DEF LogTypeOK
<1>2. clock \in Now BY DEF LogTypeOK
<1>3. ASSUME NEW w \in Recorders, StartTick(w)
      PROVE  recorder' \in [Recorders -> {NotRecording} \cup Deciding \cup Recording]
  <2>1. [pc |-> "decide", at |-> clock] \in Deciding BY <1>2 DEF Deciding
  <2>2. QED BY <1>3, <2>1 DEF StartTick, LogTypeOK
<1>4. ASSUME NEW w \in Recorders, NEW a \in Answers, BeginRecord(w, a)
      PROVE  recorder' \in [Recorders -> {NotRecording} \cup Deciding \cup Recording]
  <2>1. recorder[w].at \in Now BY <1>1, <1>4 DEF BeginRecord, NotRecording, Deciding, Recording
  <2>2. OpenRun \in Nat
    <3>1. runs \in Seq(Run) BY DEF LogTypeOK
    <3>2. QED BY <3>1, OpenRunIsLast
  <2>3. [pc |-> "close", at |-> recorder[w].at, answer |-> a, seen |-> OpenRun] \in Recording
    BY <2>1, <2>2 DEF Recording
  <2>4. QED BY <1>4, <2>3 DEF BeginRecord, LogTypeOK
<1>5. ASSUME NEW w \in Recorders, Replace(w) \/ ExtendOrOpen(w) \/ RollBack(w)
      PROVE  recorder' \in [Recorders -> {NotRecording} \cup Deciding \cup Recording]
  BY <1>5 DEF Replace, ExtendOrOpen, RollBack, LogTypeOK
<1>6. ASSUME NEW w \in Recorders, CloseNothing(w)
      PROVE  recorder' \in [Recorders -> {NotRecording} \cup Deciding \cup Recording]
  <2>1. recorder[w] \in Recording BY <1>1, <1>6 DEF CloseNothing, NotRecording, Deciding
  <2>2. [recorder[w] EXCEPT !.pc = "extend"] \in Recording BY <2>1 DEF Recording
  <2>3. recorder' = [recorder EXCEPT ![w] = [recorder[w] EXCEPT !.pc = "extend"]]
    BY <1>6 DEF CloseNothing
  <2>4. QED BY <2>2, <2>3 DEF LogTypeOK
<1>7. CASE Advance BY <1>7 DEF Advance, LogTypeOK
<1>8. CASE UNCHANGED logVars BY <1>8 DEF logVars, LogTypeOK
<1>9. QED BY <1>3, <1>4, <1>5, <1>6, <1>7, <1>8 DEF LogNext

\* The three ways a step writes the log.
Opens(a, at) == runs = <<>> /\ runs' = Append(runs, NewRun(a, at))

Extends(a, at) ==
    /\ runs # <<>>
    /\ runs[Len(runs)].answer = a
    /\ runs' = [runs EXCEPT ![Len(runs)] = Extended(runs[Len(runs)], at)]

Replaces(a, at) ==
    /\ runs # <<>>
    /\ runs[Len(runs)].answer # a
    /\ runs' = Append([runs EXCEPT ![Len(runs)] = [runs[Len(runs)] EXCEPT !.ended = at]],
                      NewRun(a, at))

LEMMA LogWrites ==
    ASSUME LogTypeOK, LastRunIsOpen, [LogNext]_logVars
    PROVE  \/ UNCHANGED runs
           \/ \E a \in Answers, at \in Now : Opens(a, at) \/ Extends(a, at) \/ Replaces(a, at)
<1>1. \A w \in Recorders : recorder[w] \in {NotRecording} \cup Deciding \cup Recording
  BY DEF LogTypeOK
<1>2. runs \in Seq(Run) BY DEF LogTypeOK
<1>3. ASSUME NEW w \in Recorders, Replace(w)
      PROVE  \E a \in Answers, at \in Now : Replaces(a, at)
  <2>1. recorder[w].answer \in Answers /\ recorder[w].at \in Now
    BY <1>1, <1>3 DEF Replace, NotRecording, Deciding, Recording
  <2>2. recorder[w].seen = Len(runs) /\ runs # <<>> /\ runs[Len(runs)].answer # recorder[w].answer
    BY <1>3 DEF Replace, AnswerChanged, IsOpen, LastRunIsOpen
  <2>3. Replaces(recorder[w].answer, recorder[w].at) BY <1>3, <2>2 DEF Replace, Replaces
  <2>4. QED BY <2>1, <2>3
<1>4. ASSUME NEW w \in Recorders, ExtendOrOpen(w)
      PROVE  \/ UNCHANGED runs
             \/ \E a \in Answers, at \in Now : Opens(a, at) \/ Extends(a, at)
  <2>1. recorder[w].answer \in Answers /\ recorder[w].at \in Now
    BY <1>1, <1>4 DEF ExtendOrOpen, NotRecording, Deciding, Recording
  <2>2. OpenRun = Len(runs) BY OpenRunIsLast
  <2>3. CASE runs = <<>>
    <3>1. Opens(recorder[w].answer, recorder[w].at) BY <1>4, <2>2, <2>3 DEF ExtendOrOpen, Opens
    <3>2. QED BY <2>1, <3>1
  <2>4. CASE runs # <<>> /\ runs[Len(runs)].answer = recorder[w].answer
    <3>1. Len(runs) # 0 BY <1>2, <2>4
    <3>2. Extends(recorder[w].answer, recorder[w].at)
      BY <1>4, <2>2, <2>4, <3>1 DEF ExtendOrOpen, Extends
    <3>3. QED BY <2>1, <3>2
  <2>5. CASE runs # <<>> /\ runs[Len(runs)].answer # recorder[w].answer
    <3>1. Len(runs) # 0 BY <1>2, <2>5
    <3>2. QED BY <1>4, <2>2, <2>5, <3>1 DEF ExtendOrOpen
  <2>6. QED BY <2>3, <2>4, <2>5
<1>5. ASSUME NEW w \in Recorders,
             StartTick(w) \/ CloseNothing(w) \/ RollBack(w) \/ \E a \in Answers : BeginRecord(w, a)
      PROVE  UNCHANGED runs
  BY <1>5 DEF StartTick, CloseNothing, RollBack, BeginRecord
<1>6. Advance \/ UNCHANGED logVars => UNCHANGED runs BY DEF Advance, logVars
<1>7. QED BY <1>3, <1>4, <1>5, <1>6 DEF LogNext

LEMMA LastIsReflexive == \A r \in Run : r.last >= r.last
<1>1. \A x \in Now : x >= x BY DEF Now
<1>2. QED BY <1>1 DEF Run

\* What each way of writing leaves in the log.
LEMMA Written ==
    ASSUME OneHistory, NEW a \in Answers, NEW at \in Now,
           Opens(a, at) \/ Extends(a, at) \/ Replaces(a, at)
    PROVE  /\ runs' \in Seq(Run)
           /\ LastRunIsOpen' /\ NeighboursDiffer' /\ AboutTheLatestTick'
           /\ KeepsHistory
<1> DEFINE n == Len(runs)
<1>1. runs \in Seq(Run) /\ n \in Nat BY DEF OneHistory, LogTypeOK
<1>2. NewRun(a, at) \in Run BY DEF NewRun, Run, Open
<1>3. \A i \in DOMAIN runs : runs[i] \in Run BY <1>1
<1>4. Now \subseteq Int BY DEF Now
<1>5. CASE Opens(a, at)
  <2>1. runs' = <<NewRun(a, at)>> BY <1>5 DEF Opens
  <2>2. Len(runs') = 1 /\ DOMAIN runs' = {1} /\ runs'[1] = NewRun(a, at) BY <2>1
  <2>3. runs' \in Seq(Run) BY <1>2, <2>1
  <2>4. DOMAIN runs = {} BY <1>5 DEF Opens
  <2>5. LastRunIsOpen' BY <2>2 DEF LastRunIsOpen, IsOpen, NewRun
  <2>6. NeighboursDiffer' BY <2>2 DEF NeighboursDiffer
  <2>7. AboutTheLatestTick' BY <2>2 DEF AboutTheLatestTick, NewRun
  <2>8. QED BY <2>3, <2>4, <2>5, <2>6, <2>7 DEF KeepsHistory
<1>6. CASE Extends(a, at)
  <2> DEFINE r == Extended(runs[n], at)
  <2>1. n \in DOMAIN runs BY <1>1, <1>6 DEF Extends
  <2>2. runs[n] \in Run BY <1>3, <2>1
  <2>3. Later(runs[n].last, at) \in Now /\ Later(runs[n].last, at) >= runs[n].last
    <3>1. runs[n].last \in Now BY <2>2 DEF Run
    <3>2. QED BY <3>1 DEF Now, Later
  <2>4. r \in Run BY <2>2, <2>3 DEF Extended, Run
  <2>5. /\ r.answer = runs[n].answer /\ r.first = runs[n].first /\ r.ended = runs[n].ended
        /\ r.last = Later(runs[n].last, at)
        /\ r.about = IF runs[n].last > at THEN runs[n].about ELSE at
    BY <2>2 DEF Extended, Run
  <2> HIDE DEF r
  <2>6. runs' = [runs EXCEPT ![n] = r] BY <1>6 DEF Extends, r
  <2>7. runs' \in Seq(Run) /\ Len(runs') = n /\ DOMAIN runs' = DOMAIN runs
    BY <1>1, <2>1, <2>4, <2>6, ExceptSeq
  <2>8. \A i \in DOMAIN runs : runs'[i] = IF i = n THEN r ELSE runs[i] BY <1>1, <2>6
  <2>9. LastRunIsOpen'
    BY <2>1, <2>5, <2>7, <2>8 DEF OneHistory, LastRunIsOpen, IsOpen
  <2>10. NeighboursDiffer'
    <3>1. \A i \in DOMAIN runs : runs'[i].answer = runs[i].answer BY <2>5, <2>8
    <3>2. \A i \in 1..(n - 1) : i \in DOMAIN runs /\ i + 1 \in DOMAIN runs BY <1>1
    <3>3. QED BY <2>7, <3>1, <3>2 DEF OneHistory, NeighboursDiffer
  <2>11. AboutTheLatestTick'
    <3>1. runs[n].about = runs[n].last BY <2>1 DEF OneHistory, AboutTheLatestTick
    <3>2. r.about = r.last BY <2>5, <3>1 DEF Later
    <3>3. QED BY <2>7, <2>8, <3>2 DEF OneHistory, AboutTheLatestTick
  <2>12. KeepsHistory
    <3>1. \A i \in DOMAIN runs : runs[i].last >= runs[i].last BY <1>3, LastIsReflexive
    <3>2. IsOpen(n) BY <2>1 DEF OneHistory, LastRunIsOpen
    <3>3. QED BY <2>3, <2>5, <2>7, <2>8, <3>1, <3>2 DEF KeepsHistory, Settled
  <2>13. QED BY <2>7, <2>9, <2>10, <2>11, <2>12
<1>7. CASE Replaces(a, at)
  <2> DEFINE r == [runs[n] EXCEPT !.ended = at]
             s == [runs EXCEPT ![n] = r]
  <2>1. n \in DOMAIN runs /\ n > 0 BY <1>1, <1>7 DEF Replaces
  <2>2. runs[n] \in Run BY <1>3, <2>1
  <2>3. r \in Run BY <2>2 DEF Run
  <2>4. /\ r.answer = runs[n].answer /\ r.first = runs[n].first /\ r.last = runs[n].last
        /\ r.about = runs[n].about /\ r.ended = at
    BY <2>2 DEF Run
  <2>5. at # Open BY DEF Now, Open
  <2> HIDE DEF r
  <2>6. s \in Seq(Run) /\ Len(s) = n /\ DOMAIN s = DOMAIN runs
    BY <1>1, <2>1, <2>3, ExceptSeq
  <2>7. \A i \in DOMAIN runs : s[i] = IF i = n THEN r ELSE runs[i] BY <1>1
  <2>8. runs' = Append(s, NewRun(a, at)) BY <1>7 DEF Replaces, r
  <2> HIDE DEF s
  <2>9. /\ runs' \in Seq(Run) /\ Len(runs') = n + 1 /\ DOMAIN runs' = 1..(n + 1)
        /\ \A i \in 1..n : runs'[i] = s[i]
        /\ runs'[n + 1] = NewRun(a, at)
    BY <1>2, <2>6, <2>8
  <2>10. DOMAIN runs = 1..n BY <1>1
  <2>11. \A i \in 1..n : runs'[i] = IF i = n THEN r ELSE runs[i] BY <2>7, <2>9, <2>10
  <2>12. LastRunIsOpen'
    <3>1. \A i \in 1..n : runs'[i].ended # Open
      <4>1. \A i \in 1..n : i # n => runs[i].ended # Open
        BY <2>10 DEF OneHistory, LastRunIsOpen, IsOpen
      <4>2. QED BY <2>4, <2>5, <2>11, <4>1
    <3>2. runs'[n + 1].ended = Open BY <2>9 DEF NewRun
    <3>3. \A i \in 1..(n + 1) : i \in 1..n \/ i = n + 1 BY <1>1
    <3>4. n + 1 \notin 1..n BY <1>1
    <3>5. QED BY <2>9, <3>1, <3>2, <3>3, <3>4 DEF LastRunIsOpen, IsOpen
  <2>13. NeighboursDiffer'
    <3>1. \A i \in 1..n : runs'[i].answer = runs[i].answer BY <2>4, <2>11
    <3>2. runs[n].answer # a BY <1>7 DEF Replaces
    <3>3. runs'[n].answer # runs'[n + 1].answer BY <1>1, <2>1, <2>9, <3>1, <3>2 DEF NewRun
    <3>4. \A i \in 1..n : i = n \/ (i \in 1..(n - 1) /\ i + 1 \in 1..n) BY <1>1
    <3>5. \A i \in 1..n : runs'[i].answer # runs'[i + 1].answer
      BY <3>1, <3>3, <3>4 DEF OneHistory, NeighboursDiffer
    <3>6. Len(runs') - 1 = n BY <1>1, <2>9
    <3>7. QED BY <3>5, <3>6 DEF NeighboursDiffer
  <2>14. AboutTheLatestTick'
    <3>1. runs[n].about = runs[n].last BY <2>1 DEF OneHistory, AboutTheLatestTick
    <3>2. \A i \in 1..n : runs'[i].about = runs'[i].last
      BY <2>4, <2>10, <2>11, <3>1 DEF OneHistory, AboutTheLatestTick
    <3>3. runs'[n + 1].about = runs'[n + 1].last BY <2>9 DEF NewRun
    <3>4. \A i \in 1..(n + 1) : i \in 1..n \/ i = n + 1 BY <1>1
    <3>5. QED BY <2>9, <3>2, <3>3, <3>4 DEF AboutTheLatestTick
  <2>15. KeepsHistory
    <3>1. \A i \in DOMAIN runs : runs[i].last >= runs[i].last BY <1>3, LastIsReflexive
    <3>2. IsOpen(n) BY <2>1 DEF OneHistory, LastRunIsOpen
    <3>3. \A i \in 1..n : i \in 1..(n + 1) BY <1>1
    <3>4. QED BY <2>4, <2>9, <2>10, <2>11, <3>1, <3>2, <3>3 DEF KeepsHistory, Settled
  <2>16. QED BY <2>9, <2>12, <2>13, <2>14, <2>15
<1>8. QED BY <1>5, <1>6, <1>7

LEMMA LogStep ==
    ASSUME OneHistory, [LogNext]_logVars
    PROVE  OneHistory' /\ [KeepsHistory]_logVars
<1>1. LogTypeOK /\ LastRunIsOpen BY DEF OneHistory
<1>2. clock' \in Now /\ records' \in Nat
  <2>1. clock \in Now /\ records \in Nat BY <1>1 DEF LogTypeOK
  <2>2. Advance => clock' \in Now BY <2>1, BoundAssumption DEF Advance, Now
  <2>3. \A w \in Recorders, a \in Answers : BeginRecord(w, a) => records' \in Nat
    BY <2>1 DEF BeginRecord
  <2>4. clock' = clock \/ Advance
    BY DEF LogNext, logVars, StartTick, BeginRecord, Replace, CloseNothing, ExtendOrOpen, RollBack
  <2>5. records' = records \/ \E w \in Recorders, a \in Answers : BeginRecord(w, a)
    BY DEF LogNext, logVars, Advance, StartTick, Replace, CloseNothing, ExtendOrOpen, RollBack
  <2>6. QED BY <2>1, <2>2, <2>3, <2>4, <2>5
<1>3. CASE UNCHANGED runs
  <2>1. LastRunIsOpen' /\ NeighboursDiffer' /\ AboutTheLatestTick'
    BY <1>3 DEF OneHistory, LastRunIsOpen, NeighboursDiffer, AboutTheLatestTick, IsOpen
  <2>2. KeepsHistory
    <3>1. \A i \in DOMAIN runs : runs[i] \in Run BY <1>1 DEF LogTypeOK
    <3>2. \A i \in DOMAIN runs : runs[i].last >= runs[i].last BY <3>1, LastIsReflexive
    <3>3. QED BY <1>3, <3>2 DEF KeepsHistory, Settled
  <2>3. runs' \in Seq(Run) BY <1>1, <1>3 DEF LogTypeOK
  <2>4. QED BY <1>1, <1>2, <2>1, <2>2, <2>3, TickTypes DEF OneHistory, LogTypeOK
<1>4. ASSUME NEW a \in Answers, NEW at \in Now,
             Opens(a, at) \/ Extends(a, at) \/ Replaces(a, at)
      PROVE  OneHistory' /\ [KeepsHistory]_logVars
  BY <1>1, <1>2, <1>4, TickTypes, Written DEF OneHistory, LogTypeOK
<1>5. QED BY <1>1, <1>3, <1>4, LogWrites

\* However many ticks record at once, the log stays one history with one answer.
THEOREM LogIsOneHistory == LogSpec => []OneHistory
<1>1. LogInit => OneHistory
  <2>1. ASSUME LogInit PROVE LogTypeOK
    <3>1. clock \in Now /\ records \in Nat BY <2>1, BoundAssumption DEF LogInit, Now
    <3>2. runs \in Seq(Run) BY <2>1 DEF LogInit
    <3>3. recorder \in [Recorders -> {NotRecording} \cup Deciding \cup Recording]
      BY <2>1 DEF LogInit
    <3>4. QED BY <3>1, <3>2, <3>3 DEF LogTypeOK
  <2>2. QED
    BY <2>1 DEF LogInit, OneHistory, LastRunIsOpen, NeighboursDiffer, AboutTheLatestTick
<1>2. OneHistory /\ [LogNext]_logVars => OneHistory' BY LogStep
<1>3. QED BY <1>1, <1>2, PTL DEF LogSpec

\* The lane always has exactly one current answer once it has had any.
THEOREM OneCurrentAnswer == LogSpec => []LastRunIsOpen
BY LogIsOneHistory, PTL DEF OneHistory

\* No race and no retry cuts one stretch of the same answer into two runs.
THEOREM RunsAreUninterrupted == LogSpec => []NeighboursDiffer
BY LogIsOneHistory, PTL DEF OneHistory

\* A run carries the finding and channel of the latest tick that spoke in it.
THEOREM RunsNameTheLatestTick == LogSpec => []AboutTheLatestTick
BY LogIsOneHistory, PTL DEF OneHistory

\* No tick rewrites an ended run, or takes back what an open one says.
THEOREM HistoryStaysWritten == LogSpec => HistoryIsKept
<1>1. OneHistory /\ [LogNext]_logVars => [KeepsHistory]_logVars BY LogStep
<1>2. QED BY LogIsOneHistory, <1>1, PTL DEF LogSpec, HistoryIsKept

-----------------------------------------------------------------------------
(* The shipped changes, for any number of overlapping ticks, of clocks and  *)
(* of statements that fail.                                                *)

(* A clock is one the row has had; none after it has been announced, and   *)
(* what has not been announced has said nothing.                           *)
ClockInv ==
    /\ change.state # "none" => change.clock \in Clocks
    /\ change.state = "none" => change.clock = 0
    /\ report => change.state \notin {"none", "reported"} /\ change.clock < MaxClocks
    /\ \A c \in Clocks : c > change.clock => note[c] = "none"
    /\ \A c \in Clocks : note[c] = "none" => shown[c] = "none"

(* What a tick has found due is due as long as its clock is the row's, and *)
(* nothing came of the measurement only if the project was gone.           *)
DueInv ==
    \A w \in Workers : tick[w].at \in {"due", "claiming"} =>
        /\ tick[w].saw \in 1 .. change.clock
        /\ change.state = "reported" /\ tick[w].saw = change.clock =>
               /\ change.due
               /\ tick[w].at = "claiming" /\ tick[w].outcome = "none" => ~project

(* The announcement of a clock asks its question, for a row with this      *)
(* outcome, or need not.                                                   *)
Asks(c, outcome) == shown[c] # "none" \/ c < change.clock \/ outcome = "none" \/ ~readable

(* What is shown of the row's clock is its outcome, and if it is nothing,  *)
(* that has a cause.                                                       *)
ShownInv ==
    change.state # "none" =>
        /\ shown[change.clock] \in {"none", change.outcome}
        /\ note[change.clock] \in {"posting", "sent"} =>
               Asks(change.clock, change.outcome) \/ ~project

(* A tick that saw a delivered readout, under a project, is right.         *)
AskedInv ==
    \A w \in Workers : tick[w].at = "closing" /\ tick[w].delivered /\ tick[w].project =>
        \E c \in 1 .. change.clock : note[c] = "sent" /\ Asks(c, change.outcome)

VerdictInv ==
    /\ change.state = "closed" <=> verdict.given # "none"
    /\ verdict.given = "pressed" /\ verdict.pressed = change.clock => note[change.clock] = "sent"

Typed ==
    /\ change \in Change
    /\ verdict \in Verdict
    /\ note \in [Clocks -> {"none", "owed", "posting", "sent"}]
    /\ shown \in [Clocks -> Outcomes \cup {"none"}]
    /\ project \in BOOLEAN /\ readable \in BOOLEAN /\ report \in BOOLEAN
    /\ tick \in [Workers -> Tick]
    /\ faults \in 0 .. MaxFaults

(* The rest of ShippedTypeOK.                                              *)
RowInv ==
    /\ change.state = "reported" =>
           change.outcome = "none" /\ ~change.lapsed /\ note[change.clock] = "none"
    /\ change.state \in {"read_out", "closed"} => note[change.clock] # "none"
    /\ change.state = "abandoned" <=> change.reason # "none"

ShippedInv ==
    /\ Typed /\ ClockInv /\ RowInv
    /\ DueInv /\ ShownInv /\ AskedInv /\ VerdictInv /\ AnswersAreToWhatWasAsked

\* What each way of writing the row makes of it.
LEMMA NewClockRow ==
    ASSUME Typed, change.clock < MaxClocks
    PROVE  /\ NewClock \in Change
           /\ NewClock.state = "reported" /\ NewClock.clock = change.clock + 1
           /\ NewClock.outcome = "none" /\ NewClock.reason = "none" /\ ~NewClock.lapsed
<1>1. change.clock + 1 \in 0 .. MaxClocks BY BoundsAssumption DEF Typed, Change
<1>2. QED BY <1>1 DEF NewClock, NoChange, Change

LEMMA AbandonRow ==
    ASSUME Typed, NEW reason \in Reasons, Abandon(reason)
    PROVE  /\ change' \in Change
           /\ change'.clock = change.clock /\ change'.outcome = change.outcome
           /\ \/ change' = change
              \/ /\ change.state \in {"reported", "read_out"} /\ change'.state = "abandoned"
                 /\ change'.reason = reason
BY DEF Typed, Change, Abandon, Abandonable

LEMMA VerdictRow ==
    ASSUME Typed, NEW given \in {"pressed", "no_verdict_given"}, NEW c \in 0 .. MaxClocks,
           RecordVerdict(given, c)
    PROVE  /\ change' \in Change /\ verdict' \in Verdict
           /\ change.state = "read_out" /\ change'.state = "closed"
           /\ change'.clock = change.clock /\ change'.outcome = change.outcome
           /\ change'.reason = change.reason
           /\ verdict'.given = given /\ verdict'.pressed = c /\ verdict'.outcome = change.outcome
BY DEF Typed, Change, Verdict, RecordVerdict

LEMMA ReadOutRow ==
    ASSUME Typed, NEW w \in Workers, ReadOut(w)
    PROVE  /\ change' \in Change
           /\ change'.clock = change.clock /\ change'.reason = change.reason
           /\ \/ change' = change /\ note' = note
              \/ /\ change.state = "reported" /\ change'.state = "read_out"
                 /\ change'.outcome = tick[w].outcome /\ change.due = change'.due
                 /\ note[change.clock] = "none"
                 /\ note' = [note EXCEPT ![change.clock] = "owed"]
<1>1. tick[w].outcome \in Outcomes \cup {"none"} BY DEF Typed, Tick
<1>2. CASE change.state = "reported" /\ note[change.clock] = "none"
  <2>1. /\ change' = [change EXCEPT !.state = "read_out", !.outcome = tick[w].outcome]
        /\ note' = [note EXCEPT ![change.clock] = "owed"]
    BY <1>2 DEF ReadOut
  <2>2. QED BY <1>1, <1>2, <2>1 DEF Typed, Change
<1>3. CASE ~(change.state = "reported" /\ note[change.clock] = "none")
  <2>1. UNCHANGED <<change, note>> BY <1>3 DEF ReadOut
  <2>2. QED BY <2>1 DEF Typed
<1>4. QED BY <1>2, <1>3

LEMMA TimeRow ==
    ASSUME Typed, ClockRunsOut \/ WindowRunsOut
    PROVE  /\ change' \in Change
           /\ change'.clock = change.clock /\ change'.state = change.state
           /\ change'.outcome = change.outcome /\ change'.reason = change.reason
           /\ change.due => change'.due
           /\ change.state = "reported" => change'.lapsed = change.lapsed
BY DEF Typed, Change, ClockRunsOut, WindowRunsOut

\* Every step keeps the types.
LEMMA ShippedTypes ==
    ASSUME Typed, ClockInv, ShippedNext
    PROVE  Typed'
<1> USE BoundsAssumption
<1>t. /\ change \in Change /\ verdict \in Verdict
      /\ note \in [Clocks -> {"none", "owed", "posting", "sent"}]
      /\ shown \in [Clocks -> Outcomes \cup {"none"}]
      /\ project \in BOOLEAN /\ readable \in BOOLEAN /\ report \in BOOLEAN
      /\ tick \in [Workers -> Tick]
      /\ faults \in 0 .. MaxFaults
  BY DEF Typed
<1>i. ASSUME NEW n \in 0 .. MaxClocks PROVE Idle \in Tick /\ Lapsing(n) \in Tick
  <2>1. 0 \in 0 .. MaxClocks OBVIOUS
  <2>2. Idle \in Tick BY <2>1 DEF Tick, Idle
  <2>3. Lapsing(n) \in Tick BY <2>2 DEF Lapsing, Tick
  <2>4. QED BY <2>2, <2>3
<1>f. Fault => faults' \in 0 .. MaxFaults BY <1>t DEF Fault
<1>1. CASE Report BY <1>1, <1>t, NewClockRow DEF Report, Typed
<1>2. CASE Reopen BY <1>2, <1>t, NewClockRow DEF Reopen, ClockInv, Typed
<1>3. CASE ClockRunsOut \/ WindowRunsOut
  <2>1. change' \in Change BY <1>3, TimeRow
  <2>2. QED BY <1>3, <1>t, <2>1 DEF ClockRunsOut, WindowRunsOut, Typed
<1>4. CASE ProjectGoes \/ Respell BY <1>4, <1>t DEF ProjectGoes, Respell, Typed
<1>5. ASSUME NEW c \in Clocks, Dispatch(c) \/ Receipt(c) PROVE Typed'
  <2>1. Rendered \in Outcomes \cup {"none"} BY <1>t DEF Rendered, Change
  <2>2. QED BY <1>5, <1>t, <2>1 DEF Dispatch, Receipt, Typed
<1>6. ASSUME NEW c \in Clocks, Press(c) PROVE Typed'
  <2>1. c \in 0 .. MaxClocks BY DEF Clocks
  <2>2. change' \in Change /\ verdict' \in Verdict BY <1>6, <2>1, VerdictRow DEF Press
  <2>3. QED BY <1>6, <1>t, <2>2 DEF Press, Typed
<1>7. ASSUME NEW w \in Workers, ListDue(w) PROVE Typed'
  <2> DEFINE over == IF IsLapsed THEN change.clock ELSE 0
             listed == [at |-> "due", project |-> project, over |-> over,
                        saw |-> change.clock, outcome |-> "none", delivered |-> FALSE]
             x == IF IsDue THEN listed ELSE Lapsing(over)
  <2>1. over \in 0 .. MaxClocks /\ change.clock \in 0 .. MaxClocks BY <1>t DEF Change
  <2>2. listed \in Tick /\ Lapsing(over) \in Tick BY <1>t, <1>i, <2>1 DEF Tick
  <2>3. tick' = [tick EXCEPT ![w] = x] BY <1>7 DEF ListDue
  <2>4. x \in Tick BY <2>2
  <2> HIDE DEF x
  <2>5. tick' \in [Workers -> Tick] BY <1>t, <2>3, <2>4
  <2>6. QED BY <1>7, <1>t, <2>5 DEF ListDue, Typed
<1>8. ASSUME NEW w \in Workers, AbandonDue(w) PROVE Typed'
  <2>1. Lapsing(tick[w].over) \in Tick BY <1>t, <1>i DEF Tick
  <2>2. change' \in Change BY <1>8, AbandonRow DEF AbandonDue, Reasons
  <2>3. tick' \in [Workers -> Tick] BY <1>8, <1>t, <2>1 DEF AbandonDue
  <2>4. QED BY <1>8, <1>t, <2>2, <2>3 DEF AbandonDue, Typed
<1>9. ASSUME NEW w \in Workers, Measure(w) PROVE Typed'
  <2>1. PICK outcome \in Outcomes \cup {"none"} :
            tick' = [tick EXCEPT ![w].at = "claiming", ![w].outcome = outcome]
    BY <1>9 DEF Measure, Measured, Outcomes
  <2>2. [tick[w] EXCEPT !.at = "claiming", !.outcome = outcome] \in Tick BY <1>t DEF Tick
  <2>3. tick' = [tick EXCEPT ![w] = [tick[w] EXCEPT !.at = "claiming", !.outcome = outcome]]
    BY <1>t, <2>1
  <2>4. tick' \in [Workers -> Tick] BY <1>t, <2>2, <2>3
  <2>5. QED BY <1>9, <1>t, <2>4 DEF Measure, Typed
<1>10. ASSUME NEW w \in Workers, ReadOut(w) PROVE Typed'
  <2>2. change' \in Change BY <1>10, ReadOutRow
  <2>3. Lapsing(tick[w].over) \in Tick BY <1>t, <1>i DEF Tick
  <2>4. tick' \in [Workers -> Tick] BY <1>10, <1>t, <2>3 DEF ReadOut
  <2>5. note' \in [Clocks -> {"none", "owed", "posting", "sent"}] BY <1>10, <1>t DEF ReadOut
  <2>6. QED BY <1>10, <1>t, <2>2, <2>4, <2>5 DEF ReadOut, Typed
<1>11. ASSUME NEW w \in Workers, ListLapsed(w) PROVE Typed'
  <2> DEFINE closing == [Idle EXCEPT !.at = "closing", !.project = project,
                                     !.delivered = WasDelivered]
  <2>1. WasDelivered \in BOOLEAN BY DEF WasDelivered
  <2>2. closing \in Tick BY <1>t, <1>i, <2>1 DEF Idle, Tick
  <2>3. Idle \in Tick BY <1>i
  <2> HIDE DEF closing
  <2>4. tick' \in [Workers -> Tick] BY <1>11, <1>t, <2>2, <2>3 DEF ListLapsed, closing
  <2>5. QED BY <1>11, <1>t, <2>4 DEF ListLapsed, Typed
<1>12. ASSUME NEW w \in Workers, Close(w) PROVE Typed'
  <2>1. tick' \in [Workers -> Tick] BY <1>12, <1>t, <1>i DEF Close
  <2>2. change' \in Change /\ verdict' \in Verdict
    BY <1>12, <1>t, AbandonRow, VerdictRow DEF Close, Reasons
  <2>3. QED BY <1>12, <1>t, <2>1, <2>2 DEF Close, Typed
<1>13. ASSUME NEW w \in Workers, ReadoutFails(w) \/ Die(w) PROVE Typed'
  <2>1. Lapsing(tick[w].over) \in Tick /\ Idle \in Tick BY <1>t, <1>i DEF Tick
  <2>2. tick' \in [Workers -> Tick] BY <1>13, <1>t, <2>1 DEF ReadoutFails, Die
  <2>3. QED BY <1>13, <1>t, <1>f, <2>2 DEF ReadoutFails, Die, Typed
<1>14. QED
  BY <1>1, <1>2, <1>3, <1>4, <1>5, <1>6, <1>7, <1>8, <1>9, <1>10, <1>11, <1>12, <1>13
  DEF ShippedNext, Work

\* What no step takes back.
LEMMA ShippedMonotone ==
    ASSUME Typed, ClockInv, ShippedNext
    PROVE  /\ project' => project
           /\ readable' => readable
           /\ \A c \in Clocks : note[c] = "sent" => note'[c] = "sent" /\ shown'[c] = shown[c]
           /\ change'.clock \in Nat /\ change.clock \in Nat /\ change.clock <= change'.clock
<1> USE DEF Typed
<1>1. project' => project
  BY
     DEF ShippedNext, Work, Report, Reopen, ClockRunsOut, WindowRunsOut, ProjectGoes, Respell, Dispatch,
         Receipt, Press, ListDue, AbandonDue, Measure, ReadOut, ListLapsed, Close, ReadoutFails, Die
<1>2. readable' => readable
  BY
     DEF ShippedNext, Work, Report, Reopen, ClockRunsOut, WindowRunsOut, ProjectGoes, Respell, Dispatch,
         Receipt, Press, ListDue, AbandonDue, Measure, ReadOut, ListLapsed, Close, ReadoutFails, Die
<1>3. \A c \in Clocks : note[c] = "sent" => note'[c] = "sent" /\ shown'[c] = shown[c]
  <2>1. CASE UNCHANGED <<note, shown>> BY <2>1
  <2>2. ASSUME NEW d \in Clocks, Dispatch(d) \/ Receipt(d)
        PROVE  \A c \in Clocks : note[c] = "sent" => note'[c] = "sent" /\ shown'[c] = shown[c]
    BY <2>2 DEF Dispatch, Receipt
  <2>3. ASSUME NEW w \in Workers, ReadOut(w)
        PROVE  \A c \in Clocks : note[c] = "sent" => note'[c] = "sent" /\ shown'[c] = shown[c]
    BY <2>3, ReadOutRow DEF ReadOut
  <2>4. QED
    BY <2>1, <2>2, <2>3
    DEF ShippedNext, Work, Report, Reopen, ClockRunsOut, WindowRunsOut, ProjectGoes, Respell, Press,
        ListDue, AbandonDue, Measure, ListLapsed, Close, ReadoutFails, Die
<1>4. change.clock \in Nat /\ change'.clock \in Nat
  <2>1. change' \in Change BY ShippedTypes
  <2>2. QED BY <2>1 DEF Change
<1>5. change.clock <= change'.clock
  <2>1. CASE UNCHANGED change BY <1>4, <2>1
  <2>2. CASE Report \/ Reopen
    BY <1>4, <2>2, NewClockRow DEF Report, Reopen, ClockInv
  <2>3. CASE ClockRunsOut \/ WindowRunsOut
    BY <1>4, <2>3, TimeRow
  <2>4. ASSUME NEW c \in Clocks, Press(c) PROVE change.clock <= change'.clock
    <3>1. c \in 0 .. MaxClocks BY BoundsAssumption DEF Clocks
    <3>2. QED BY <1>4, <2>4, <3>1, VerdictRow DEF Press
  <2>5. ASSUME NEW w \in Workers, AbandonDue(w) \/ Close(w) PROVE change.clock <= change'.clock
    <3>1. 0 \in 0 .. MaxClocks BY BoundsAssumption
    <3>2. QED BY <1>4, <2>5, <3>1, VerdictRow, AbandonRow DEF AbandonDue, Close, Reasons
  <2>6. ASSUME NEW w \in Workers, ReadOut(w) PROVE change.clock <= change'.clock
    BY <1>4, <2>6, ReadOutRow
  <2>7. QED
    BY <2>1, <2>2, <2>3, <2>4, <2>5, <2>6
    DEF ShippedNext, Work, ProjectGoes, Respell, Dispatch, Receipt, ListDue, Measure, ListLapsed,
        ReadoutFails, Die
<1>6. QED BY <1>1, <1>2, <1>3, <1>4, <1>5


\* The statements that change neither the row nor an announcement.
LEMMA RowKept ==
    ASSUME NEW w \in Workers,
           ListDue(w) \/ Measure(w) \/ ListLapsed(w) \/ ReadoutFails(w) \/ Die(w)
    PROVE  UNCHANGED <<change, verdict, note, shown, project, readable, report>>
BY DEF ListDue, Measure, ListLapsed, ReadoutFails, Die

LEMMA RowSteps ==
    ASSUME Typed, ClockInv, RowInv, ShippedNext
    PROVE  ClockInv' /\ RowInv'
<1> USE BoundsAssumption
<1>c. change.clock \in Nat /\ MaxClocks \in Nat BY DEF Typed, Change
<1>0. CASE UNCHANGED <<change, note, shown, report>>
  BY <1>0 DEF ClockInv, RowInv
<1>1. CASE Report \/ Reopen
  <2>1. CASE UNCHANGED change
    <3>1. Report /\ report' => change.clock < MaxClocks /\ change.state \notin {"none", "reported"}
      BY <2>1, NewClockRow DEF Report
    <3>2. QED BY <1>1, <2>1, <3>1 DEF Report, Reopen, ClockInv, RowInv
  <2>2. CASE change' # change
    <3>1. /\ change' = NewClock /\ change.clock < MaxClocks
          /\ change.state \in {"none", "read_out"}
          /\ UNCHANGED <<note, shown>> /\ ~report'
      BY <1>1, <2>2 DEF Report, Reopen, CanReopen, ClockInv
    <3>2. change'.clock = change.clock + 1 /\ change'.clock \in Clocks
      BY <1>c, <3>1, NewClockRow DEF Clocks
    <3>3. ClockInv' BY <1>c, <3>1, <3>2, NewClockRow DEF ClockInv, Clocks
    <3>4. note[change'.clock] = "none" BY <1>c, <3>2 DEF ClockInv, Clocks
    <3>5. RowInv' BY <3>1, <3>4, NewClockRow DEF RowInv
    <3>6. QED BY <3>3, <3>5
  <2>3. QED BY <2>1, <2>2
<1>2. CASE ClockRunsOut \/ WindowRunsOut
  <2>1. UNCHANGED <<note, shown, report>> BY <1>2 DEF ClockRunsOut, WindowRunsOut
  <2>2. QED BY <1>2, <2>1, TimeRow DEF ClockInv, RowInv
<1>3. CASE ProjectGoes \/ Respell BY <1>0, <1>3 DEF ProjectGoes, Respell
<1>4. ASSUME NEW c \in Clocks, Dispatch(c) \/ Receipt(c) PROVE ClockInv' /\ RowInv'
  <2>1. /\ UNCHANGED <<change, report>>
        /\ \A d \in Clocks : note'[d] = "none" <=> note[d] = "none"
        /\ \A d \in Clocks : note[d] = "none" => shown'[d] = shown[d]
    BY <1>4 DEF Dispatch, Receipt, Typed
  <2>2. change.state # "none" => change.clock \in Clocks BY DEF ClockInv
  <2>3. QED BY <2>1, <2>2 DEF ClockInv, RowInv
<1>5. ASSUME NEW c \in Clocks, Press(c) PROVE ClockInv' /\ RowInv'
  <2>1. c \in 0 .. MaxClocks BY DEF Clocks
  <2>2. UNCHANGED <<note, shown, report>> BY <1>5 DEF Press
  <2>3. QED BY <1>5, <2>1, <2>2, VerdictRow DEF Press, ClockInv, RowInv
<1>6. ASSUME NEW w \in Workers, ListDue(w) \/ Measure(w) \/ ListLapsed(w) \/ ReadoutFails(w) \/ Die(w)
      PROVE  ClockInv' /\ RowInv'
  BY <1>0, <1>6, RowKept
<1>7. ASSUME NEW w \in Workers, AbandonDue(w) \/ Close(w) PROVE ClockInv' /\ RowInv'
  <2>1. UNCHANGED <<note, shown, report>> BY <1>7 DEF AbandonDue, Close
  <2>2. CASE change' = change BY <1>0, <2>1, <2>2
  <2>3. CASE \E reason \in Reasons : Abandon(reason)
    <3>1. PICK reason \in Reasons : Abandon(reason) BY <2>3
    <3>2. reason # "none" BY DEF Reasons
    <3>3. QED BY <2>1, <2>2, <3>1, <3>2, AbandonRow DEF ClockInv, RowInv
  <2>4. CASE RecordVerdict("no_verdict_given", 0)
    BY <2>1, <2>4, VerdictRow DEF ClockInv, RowInv
  <2>5. QED BY <1>7, <2>2, <2>3, <2>4 DEF AbandonDue, Close, Reasons
<1>8. ASSUME NEW w \in Workers, ReadOut(w) PROVE ClockInv' /\ RowInv'
  <2>1. UNCHANGED <<shown, report>> BY <1>8 DEF ReadOut
  <2>2. CASE change' = change /\ note' = note BY <1>0, <2>1, <2>2
  <2>3. CASE ~(change' = change /\ note' = note)
    <3>1. /\ change.state = "reported" /\ change'.state = "read_out"
          /\ change'.clock = change.clock /\ change'.reason = change.reason
          /\ note' = [note EXCEPT ![change.clock] = "owed"]
      BY <1>8, <2>3, ReadOutRow
    <3>2. change.clock \in Clocks /\ note'[change.clock] = "owed"
      BY <3>1 DEF ClockInv, Typed
    <3>3. \A c \in Clocks : c # change.clock => note'[c] = note[c] BY <3>1, <3>2 DEF Typed
    <3>4. ClockInv' BY <1>c, <2>1, <3>1, <3>2, <3>3 DEF ClockInv, Clocks
    <3>5. RowInv' BY <3>1, <3>2 DEF RowInv
    <3>6. QED BY <3>4, <3>5
  <2>4. QED BY <2>2, <2>3
<1>9. QED BY <1>1, <1>2, <1>3, <1>4, <1>5, <1>6, <1>7, <1>8 DEF ShippedNext, Work


\* What a tick is at, once it is done with a row.
LEMMA TickRows ==
    /\ Idle.at = "idle"
    /\ \A n \in 0 .. MaxClocks : Lapsing(n).at = "lapsing"
    /\ \A p, d \in BOOLEAN :
           LET t == [Idle EXCEPT !.at = "closing", !.project = p, !.delivered = d]
           IN  t.at = "closing" /\ t.project = p /\ t.delivered = d
<1>1. Idle.at = "idle" BY DEF Idle
<1>2. \A n \in 0 .. MaxClocks : Lapsing(n).at = "lapsing" BY DEF Lapsing, Idle
<1>3. ASSUME NEW p \in BOOLEAN, NEW d \in BOOLEAN
      PROVE  LET t == [Idle EXCEPT !.at = "closing", !.project = p, !.delivered = d]
             IN  t.at = "closing" /\ t.project = p /\ t.delivered = d
  BY DEF Idle
<1>4. QED BY <1>1, <1>2, <1>3

LEMMA TickDone ==
    ASSUME Typed, NEW w \in Workers,
           ListLapsed(w) \/ ReadoutFails(w) \/ Die(w) \/ AbandonDue(w) \/ Close(w) \/ ReadOut(w)
    PROVE  /\ tick'[w].at \notin {"due", "claiming"}
           /\ tick'[w] # tick[w]
           /\ \A v \in Workers \ {w} : tick'[v] = tick[v]
           /\ tick'[w].at = "closing" =>
                  /\ ListLapsed(w) /\ IsLapsed
                  /\ tick'[w].project = project /\ tick'[w].delivered = WasDelivered
<1>t. tick \in [Workers -> Tick] /\ project \in BOOLEAN BY DEF Typed
<1>o. tick[w].over \in 0 .. MaxClocks BY <1>t DEF Tick
<1>1. \A v \in Workers \ {w} : tick'[v] = tick[v]
  BY <1>t DEF ListLapsed, ReadoutFails, Die, AbandonDue, Close, ReadOut
<1>2. CASE AbandonDue(w) \/ ReadOut(w) \/ ReadoutFails(w)
  <2>1. tick'[w] = Lapsing(tick[w].over) BY <1>2, <1>t DEF AbandonDue, ReadOut, ReadoutFails
  <2>2. tick'[w].at = "lapsing" BY <1>o, <2>1, TickRows
  <2>3. tick[w].at # "lapsing" BY <1>2 DEF AbandonDue, ReadOut, ReadoutFails
  <2>4. QED BY <1>1, <2>2, <2>3
<1>3. CASE Close(w) \/ Die(w)
  <2>1. tick'[w] = Idle BY <1>3, <1>t DEF Close, Die
  <2>2. tick'[w].at = "idle" BY <2>1, TickRows
  <2>3. tick[w].at # "idle" BY <1>3 DEF Close, Die
  <2>4. QED BY <1>1, <2>2, <2>3
<1>4. CASE ListLapsed(w)
  <2> DEFINE closing == [Idle EXCEPT !.at = "closing", !.project = project,
                                     !.delivered = WasDelivered]
  <2>1. WasDelivered \in BOOLEAN BY DEF WasDelivered
  <2>2. closing.at = "closing" /\ closing.project = project /\ closing.delivered = WasDelivered
    BY <1>t, <2>1, TickRows
  <2>3. tick[w].at = "lapsing" BY <1>4 DEF ListLapsed
  <2> HIDE DEF closing
  <2>4. \/ IsLapsed /\ tick'[w] = closing
        \/ tick'[w] = Idle
    BY <1>4, <1>t DEF ListLapsed, closing
  <2>5. Idle.at = "idle" BY TickRows
  <2>6. QED BY <1>1, <1>4, <2>2, <2>3, <2>4, <2>5
<1>5. QED BY <1>2, <1>3, <1>4
\* What a tick holds of a clock that has run out.
LEMMA DueSteps ==
    ASSUME Typed, ClockInv, RowInv, DueInv, ShippedNext
    PROVE  DueInv'
<1> USE BoundsAssumption DEF DueInv
<1>m. /\ project' => project
      /\ change'.clock \in Nat /\ change.clock \in Nat /\ change.clock <= change'.clock
  BY ShippedMonotone
<1>t. tick \in [Workers -> Tick] BY DEF Typed
<1>s. \A w \in Workers : tick[w].saw \in Nat
  <2>1. \A w \in Workers : tick[w].saw \in 0 .. MaxClocks BY <1>t DEF Tick
  <2>2. 0 .. MaxClocks \subseteq Nat OBVIOUS
  <2>3. QED BY <2>1, <2>2
<1>k. ASSUME \A w \in Workers : tick'[w] = tick[w] \/ tick'[w].at \notin {"due", "claiming"},
             \/ change'.state # "reported"
             \/ change'.clock # change.clock /\ change' = NewClock /\ change.clock < MaxClocks
             \/ /\ change'.clock = change.clock /\ change.state = "reported"
                /\ change.due => change'.due
      PROVE  DueInv'
  <2>1. CASE change'.state # "reported" BY <1>k, <1>m, <1>s, <2>1
  <2>2. CASE change' = NewClock /\ change.clock < MaxClocks
    <3>1. change'.clock = change.clock + 1 BY <2>2, NewClockRow
    <3>2. QED BY <1>k, <1>m, <1>s, <3>1
  <2>3. CASE /\ change'.clock = change.clock /\ change.state = "reported"
             /\ change.due => change'.due
    BY <1>k, <1>m, <1>s, <2>3
  <2>4. QED BY <1>k, <2>1, <2>2, <2>3
<1>1. CASE Report \/ Reopen
  <2>1. tick' = tick BY <1>1 DEF Report, Reopen
  <2>2. CASE change' = change BY <1>k, <2>1, <2>2
  <2>3. CASE change' # change
    <3>1. change' = NewClock /\ change.clock < MaxClocks BY <1>1, <2>3 DEF Report, Reopen, ClockInv
    <3>2. change'.clock # change.clock BY <1>m, <3>1, NewClockRow
    <3>3. QED BY <1>k, <2>1, <3>1, <3>2
  <2>4. QED BY <2>2, <2>3
<1>2. CASE ClockRunsOut \/ WindowRunsOut
  <2>1. tick' = tick BY <1>2 DEF ClockRunsOut, WindowRunsOut
  <2>2. QED BY <1>2, <1>k, <2>1, TimeRow
<1>3. CASE ProjectGoes \/ Respell BY <1>3, <1>k DEF ProjectGoes, Respell
<1>4. ASSUME NEW c \in Clocks, Dispatch(c) \/ Receipt(c) PROVE DueInv'
  BY <1>4, <1>k DEF Dispatch, Receipt
<1>5. ASSUME NEW c \in Clocks, Press(c) PROVE DueInv'
  <2>1. c \in 0 .. MaxClocks BY DEF Clocks
  <2>2. QED BY <1>5, <1>k, <2>1, VerdictRow DEF Press
<1>6. ASSUME NEW w \in Workers, ListDue(w) PROVE DueInv'
  <2>1. UNCHANGED <<change, project>> BY <1>6 DEF ListDue
  <2>2. \A v \in Workers \ {w} : tick'[v] = tick[v] BY <1>6, <1>t DEF ListDue
  <2>3. CASE IsDue
    <3>1. tick'[w].at = "due" /\ tick'[w].saw = change.clock BY <1>6, <1>t, <2>3 DEF ListDue
    <3>2. change.due /\ change.state = "reported" BY <2>3 DEF IsDue
    <3>3. change.clock \in 1 .. change.clock BY <1>m, <3>2 DEF ClockInv, Clocks
    <3>4. QED BY <2>1, <2>2, <3>1, <3>2, <3>3
  <2>4. CASE ~IsDue
    <3>1. tick'[w].at = "lapsing" BY <1>6, <1>t, <2>4 DEF ListDue, Lapsing, Idle
    <3>2. QED BY <2>1, <2>2, <3>1
  <2>5. QED BY <2>3, <2>4
<1>7. ASSUME NEW w \in Workers, Measure(w) PROVE DueInv'
  <2>1. UNCHANGED <<change, project>> BY <1>7 DEF Measure
  <2>2. PICK outcome \in IF change.state = "reported" /\ project THEN Measured ELSE {"none"} :
            tick' = [tick EXCEPT ![w].at = "claiming", ![w].outcome = outcome]
    BY <1>7 DEF Measure
  <2>3. \A v \in Workers \ {w} : tick'[v] = tick[v] BY <1>t, <2>2
  <2>4. tick'[w].saw = tick[w].saw /\ tick'[w].outcome = outcome BY <1>t, <2>2 DEF Tick
  <2>5. change.state = "reported" /\ outcome = "none" => ~project BY <2>2 DEF Measured
  <2>6. tick[w].at = "due" BY <1>7 DEF Measure
  <2>7. QED BY <2>1, <2>3, <2>4, <2>5, <2>6
<1>8. ASSUME NEW w \in Workers, ListLapsed(w) \/ ReadoutFails(w) \/ Die(w) PROVE DueInv'
  <2>1. UNCHANGED <<change, project>> BY <1>8 DEF ListLapsed, ReadoutFails, Die
  <2>2. QED BY <1>8, <2>1, TickDone
<1>9. ASSUME NEW w \in Workers, AbandonDue(w) \/ Close(w) \/ ReadOut(w) PROVE DueInv'
  <2>3. change' = change \/ change'.state # "reported"
    <3>1. 0 \in 0 .. MaxClocks OBVIOUS
    <3>2. QED BY <1>9, <3>1, AbandonRow, VerdictRow, ReadOutRow DEF AbandonDue, Close, Reasons
  <2>4. QED
    <3>1. CASE change' = change BY <1>9, <1>m, <2>3, <3>1, TickDone
    <3>2. CASE change'.state # "reported" BY <1>9, <1>k, <3>2, TickDone
    <3>3. QED BY <2>3, <3>1, <3>2
<1>10. QED BY <1>1, <1>2, <1>3, <1>4, <1>5, <1>6, <1>7, <1>8, <1>9 DEF ShippedNext, Work

\* What the announcement of the row's clock shows.
LEMMA ShownSteps ==
    ASSUME Typed, ClockInv, RowInv, ShownInv, ShippedNext
    PROVE  ShownInv'
<1> USE BoundsAssumption DEF ShownInv, Asks
<1>m. /\ (project' => project) /\ (readable' => readable)
      /\ change.clock \in Nat /\ \A n \in Nat : ~(n < n)
  BY ShippedMonotone
<1>c. change.state # "none" => change.clock \in Clocks BY DEF ClockInv
<1>k. ASSUME change'.clock = change.clock, change'.outcome = change.outcome,
             change'.state # "none" => change.state # "none", UNCHANGED <<note, shown>>
      PROVE  ShownInv'
  BY <1>k, <1>m
<1>1. CASE Report \/ Reopen
  <2>1. UNCHANGED <<note, shown>> BY <1>1 DEF Report, Reopen
  <2>2. CASE change' = change BY <1>k, <2>1, <2>2
  <2>3. CASE change' # change
    <3>1. change' = NewClock /\ change.clock < MaxClocks BY <1>1, <2>3 DEF Report, Reopen, ClockInv
    <3>2. change'.clock = change.clock + 1 /\ change'.clock \in Clocks
      BY <1>m, <3>1, NewClockRow DEF Clocks
    <3>3. note[change'.clock] = "none" /\ shown[change'.clock] = "none"
      BY <1>m, <3>2 DEF ClockInv
    <3>4. QED BY <2>1, <3>3
  <2>4. QED BY <2>2, <2>3
<1>2. CASE ClockRunsOut \/ WindowRunsOut
  <2>1. UNCHANGED <<note, shown>> BY <1>2 DEF ClockRunsOut, WindowRunsOut
  <2>2. QED BY <1>2, <1>k, <2>1, TimeRow
<1>3. CASE ProjectGoes \/ Respell BY <1>3, <1>k DEF ProjectGoes, Respell
<1>4. ASSUME NEW c \in Clocks, Dispatch(c) PROVE ShownInv'
  <2>1. UNCHANGED <<change, project, readable>> BY <1>4 DEF Dispatch
  <2>2. /\ shown' = [shown EXCEPT ![c] = Rendered] /\ note' = [note EXCEPT ![c] = "posting"]
    BY <1>4 DEF Dispatch
  <2>3. Rendered \in {"none", change.outcome} BY DEF Rendered
  <2>4. Rendered = "none" => change.outcome = "none" \/ ~readable \/ ~project BY DEF Rendered
  <2>5. CASE c = change.clock BY <1>c, <2>1, <2>2, <2>3, <2>4, <2>5 DEF Typed
  <2>6. CASE c # change.clock BY <1>c, <2>1, <2>2, <2>6 DEF Typed
  <2>7. QED BY <2>5, <2>6
<1>5. ASSUME NEW c \in Clocks, Receipt(c) PROVE ShownInv'
  <2>1. UNCHANGED <<change, shown, project, readable>> BY <1>5 DEF Receipt
  <2>2. \A d \in Clocks : note'[d] \in {"posting", "sent"} => note[d] \in {"posting", "sent"}
    BY <1>5 DEF Receipt, Typed
  <2>3. QED BY <1>c, <2>1, <2>2
<1>6. ASSUME NEW c \in Clocks, Press(c) PROVE ShownInv'
  <2>1. c \in 0 .. MaxClocks BY DEF Clocks
  <2>2. QED BY <1>6, <1>k, <2>1, VerdictRow DEF Press
<1>7. ASSUME NEW w \in Workers, ListDue(w) \/ Measure(w) \/ ListLapsed(w) \/ ReadoutFails(w) \/ Die(w)
      PROVE  ShownInv'
  BY <1>7, <1>k, RowKept
<1>8. ASSUME NEW w \in Workers, AbandonDue(w) \/ Close(w) PROVE ShownInv'
  <2>1. UNCHANGED <<note, shown>> /\ 0 \in 0 .. MaxClocks BY <1>8 DEF AbandonDue, Close
  <2>2. QED BY <1>8, <1>k, <2>1, AbandonRow, VerdictRow DEF AbandonDue, Close, Reasons
<1>9. ASSUME NEW w \in Workers, ReadOut(w) PROVE ShownInv'
  <2>1. UNCHANGED shown BY <1>9 DEF ReadOut
  <2>2. CASE change' = change /\ note' = note BY <1>k, <2>1, <2>2
  <2>3. CASE ~(change' = change /\ note' = note)
    <3>1. /\ change.state = "reported" /\ change'.clock = change.clock
          /\ note[change.clock] = "none" /\ note' = [note EXCEPT ![change.clock] = "owed"]
      BY <1>9, <2>3, ReadOutRow
    <3>2. note'[change.clock] = "owed" /\ shown[change.clock] = "none"
      BY <1>c, <3>1 DEF Typed, ClockInv
    <3>3. QED BY <2>1, <3>1, <3>2
  <2>4. QED BY <2>2, <2>3
<1>10. QED BY <1>1, <1>2, <1>3, <1>4, <1>5, <1>6, <1>7, <1>8, <1>9 DEF ShippedNext, Work


\* What each step makes of the two rows together.
LEMMA VerdictSteps ==
    ASSUME Typed, ClockInv, RowInv, VerdictInv, ShippedNext
    PROVE  /\ VerdictInv'
           /\ change.state \in {"closed", "abandoned"} => UNCHANGED <<change, verdict>>
<1> USE BoundsAssumption
<1>m. /\ change.clock \in Nat
      /\ \A c \in Clocks : note[c] = "sent" => note'[c] = "sent"
  BY ShippedMonotone
<1>c. change.state # "none" => change.clock \in Clocks BY DEF ClockInv
<1>v. verdict.given = "none" => verdict.given # "pressed" OBVIOUS
<1> DEFINE Kept == /\ VerdictInv'
                   /\ change.state \in {"closed", "abandoned"} => UNCHANGED <<change, verdict>>
<1>0. ASSUME UNCHANGED <<change, verdict>> PROVE Kept
  <2>1. verdict.given = "pressed" => change.state # "none" BY DEF VerdictInv
  <2>2. QED BY <1>0, <1>m, <1>c, <2>1 DEF VerdictInv
<1>k. ASSUME UNCHANGED verdict, change.state \notin {"closed", "abandoned"},
             change'.state # "closed"
      PROVE  Kept
  BY <1>k DEF VerdictInv
<1>1. CASE Report \/ Reopen
  <2>1. UNCHANGED verdict BY <1>1 DEF Report, Reopen
  <2>2. CASE change' = change BY <1>0, <2>1, <2>2
  <2>3. CASE change' # change
    <3>1. change' = NewClock /\ change.clock < MaxClocks /\ change.state \in {"none", "read_out"}
      BY <1>1, <2>3 DEF Report, Reopen, ClockInv, CanReopen
    <3>2. change'.state = "reported" BY <3>1, NewClockRow
    <3>3. QED BY <1>k, <2>1, <3>1, <3>2
  <2>4. QED BY <2>2, <2>3
<1>2. CASE ClockRunsOut \/ WindowRunsOut
  <2>1. UNCHANGED verdict /\ change.state \in {"reported", "read_out"}
    BY <1>2 DEF ClockRunsOut, WindowRunsOut
  <2>2. QED BY <1>2, <1>k, <2>1, TimeRow
<1>3. CASE ProjectGoes \/ Respell BY <1>0, <1>3 DEF ProjectGoes, Respell
<1>4. ASSUME NEW c \in Clocks, Dispatch(c) \/ Receipt(c) PROVE Kept
  BY <1>4, <1>0 DEF Dispatch, Receipt
<1>5. ASSUME NEW c \in Clocks, Press(c) PROVE Kept
  <2>1. c \in 0 .. MaxClocks /\ note'[c] = "sent" BY <1>5 DEF Clocks, Press
  <2>2. QED BY <1>5, <2>1, VerdictRow DEF Press, VerdictInv
<1>6. ASSUME NEW w \in Workers, ListDue(w) \/ Measure(w) \/ ListLapsed(w) \/ ReadoutFails(w) \/ Die(w)
      PROVE  Kept
  BY <1>6, <1>0, RowKept
<1>7. ASSUME NEW w \in Workers, AbandonDue(w) \/ Close(w) PROVE Kept
  <2>1. CASE UNCHANGED <<change, verdict>> BY <1>0, <2>1
  <2>2. CASE UNCHANGED verdict /\ \E reason \in Reasons : Abandon(reason)
    BY <1>0, <1>k, <2>2, AbandonRow
  <2>3. CASE RecordVerdict("no_verdict_given", 0)
    BY <2>3, VerdictRow DEF VerdictInv
  <2>4. QED BY <1>7, <2>1, <2>2, <2>3 DEF AbandonDue, Close, Reasons
<1>8. ASSUME NEW w \in Workers, ReadOut(w) PROVE Kept
  <2>1. UNCHANGED verdict BY <1>8 DEF ReadOut
  <2>2. QED BY <1>0, <1>8, <1>k, <2>1, ReadOutRow
<1>9. QED BY <1>1, <1>2, <1>3, <1>4, <1>5, <1>6, <1>7, <1>8 DEF ShippedNext, Work

\* A delivered readout that a tick knows of has asked its question.
LEMMA AskedSteps ==
    ASSUME Typed, ClockInv, RowInv, ShownInv, AskedInv, ShippedNext
    PROVE  AskedInv'
<1> USE BoundsAssumption
<1>m. /\ (project' => project) /\ (readable' => readable)
      /\ \A c \in Clocks : note[c] = "sent" => note'[c] = "sent" /\ shown'[c] = shown[c]
      /\ change.clock \in Nat /\ change'.clock \in Nat /\ change.clock <= change'.clock
  BY ShippedMonotone
<1>b. change.clock <= MaxClocks BY DEF Typed, Change
<1>k. ASSUME \/ change'.clock > change.clock
             \/ change'.outcome = change.outcome
             \/ change.outcome = "none" /\ change.clock \in Clocks /\ note[change.clock] = "none",
             NEW c \in 1 .. change.clock, note[c] = "sent", Asks(c, change.outcome)
      PROVE  /\ c \in 1 .. change'.clock /\ note'[c] = "sent" /\ Asks(c, change.outcome)'
  <2>1. c \in Clocks /\ c <= change.clock /\ c \in Nat BY <1>b, <1>m DEF Clocks
  <2>2. note'[c] = "sent" /\ shown'[c] = shown[c] BY <1>k, <1>m, <2>1
  <2>3. c \in 1 .. change'.clock BY <1>m
  <2>4. CASE change'.clock > change.clock
    <3>1. c < change'.clock BY <1>m, <2>1, <2>4
    <3>2. QED BY <2>2, <2>3, <3>1 DEF Asks
  <2>5. CASE change'.outcome = change.outcome
    <3>1. c < change.clock => c < change'.clock BY <1>m, <2>1
    <3>2. QED BY <1>k, <1>m, <2>2, <2>3, <2>5, <3>1 DEF Asks
  <2>6. CASE change.outcome = "none" /\ change.clock \in Clocks /\ note[change.clock] = "none"
    <3>1. c # change.clock BY <1>k, <2>6
    <3>2. c < change'.clock BY <1>m, <2>1, <3>1
    <3>3. QED BY <2>2, <2>3, <3>2 DEF Asks
  <2>7. QED BY <1>k, <2>4, <2>5, <2>6
<1>r. \/ change'.clock > change.clock
      \/ change'.outcome = change.outcome
      \/ change.outcome = "none" /\ change.clock \in Clocks /\ note[change.clock] = "none"
  <2>1. CASE Report \/ Reopen
    <3>1. CASE change' # change
      <4>1. change' = NewClock /\ change.clock < MaxClocks
        BY <2>1, <3>1 DEF Report, Reopen, ClockInv
      <4>2. QED BY <1>m, <4>1, NewClockRow
    <3>2. QED BY <3>1
  <2>2. CASE ClockRunsOut \/ WindowRunsOut BY <2>2, TimeRow
  <2>3. ASSUME NEW c \in Clocks, Press(c) PROVE change'.outcome = change.outcome
    <3>1. c \in 0 .. MaxClocks BY DEF Clocks
    <3>2. QED BY <2>3, <3>1, VerdictRow DEF Press
  <2>4. ASSUME NEW w \in Workers, AbandonDue(w) \/ Close(w)
        PROVE  change'.outcome = change.outcome
    <3>1. 0 \in 0 .. MaxClocks OBVIOUS
    <3>2. QED BY <2>4, <3>1, AbandonRow, VerdictRow DEF AbandonDue, Close, Reasons
  <2>5. ASSUME NEW w \in Workers, ReadOut(w), change' # change
        PROVE  change.outcome = "none" /\ change.clock \in Clocks /\ note[change.clock] = "none"
    BY <2>5, ReadOutRow DEF RowInv, ClockInv
  <2>6. QED
    BY <2>1, <2>2, <2>3, <2>4, <2>5
    DEF ShippedNext, Work, ProjectGoes, Respell, Dispatch, Receipt, ListDue, Measure, ListLapsed,
        ReadoutFails, Die
<1>p. ASSUME NEW w \in Workers, tick'[w] = tick[w],
             tick'[w].at = "closing", tick'[w].delivered, tick'[w].project
      PROVE  \E c \in 1 .. change'.clock : note'[c] = "sent" /\ Asks(c, change.outcome)'
  <2>1. PICK c \in 1 .. change.clock : note[c] = "sent" /\ Asks(c, change.outcome)
    BY <1>p DEF AskedInv
  <2>2. QED BY <1>k, <1>r, <2>1
<1>n. ASSUME NEW w \in Workers, ListLapsed(w), WasDelivered, project
      PROVE  \E c \in 1 .. change'.clock : note'[c] = "sent" /\ Asks(c, change.outcome)'
  <2>1. PICK c \in Clocks : note[c] = "sent" BY <1>n DEF WasDelivered
  <2>2. c \in 1 .. change.clock BY <1>m, <2>1 DEF ClockInv, Clocks
  <2>3. change.state # "none" BY <1>m, <2>2 DEF ClockInv
  <2>4. Asks(c, change.outcome)
    <3>1. CASE c < change.clock BY <3>1 DEF Asks
    <3>2. CASE c = change.clock BY <1>n, <2>1, <2>3, <3>2 DEF ShownInv
    <3>3. QED BY <1>m, <2>2, <3>1, <3>2
  <2>5. QED BY <1>k, <1>r, <2>1, <2>2, <2>4
<1>t. tick \in [Workers -> Tick] BY DEF Typed
<1>1. ASSUME NEW w \in Workers,
             ListLapsed(w) \/ ReadoutFails(w) \/ Die(w) \/ AbandonDue(w) \/ Close(w) \/ ReadOut(w)
      PROVE  AskedInv'
  <2>1. ASSUME NEW v \in Workers, tick'[v].at = "closing", tick'[v].delivered, tick'[v].project
        PROVE  \E c \in 1 .. change'.clock : note'[c] = "sent" /\ Asks(c, change.outcome)'
    <3>1. CASE v = w BY <1>1, <1>n, <2>1, <3>1, TickDone
    <3>2. CASE v # w BY <1>1, <1>p, <2>1, <3>2, TickDone
    <3>3. QED BY <3>1, <3>2
  <2>2. QED BY <2>1 DEF AskedInv
<1>2. ASSUME NEW w \in Workers, ListDue(w) \/ Measure(w) PROVE AskedInv'
  <2>1. \A v \in Workers \ {w} : tick'[v] = tick[v] BY <1>2, <1>t DEF ListDue, Measure
  <2>2. tick'[w].at # "closing"
    <3>1. CASE ListDue(w)
      <4> DEFINE over == IF IsLapsed THEN change.clock ELSE 0
      <4>1. Lapsing(over).at = "lapsing" BY <1>b, <1>m, TickRows
      <4>2. \/ tick'[w] = Lapsing(over)
            \/ tick'[w] = [at |-> "due", project |-> project, over |-> over,
                           saw |-> change.clock, outcome |-> "none", delivered |-> FALSE]
        BY <1>t, <3>1 DEF ListDue
      <4> HIDE DEF over
      <4>3. QED BY <4>1, <4>2
    <3>2. CASE Measure(w)
      <4>1. PICK outcome : tick' = [tick EXCEPT ![w].at = "claiming", ![w].outcome = outcome]
        BY <3>2 DEF Measure
      <4>2. QED BY <1>t, <4>1 DEF Tick
    <3>3. QED BY <1>2, <3>1, <3>2
  <2>3. QED BY <1>p, <2>1, <2>2 DEF AskedInv
<1>3. CASE tick' = tick BY <1>3, <1>p DEF AskedInv
<1>4. QED
  BY <1>1, <1>2, <1>3
  DEF ShippedNext, Work, Report, Reopen, ClockRunsOut, WindowRunsOut, ProjectGoes, Respell,
      Dispatch, Receipt, Press

\* A verdict goes with what was shown, and a silence with a question.
LEMMA AnswerSteps ==
    ASSUME Typed, ClockInv, RowInv, ShownInv, AskedInv, VerdictInv, AnswersAreToWhatWasAsked,
           ShippedNext
    PROVE  AnswersAreToWhatWasAsked'
<1> USE BoundsAssumption
<1>m. /\ readable' => readable
      /\ \A c \in Clocks : note[c] = "sent" => note'[c] = "sent" /\ shown'[c] = shown[c]
      /\ change.clock \in Nat /\ change.clock <= MaxClocks
  BY ShippedMonotone DEF Typed, Change
<1>c. change.state # "none" => change.clock \in Clocks BY DEF ClockInv
<1>s. ASSUME NEW c \in 1 .. change.clock, note[c] = "sent"
      PROVE  note'[c] = "sent" /\ shown'[c] = shown[c]
  <2>1. c \in Clocks BY <1>m DEF Clocks
  <2>2. QED BY <1>m, <1>s, <2>1
<1>1. CASE UNCHANGED <<change, verdict>>
  <2>1. verdict.given = "pressed" => change.state # "none" BY DEF VerdictInv
  <2>2. ASSUME verdict.given = "pressed", verdict.pressed = change.clock
        PROVE  verdict.outcome = shown'[change.clock]
    BY <1>m, <1>c, <2>1, <2>2 DEF AnswersAreToWhatWasAsked, VerdictInv
  <2>3. ASSUME verdict.given = "no_verdict_given"
        PROVE  \E c \in 1 .. change.clock :
                   /\ note'[c] = "sent"
                   /\ \/ shown'[c] # "none"
                      \/ c < change.clock \/ verdict.outcome = "none" \/ ~readable'
    BY <1>m, <1>s, <2>3 DEF AnswersAreToWhatWasAsked
  <2>4. QED BY <1>1, <2>2, <2>3 DEF AnswersAreToWhatWasAsked
<1>2. CASE verdict'.given = "none" BY <1>2 DEF AnswersAreToWhatWasAsked
<1>3. ASSUME NEW c \in Clocks, Press(c) PROVE AnswersAreToWhatWasAsked'
  <2>1. c \in 0 .. MaxClocks /\ shown' = shown /\ shown[c] # "none"
    BY <1>3 DEF Clocks, Press, Outcomes
  <2>2. /\ change.state = "read_out" /\ change'.clock = change.clock
        /\ verdict'.given = "pressed" /\ verdict'.pressed = c
        /\ verdict'.outcome = change.outcome
    BY <1>3, <2>1, VerdictRow DEF Press
  <2>3. c = change.clock => shown[c] = change.outcome BY <2>1, <2>2 DEF ShownInv
  <2>4. QED BY <2>1, <2>2, <2>3 DEF AnswersAreToWhatWasAsked
<1>4. ASSUME NEW w \in Workers, Close(w), RecordVerdict("no_verdict_given", 0)
      PROVE  AnswersAreToWhatWasAsked'
  <2>1. /\ change.state = "read_out" /\ change'.clock = change.clock
        /\ verdict'.given = "no_verdict_given" /\ verdict'.outcome = change.outcome
    BY <1>4, VerdictRow
  <2>2. tick[w].at = "closing" /\ tick[w].delivered /\ tick[w].project
        /\ UNCHANGED <<note, shown, readable>>
    BY <1>4, <2>1 DEF Close, Abandon, RecordVerdict, Abandonable, Typed, Change
  <2>3. QED BY <2>1, <2>2 DEF AskedInv, Asks, AnswersAreToWhatWasAsked
<1>5. CASE verdict' = verdict
  <2>1. CASE change.state \in {"closed", "abandoned"} BY <1>1, <2>1, VerdictSteps
  <2>2. CASE change.state \notin {"closed", "abandoned"} BY <1>2, <1>5, <2>2 DEF VerdictInv
  <2>3. QED BY <2>1, <2>2
<1>6. QED
  BY <1>3, <1>4, <1>5
  DEF ShippedNext, Work, Report, Reopen, ClockRunsOut, WindowRunsOut, ProjectGoes, Respell,
      Dispatch, Receipt, ListDue, AbandonDue, Measure, ReadOut, ListLapsed, Close, ReadoutFails, Die

\* A row is read out by a tick that claims it.
LEMMA ReadOutSteps ==
    ASSUME Typed, ClockInv, RowInv, DueInv, ShippedNext,
           change.state = "reported", change'.state = "read_out"
    PROVE  \/ change.due /\ (change'.outcome = "none" => ~project)
           \/ ListedForAnotherClock
<1> USE BoundsAssumption
<1>1. \E w \in Workers : ReadOut(w)
  <2>1. ~Report /\ ~Reopen
    BY NewClockRow DEF Report, Reopen, ClockInv
  <2>2. ~ClockRunsOut /\ ~WindowRunsOut BY TimeRow
  <2>3. \A c \in Clocks : ~Press(c) BY DEF Press, RecordVerdict
  <2>4. ASSUME NEW w \in Workers PROVE ~AbandonDue(w) /\ ~Close(w)
    <3>1. 0 \in 0 .. MaxClocks OBVIOUS
    <3>2. ASSUME NEW reason \in Reasons PROVE ~Abandon(reason)
      <4>1. change' # change OBVIOUS
      <4>2. QED BY <3>2, <4>1, AbandonRow
    <3>3. ~AbandonDue(w) BY <3>2 DEF AbandonDue, Reasons
    <3>4. ~RecordVerdict("no_verdict_given", 0) BY DEF RecordVerdict
    <3>5. ~Close(w) BY <3>2, <3>4 DEF Close, Reasons
    <3>6. QED BY <3>3, <3>5
  <2>5. change' # change OBVIOUS
  <2>6. QED
    BY <2>1, <2>2, <2>3, <2>4, <2>5
    DEF ShippedNext, Work, ProjectGoes, Respell, Dispatch, Receipt, ListDue, Measure, ListLapsed,
        ReadoutFails, Die
<1>2. PICK w \in Workers : ReadOut(w) BY <1>1
<1>3. change'.outcome = tick[w].outcome /\ tick[w].at = "claiming"
  BY <1>2, ReadOutRow DEF ReadOut
<1>4. CASE tick[w].saw = change.clock BY <1>3, <1>4 DEF DueInv
<1>5. CASE tick[w].saw # change.clock
  BY <1>2, <1>3, <1>5, TickDone DEF ListedForAnotherClock
<1>6. QED BY <1>4, <1>5

LEMMA ShippedInitially == ShippedInit => ShippedInv
<1> SUFFICES ASSUME ShippedInit PROVE ShippedInv OBVIOUS
<1> USE BoundsAssumption
<1>1. /\ change = NoChange /\ verdict = NoVerdict /\ project = TRUE /\ readable = TRUE
      /\ report = FALSE /\ faults = 0
      /\ note = [c \in Clocks |-> "none"] /\ shown = [c \in Clocks |-> "none"]
      /\ tick = [w \in Workers |-> Idle]
  BY DEF ShippedInit
<1>2. 0 \in 0 .. MaxClocks /\ 0 \in 0 .. MaxFaults OBVIOUS
<1>3. NoChange \in Change /\ NoVerdict \in Verdict /\ Idle \in Tick
  BY <1>2 DEF NoChange, Change, NoVerdict, Verdict, Idle, Tick
<1>4. /\ NoChange.state = "none" /\ NoChange.clock = 0 /\ NoChange.reason = "none"
      /\ NoVerdict.given = "none" /\ Idle.at = "idle"
  BY DEF NoChange, NoVerdict, Idle
<1>5. Typed BY <1>1, <1>2, <1>3 DEF Typed
<1>6. ClockInv /\ RowInv /\ ShownInv /\ VerdictInv /\ AnswersAreToWhatWasAsked
  BY <1>1, <1>4 DEF ClockInv, RowInv, ShownInv, VerdictInv, AnswersAreToWhatWasAsked
<1>7. DueInv /\ AskedInv BY <1>1, <1>4 DEF DueInv, AskedInv
<1>8. QED BY <1>5, <1>6, <1>7 DEF ShippedInv

LEMMA ShippedInductive == ShippedInv /\ [ShippedNext]_shippedVars => ShippedInv'
<1> SUFFICES ASSUME ShippedInv, [ShippedNext]_shippedVars PROVE ShippedInv' OBVIOUS
<1>1. CASE ShippedNext
  BY <1>1, ShippedTypes, RowSteps, DueSteps, ShownSteps, AskedSteps, VerdictSteps, AnswerSteps
  DEF ShippedInv
<1>2. CASE UNCHANGED shippedVars
  BY <1>2
  DEF shippedVars, ShippedInv, Typed, ClockInv, RowInv, DueInv, ShownInv, AskedInv, Asks,
      VerdictInv, AnswersAreToWhatWasAsked
<1>3. QED BY <1>1, <1>2

LEMMA ShippedInvariant == ShippedSpec => []ShippedInv
BY ShippedInitially, ShippedInductive, PTL DEF ShippedSpec

(* The row of a change, its verdict, its announcements and what each tick   *)
(* holds are of their types; a reason goes with an abandoned row, and an   *)
(* announcement with one that was read out.                                *)
THEOREM ShippedTypesHold == ShippedSpec => []ShippedTypeOK
<1>1. ShippedInv => ShippedTypeOK BY DEF ShippedInv, Typed, RowInv, ShippedTypeOK
<1>2. QED BY <1>1, ShippedInvariant, PTL

(* A change has one end, with the one verdict that goes with it.           *)
THEOREM ChangesEndOnce == ShippedSpec => OneEnd
<1>1. ShippedInv => (change.state = "closed" <=> verdict.given # "none")
  BY DEF ShippedInv, VerdictInv
<1>2. ShippedInv /\ [ShippedNext]_shippedVars =>
          [Ended => UNCHANGED <<change, verdict>>]_shippedVars
  BY VerdictSteps DEF ShippedInv, Ended
<1>3. QED BY <1>1, <1>2, ShippedInvariant, PTL DEF ShippedSpec, OneEnd

(* A promised date is kept: the row is read out when its clock has run     *)
(* out, and says nothing only for a project that is gone, unless a tick    *)
(* claims it on a listing of another clock.                                *)
THEOREM PromisedDatesAreKept == ShippedSpec => ReadOutWhenDue
<1>1. ShippedInv /\ [ShippedNext]_shippedVars =>
          [change.state = "reported" /\ change'.state = "read_out" =>
               \/ change.due /\ (change'.outcome = "none" => ~project)
               \/ ListedForAnotherClock]_shippedVars
  BY ReadOutSteps DEF ShippedInv
<1>2. QED BY <1>1, ShippedInvariant, PTL DEF ShippedSpec, ReadOutWhenDue

(* An answer is about what was asked, and nobody who was not asked is       *)
(* recorded as silent, whatever the ticks and the buttons do to each other.*)
THEOREM AnswersMatchQuestions == ShippedSpec => []AnswersAreToWhatWasAsked
<1>1. ShippedInv => AnswersAreToWhatWasAsked BY DEF ShippedInv
<1>2. QED BY <1>1, ShippedInvariant, PTL
=============================================================================

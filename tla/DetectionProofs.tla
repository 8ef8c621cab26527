---------------------------- MODULE DetectionProofs ----------------------------
(***************************************************************************)
(* Theorems about what the analysis of a project concludes, for any number *)
(* of sessions, pages, events and transcripts, and any order in which they *)
(* are stored and read.                                                    *)
(*                                                                         *)
(* That a session went on from a page is told by two of its events, and so *)
(* holds of every larger set of them; what the detectors compute of walks, *)
(* visits and destinations is first shown to be that.  A claim that passes *)
(* the gate is then traced back through its class and its signals to the   *)
(* sessions, the exceptions and the recordings it was made from.           *)
(***************************************************************************)
EXTENDS Detection, FiniteSetTheorems, TLAPS

-----------------------------------------------------------------------------
(* Order and size.                                                         *)

(* A finite set of numbers has a largest, and any set of them a smallest.   *)
LEMMA LargestIsLargest ==
    ASSUME NEW S \in SUBSET Nat, IsFiniteSet(S)
    PROVE  /\ Largest(S) \in Nat
           /\ S # {} => Largest(S) \in S
           /\ \A n \in S : n <= Largest(S)
<1>1. CASE S = {} BY <1>1 DEF Largest
<1>2. CASE S # {}
  <2> DEFINE above(x) == {y \in S : y > x}
             F == {above(x) : x \in S}
  <2>1. IsWellFoundedOn(StrictSubsetOrdering(S), FiniteSubsetsOf(S))
    BY FS_StrictSubsetOrderingWellFounded
  <2>2. FiniteSubsetsOf(S) = SUBSET S BY FS_FiniteSubsetsOfFinite
  <2>3. \A x \in S : above(x) \in SUBSET S OBVIOUS
  <2>4. \A x, y \in S : y > x => <<above(y), above(x)>> \in StrictSubsetOrdering(S)
    <3>1. SUFFICES ASSUME NEW x \in S, NEW y \in S, y > x
                   PROVE  <<above(y), above(x)>> \in StrictSubsetOrdering(S)
      OBVIOUS
    <3>2. x \in Nat /\ y \in Nat /\ \A z \in S : z \in Nat OBVIOUS
    <3>3. \A z \in S : z > y => z > x BY <3>1, <3>2
    <3>4. above(y) \subseteq above(x) BY <3>3
    <3>5. y \in above(x) /\ y \notin above(y) BY <3>1, <3>2
    <3>6. QED BY <2>3, <3>4, <3>5 DEF StrictSubsetOrdering
  <2> HIDE DEF above
  <2>5. F \subseteq FiniteSubsetsOf(S) /\ F # {}
    <3>1. \A x \in S : above(x) \in FiniteSubsetsOf(S) BY <2>2, <2>3
    <3>2. QED BY <1>2, <3>1
  <2>6. PICK T \in F : \A U \in F : ~(<<U, T>> \in StrictSubsetOrdering(S))
    <3> HIDE DEF F
    <3>1. QED BY <2>1, <2>5, WFMin
  <2>7. PICK x \in S : T = above(x) BY <2>6
  <2>8. \A y \in S : ~(y > x) BY <2>4, <2>6, <2>7
  <2>9. \A y \in S : y <= x BY <2>8
  <2>10. \E n \in S : \A m \in S : m <= n BY <2>9
  <2>11. Largest(S) \in S /\ \A m \in S : m <= Largest(S) BY <1>2, <2>10 DEF Largest
  <2>12. QED BY <2>11
<1>3. QED BY <1>1, <1>2

LEMMA SmallestIsSmallest ==
    ASSUME NEW S \in SUBSET Nat, S # {}
    PROVE  Smallest(S) \in S /\ \A n \in S : Smallest(S) <= n
<1> DEFINE below(x) == {y \in S : y < x}
           F == {below(x) : x \in S}
<1>1. IsWellFoundedOn(StrictSubsetOrdering(S), FiniteSubsetsOf(S))
  BY FS_StrictSubsetOrderingWellFounded
<1>2. \A x \in S : below(x) \in FiniteSubsetsOf(S)
  <2>1. SUFFICES ASSUME NEW x \in S PROVE below(x) \in FiniteSubsetsOf(S) OBVIOUS
  <2>2. x \in Nat /\ below(x) \in SUBSET Nat OBVIOUS
  <2>3. \A y \in below(x) : y <= x BY <2>2
  <2>4. IsFiniteSet(below(x)) BY <2>2, <2>3, FS_BoundedSetOfNaturals
  <2>5. below(x) \in SUBSET S OBVIOUS
  <2>6. QED BY <2>4, <2>5 DEF FiniteSubsetsOf
<1>3. \A x, y \in S : y < x => <<below(y), below(x)>> \in StrictSubsetOrdering(S)
  <2>1. SUFFICES ASSUME NEW x \in S, NEW y \in S, y < x
                 PROVE  <<below(y), below(x)>> \in StrictSubsetOrdering(S)
    OBVIOUS
  <2>2. x \in Nat /\ y \in Nat /\ \A z \in S : z \in Nat OBVIOUS
  <2>3. \A z \in S : z < y => z < x BY <2>1, <2>2
  <2>4. below(y) \subseteq below(x) BY <2>3
  <2>5. y \in below(x) /\ y \notin below(y) BY <2>1, <2>2
  <2>6. QED BY <2>4, <2>5 DEF StrictSubsetOrdering
<1> HIDE DEF below
<1>4. F \subseteq FiniteSubsetsOf(S) /\ F # {} BY <1>2
<1>5. PICK T \in F : \A U \in F : ~(<<U, T>> \in StrictSubsetOrdering(S))
  <2> HIDE DEF F
  <2>1. QED BY <1>1, <1>4, WFMin
<1>6. PICK x \in S : T = below(x) BY <1>5
<1>7. \A y \in S : ~(y < x) BY <1>3, <1>5, <1>6
<1>8. \A y \in S : x <= y BY <1>7
<1>9. \E n \in S : \A m \in S : n <= m BY <1>8
<1>10. QED BY <1>9 DEF Smallest

\* The events of a timeline have a first one, and a last one.
LEMMA InstantsAreNumbers ==
    /\ MaxAt \in Nat /\ IsFiniteSet(Instants) /\ Instants \subseteq Nat
    /\ \A e \in Event : /\ e.at \in Instants /\ e.of \in Sessions
                        /\ e.name \in {"act", "view", "exception"}
<1>1. MaxAt \in Nat BY DetectionAssumption
<1>2. IsFiniteSet(Instants) BY <1>1, FS_Interval DEF Instants
<1>3. Instants \subseteq Nat BY <1>1 DEF Instants
<1>4. ASSUME NEW e \in Event
      PROVE  e.at \in Instants /\ e.of \in Sessions /\ e.name \in {"act", "view", "exception"}
  <2>1. PICK s \in Sessions, i \in Instants, t \in Told :
            e = [of |-> s, at |-> i, name |-> t[1], path |-> t[2]]
    BY DEF Event
  <2>2. t \in {"act", "view", "exception"} \X (Surfaces \cup {NoPath}) BY DetectionAssumption
  <2>3. t[1] \in {"act", "view", "exception"} BY <2>2
  <2>4. QED BY <2>1, <2>3
<1>5. QED BY <1>1, <1>2, <1>3, <1>4

LEMMA TimesAreFinite ==
    ASSUME NEW E \in SUBSET Event
    PROVE  {e.at : e \in E} \in SUBSET Nat /\ IsFiniteSet({e.at : e \in E})
<1>1. {e.at : e \in E} \in SUBSET Instants BY InstantsAreNumbers
<1>2. QED BY <1>1, InstantsAreNumbers, FS_Subset

LEMMA FirstEvent ==
    ASSUME NEW E \in SUBSET Event, E # {}
    PROVE  \E e \in E : \A d \in E : e.at <= d.at
<1> DEFINE T == {e.at : e \in E}
<1>1. T \in SUBSET Nat /\ T # {} BY TimesAreFinite
<1>2. PICK e \in E : e.at = Smallest(T) BY <1>1, SmallestIsSmallest
<1>3. \A d \in E : d.at \in T OBVIOUS
<1> HIDE DEF T
<1>4. \A n \in T : Smallest(T) <= n BY <1>1, SmallestIsSmallest
<1>5. \A d \in E : e.at <= d.at BY <1>2, <1>3, <1>4
<1>6. QED BY <1>5

LEMMA LastEvent ==
    ASSUME NEW E \in SUBSET Event, E # {}
    PROVE  Last(E) \in E /\ \A d \in E : d.at <= Last(E).at
<1> DEFINE T == {e.at : e \in E}
<1>1. T \in SUBSET Nat /\ T # {} /\ IsFiniteSet(T) BY TimesAreFinite
<1>2. PICK e \in E : e.at = Largest(T) BY <1>1, LargestIsLargest
<1>3. \A d \in E : d.at \in T OBVIOUS
<1> HIDE DEF T
<1>4. \A d \in E : d.at <= e.at BY <1>1, <1>2, <1>3, LargestIsLargest
<1>5. QED BY <1>4 DEF Last

-----------------------------------------------------------------------------
(* What a session is found to have done.                                   *)

\* The events of a session that tell where it is.
Paths(E, s) == {e \in E : e.of = s /\ e.path # NoPath}

\* A page it was on, and another it was on later.
WentOn(E, s, o) ==
    \E d, e \in Paths(E, s) : d.at < e.at /\ d.path = o /\ e.path # o

LEMMA WalkIsOfPaths ==
    ASSUME NEW E, NEW s
    PROVE  /\ Walk(E, s) \subseteq Paths(E, s)
           /\ \A e \in Paths(E, s) :
                  e \in Walk(E, s) <=> LET before == Before(Paths(E, s), e)
                                       IN  before = {} \/ Last(before).path # e.path
BY DEF Walk, Paths

\* The first event on a page is a visit to it.
LEMMA FirstVisit ==
    ASSUME NEW E \in SUBSET Event, OneAtATime(E), NEW s, NEW o, NEW p \in Paths(E, s), p.path = o
    PROVE  \E v \in Visits(E, s, o) : v.at <= p.at /\ \A e \in Paths(E, s) : e.path = o => v.at <= e.at
<1> DEFINE P == Paths(E, s)
           O == {e \in P : e.path = o}
<1>1. O \in SUBSET Event /\ p \in O BY DEF Paths
<1>2. PICK v \in O : \A e \in O : v.at <= e.at BY <1>1, FirstEvent
<1>3. v \in P /\ v.path = o /\ v.at <= p.at BY <1>1, <1>2
<1>4. Before(P, v) \in SUBSET Event BY DEF Before, Paths
<1>5. CASE Before(P, v) = {} BY <1>2, <1>3, <1>5, WalkIsOfPaths DEF Visits
<1>6. CASE Before(P, v) # {}
  <2>1. Last(Before(P, v)) \in Before(P, v) BY <1>4, <1>6, LastEvent
  <2>2. \A e \in Before(P, v) : e \in P /\ e.at < v.at BY DEF Before
  <2>3. \A e \in Before(P, v) : e.path # o
    <3>1. SUFFICES ASSUME NEW e \in Before(P, v), e.path = o PROVE FALSE OBVIOUS
    <3>2. e.at < v.at /\ v.at <= e.at BY <1>2, <2>2, <3>1
    <3>3. e.at \in Nat /\ v.at \in Nat BY <1>1, <1>4, InstantsAreNumbers
    <3>4. QED BY <3>2, <3>3
  <2>4. v \in Walk(E, s) BY <1>3, <2>1, <2>3, WalkIsOfPaths
  <2>5. QED BY <1>2, <1>3, <2>4 DEF Visits
<1>7. QED BY <1>5, <1>6

\* One that went on came, at some event of its walk, to a page that is a
\* destination of the one it left.
LEMMA WentOnSomewhere ==
    ASSUME NEW E \in SUBSET Event, OneAtATime(E), NEW s, NEW o, WentOn(E, s, o)
    PROVE  \E w \in Since(E, s, o) : w.path \in NextFrom(Walk(E, s), o)
<1> DEFINE P == Paths(E, s)
           W == Walk(E, s)
<1>1. PICK d \in P, e \in P : d.at < e.at /\ d.path = o /\ e.path # o BY DEF WentOn
<1>2. PICK v \in Visits(E, s, o) : v.at <= d.at BY <1>1, FirstVisit
<1>v. v \in W /\ v \in P /\ v.path = o BY <1>2, WalkIsOfPaths DEF Visits
<1>n. P \in SUBSET Event /\ \A x \in P : x \in E /\ x.of = s /\ x.at \in Nat
  BY InstantsAreNumbers DEF Paths
<1> DEFINE Q == {x \in P : v.at < x.at /\ x.path # o}
<1>3. Q \in SUBSET Event /\ e \in Q
  <2>1. v.at < e.at BY <1>1, <1>2, <1>n, <1>v
  <2>2. QED BY <1>1, <1>n, <2>1
<1>4. PICK w \in Q : \A x \in Q : w.at <= x.at BY <1>3, FirstEvent
<1>w. w \in P /\ v.at < w.at /\ w.path # o BY <1>4
<1>5. \A x \in P : v.at <= x.at /\ x.at < w.at => x.path = o
  <2>1. SUFFICES ASSUME NEW x \in P, v.at <= x.at, x.at < w.at, x.path # o PROVE FALSE OBVIOUS
  <2>2. CASE v.at = x.at
    <3>1. v = x BY <1>n, <1>v, <2>2 DEF OneAtATime
    <3>2. QED BY <1>v, <2>1, <3>1
  <2>3. CASE v.at # x.at
    <3>1. x \in Q BY <1>n, <1>v, <2>1, <2>3
    <3>2. w.at <= x.at BY <1>4, <3>1
    <3>3. QED BY <1>n, <1>w, <2>1, <3>2
  <2>4. QED BY <2>2, <2>3
<1>6. ASSUME NEW X \in SUBSET P, v \in X
      PROVE  Before(X, w) # {} /\ Last(Before(X, w)).path = o
  <2>1. Before(X, w) \in SUBSET Event /\ v \in Before(X, w)
    BY <1>6, <1>n, <1>v, <1>w DEF Before
  <2>2. Last(Before(X, w)) \in Before(X, w) /\ v.at <= Last(Before(X, w)).at
    BY <2>1, LastEvent
  <2>3. Last(Before(X, w)) \in P /\ Last(Before(X, w)).at < w.at BY <1>6, <2>2 DEF Before
  <2>4. QED BY <1>5, <2>1, <2>2, <2>3
<1>7. w \in W
  <2>1. P \in SUBSET P OBVIOUS
  <2>2. Last(Before(P, w)).path # w.path BY <1>6, <1>v, <1>w, <2>1
  <2>3. QED BY <1>w, <2>2, WalkIsOfPaths
<1>8. w \in Since(E, s, o) BY <1>2, <1>7, <1>w DEF Since
<1>9. w.path \in NextFrom(W, o)
  <2>1. W \in SUBSET P BY WalkIsOfPaths
  <2>2. Before(W, w) # {} /\ Last(Before(W, w)).path = o BY <1>6, <1>v, <2>1
  <2>3. QED BY <1>7, <1>w, <2>2 DEF NextFrom
<1>10. QED BY <1>8, <1>9

\* Whether a session went on from a page does not depend on the others.
LEMMA SucceededWentOn ==
    ASSUME NEW E \in SUBSET Event, OneAtATime(E), NEW S, NEW s \in S, NEW o
    PROVE  /\ s \in Succeeded(S, E, o) <=> WentOn(E, s, o)
           /\ s \in AtOrigin(S, E, o) <=> \E p \in Paths(E, s) : p.path = o
<1>1. s \in AtOrigin(S, E, o) <=> \E p \in Paths(E, s) : p.path = o
  <2>1. \A v \in Visits(E, s, o) : v \in Paths(E, s) /\ v.path = o
    BY WalkIsOfPaths DEF Visits
  <2>2. ASSUME NEW p \in Paths(E, s), p.path = o PROVE Visits(E, s, o) # {}
    BY <2>2, FirstVisit
  <2>3. QED BY <2>1, <2>2 DEF AtOrigin
<1>2. ASSUME WentOn(E, s, o) PROVE s \in Succeeded(S, E, o)
  <2>1. PICK w \in Since(E, s, o) : w.path \in NextFrom(Walk(E, s), o) BY <1>2, WentOnSomewhere
  <2>2. w.path \in Destinations(S, E, o) BY <2>1 DEF Destinations
  <2>3. s \notin Failed(S, E, o) BY <2>1, <2>2 DEF Failed
  <2>4. s \in AtOrigin(S, E, o) BY <1>1, <1>2 DEF WentOn
  <2>5. QED BY <2>3, <2>4 DEF Succeeded
<1>3. ASSUME s \in Succeeded(S, E, o) PROVE WentOn(E, s, o)
  <2>1. PICK e \in Since(E, s, o) : e.path \in Destinations(S, E, o)
    BY <1>3 DEF Succeeded, Failed
  <2>2. e.path # o BY <2>1 DEF Destinations, NextFrom
  <2>3. PICK v \in Visits(E, s, o) : v.at < e.at BY <2>1 DEF Since
  <2>4. v \in Paths(E, s) /\ v.path = o /\ e \in Paths(E, s)
    BY <2>1, <2>3, WalkIsOfPaths DEF Visits, Since
  <2>5. QED BY <2>2, <2>3, <2>4 DEF WentOn
<1>4. QED BY <1>1, <1>2, <1>3

\* Two visits to a page are two events with another page in between.
LEMMA ComingAgainIsGoingOn ==
    ASSUME NEW E \in SUBSET Event, OneAtATime(E), NEW s, NEW o,
           NEW v \in Visits(E, s, o), NEW w \in Visits(E, s, o), v # w
    PROVE  WentOn(E, s, o)
<1> DEFINE P == Paths(E, s)
<1>1. /\ P \in SUBSET Event /\ \A x \in P : x \in E /\ x.of = s /\ x.at \in Nat
      /\ v \in P /\ w \in P /\ v.path = o /\ w.path = o /\ v \in Walk(E, s) /\ w \in Walk(E, s)
  BY InstantsAreNumbers, WalkIsOfPaths DEF Paths, Visits
<1>2. v.at # w.at BY <1>1 DEF OneAtATime
<1>3. ASSUME NEW x \in P, NEW y \in P, x.at < y.at, x.path = o, y.path = o, y \in Walk(E, s)
      PROVE  WentOn(E, s, o)
  <2>1. x \in Before(P, y) /\ Before(P, y) \in SUBSET Event BY <1>1, <1>3 DEF Before
  <2>2. Last(Before(P, y)) \in Before(P, y) /\ x.at <= Last(Before(P, y)).at
    BY <2>1, LastEvent
  <2>3. Last(Before(P, y)).path # o BY <1>3, <2>1, WalkIsOfPaths
  <2>4. Last(Before(P, y)) \in P BY <2>2 DEF Before
  <2>5. Last(Before(P, y)).at # x.at BY <1>1, <1>3, <2>3, <2>4 DEF OneAtATime
  <2>6. x.at < Last(Before(P, y)).at BY <1>1, <2>2, <2>4, <2>5
  <2>7. QED BY <1>3, <2>3, <2>4, <2>6 DEF WentOn
<1>4. QED BY <1>1, <1>2, <1>3

\* A timeline of distinct instants is finite, and so are the visits in it.
LEMMA VisitsAreFinite ==
    ASSUME NEW E \in SUBSET Event, OneAtATime(E), NEW s, NEW o
    PROVE  IsFiniteSet(Visits(E, s, o))
<1> DEFINE V == Visits(E, s, o)
           f == [e \in V |-> e.at]
<1>1. \A e \in V : e \in E /\ e.of = s /\ e.at \in Instants
  BY InstantsAreNumbers, WalkIsOfPaths DEF Visits, Paths
<1>2. f \in [V -> Instants] /\ \A d, e \in V : f[d] = f[e] => d = e
  <2>1. \A d, e \in V : d.at = e.at => d = e BY <1>1 DEF OneAtATime
  <2> HIDE DEF V
  <2>2. QED BY <1>1, <2>1
<1>3. f \in Injection(V, Instants) BY <1>2 DEF Injection, IsInjective
<1> HIDE DEF f, V
<1>4. IsFiniteSet(V) BY <1>3, InstantsAreNumbers, FS_Injection
<1>5. QED BY <1>4 DEF V

-----------------------------------------------------------------------------
(* What the detectors claim, and on what grounds.                          *)

(* What a lane has read when it is to look for problems.                   *)
Corpus(l) ==
    /\ l.kept \in SUBSET Sessions /\ l.end \in Nat
    /\ l.events \in SUBSET Event /\ OneAtATime(l.events)
    /\ l.told \in SUBSET Recording
    /\ \A r, t \in l.told : r.of \in l.kept /\ (r.of = t.of => r = t)

LEMMA ImageIsFinite ==
    ASSUME NEW S, IsFiniteSet(S), NEW f
    PROVE  IsFiniteSet({f[x] : x \in S}) /\ Cardinality({f[x] : x \in S}) <= Cardinality(S)
<1> DEFINE T == {f[x] : x \in S}
           g == [x \in S |-> f[x]]
<1>1. g \in [S -> T] /\ \A t \in T : \E x \in S : g[x] = t OBVIOUS
<1>2. g \in Surjection(S, T) BY <1>1 DEF Surjection
<1> HIDE DEF T, g
<1>3. IsFiniteSet(T) /\ Cardinality(T) <= Cardinality(S) BY <1>2, FS_Surjection
<1>4. QED BY <1>3 DEF T

LEMMA KeptAreCounted ==
    ASSUME NEW l, Corpus(l), NEW S \in SUBSET l.kept
    PROVE  /\ IsFiniteSet(S) /\ Cardinality(S) \in Nat
           /\ Cardinality(l.kept) \in Nat /\ Cardinality(S) <= Cardinality(l.kept)
           /\ \A R \in SUBSET S : Cardinality(R) \in Nat /\ Cardinality(R) <= Cardinality(S)
<1>1. IsFiniteSet(l.kept) BY DetectionAssumption, FS_Subset DEF Corpus
<1>2. IsFiniteSet(S) /\ Cardinality(S) <= Cardinality(l.kept) BY <1>1, FS_Subset
<1>3. Cardinality(S) \in Nat /\ Cardinality(l.kept) \in Nat BY <1>1, <1>2, FS_CardinalityType
<1>4. ASSUME NEW R \in SUBSET S
      PROVE  Cardinality(R) \in Nat /\ Cardinality(R) <= Cardinality(S)
  BY <1>2, FS_Subset, FS_CardinalityType
<1>5. QED BY <1>2, <1>3, <1>4

LEMMA ToldAreCounted ==
    ASSUME NEW l, Corpus(l), NEW T \in SUBSET l.told
    PROVE  IsFiniteSet(T) /\ Cardinality(T) \in Nat /\ Cardinality(T) <= Cardinality(l.kept)
<1> DEFINE f == [r \in T |-> r.of]
<1>1. IsFiniteSet(l.kept) BY KeptAreCounted
<1>2. f \in [T -> l.kept] /\ \A r, t \in T : f[r] = f[t] => r = t BY DEF Corpus
<1>3. f \in Injection(T, l.kept) BY <1>2 DEF Injection, IsInjective
<1> HIDE DEF f
<1>4. IsFiniteSet(T) /\ Cardinality(T) <= Cardinality(l.kept) BY <1>1, <1>3, FS_Injection
<1>5. QED BY <1>4, FS_CardinalityType

\* How strongly a page frustrates is a number.
LEMMA MagnitudeIsNumber ==
    ASSUME NEW t \in Transcripts, NEW o, NEW kind
    PROVE  Magnitude(t, o, kind) \in Nat
<1> DEFINE beats == BeatsOn(t, o, kind)
<1>1. IsTranscript(t) BY DetectionAssumption
<1>2. beats \in SUBSET (1 .. Len(t)) /\ Len(t) \in Nat BY <1>1 DEF BeatsOn, IsTranscript
<1>3. IsFiniteSet(beats)
  <2>1. IsFiniteSet(1 .. Len(t)) BY <1>2, FS_Interval
  <2>2. QED BY <1>2, <2>1, FS_Subset
<1>4. \A i \in beats : t[i].kind = kind /\ i \in DOMAIN t BY DEF BeatsOn
<1> HIDE DEF beats
<1>5. ASSUME kind \in {"rage_click", "field_refocus"}
      PROVE  Largest({t[i].times : i \in beats}) \in Nat
  <2> DEFINE f == [i \in beats |-> t[i].times]
  <2>1. \A i \in beats : t[i].times \in Nat BY <1>1, <1>4, <1>5 DEF IsTranscript
  <2>2. {f[i] : i \in beats} = {t[i].times : i \in beats} OBVIOUS
  <2>3. IsFiniteSet({t[i].times : i \in beats})
    <3> HIDE DEF f
    <3>1. QED BY <1>3, <2>2, ImageIsFinite
  <2>4. {t[i].times : i \in beats} \in SUBSET Nat BY <2>1
  <2>5. QED BY <2>3, <2>4, LargestIsLargest
<1>6. Largest({Cardinality({j \in beats : t[j].key = t[i].key}) : i \in beats}) \in Nat
  <2> DEFINE f == [i \in beats |-> Cardinality({j \in beats : t[j].key = t[i].key})]
             N == {Cardinality({j \in beats : t[j].key = t[i].key}) : i \in beats}
  <2>1. \A i \in beats : Cardinality({j \in beats : t[j].key = t[i].key}) \in Nat
    <3>1. SUFFICES ASSUME NEW i \in beats
                   PROVE  Cardinality({j \in beats : t[j].key = t[i].key}) \in Nat
      OBVIOUS
    <3>2. {j \in beats : t[j].key = t[i].key} \in SUBSET beats OBVIOUS
    <3>3. IsFiniteSet({j \in beats : t[j].key = t[i].key}) BY <1>3, <3>2, FS_Subset
    <3>4. QED BY <3>3, FS_CardinalityType
  <2>2. {f[i] : i \in beats} = N OBVIOUS
  <2>3. N \in SUBSET Nat BY <2>1
  <2> HIDE DEF N, f
  <2>4. IsFiniteSet(N) BY <1>3, <2>2, ImageIsFinite
  <2>5. Largest(N) \in Nat BY <2>3, <2>4, LargestIsLargest
  <2>6. QED BY <2>5 DEF N
<1>7. Cardinality({t[i].key : i \in beats}) \in Nat
  <2> DEFINE f == [i \in beats |-> t[i].key]
  <2>1. {f[i] : i \in beats} = {t[i].key : i \in beats} OBVIOUS
  <2>2. IsFiniteSet({t[i].key : i \in beats})
    <3> HIDE DEF f
    <3>1. QED BY <1>3, <2>1, ImageIsFinite
  <2>3. QED BY <2>2, FS_CardinalityType
<1>8. Cardinality(beats) \in Nat BY <1>3, FS_CardinalityType
<1>9. QED BY <1>5, <1>6, <1>7, <1>8 DEF Magnitude, beats

(* A drop-off is claimed of sessions that were kept, and the struggle that  *)
(* may prove it is of this surface.                                        *)
FunnelClaim(l, c, o) ==
    LET visits == {Cardinality(Visits(l.events, s, o)) : s \in AtOrigin(l.kept, l.events, o)}
    IN  /\ c.detector = "funnel_dropoff" /\ c.class = "confusing" /\ c.surface = o
        /\ c.signals \subseteq
               {[kind |-> "struggle", subkind |-> "repeated_attempt", surface |-> o,
                 attempts |-> Largest(visits),
                 sessions |-> Cardinality(Strugglers(l.kept, l.events, o))]}
        /\ c.counts = {Cardinality(AtOrigin(l.kept, l.events, o)),
                       Cardinality(Failed(l.kept, l.events, o))}

LEMMA FunnelClaims ==
    ASSUME NEW l, NEW c \in Funnel(l)
    PROVE  \E o \in Surfaces : FunnelClaim(l, c, o)
<1>1. PICK o \in Surfaces :
          c = LET S == l.kept
                  E == l.events
                  visits == {Cardinality(Visits(E, s, o)) : s \in AtOrigin(S, E, o)}
              IN  [detector |-> "funnel_dropoff", class |-> "confusing", surface |-> o,
                   signals |-> IF Largest(visits) < RepeatMin THEN {}
                               ELSE {[kind |-> "struggle", subkind |-> "repeated_attempt",
                                      surface |-> o, attempts |-> Largest(visits),
                                      sessions |-> Cardinality(Strugglers(S, E, o))]},
                   counts |-> {Cardinality(AtOrigin(S, E, o)), Cardinality(Failed(S, E, o))}]
  BY DEF Funnel
<1>2. QED BY <1>1 DEF FunnelClaim

ErrorClaim(l, c, o) ==
    LET correlated == {x \in Group(l, o) : IsCorrelated(l.events, x)}
    IN  /\ c.detector = "error_event" /\ c.class = "broken" /\ c.surface = o
        /\ \A sig \in c.signals :
               \/ /\ sig.kind = "failure_correlated"
                  /\ sig.sessions = Cardinality(SessionsOf(correlated))
                  /\ \E x \in correlated : sig.at = x.at
               \/ sig.kind = "failure_uncorrelated"
        /\ c.counts = {Cardinality(SessionsOf(Group(l, o)))}

LEMMA ErrorClaims ==
    ASSUME NEW l, NEW c \in Errors(l)
    PROVE  \E o \in Surfaces : ErrorClaim(l, c, o)
<1>1. PICK o \in Surfaces :
          c = LET group == Group(l, o)
                  correlated ==
                      Cardinality(SessionsOf({x \in group : IsCorrelated(l.events, x)}))
              IN  [detector |-> "error_event", class |-> "broken", surface |-> o,
                   signals |-> {IF IsCorrelated(l.events, x)
                                THEN [kind |-> "failure_correlated", at |-> x.at,
                                      sessions |-> correlated]
                                ELSE [kind |-> "failure_uncorrelated", at |-> x.at] : x \in group},
                   counts |-> {Cardinality(SessionsOf(group))}]
  BY DEF Errors
<1> DEFINE correlated == {x \in Group(l, o) : IsCorrelated(l.events, x)}
           n == Cardinality(SessionsOf(correlated))
           sigs == {IF IsCorrelated(l.events, x)
                    THEN [kind |-> "failure_correlated", at |-> x.at, sessions |-> n]
                    ELSE [kind |-> "failure_uncorrelated", at |-> x.at] : x \in Group(l, o)}
<1>2. /\ c.detector = "error_event" /\ c.class = "broken" /\ c.surface = o
      /\ c.counts = {Cardinality(SessionsOf(Group(l, o)))} /\ c.signals = sigs
  BY <1>1
<1>3. ASSUME NEW sig \in sigs
      PROVE  \/ /\ sig.kind = "failure_correlated" /\ sig.sessions = n
                /\ \E x \in correlated : sig.at = x.at
             \/ sig.kind = "failure_uncorrelated"
  <2> HIDE DEF n
  <2>1. PICK x \in Group(l, o) :
            sig = IF IsCorrelated(l.events, x)
                  THEN [kind |-> "failure_correlated", at |-> x.at, sessions |-> n]
                  ELSE [kind |-> "failure_uncorrelated", at |-> x.at]
    OBVIOUS
  <2>2. CASE IsCorrelated(l.events, x)
    <3>1. x \in correlated BY <2>2
    <3>2. sig.kind = "failure_correlated" /\ sig.sessions = n /\ sig.at = x.at BY <2>1, <2>2
    <3>3. QED BY <3>1, <3>2
  <2>3. CASE ~IsCorrelated(l.events, x) BY <2>1, <2>3
  <2>4. QED BY <2>2, <2>3
<1>4. QED BY <1>2, <1>3 DEF ErrorClaim

ObservedClaim(l, c, o) ==
    \E kind \in Beats :
        /\ c.detector = "observed_struggle" /\ c.class = "confusing" /\ c.surface = o
        /\ c.signals =
               {[kind |-> "struggle", subkind |-> kind, surface |-> o,
                 attempts |-> Largest({Magnitude(r.told, o, kind) : r \in Qualifying(l, o, kind)}),
                 sessions |-> Cardinality(Qualifying(l, o, kind))]}
        /\ c.counts = {Cardinality({r \in l.told : o \in Reached(r.told)}),
                       Cardinality(Qualifying(l, o, kind))}

\* The kind of beat reported is the first of the precedence that qualifies.
LEMMA WinnerIsFirst ==
    ASSUME NEW l, NEW o, \E i \in DOMAIN Precedence : Qualifies(l, o, i)
    PROVE  Precedence[Winner(l, o)] \in Beats
<1> DEFINE Q == {i \in 1 .. 5 : Qualifies(l, o, i)}
<1>1. DOMAIN Precedence = 1 .. 5 BY DEF Precedence
<1>2. Q \in SUBSET Nat /\ Q # {} BY <1>1
<1>3. Smallest(Q) \in Q /\ \A n \in Q : Smallest(Q) <= n
  <2> HIDE DEF Q
  <2>1. QED BY <1>2, SmallestIsSmallest
<1>4. /\ Smallest(Q) \in 1 .. 5 /\ Qualifies(l, o, Smallest(Q))
      /\ \A j \in 1 .. Smallest(Q) - 1 : ~Qualifies(l, o, j)
  <2>1. Smallest(Q) \in 1 .. 5 /\ Qualifies(l, o, Smallest(Q)) BY <1>3
  <2>2. SUFFICES ASSUME NEW j \in 1 .. Smallest(Q) - 1, Qualifies(l, o, j) PROVE FALSE BY <2>1
  <2>3. j \in Q /\ ~(Smallest(Q) <= j) BY <2>1, <2>2
  <2>4. QED BY <1>3, <2>3
<1>5. Winner(l, o) \in 1 .. 5
  <2> HIDE DEF Q
  <2>1. QED BY <1>1, <1>4 DEF Winner
<1>6. \A i \in 1 .. 5 : Precedence[i] \in Beats BY DEF Precedence, Beats
<1>7. QED BY <1>5, <1>6

LEMMA ObservedClaims ==
    ASSUME NEW l, NEW c \in Observed(l)
    PROVE  \E o \in Surfaces : ObservedClaim(l, c, o)
<1>1. PICK o \in {o \in Surfaces : \E i \in DOMAIN Precedence : Qualifies(l, o, i)} :
          c = LET kind == Precedence[Winner(l, o)]
                  those == Qualifying(l, o, kind)
              IN  [detector |-> "observed_struggle", class |-> "confusing", surface |-> o,
                   signals |-> {[kind |-> "struggle", subkind |-> kind, surface |-> o,
                                 attempts |-> Largest({Magnitude(r.told, o, kind) : r \in those}),
                                 sessions |-> Cardinality(those)]},
                   counts |-> {Cardinality({r \in l.told : o \in Reached(r.told)}),
                               Cardinality(those)}]
  BY DEF Observed
<1>2. Precedence[Winner(l, o)] \in Beats BY <1>1, WinnerIsFirst
<1>3. ObservedClaim(l, c, o) BY <1>1, <1>2 DEF ObservedClaim
<1>4. QED BY <1>1, <1>3

LEMMA Claims ==
    ASSUME NEW l, NEW c \in Candidates(l)
    PROVE  \E o \in Surfaces : FunnelClaim(l, c, o) \/ ErrorClaim(l, c, o) \/ ObservedClaim(l, c, o)
BY FunnelClaims, ErrorClaims, ObservedClaims DEF Candidates

\* Every count of a claim is of sessions that were kept.
LEMMA ClaimsCountTheKept ==
    ASSUME NEW l, Corpus(l), NEW c \in Candidates(l)
    PROVE  /\ \A n \in c.counts : n <= Cardinality(l.kept)
           /\ \A sig \in c.signals : /\ sig.kind \in {"struggle", "failure_correlated",
                                                      "failure_uncorrelated"}
                                     /\ sig.kind # "failure_uncorrelated" =>
                                            /\ sig.sessions \in Nat
                                            /\ sig.sessions <= Cardinality(l.kept)
<1> USE KeptAreCounted, ToldAreCounted
<1>1. PICK o \in Surfaces :
          FunnelClaim(l, c, o) \/ ErrorClaim(l, c, o) \/ ObservedClaim(l, c, o)
  BY Claims
<1>2. CASE FunnelClaim(l, c, o)
  <2>1. /\ AtOrigin(l.kept, l.events, o) \in SUBSET l.kept
        /\ Failed(l.kept, l.events, o) \in SUBSET l.kept
        /\ Strugglers(l.kept, l.events, o) \in SUBSET l.kept
    BY DEF AtOrigin, Failed, Strugglers
  <2>2. /\ Cardinality(AtOrigin(l.kept, l.events, o)) <= Cardinality(l.kept)
        /\ Cardinality(Failed(l.kept, l.events, o)) <= Cardinality(l.kept)
        /\ Cardinality(Strugglers(l.kept, l.events, o)) <= Cardinality(l.kept)
        /\ Cardinality(Strugglers(l.kept, l.events, o)) \in Nat
    BY <2>1
  <2>3. \A n \in c.counts : n <= Cardinality(l.kept) BY <1>2, <2>2 DEF FunnelClaim
  <2>4. \A sig \in c.signals : /\ sig.kind = "struggle"
                               /\ sig.sessions = Cardinality(Strugglers(l.kept, l.events, o))
    <3> DEFINE n == Cardinality(Strugglers(l.kept, l.events, o))
    <3>1. PICK m : c.signals \subseteq {[kind |-> "struggle", subkind |-> "repeated_attempt",
                                        surface |-> o, attempts |-> m, sessions |-> n]}
      BY <1>2 DEF FunnelClaim
    <3> HIDE DEF n
    <3>2. \A sig \in c.signals : sig.kind = "struggle" /\ sig.sessions = n BY <3>1
    <3>3. QED BY <3>2 DEF n
  <2>5. QED BY <2>2, <2>3, <2>4
<1>3. CASE ErrorClaim(l, c, o)
  <2>1. \A X \in SUBSET Group(l, o) :
            /\ Cardinality(SessionsOf(X)) \in Nat
            /\ Cardinality(SessionsOf(X)) <= Cardinality(l.kept)
    <3>1. SUFFICES ASSUME NEW X \in SUBSET Group(l, o)
                   PROVE  /\ Cardinality(SessionsOf(X)) \in Nat
                          /\ Cardinality(SessionsOf(X)) <= Cardinality(l.kept)
      OBVIOUS
    <3>2. SessionsOf(X) \in SUBSET l.kept BY DEF SessionsOf, Group, Exceptions
    <3>3. QED BY <3>2
  <2>2. {x \in Group(l, o) : IsCorrelated(l.events, x)} \in SUBSET Group(l, o) OBVIOUS
  <2>3. QED BY <1>3, <2>1, <2>2 DEF ErrorClaim
<1>4. CASE ObservedClaim(l, c, o)
  <2>1. PICK kind \in Beats :
            /\ c.signals =
                 {[kind |-> "struggle", subkind |-> kind, surface |-> o,
                   attempts |-> Largest({Magnitude(r.told, o, kind) : r \in Qualifying(l, o, kind)}),
                   sessions |-> Cardinality(Qualifying(l, o, kind))]}
            /\ c.counts = {Cardinality({r \in l.told : o \in Reached(r.told)}),
                           Cardinality(Qualifying(l, o, kind))}
    BY <1>4 DEF ObservedClaim
  <2>2. /\ Qualifying(l, o, kind) \in SUBSET l.told
        /\ {r \in l.told : o \in Reached(r.told)} \in SUBSET l.told
    BY DEF Qualifying
  <2>3. /\ Cardinality({r \in l.told : o \in Reached(r.told)}) <= Cardinality(l.kept)
        /\ Cardinality(Qualifying(l, o, kind)) <= Cardinality(l.kept)
        /\ Cardinality(Qualifying(l, o, kind)) \in Nat
    BY <2>2
  <2>4. QED BY <2>1, <2>3
<1>5. QED BY <1>1, <1>2, <1>3, <1>4

\* The gate lets a claim through on a class of its ladder that is proved by
\* the signals that are about it, and each detector has one such class.
LEMMA ProvedClass ==
    ASSUME NEW l, NEW c \in Candidates(l), FinalClass(l, c) # "drop"
    PROVE  /\ FinalClass(l, c) = IF c.detector = "error_event" THEN "broken" ELSE "confusing"
           /\ \E sig \in Proofs(c.signals, FinalClass(l, c)) : IsAboutClaim(l, c, sig)
           /\ ProofKinds(l, c) = Proves[FinalClass(l, c)]
<1> DEFINE about == {sig \in c.signals : IsAboutClaim(l, c, sig)}
           ladder == Ladder[c.class]
           stands(i) == Proofs(about, ladder[i]) # {}
<1>1. PICK o \in Surfaces :
          FunnelClaim(l, c, o) \/ ErrorClaim(l, c, o) \/ ObservedClaim(l, c, o)
  BY Claims
<1>2. FinalClass(l, c) = IF \E i \in DOMAIN ladder : stands(i)
                         THEN ladder[CHOOSE i \in DOMAIN ladder :
                                         stands(i) /\ \A j \in 1 .. i - 1 : ~stands(j)]
                         ELSE "drop"
  BY DEF FinalClass
<1>p. Proves["broken"] = {"failure_correlated"} /\ Proves["confusing"] = {"struggle"}
  BY DEF Proves
<1>q. ASSUME NEW class \in {"broken", "confusing"}, FinalClass(l, c) = class,
             Proofs(about, class) # {}
      PROVE  /\ \E sig \in Proofs(c.signals, FinalClass(l, c)) : IsAboutClaim(l, c, sig)
             /\ ProofKinds(l, c) = Proves[FinalClass(l, c)]
  <2>1. PICK sig \in about : sig.kind \in Proves[class] /\ MagnitudeSatisfied(sig)
    BY <1>q DEF Proofs
  <2>2. sig \in Proofs(c.signals, class) /\ IsAboutClaim(l, c, sig) BY <2>1 DEF Proofs
  <2>3. ProofKinds(l, c) = Proves[class] BY <1>p, <1>q, <2>1 DEF ProofKinds
  <2>4. QED BY <1>q, <2>2, <2>3
<1>3. CASE c.class = "confusing" /\ c.detector # "error_event"
  <2>1. ladder = <<"confusing">> BY <1>3 DEF Ladder
  <2>2. DOMAIN ladder = {1} /\ ladder[1] = "confusing" BY <2>1
  <2> HIDE DEF stands, ladder
  <2>3. stands(1) BY <1>2, <2>2
  <2>4. FinalClass(l, c) = "confusing" BY <1>2, <2>2, <2>3
  <2>5. Proofs(about, "confusing") # {} BY <2>2, <2>3 DEF stands
  <2>6. QED BY <1>3, <1>q, <2>4, <2>5
<1>4. CASE ErrorClaim(l, c, o)
  <2>1. c.class = "broken" /\ c.detector = "error_event" BY <1>4 DEF ErrorClaim
  <2>2. ladder = <<"broken", "confusing">> BY <2>1 DEF Ladder
  <2>3. DOMAIN ladder = {1, 2} /\ ladder[1] = "broken" /\ ladder[2] = "confusing" BY <2>2
  <2>4. ~stands(2)
    <3>1. \A sig \in c.signals : sig.kind # "struggle" BY <1>4 DEF ErrorClaim
    <3>2. QED BY <1>p, <2>3, <3>1 DEF Proofs
  <2> HIDE DEF stands, ladder
  <2>5. stands(1) BY <1>2, <2>3, <2>4
  <2>6. FinalClass(l, c) = "broken"
    <3> DEFINE first(i) == stands(i) /\ \A j \in 1 .. i - 1 : ~stands(j)
    <3>1. first(1) BY <2>5
    <3>2. \A i \in DOMAIN ladder : first(i) => i = 1 BY <2>3, <2>4
    <3> HIDE DEF first
    <3>3. (CHOOSE i \in DOMAIN ladder : first(i)) = 1 BY <2>3, <3>1, <3>2
    <3>4. (CHOOSE i \in DOMAIN ladder : stands(i) /\ \A j \in 1 .. i - 1 : ~stands(j)) = 1
      BY <3>3 DEF first
    <3>5. QED BY <1>2, <2>3, <2>5, <3>4
  <2>7. Proofs(about, "broken") # {} BY <2>3, <2>5 DEF stands
  <2>8. QED BY <1>q, <2>1, <2>6, <2>7
<1>5. CASE FunnelClaim(l, c, o) BY <1>3, <1>5 DEF FunnelClaim
<1>6. CASE ObservedClaim(l, c, o) BY <1>3, <1>6 DEF ObservedClaim
<1>7. QED BY <1>1, <1>4, <1>5, <1>6

\* An exception is correlated with something somebody did just before it.
LEMMA CorrelatedFollows ==
    ASSUME NEW l, Corpus(l), NEW o, NEW x \in Group(l, o), IsCorrelated(l.events, x)
    PROVE  \E a \in l.events :
               /\ a.of = x.of /\ a.name = "act" /\ a.at < x.at
               /\ x.at - a.at <= Correlation
               /\ \A e \in l.events :
                      e.of = x.of /\ a.at < e.at /\ e.at < x.at => e.name = "exception"
               /\ o = IF x.path # NoPath THEN x.path ELSE a.path
<1> DEFINE E == l.events
           others == {e \in Before(E, x) : e.name # "exception"}
           a == Last(others)
<1>1. /\ E \in SUBSET Event /\ x \in E /\ Attribution(E, x) = o
      /\ \A e \in E : e.at \in Nat /\ e.name \in {"act", "view", "exception"}
  BY InstantsAreNumbers DEF Corpus, Group, Exceptions
<1>2. PICK b \in ActBefore(E, x) : x.at - b.at <= Correlation BY DEF IsCorrelated
<1>3. others # {} /\ a.name # "view" /\ ActBefore(E, x) = {a} /\ b = a
  BY <1>2 DEF ActBefore
<1>4. others \in SUBSET Event BY <1>1 DEF Before
<1>5. a \in others /\ \A d \in others : d.at <= a.at
  <2> HIDE DEF others
  <2>1. QED BY <1>3, <1>4, LastEvent
<1>6. a \in E /\ a.of = x.of /\ a.at < x.at /\ a.name = "act"
  BY <1>1, <1>3, <1>5 DEF Before
<1>7. ASSUME NEW e \in E, e.of = x.of, a.at < e.at, e.at < x.at PROVE e.name = "exception"
  <2>1. SUFFICES ASSUME e.name # "exception" PROVE FALSE OBVIOUS
  <2>2. e \in others BY <1>7, <2>1 DEF Before
  <2> HIDE DEF others
  <2>3. e.at <= a.at BY <1>5, <2>2
  <2>4. QED BY <1>1, <1>6, <1>7, <2>3
<1> HIDE DEF others
<1>8. o = IF x.path # NoPath THEN x.path ELSE a.path
  <2>1. {a} \in SUBSET Event /\ {a} # {} BY <1>1, <1>6
  <2>2. Last({a}) = a BY <2>1, LastEvent
  <2>3. QED BY <1>1, <1>3, <2>2 DEF Attribution
<1>9. QED BY <1>2, <1>3, <1>6, <1>7, <1>8

\* A struggle's magnitudes are numbers, and so are the floors it is held to.
LEMMA StruggleIsMeasured ==
    ASSUME NEW l, Corpus(l), NEW c \in Candidates(l), NEW sig \in c.signals,
           sig.kind = "struggle"
    PROVE  /\ sig.sessions \in Nat /\ sig.attempts \in Nat
           /\ Floors(sig).sessions \in Nat /\ Floors(sig).attempts \in Nat
           /\ sig.surface = c.surface
           /\ Floors(sig).sessions = IF c.detector = "funnel_dropoff"
                                     THEN StruggleMin ELSE ObservedMin
<1>1. PICK o \in Surfaces :
          FunnelClaim(l, c, o) \/ ErrorClaim(l, c, o) \/ ObservedClaim(l, c, o)
  BY Claims
<1>2. sig.sessions \in Nat BY ClaimsCountTheKept
<1>3. /\ {RepeatMin, StruggleMin, ObservedMin} \subseteq Nat
      /\ \A kind \in Beats : BeatMin[kind] \in Nat /\ kind # "repeated_attempt"
  BY DetectionAssumption DEF Beats
<1>4. CASE FunnelClaim(l, c, o)
  <2> DEFINE visits == {Cardinality(Visits(l.events, s, o)) : s \in AtOrigin(l.kept, l.events, o)}
  <2>1. /\ sig.attempts = Largest(visits) /\ sig.subkind = "repeated_attempt"
        /\ sig.surface = c.surface /\ c.detector = "funnel_dropoff"
    BY <1>4 DEF FunnelClaim
  <2>2. \A s \in AtOrigin(l.kept, l.events, o) : Cardinality(Visits(l.events, s, o)) \in Nat
    <3>1. SUFFICES ASSUME NEW s \in AtOrigin(l.kept, l.events, o)
                   PROVE  Cardinality(Visits(l.events, s, o)) \in Nat
      OBVIOUS
    <3>2. IsFiniteSet(Visits(l.events, s, o)) BY VisitsAreFinite DEF Corpus
    <3>3. QED BY <3>2, FS_CardinalityType
  <2>3. visits \in SUBSET Nat BY <2>2
  <2>4. IsFiniteSet(visits)
    <3> DEFINE f == [s \in AtOrigin(l.kept, l.events, o) |-> Cardinality(Visits(l.events, s, o))]
    <3>1. visits = {f[s] : s \in AtOrigin(l.kept, l.events, o)} OBVIOUS
    <3>2. AtOrigin(l.kept, l.events, o) \in SUBSET l.kept BY DEF AtOrigin
    <3>3. IsFiniteSet(AtOrigin(l.kept, l.events, o)) BY <3>2, KeptAreCounted
    <3> HIDE DEF f, visits
    <3>4. QED BY <3>1, <3>3, ImageIsFinite
  <2> HIDE DEF visits
  <2>5. sig.attempts \in Nat BY <2>1, <2>3, <2>4, LargestIsLargest
  <2>6. Floors(sig) = [attempts |-> RepeatMin, sessions |-> StruggleMin]
    BY <2>1 DEF Floors
  <2>7. QED BY <1>2, <1>3, <2>1, <2>5, <2>6
<1>5. CASE ErrorClaim(l, c, o) BY <1>5 DEF ErrorClaim
<1>6. CASE ObservedClaim(l, c, o)
  <2>1. PICK kind \in Beats :
            /\ c.detector = "observed_struggle" /\ c.surface = o
            /\ c.signals =
                 {[kind |-> "struggle", subkind |-> kind, surface |-> o,
                   attempts |-> Largest({Magnitude(r.told, o, kind) : r \in Qualifying(l, o, kind)}),
                   sessions |-> Cardinality(Qualifying(l, o, kind))]}
    BY <1>6 DEF ObservedClaim
  <2> DEFINE those == Qualifying(l, o, kind)
             N == {Magnitude(r.told, o, kind) : r \in those}
  <2>2. /\ sig.attempts = Largest(N) /\ sig.subkind = kind /\ sig.surface = o
        /\ c.surface = o /\ c.detector = "observed_struggle"
    BY <2>1
  <2>3. those \in SUBSET l.told BY DEF Qualifying
  <2>4. N \in SUBSET Nat
    <3>1. \A r \in those : r.told \in Transcripts BY <2>3 DEF Corpus, Recording
    <3>2. QED BY <3>1, MagnitudeIsNumber
  <2>5. IsFiniteSet(N)
    <3> DEFINE f == [r \in those |-> Magnitude(r.told, o, kind)]
    <3>1. N = {f[r] : r \in those} OBVIOUS
    <3>2. IsFiniteSet(those) BY <2>3, ToldAreCounted
    <3> HIDE DEF f, N, those
    <3>3. QED BY <3>1, <3>2, ImageIsFinite
  <2> HIDE DEF N
  <2>6. sig.attempts \in Nat BY <2>2, <2>4, <2>5, LargestIsLargest
  <2>7. Floors(sig) = [attempts |-> BeatMin[kind], sessions |-> ObservedMin]
    BY <1>3, <2>2 DEF Floors
  <2>8. QED BY <1>2, <1>3, <2>2, <2>6, <2>7
<1>7. QED BY <1>1, <1>4, <1>5, <1>6

-----------------------------------------------------------------------------
(* What a lane may have read, in whatever order all is stored.             *)

LaneInv ==
    /\ lane.unchecked \subseteq lane.kept /\ lane.kept \subseteq lane.read
    /\ lane.events \subseteq events
    /\ \A r, t \in lane.told : r.of \in lane.kept /\ (r.of = t.of => r = t)
    /\ lane.at # "detect" => lane.told = {}

(* What has been proposed of a surface is known by its detector alone.     *)
Known(p) ==
    LET class == IF p.detector = "error_event" THEN "broken" ELSE "confusing"
    IN  /\ p.detector \in {"funnel_dropoff", "error_event", "observed_struggle"}
        /\ p = [detector |-> p.detector, surface |-> p.surface, class |-> class,
                shape |-> Proves[class]]

DetectionInv ==
    /\ TypeOK
    /\ OneAtATime(events \cup pull)
    /\ LaneInv
    /\ \A p \in proposed : Known(p)

LEMMA CorpusRead == DetectionInv => Corpus(lane)
<1> SUFFICES ASSUME DetectionInv PROVE Corpus(lane) OBVIOUS
<1>1. lane \in Lane /\ events \subseteq Event /\ MaxAt \in Nat
  BY InstantsAreNumbers DEF DetectionInv, TypeOK
<1>2. lane.kept \in SUBSET Sessions /\ lane.end \in 0 .. MaxAt /\ lane.events \in SUBSET Event
      /\ lane.told \in SUBSET Recording
  BY <1>1 DEF Lane
<1>3. OneAtATime(lane.events) BY DEF DetectionInv, LaneInv, OneAtATime
<1>4. QED BY <1>1, <1>2, <1>3 DEF Corpus, DetectionInv, LaneInv

LEMMA IdleLane ==
    /\ Idle \in Lane /\ Idle.at = "idle"
    /\ Idle.unchecked = {} /\ Idle.kept = {} /\ Idle.events = {} /\ Idle.told = {}
<1>1. (CHOOSE r \in RuleSets : TRUE) \in RuleSets BY DetectionAssumption
<1>2. 0 \in 0 .. MaxAt BY InstantsAreNumbers
<1>3. QED BY <1>1, <1>2 DEF Idle, Lane

\* What passes the gate is known by its detector and its surface.
LEMMA IdentityIsKnown ==
    ASSUME NEW l, NEW c \in Passed(l)
    PROVE  Known(Identity(l, c))
<1>1. c \in Candidates(l) /\ FinalClass(l, c) # "drop" BY DEF Passed
<1>2. /\ FinalClass(l, c) = IF c.detector = "error_event" THEN "broken" ELSE "confusing"
      /\ ProofKinds(l, c) = Proves[FinalClass(l, c)]
  BY <1>1, ProvedClass
<1>3. c.detector \in {"funnel_dropoff", "error_event", "observed_struggle"}
  BY <1>1, Claims DEF FunnelClaim, ErrorClaim, ObservedClaim
<1>4. QED BY <1>2, <1>3 DEF Known, Identity

LEMMA RowTypes ==
    ASSUME NEW r \in Row, NEW f \in Facts, NEW at \in Instants
    PROVE  Merged(r, f, at) \in Row
<1>1. f \in [rank : 1 .. 3, reason : Reasons] BY DetectionAssumption
<1>2. at \in 0 .. MaxAt BY InstantsAreNumbers DEF Instants
<1>3. QED BY <1>1, <1>2, InstantsAreNumbers DEF Merged, Row, Larger, Smaller

LEMMA DetectionInitially == Init => DetectionInv
<1> SUFFICES ASSUME Init PROVE DetectionInv OBVIOUS
<1>1. events \subseteq Event
  <2>1. \A h \in [1 .. MaxEvents -> Event] : {h[i] : i \in 1 .. MaxEvents} \subseteq Event OBVIOUS
  <2>2. QED BY <2>1 DEF Init
<1>2. row \in [Sessions -> Row]
  <2>1. PICK f \in Facts :
            row = [s \in Sessions |->
                      LET own == {e.at : e \in {e \in events : e.of = s}}
                      IN  IF own = {} THEN NoRow
                          ELSE [rank |-> f.rank, reason |-> f.reason, start |-> Smallest(own)]]
    BY DEF Init
  <2>2. f \in [rank : 1 .. 3, reason : Reasons] BY DetectionAssumption
  <2>3. NoRow \in Row
    <3>1. 0 \in 0 .. MaxAt BY InstantsAreNumbers
    <3>2. QED BY <3>1 DEF NoRow, Row, Reasons
  <2>4. ASSUME NEW s \in Sessions
        PROVE  LET own == {e.at : e \in {e \in events : e.of = s}}
               IN  own # {} => [rank |-> f.rank, reason |-> f.reason, start |-> Smallest(own)] \in Row
    <3> DEFINE mine == {e \in events : e.of = s}
               own == {e.at : e \in mine}
    <3>1. mine \in SUBSET Event BY <1>1
    <3>2. own \in SUBSET Nat /\ own \in SUBSET Instants BY <3>1, InstantsAreNumbers
    <3> HIDE DEF own
    <3>3. own # {} => Smallest(own) \in Instants BY <3>2, SmallestIsSmallest
    <3>4. own # {} => Smallest(own) \in 0 .. MaxAt BY <3>3, InstantsAreNumbers DEF Instants
    <3>5. own # {} => [rank |-> f.rank, reason |-> f.reason, start |-> Smallest(own)] \in Row
      BY <2>2, <3>4 DEF Row
    <3>6. QED BY <3>5 DEF own
  <2>5. QED BY <2>1, <2>3, <2>4
<1>3. pulls \in 0 .. MaxPulls
  <2>1. MaxPulls \in Nat BY DetectionAssumption
  <2>2. QED BY <2>1 DEF Init
<1>4. pull = {} /\ proposed = {} /\ lane = Idle /\ OneAtATime(events) BY DEF Init
<1>5. TypeOK BY <1>1, <1>2, <1>3, <1>4, IdleLane DEF TypeOK
<1>6. LaneInv BY <1>4, IdleLane DEF LaneInv
<1>7. QED BY <1>4, <1>5, <1>6 DEF DetectionInv

LEMMA DetectionStep ==
    ASSUME DetectionInv, [Next]_vars
    PROVE  DetectionInv'
<1>t. /\ row \in [Sessions -> Row] /\ events \subseteq Event /\ pull \subseteq Event
      /\ pulls \in 0 .. MaxPulls /\ lane \in Lane
  BY DEF DetectionInv, TypeOK
<1>k. \A p \in proposed : Known(p) BY DEF DetectionInv
<1>l. LaneInv /\ OneAtATime(events \cup pull) BY DEF DetectionInv
<1>d. \A p : Known(p) => p.detector \in {"funnel_dropoff", "error_event", "observed_struggle"}
  BY DEF Known
<1>p. ASSUME lane' \in Lane, LaneInv', UNCHANGED <<row, events, pulls, pull>>,
             \A p \in proposed' : Known(p)
      PROVE  DetectionInv'
  BY <1>p, <1>t, <1>l, <1>d DEF DetectionInv, TypeOK
<1>i. lane' = Idle => lane' \in Lane /\ LaneInv' BY IdleLane DEF LaneInv
<1>1. CASE StoreSession
  <2>1. PICK e \in Event :
            /\ \A d \in events : d.of = e.of /\ d.at = e.at => d = e
            /\ pull' = {e}
            /\ \E f \in Facts : row' = [row EXCEPT ![e.of] = Merged(@, f, e.at)]
    BY <1>1 DEF StoreSession
  <2>2. row' \in [Sessions -> Row]
    <3>1. e.at \in Instants /\ e.of \in Sessions BY InstantsAreNumbers
    <3>2. PICK f \in Facts : row' = [row EXCEPT ![e.of] = Merged(@, f, e.at)] BY <2>1
    <3>3. Merged(row[e.of], f, e.at) \in Row BY <1>t, <3>1, RowTypes
    <3>4. QED BY <1>t, <3>2, <3>3
  <2>3. pulls' \in 0 .. MaxPulls
    <3>1. MaxPulls \in Nat BY DetectionAssumption
    <3>2. QED BY <1>1, <1>t, <3>1 DEF StoreSession
  <2>4. UNCHANGED <<events, lane, proposed>> BY <1>1 DEF StoreSession
  <2>5. OneAtATime(events' \cup pull') BY <1>l, <2>1, <2>4 DEF OneAtATime
  <2>6. QED
    BY <1>t, <1>k, <1>l, <2>1, <2>2, <2>3, <2>4, <2>5, <1>d DEF DetectionInv, TypeOK, LaneInv
<1>2. CASE StoreEvents
  <2>1. events' = events \cup pull /\ pull' = {} /\ UNCHANGED <<row, pulls, lane, proposed>>
    BY <1>2 DEF StoreEvents
  <2>2. LaneInv' BY <1>l, <2>1 DEF LaneInv
  <2>3. OneAtATime(events' \cup pull') BY <1>l, <2>1 DEF OneAtATime
  <2>4. QED BY <1>t, <1>k, <2>1, <2>2, <2>3, <1>d DEF DetectionInv, TypeOK
<1>3. CASE LosePull
  <2>1. pull' = {} /\ UNCHANGED <<row, events, pulls, lane, proposed>> BY <1>3 DEF LosePull
  <2>2. OneAtATime(events' \cup pull') BY <1>l, <2>1 DEF OneAtATime
  <2>3. QED BY <1>t, <1>k, <1>l, <2>1, <2>2, <1>d DEF DetectionInv, TypeOK, LaneInv
<1>4. CASE StartLane
  <2> DEFINE end == Largest({e.at : e \in events \cup pull})
  <2>1. PICK rules \in RuleSets :
            lane' = [Idle EXCEPT !.at = "sessions", !.end = end, !.rules = rules]
    BY <1>4 DEF StartLane
  <2>2. end \in 0 .. MaxAt
    <3> DEFINE T == {e.at : e \in events \cup pull}
    <3>1. T \in SUBSET Nat /\ IsFiniteSet(T) BY <1>t, TimesAreFinite
    <3>2. T \in SUBSET Instants BY <1>t, InstantsAreNumbers
    <3> HIDE DEF T
    <3>3. Largest(T) \in Nat /\ (T # {} => Largest(T) \in Instants)
      BY <3>1, <3>2, LargestIsLargest
    <3>4. T = {} => Largest(T) = 0 BY DEF Largest
    <3>5. Largest(T) \in 0 .. MaxAt BY <3>3, <3>4, InstantsAreNumbers DEF Instants
    <3>6. QED BY <3>5 DEF T
  <2> HIDE DEF end
  <2>3. lane' \in Lane /\ lane'.unchecked = {} /\ lane'.kept = {} /\ lane'.events = {}
        /\ lane'.told = {}
    <3>1. Idle \in Lane /\ Idle.unchecked = {} /\ Idle.kept = {} /\ Idle.events = {}
          /\ Idle.told = {}
      BY IdleLane
    <3>2. QED BY <2>1, <2>2, <3>1 DEF Lane
  <2>4. LaneInv' BY <2>3 DEF LaneInv
  <2>5. QED BY <1>4, <1>k, <1>p, <2>3, <2>4 DEF StartLane
<1>5. CASE ReadSessions
  <2>1. PICK S \in SUBSET Sessions :
            LET said(s) == Audience(lane.rules, s, row[s])
                kept == {s \in S : row[s].reason = "none" /\ said(s) # "outside"}
            IN  lane' = [lane EXCEPT !.at = "events", !.read = S, !.kept = kept,
                                     !.unchecked = {s \in kept : said(s) = "unknown"}]
    BY <1>5 DEF ReadSessions
  <2> DEFINE kept == {s \in S : row[s].reason = "none"
                                /\ Audience(lane.rules, s, row[s]) # "outside"}
             unchecked == {s \in kept : Audience(lane.rules, s, row[s]) = "unknown"}
  <2>2. lane' = [lane EXCEPT !.at = "events", !.read = S, !.kept = kept, !.unchecked = unchecked]
    BY <2>1
  <2>3. kept \in SUBSET S /\ unchecked \in SUBSET kept OBVIOUS
  <2> HIDE DEF kept, unchecked
  <2>5. /\ lane' \in Lane /\ lane'.read = S /\ lane'.kept = kept /\ lane'.unchecked = unchecked
        /\ lane'.events = lane.events /\ lane'.told = lane.told
    BY <1>t, <2>2, <2>3 DEF Lane
  <2>6. lane.told = {} BY <1>5, <1>l DEF ReadSessions, LaneInv
  <2>7. LaneInv' BY <1>5, <1>l, <2>3, <2>5, <2>6 DEF LaneInv, ReadSessions
  <2>8. QED BY <1>5, <1>k, <1>p, <2>5, <2>7 DEF ReadSessions
<1>6. CASE ReadEvents
  <2> DEFINE E == {e \in events : e.of \in lane.read}
  <2>1. lane' = [lane EXCEPT !.at = "recordings", !.events = E] BY <1>6 DEF ReadEvents
  <2>2. E \in SUBSET events OBVIOUS
  <2> HIDE DEF E
  <2>3. /\ lane' \in Lane /\ lane'.read = lane.read /\ lane'.kept = lane.kept
        /\ lane'.unchecked = lane.unchecked /\ lane'.events = E /\ lane'.told = lane.told
    BY <1>t, <2>1, <2>2 DEF Lane
  <2>4. LaneInv' BY <1>6, <1>l, <2>2, <2>3 DEF LaneInv, ReadEvents
  <2>5. QED BY <1>6, <1>k, <1>p, <2>3, <2>4 DEF ReadEvents
<1>7. CASE ReadRecordings
  <2>1. PICK T \in SUBSET Recording :
            /\ \A r, t \in T : r.of \in lane.kept /\ (r.of = t.of => r = t)
            /\ lane' = [lane EXCEPT !.at = "detect", !.told = T]
    BY <1>7 DEF ReadRecordings
  <2>2. /\ lane' \in Lane /\ lane'.read = lane.read /\ lane'.kept = lane.kept
        /\ lane'.unchecked = lane.unchecked /\ lane'.events = lane.events /\ lane'.told = T
        /\ lane'.at = "detect"
    BY <1>t, <2>1 DEF Lane
  <2>3. LaneInv' BY <1>7, <1>l, <2>1, <2>2 DEF LaneInv, ReadRecordings
  <2>4. QED BY <1>7, <1>k, <1>p, <2>2, <2>3 DEF ReadRecordings
<1>8. CASE Conclude
  <2>1. /\ proposed' = proposed \cup {Identity(lane, c) : c \in Passed(lane)}
        /\ lane' = Idle /\ UNCHANGED <<row, events, pulls, pull>>
    BY <1>8 DEF Conclude
  <2>2. \A p \in proposed' : Known(p) BY <1>k, <2>1, IdentityIsKnown
  <2>3. QED BY <1>i, <1>p, <2>1, <2>2
<1>9. CASE LaneErrors BY <1>9, <1>i, <1>k, <1>p DEF LaneErrors
<1>10. CASE UNCHANGED vars
  BY <1>10, <1>t, <1>k, <1>l, <1>d DEF vars, DetectionInv, TypeOK, LaneInv
<1>11. QED BY <1>1, <1>2, <1>3, <1>4, <1>5, <1>6, <1>7, <1>8, <1>9, <1>10 DEF Next

LEMMA DetectionInvariant == Spec => []DetectionInv
<1>1. DetectionInv /\ [Next]_vars => DetectionInv' BY DetectionStep
<1>2. QED BY <1>1, DetectionInitially, PTL DEF Spec

(* Every count a lane makes is of the sessions it keeps, and those are of   *)
(* the sessions it read: no analysis is lost to a count that is refused.   *)
THEOREM CountsHold == Spec => []CountsAreOfTheKept
<1>1. DetectionInv => CountsAreOfTheKept
  BY CorpusRead, ClaimsCountTheKept DEF DetectionInv, LaneInv, CountsAreOfTheKept
<1>2. QED BY <1>1, DetectionInvariant, PTL

(* Who is found to have dropped off at a surface ended there, and who came  *)
(* again and again went on.                                                *)
THEOREM DropoffsHold == Spec => []DropoffsEndThere
<1>1. ASSUME DetectionInv PROVE DropoffsEndThere
  <2> DEFINE S == lane.kept
             E == lane.events
  <2>1. E \in SUBSET Event /\ OneAtATime(E) BY <1>1, CorpusRead DEF Corpus
  <2>2. ASSUME NEW o \in Surfaces
        PROVE  Failed(S, E, o) =
                   {s \in S : /\ \E e \in Paths(E, s) : e.path = o
                              /\ \A d, e \in Paths(E, s) : d.at < e.at /\ d.path = o => e.path = o}
    <3>1. ASSUME NEW s \in S
          PROVE  s \in Failed(S, E, o) <=>
                   /\ \E e \in Paths(E, s) : e.path = o
                   /\ \A d, e \in Paths(E, s) : d.at < e.at /\ d.path = o => e.path = o
      <4>1. s \in Failed(S, E, o) <=> s \in AtOrigin(S, E, o) /\ s \notin Succeeded(S, E, o)
        BY DEF Failed, Succeeded
      <4>2. QED BY <2>1, <4>1, SucceededWentOn DEF WentOn
    <3>2. Failed(S, E, o) \subseteq S BY DEF Failed, AtOrigin
    <3>3. QED BY <3>1, <3>2
  <2>3. ASSUME NEW o \in Surfaces, RepeatMin > 1
        PROVE  Strugglers(S, E, o) \subseteq Succeeded(S, E, o)
    <3>1. SUFFICES ASSUME NEW s \in Strugglers(S, E, o) PROVE s \in Succeeded(S, E, o) OBVIOUS
    <3>2. /\ s \in S /\ Visits(E, s, o) # {} /\ Cardinality(Visits(E, s, o)) >= RepeatMin
      BY DEF Strugglers, AtOrigin
    <3>3. \E v, w \in Visits(E, s, o) : v # w
      <4>1. SUFFICES ASSUME \A v, w \in Visits(E, s, o) : v = w PROVE FALSE OBVIOUS
      <4>2. PICK v : Visits(E, s, o) = {v} BY <3>2, <4>1
      <4>3. Cardinality(Visits(E, s, o)) = 1 BY <4>2, FS_Singleton
      <4>4. RepeatMin \in Nat BY DetectionAssumption
      <4>5. QED BY <2>3, <3>2, <4>3, <4>4
    <3>4. WentOn(E, s, o) BY <2>1, <3>3, ComingAgainIsGoingOn
    <3>5. QED BY <2>1, <3>2, <3>4, SucceededWentOn
  <2>4. QED BY <2>2, <2>3 DEF DropoffsEndThere, Paths
<1>2. QED BY <1>1, DetectionInvariant, PTL

(* A session that went on is never found later to have dropped off: that it *)
(* went on is told by two of its events, and events are only added.        *)
THEOREM VerdictsHold == Spec => VerdictsOnlyImprove
<1>1. ASSUME DetectionInv, [Next]_vars
      PROVE  [events' # events =>
                \A o \in Surfaces :
                    Succeeded(Sessions, events, o) \cap Failed(Sessions, events', o) = {}]_vars
  <2>1. DetectionInv' BY <1>1, DetectionStep
  <2>2. /\ events \in SUBSET Event /\ OneAtATime(events)
        /\ events' \in SUBSET Event /\ OneAtATime(events')
    BY <1>1, <2>1 DEF DetectionInv, TypeOK, OneAtATime
  <2>3. events \subseteq events'
    BY <1>1
       DEF Next, vars, StoreSession, StoreEvents, LosePull, StartLane, ReadSessions, ReadEvents,
                ReadRecordings, Conclude, LaneErrors
  <2>4. ASSUME NEW o \in Surfaces, NEW s \in Succeeded(Sessions, events, o)
        PROVE  s \notin Failed(Sessions, events', o)
    <3>1. s \in Sessions BY DEF Succeeded, AtOrigin
    <3>2. WentOn(events, s, o) BY <2>2, <3>1, SucceededWentOn
    <3>3. WentOn(events', s, o) BY <2>3, <3>2 DEF WentOn, Paths
    <3>4. s \in Succeeded(Sessions, events', o) BY <2>2, <3>1, <3>3, SucceededWentOn
    <3>5. QED BY <3>4 DEF Succeeded
  <2>5. QED BY <2>4
<1>2. QED BY <1>1, DetectionInvariant, PTL DEF Spec, VerdictsOnlyImprove

(* What the gate lets through stands on what happened: as broken, on enough *)
(* sessions in which an exception followed an act, as confusing, on enough *)
(* sessions that came there or were recorded there.                        *)
THEOREM ClaimsAreProved == Spec => []NoClaimWithoutProof
<1>1. ASSUME DetectionInv, NEW c \in Passed(lane)
      PROVE  LET follows(a, x) ==
                     /\ a \in lane.events /\ a.of = x.of /\ a.name = "act" /\ a.at < x.at
                     /\ x.at - a.at <= Correlation
                     /\ \A e \in lane.events :
                         e.of = x.of /\ a.at < e.at /\ e.at < x.at => e.name = "exception"
                     /\ c.surface = IF x.path # NoPath THEN x.path ELSE a.path
                 seen == {x \in lane.events : x.of \in lane.kept /\ x.name = "exception"
                                              /\ \E a \in lane.events : follows(a, x)}
             IN  IF FinalClass(lane, c) = "broken"
                 THEN /\ Cardinality({x.of : x \in seen}) >= ErrorMin
                      /\ \E x \in seen : x.at \in Start(lane) .. lane.end
                 ELSE \E sig \in c.signals :
                         /\ sig.kind = "struggle" /\ sig.surface = c.surface
                         /\ sig.sessions >= (IF c.detector = "funnel_dropoff"
                                             THEN StruggleMin ELSE ObservedMin)
                         /\ Confidence(c, "confusing") = "threshold_met" =>
                                /\ sig.sessions > Floors(sig).sessions
                                /\ sig.attempts > Floors(sig).attempts
  <2>1. Corpus(lane) /\ c \in Candidates(lane) /\ FinalClass(lane, c) # "drop"
    BY <1>1, CorpusRead DEF Passed
  <2>2. FinalClass(lane, c) = IF c.detector = "error_event" THEN "broken" ELSE "confusing"
    BY <2>1, ProvedClass
  <2>3. PICK sig \in Proofs(c.signals, FinalClass(lane, c)) : IsAboutClaim(lane, c, sig)
    BY <2>1, ProvedClass
  <2>4. /\ sig \in c.signals /\ sig.kind \in Proves[FinalClass(lane, c)]
        /\ MagnitudeSatisfied(sig)
    BY <2>3 DEF Proofs
  <2>5. CASE FinalClass(lane, c) = "broken"
    <3> DEFINE follows(a, x) ==
                   /\ a \in lane.events /\ a.of = x.of /\ a.name = "act" /\ a.at < x.at
                   /\ x.at - a.at <= Correlation
                   /\ \A e \in lane.events :
                       e.of = x.of /\ a.at < e.at /\ e.at < x.at => e.name = "exception"
                   /\ c.surface = IF x.path # NoPath THEN x.path ELSE a.path
               seen == {x \in lane.events : x.of \in lane.kept /\ x.name = "exception"
                                            /\ \E a \in lane.events : follows(a, x)}
    <3>1. sig.kind = "failure_correlated" BY <2>4, <2>5 DEF Proves
    <3>2. c.detector = "error_event" BY <2>2, <2>5
    <3>3. PICK o \in Surfaces : ErrorClaim(lane, c, o)
      BY <2>1, <3>2, Claims DEF FunnelClaim, ObservedClaim
    <3> DEFINE correlated == {x \in Group(lane, o) : IsCorrelated(lane.events, x)}
    <3>4. /\ sig.sessions = Cardinality(SessionsOf(correlated)) /\ c.surface = o
          /\ \E x \in correlated : sig.at = x.at
      BY <2>4, <3>1, <3>3 DEF ErrorClaim
    <3>5. correlated \subseteq seen
      <4>1. SUFFICES ASSUME NEW x \in correlated PROVE x \in seen OBVIOUS
      <4>2. x \in lane.events /\ x.of \in lane.kept /\ x.name = "exception"
        BY DEF Group, Exceptions
      <4>3. \E a \in lane.events : follows(a, x) BY <2>1, <3>4, CorrelatedFollows
      <4>4. QED BY <4>2, <4>3
    <3>6. /\ {x.of : x \in seen} \in SUBSET lane.kept
          /\ SessionsOf(correlated) \in SUBSET {x.of : x \in seen}
      BY <3>5 DEF SessionsOf
    <3>7. Floors(sig).sessions = ErrorMin BY <3>1 DEF Floors
    <3>8. Cardinality(SessionsOf(correlated)) >= ErrorMin
      BY <2>4, <3>4, <3>7 DEF MagnitudeSatisfied
    <3>9. Cardinality({x.of : x \in seen}) >= ErrorMin
      <4> HIDE DEF seen, correlated
      <4>1. /\ Cardinality(SessionsOf(correlated)) <= Cardinality({x.of : x \in seen})
            /\ Cardinality(SessionsOf(correlated)) \in Nat
            /\ Cardinality({x.of : x \in seen}) \in Nat
        BY <2>1, <3>6, KeptAreCounted
      <4>2. ErrorMin \in Nat BY DetectionAssumption
      <4>3. QED BY <3>8, <4>1, <4>2
    <3>10. \E x \in seen : x.at \in Start(lane) .. lane.end
      <4>1. sig.at \in Start(lane) .. lane.end BY <2>3, <3>1 DEF IsAboutClaim
      <4>2. QED BY <3>4, <3>5, <4>1
    <3>11. QED BY <2>5, <3>9, <3>10
  <2>6. CASE FinalClass(lane, c) = "confusing"
    <3>1. ASSUME NEW s \in Proofs(c.signals, "confusing")
          PROVE  /\ s \in c.signals /\ s.kind = "struggle" /\ s.surface = c.surface
                 /\ s.sessions >= Floors(s).sessions /\ s.attempts >= Floors(s).attempts
                 /\ s.sessions >= (IF c.detector = "funnel_dropoff"
                                   THEN StruggleMin ELSE ObservedMin)
                 /\ ~AtInclusiveBoundary(s) =>
                        s.sessions > Floors(s).sessions /\ s.attempts > Floors(s).attempts
      <4>1. s \in c.signals /\ s.kind = "struggle" /\ MagnitudeSatisfied(s)
        BY DEF Proofs, Proves
      <4>2. /\ s.sessions \in Nat /\ s.attempts \in Nat
            /\ Floors(s).sessions \in Nat /\ Floors(s).attempts \in Nat
            /\ s.surface = c.surface
            /\ Floors(s).sessions = IF c.detector = "funnel_dropoff"
                                    THEN StruggleMin ELSE ObservedMin
        BY <2>1, <4>1, StruggleIsMeasured
      <4>3. s.sessions >= Floors(s).sessions /\ s.attempts >= Floors(s).attempts
        BY <4>1 DEF MagnitudeSatisfied
      <4>4. ~AtInclusiveBoundary(s) =>
                s.sessions # Floors(s).sessions /\ s.attempts # Floors(s).attempts
        BY <4>1 DEF AtInclusiveBoundary
      <4>5. QED BY <4>1, <4>2, <4>3, <4>4
    <3>2. CASE Confidence(c, "confusing") = "threshold_met"
      <4>1. PICK s \in Proofs(c.signals, "confusing") : ~AtInclusiveBoundary(s)
        BY <2>3, <2>6, <3>2 DEF Confidence
      <4>2. QED BY <2>6, <3>1, <4>1
    <3>3. CASE Confidence(c, "confusing") # "threshold_met"
      BY <2>3, <2>6, <3>1, <3>3
    <3>4. QED BY <3>2, <3>3
  <2>7. QED BY <2>2, <2>5, <2>6
<1>2. DetectionInv => NoClaimWithoutProof BY <1>1 DEF NoClaimWithoutProof
<1>3. QED BY <1>2, DetectionInvariant, PTL

(* A detector knows the problem of a surface by one identity, whatever else *)
(* the windows held in which it was found.                                 *)
THEOREM IdentitiesHold == Spec => []OneIdentityPerProblem
<1>1. DetectionInv => OneIdentityPerProblem
  BY DEF DetectionInv, Known, OneIdentityPerProblem
<1>2. QED BY <1>1, DetectionInvariant, PTL
================================================================================

----------------------- MODULE SessionSourcePollProofs -----------------------
(* Theorems about SessionSourcePoll, for every value of its constants.     *)
EXTENDS SessionSourcePoll, FiniteSetTheorems, TLAPS

(***************************************************************************)
(* What a poll p knows of the events s of the source, given the stored     *)
(* events d and the watermark m.  A promised event that becomes visible    *)
(* later is newer than all of s, so that it disturbs none of it.           *)
(***************************************************************************)

\* The cursors a poll has read, or will write, come from the source.
Rooted(p, s, m) ==
    /\ p.wm <= m
    /\ p.from \in s \cup {Null}
    /\ p.newest \in s \cup {Null}
    /\ p.pc \in {"backward", "forward"} => p.left > 0
    /\ p.pc \in {"store", "apply"} => p.before \in s \cup {Null}
    /\ p.pc = "emit" => p.from # Null
    /\ p.pc \in {"apply", "emit"} => p.got = {}

\* A resumed walk has all from the place it was resumed at down to where it is.
Backwards(p, s) ==
    p.pc = "backward" =>
        /\ p.from # Null
        /\ p.after = Null
        /\ p.before \in s
        /\ \A e \in Promised \cap s : p.before <= e /\ e < p.from => e \in p.got

\* A walk from the newest event, if that could be read, has all from there down;
\* its first page asks for no less than what is above the watermark.
Forwards(p, s) ==
    p.pc = "forward" =>
        \/ p.before = Top /\ p.after <= p.wm
        \/ /\ p.after = Null
           /\ p.before \in s
           /\ p.newest # Null =>
                 \A e \in Promised \cap s : p.before <= e /\ e <= p.newest => e \in p.got

\* Once the resumed walk got to an end, all below its start is there.
Resumed(p, s, d) ==
    /\ p.pc \in {"forward", "store", "apply", "emit"}
    /\ p.pc \in {"store", "apply"} => p.outcome = "contiguous"
    /\ p.from # Null
    => \A e \in Promised \cap s : e < p.from => e \in p.got \cup d

\* Once the walk from the newest event got to an end, all below that event is there.
Reached(p, s, d) ==
    p.pc \in {"store", "apply"} /\ p.outcome = "contiguous" /\ p.newest # Null
    => \A e \in Promised \cap s : e <= p.newest => e \in p.got \cup d

Sound(p, s, d, m) ==
    /\ Rooted(p, s, m)
    /\ Backwards(p, s)
    /\ Forwards(p, s)
    /\ Resumed(p, s, d)
    /\ Reached(p, s, d)

CursorsExist ==
    /\ watermark \in source \cup {Null}
    /\ cursor \in source \cup {Null}
    /\ announced \subseteq source

AllSound == \A w \in Pollers : Sound(poll[w], source, stored, watermark)

PollInv == TypeOK /\ CursorsExist /\ NothingIsPassedOver /\ NoFalseDrain /\ AllSound

-----------------------------------------------------------------------------
(* The pages.                                                              *)

\* A page is cut off from below: with an event it has every newer one there is
\* to list.
LEMMA PageIsNewest ==
    ASSUME source \subseteq Event, NEW a, NEW b,
           NEW e \in Page(a, b), NEW f \in Window(a, b), e < f
    PROVE  f \in Page(a, b)
<1> USE BoundAssumption, PageAssumption
<1> DEFINE W == Window(a, b)
           Above(x) == {g \in W : g > x}
<1>1. W \subseteq Event /\ Event \subseteq Int
  <2>1. W \subseteq source BY DEF Window
  <2> HIDE DEF W
  <2>2. Event \subseteq Int BY DEF Event
  <2>3. QED BY <2>1, <2>2
<1>2. IsFiniteSet(Event) BY FS_Interval DEF Event
<1>3. e \in W /\ Cardinality(Above(e)) < PageLimit BY DEF Page
<1>4. IsFiniteSet(Above(e))
  <2>1. Above(e) \in SUBSET Event BY <1>1
  <2> HIDE DEF Above
  <2>2. QED BY <1>2, <2>1, FS_Subset
<1>5. Above(f) \in SUBSET Above(e)
  <2>1. SUFFICES ASSUME NEW g \in W, g > f PROVE g > e OBVIOUS
  <2>2. g \in Int /\ f \in Int /\ e \in Int BY <1>1, <1>3
  <2>3. QED BY <2>1, <2>2
<1>6. Cardinality(Above(f)) <= Cardinality(Above(e)) /\ IsFiniteSet(Above(f))
  <2> HIDE DEF Above
  <2>1. QED BY <1>4, <1>5, FS_Subset
<1>7. Cardinality(Above(f)) \in Nat /\ Cardinality(Above(e)) \in Nat
  <2> HIDE DEF Above
  <2>1. QED BY <1>4, <1>6, FS_CardinalityType
<1>8. Cardinality(Above(f)) < PageLimit
  <2> HIDE DEF Above
  <2>1. QED BY <1>3, <1>6, <1>7
<1>9. f \in W OBVIOUS
<1>10. QED BY <1>8, <1>9 DEF Page

\* A page lists events of the source between its limits.
LEMMA PageInWindow ==
    ASSUME NEW a, NEW b
    PROVE  /\ Page(a, b) \subseteq Window(a, b)
           /\ Page(a, b) \subseteq source
           /\ \A e \in Page(a, b) : a < e /\ e < b
BY DEF Page, Window

\* firstItemAt is an event of the page, if it is one at all.
LEMMA FirstItemType ==
    ASSUME NEW page
    PROVE  FirstItem(page) \in page \cup {Null}
<1>1. CASE \E n \in page \ Garbled : \A e \in page : e =< n BY <1>1 DEF FirstItem
<1>2. CASE ~\E n \in page \ Garbled : \A e \in page : e =< n BY <1>2 DEF FirstItem
<1>3. QED BY <1>1, <1>2

-----------------------------------------------------------------------------
(* The parts of a poll after each step of a pull.                          *)

LEMMA Numbers ==
    /\ Event \subseteq Nat /\ Null \notin Event /\ Top \notin Event /\ Top # Null
    /\ \A e \in Event : Null < e /\ e < Top
    /\ Instant \subseteq Nat
BY BoundAssumption DEF Event, Null, Top, Instant

LEMMA IdleType == Idle \in Poll
BY Numbers DEF Idle, Poll, Steps, Outcomes, Instant

LEMMA PollParts ==
    ASSUME NEW p \in Poll
    PROVE  /\ p.pc \in Steps /\ p.by \in {"worker", "connect"}
           /\ p.wm \in Instant /\ p.from \in Instant /\ p.after \in Instant
           /\ p.before \in Instant \cup {Top} /\ p.left \in Nat
           /\ p.newest \in Instant /\ p.got \in SUBSET Event
           /\ p.outcome \in Outcomes /\ p.passes \in Nat
BY DEF Poll

LEMMA ReadParts ==
    ASSUME NEW p \in Poll, p.left > 0, NEW page \in SUBSET Event
    PROVE  /\ Read(p, page) \in Poll
           /\ Read(p, page).pc = p.pc /\ Read(p, page).by = p.by
           /\ Read(p, page).wm = p.wm /\ Read(p, page).from = p.from
           /\ Read(p, page).after = p.after /\ Read(p, page).before = p.before
           /\ Read(p, page).left = p.left - 1
           /\ Read(p, page).got = p.got \cup (page \ Garbled)
           /\ Read(p, page).outcome = p.outcome /\ Read(p, page).passes = p.passes
           /\ Read(p, page).newest = IF p.pc = "forward" /\ p.before = Top
                                     THEN FirstItem(page) ELSE p.newest
<1> DEFINE n == IF p.pc = "forward" /\ p.before = Top THEN FirstItem(page) ELSE p.newest
           g == p.got \cup (page \ Garbled)
<1>1. n \in Instant BY PollParts, FirstItemType DEF Instant
<1>2. g \in SUBSET Event BY PollParts
<1>3. p.left - 1 \in Nat BY PollParts
<1>4. Read(p, page) = [p EXCEPT !.left = @ - 1, !.got = g, !.newest = n] BY DEF Read
<1> HIDE DEF n, g
<1>5. QED
  <2>1. Read(p, page) \in Poll BY <1>1, <1>2, <1>3, <1>4 DEF Poll
  <2>2. p = [pc |-> p.pc, by |-> p.by, wm |-> p.wm, from |-> p.from, after |-> p.after,
             before |-> p.before, left |-> p.left, newest |-> p.newest, got |-> p.got,
             outcome |-> p.outcome, passes |-> p.passes]
    BY DEF Poll
  <2>3. QED BY <1>4, <2>1, <2>2 DEF n, g

LEMMA DoneParts ==
    ASSUME NEW p \in Poll, NEW o \in Outcomes, NEW r \in Instant
    PROVE  /\ Done(p, o, r) \in Poll
           /\ Done(p, o, r).pc = "store" /\ Done(p, o, r).outcome = o
           /\ Done(p, o, r).before = r
           /\ Done(p, o, r).wm = p.wm /\ Done(p, o, r).from = p.from
           /\ Done(p, o, r).newest = p.newest /\ Done(p, o, r).got = p.got
BY Numbers DEF Done, Poll, Steps, Instant

LEMMA ForwardParts ==
    ASSUME NEW p \in Poll
    PROVE  /\ Forward(p) \in Poll
           /\ Forward(p).pc = "forward" /\ Forward(p).before = Top
           /\ Forward(p).after <= p.wm /\ Forward(p).left = p.left
           /\ Forward(p).wm = p.wm /\ Forward(p).from = p.from
           /\ Forward(p).newest = p.newest /\ Forward(p).got = p.got
<1>1. LowerLimit(p.wm) \in Instant /\ LowerLimit(p.wm) <= p.wm
  BY BoundAssumption, OverlapAssumption, PollParts DEF LowerLimit, Instant, Event, Null
<1>2. QED BY <1>1, Numbers DEF Forward, Poll, Steps, Instant
LEMMA PassParts ==
    ASSUME NEW by \in {"worker", "connect"}, NEW wm \in Instant, NEW from \in Instant,
           NEW pages \in Nat, NEW passes \in Nat
    PROVE  /\ Pass(by, wm, from, pages, passes) \in Poll
           /\ Pass(by, wm, from, pages, passes).wm = wm
           /\ Pass(by, wm, from, pages, passes).from = from
           /\ Pass(by, wm, from, pages, passes).left = pages
           /\ Pass(by, wm, from, pages, passes).newest = Null
           /\ IF from = Null
              THEN /\ Pass(by, wm, from, pages, passes).pc = "forward"
                   /\ Pass(by, wm, from, pages, passes).before = Top
                   /\ Pass(by, wm, from, pages, passes).after <= wm
              ELSE /\ Pass(by, wm, from, pages, passes).pc = "backward"
                   /\ Pass(by, wm, from, pages, passes).before = from
                   /\ Pass(by, wm, from, pages, passes).after = Null
<1> DEFINE p == [Idle EXCEPT !.by = by, !.wm = wm, !.from = from, !.left = pages,
                             !.passes = passes]
<1>1. /\ p \in Poll
      /\ p.wm = wm /\ p.from = from /\ p.left = pages /\ p.newest = Null
  BY Numbers DEF Idle, Poll, Steps, Outcomes, Instant
<1>2. Pass(by, wm, from, pages, passes) = IF from = Null THEN Forward(p) ELSE Backward(p)
  BY DEF Pass
<1> HIDE DEF p
<1>3. CASE from = Null BY <1>1, <1>2, <1>3, ForwardParts
<1>4. CASE from # Null
  <2>1. Backward(p) \in Poll /\ Backward(p).wm = wm /\ Backward(p).from = from
        /\ Backward(p).left = pages /\ Backward(p).newest = Null
        /\ Backward(p).pc = "backward" /\ Backward(p).before = from /\ Backward(p).after = Null
    BY <1>1 DEF Backward, Poll, Steps, Instant
  <2>2. QED BY <1>2, <1>4, <2>1
<1>5. QED BY <1>3, <1>4

-----------------------------------------------------------------------------
(* Soundness of a poll.                                                    *)

\* A poll that is sound stays so while others store and advance and the source
\* gains events that are late or newer than all.
LEMMA SoundGrows ==
    ASSUME NEW p \in Poll,
           NEW s \in SUBSET Event, NEW s2 \in SUBSET Event, s \subseteq s2,
           \A e \in s2 \ s : e \in Late \/ \A f \in s : f < e,
           NEW d, NEW d2, d \subseteq d2,
           NEW m \in Instant, NEW m2 \in Instant, m <= m2,
           Sound(p, s, d, m)
    PROVE  Sound(p, s2, d2, m2)
<1> USE Numbers
<1>1. Rooted(p, s2, m2)
  <2>1. p.wm \in Nat /\ m \in Nat /\ m2 \in Nat BY PollParts
  <2>2. p.wm <= m BY DEF Sound, Rooted
  <2>3. p.wm <= m2 BY <2>1, <2>2
  <2>4. QED BY <2>3 DEF Sound, Rooted
<1>n. \A e \in Promised \cap s2 : \A f \in s : e <= f => e \in Promised \cap s
  <2>1. SUFFICES ASSUME NEW e \in Promised \cap s2, NEW f \in s, e <= f
                 PROVE  e \in s
    OBVIOUS
  <2>2. e \in Nat /\ f \in Nat OBVIOUS
  <2>3. ~(f < e) BY <2>1, <2>2
  <2>4. e \notin Late BY DEF Promised
  <2>5. QED BY <2>3, <2>4
<1>2. Backwards(p, s2)
  <2>1. SUFFICES ASSUME p.pc = "backward" PROVE Backwards(p, s2) BY DEF Backwards
  <2>2. /\ p.from # Null /\ p.after = Null /\ p.before \in s /\ p.from \in s
        /\ \A e \in Promised \cap s : p.before <= e /\ e < p.from => e \in p.got
    BY <2>1 DEF Sound, Rooted, Backwards
  <2>3. \A e \in Promised \cap s2 : p.before <= e /\ e < p.from => e \in p.got
    <3>1. SUFFICES ASSUME NEW e \in Promised \cap s2, p.before <= e, e < p.from PROVE e \in p.got
      OBVIOUS
    <3>2. e \in Nat /\ p.from \in Nat BY <2>2
    <3>3. e <= p.from BY <3>1, <3>2
    <3>4. QED BY <1>n, <2>2, <3>1, <3>3
  <2>4. QED BY <2>2, <2>3 DEF Backwards
<1>3. Forwards(p, s2)
  <2>1. SUFFICES ASSUME p.pc = "forward", ~(p.before = Top /\ p.after <= p.wm)
                 PROVE  Forwards(p, s2)
    BY DEF Forwards
  <2>2. /\ p.after = Null /\ p.before \in s
        /\ p.newest # Null =>
              \A e \in Promised \cap s : p.before <= e /\ e <= p.newest => e \in p.got
    BY <2>1 DEF Sound, Forwards
  <2>3. p.newest \in s \cup {Null} BY DEF Sound, Rooted
  <2>4. p.newest # Null =>
              \A e \in Promised \cap s2 : p.before <= e /\ e <= p.newest => e \in p.got
    BY <1>n, <2>2, <2>3
  <2>5. QED BY <2>2, <2>4 DEF Forwards
<1>4. Resumed(p, s2, d2)
  <2>1. SUFFICES ASSUME /\ p.pc \in {"forward", "store", "apply", "emit"}
                        /\ p.pc \in {"store", "apply"} => p.outcome = "contiguous"
                        /\ p.from # Null,
                        NEW e \in Promised \cap s2, e < p.from
                 PROVE  e \in p.got \cup d2
    BY DEF Resumed
  <2>2. p.from \in s BY <2>1 DEF Sound, Rooted
  <2>3. e \in Promised \cap s
    <3>1. e \in Nat /\ p.from \in Nat BY <2>2
    <3>2. e <= p.from BY <2>1, <3>1
    <3>3. QED BY <1>n, <2>2, <3>2
  <2>4. QED BY <2>1, <2>3 DEF Sound, Resumed
<1>5. Reached(p, s2, d2)
  <2>1. SUFFICES ASSUME p.pc \in {"store", "apply"}, p.outcome = "contiguous", p.newest # Null,
                        NEW e \in Promised \cap s2, e <= p.newest
                 PROVE  e \in p.got \cup d2
    BY DEF Reached
  <2>2. p.newest \in s BY <2>1 DEF Sound, Rooted
  <2>3. e \in Promised \cap s BY <1>n, <2>1, <2>2
  <2>4. QED BY <2>1, <2>3 DEF Sound, Reached
<1>6. QED BY <1>1, <1>2, <1>3, <1>4, <1>5 DEF Sound

LEMMA IdleSound ==
    ASSUME NEW s, NEW d, NEW m \in Instant
    PROVE  Sound(Idle, s, d, m)
BY Numbers DEF Sound, Rooted, Backwards, Forwards, Resumed, Reached, Idle, Null

\* A pass begins sound from any cursors the row had until then.
LEMMA PassSound ==
    ASSUME NEW s \in SUBSET Event, NEW d, NEW m \in Instant,
           NEW by \in {"worker", "connect"}, NEW wm \in Instant, wm <= m,
           NEW from \in s \cup {Null}, NEW pages \in Nat \ {0}, NEW passes \in Nat
    PROVE  /\ Pass(by, wm, from, pages, passes) \in Poll
           /\ Sound(Pass(by, wm, from, pages, passes), s, d, m)
<1> DEFINE p == Pass(by, wm, from, pages, passes)
<1>0. from \in Instant BY DEF Instant
<1>1. /\ p \in Poll /\ p.wm = wm /\ p.from = from /\ p.left = pages /\ p.newest = Null
      /\ IF from = Null THEN p.pc = "forward" /\ p.before = Top /\ p.after <= wm
                        ELSE p.pc = "backward" /\ p.before = from /\ p.after = Null
  BY <1>0, PassParts
<1> HIDE DEF p
<1>2. Rooted(p, s, m) BY <1>1 DEF Rooted
<1>3. Backwards(p, s)
  <2>1. \A e \in Promised \cap s : ~(from <= e /\ e < from) BY <1>0, Numbers DEF Promised
  <2>2. QED BY <1>1, <2>1 DEF Backwards
<1>4. Forwards(p, s) BY <1>1 DEF Forwards
<1>5. Resumed(p, s, d) BY <1>1 DEF Resumed
<1>6. Reached(p, s, d) BY <1>1 DEF Reached
<1>7. QED BY <1>1, <1>2, <1>3, <1>4, <1>5, <1>6 DEF Sound, p
-----------------------------------------------------------------------------
(* The steps of a pull, for the poll p = poll[w].                          *)

\* A walk that is not at an end goes on below the oldest event of the page, and
\* the page leaves out nothing above it.
LEMMA PageDownToOldest ==
    ASSUME source \subseteq Event, NEW a, NEW b, a \in Nat, NEW o, IsOldest(o, Page(a, b)),
           NEW e \in source, o <= e, e < b
    PROVE  e \in Page(a, b)
<1>1. o \in Page(a, b) /\ o \in source /\ a < o BY PageInWindow DEF IsOldest
<1>2. o \in Nat /\ e \in Nat BY <1>1, Numbers
<1>3. a < e BY <1>1, <1>2
<1>4. e \in Window(a, b) BY <1>3 DEF Window
<1>5. CASE o = e BY <1>1, <1>5
<1>6. CASE o < e BY <1>1, <1>4, <1>6, PageIsNewest
<1>7. QED BY <1>2, <1>5, <1>6

\* A walk that is at an end has all there is down to its lower limit, or to the
\* watermark its poll has read, below which all is stored.
LEMMA EndTakesAll ==
    ASSUME source \subseteq Event, watermark \in Instant, NothingIsPassedOver,
           NEW p \in Poll, p.wm <= watermark, AtAnEnd(p),
           NEW e \in Promised \cap source, e < p.before
    PROVE  e <= p.after \/ e \in Page(p.after, p.before) \ Garbled \/ e \in stored
<1> DEFINE page == Page(p.after, p.before)
<1>1. p.after \in Nat /\ p.wm \in Nat /\ watermark \in Nat /\ e \in Nat
  BY Numbers, PollParts
<1>2. SUFFICES ASSUME ~(e <= p.after) PROVE e \in page \ Garbled \/ e \in stored
  OBVIOUS
<1>3. p.after < e BY <1>1, <1>2
<1>4. e \in Window(p.after, p.before) BY <1>3 DEF Window
<1>5. e \notin Garbled BY DEF Promised
<1>6. CASE Exhausted(p.after, p.before) BY <1>4, <1>5, <1>6 DEF Exhausted
<1>7. CASE Reaches(p, page)
  <2>1. PICK r \in page : r <= p.wm BY <1>7 DEF Reaches
  <2>2. r \in Nat BY <2>1, PageInWindow, Numbers
  <2>3. CASE r < e BY <1>4, <1>5, <2>1, <2>3, PageIsNewest
  <2>4. CASE e <= r
    <3>1. e <= watermark BY <1>1, <2>1, <2>2, <2>4
    <3>2. QED BY <3>1 DEF NothingIsPassedOver
  <2>5. QED BY <1>1, <2>2, <2>3, <2>4
<1>8. QED BY <1>6, <1>7 DEF AtAnEnd

\* What the steps of a pull use.
PullState(p) ==
    /\ source \subseteq Event
    /\ watermark \in Instant
    /\ NothingIsPassedOver
    /\ p \in Poll
    /\ Sound(p, source, stored, watermark)

\* A page read leaves a poll within its type and what it has of the source.
LEMMA ReadState ==
    ASSUME NEW p, PullState(p), p.pc \in {"backward", "forward"}
    PROVE  LET page == Page(p.after, p.before)
               q == Read(p, page)
           IN  /\ page \in SUBSET Event /\ page \subseteq source
               /\ q \in Poll
               /\ q.pc = p.pc /\ q.wm = p.wm /\ q.from = p.from
               /\ q.after = p.after /\ q.before = p.before
               /\ q.got = p.got \cup (page \ Garbled)
               /\ q.newest \in source \cup {Null}
               /\ q.newest = IF p.pc = "forward" /\ p.before = Top
                             THEN FirstItem(page) ELSE p.newest
<1> DEFINE page == Page(p.after, p.before)
<1>1. p \in Poll /\ source \subseteq Event /\ Rooted(p, source, watermark)
  BY DEF PullState, Sound
<1>2. page \subseteq source BY PageInWindow
<1>3. page \in SUBSET Event BY <1>1, <1>2
<1>4. p.left > 0 /\ p.newest \in source \cup {Null} BY <1>1 DEF Rooted
<1>5. FirstItem(page) \in source \cup {Null} BY <1>2, FirstItemType
<1> HIDE DEF page
<1>6. QED BY <1>1, <1>2, <1>3, <1>4, <1>5, ReadParts DEF page
\* A poll that ends its pull with nothing to claim.
LEMMA DoneSound ==
    ASSUME source \subseteq Event, watermark \in Instant,
           NEW p \in Poll, p.wm <= watermark,
           p.from \in source \cup {Null}, p.newest \in source \cup {Null},
           NEW o \in {"failed", "capped"}, NEW r \in source \cup {Null}
    PROVE  Done(p, o, r) \in Poll /\ Sound(Done(p, o, r), source, stored, watermark)
<1> DEFINE q == Done(p, o, r)
<1>1. o \in Outcomes /\ r \in Instant BY DEF Outcomes, Instant
<1>2. /\ q \in Poll /\ q.pc = "store" /\ q.outcome = o /\ q.before = r
      /\ q.wm = p.wm /\ q.from = p.from /\ q.newest = p.newest
  BY <1>1, DoneParts
<1> HIDE DEF q
<1>3. Rooted(q, source, watermark) BY <1>2 DEF Rooted
<1>4. Backwards(q, source) /\ Forwards(q, source) BY <1>2 DEF Backwards, Forwards
<1>5. Resumed(q, source, stored) /\ Reached(q, source, stored) BY <1>2 DEF Resumed, Reached
<1>6. QED BY <1>2, <1>3, <1>4, <1>5 DEF Sound, q

LEMMA ContinueSound ==
    ASSUME NEW w, PullState(poll[w]), Continue(w)
    PROVE  \E q \in Poll : /\ poll' = [poll EXCEPT ![w] = q]
                           /\ Sound(q, source, stored, watermark)
<1> DEFINE p == poll[w]
           page == Page(p.after, p.before)
           n == Read(p, page)
<1>1. PICK o \in page :
         /\ IsOldest(o, page)
         /\ poll' = [poll EXCEPT ![w] = IF n.left > 0
                                        THEN [n EXCEPT !.after = Null, !.before = o]
                                        ELSE Done(n, "capped", o)]
  BY DEF Continue
<1>2. p.pc \in {"backward", "forward"} BY DEF Continue, Walking
<1>3. /\ p \in Poll /\ source \subseteq Event /\ watermark \in Instant
      /\ Rooted(p, source, watermark) /\ Backwards(p, source)
      /\ Forwards(p, source) /\ Resumed(p, source, stored)
  BY DEF PullState, Sound
<1> HIDE DEF p
<1>4. /\ page \subseteq source /\ n \in Poll
      /\ n.pc = p.pc /\ n.wm = p.wm /\ n.from = p.from
      /\ n.got = p.got \cup (page \ Garbled)
      /\ n.newest \in source \cup {Null}
      /\ n.newest = IF p.pc = "forward" /\ p.before = Top THEN FirstItem(page) ELSE p.newest
  BY <1>2, ReadState DEF p
<1> HIDE DEF page, n
<1>5. o \in source /\ o \in Event BY <1>3, <1>4
<1>6. /\ p.wm <= watermark /\ p.from \in source \cup {Null}
  BY <1>3 DEF Rooted
<1>7. CASE n.left > 0
  <2> DEFINE q == [n EXCEPT !.after = Null, !.before = o]
  <2>1. /\ q \in Poll
        /\ q.pc = p.pc /\ q.wm = p.wm /\ q.from = p.from /\ q.left = n.left
        /\ q.after = Null /\ q.before = o /\ q.got = n.got /\ q.newest = n.newest
    BY <1>4, <1>5 DEF Poll, Instant
  <2> HIDE DEF q
  <2>2. Rooted(q, source, watermark) BY <1>2, <1>4, <1>6, <1>7, <2>1 DEF Rooted
  <2>3. \A e \in Promised \cap source : o <= e /\ e < p.before => e \in q.got
    <3>1. SUFFICES ASSUME NEW e \in Promised \cap source, o <= e, e < p.before
                   PROVE  e \in page \ Garbled
      BY <1>4, <2>1
    <3>2. p.after \in Nat BY <1>3, PollParts, Numbers
    <3>3. e \in page BY <1>1, <1>3, <3>1, <3>2, PageDownToOldest DEF page
    <3>4. QED BY <3>3 DEF Promised
  <2>4. Backwards(q, source)
    <3>1. SUFFICES ASSUME p.pc = "backward" PROVE Backwards(q, source)
      BY <2>1 DEF Backwards
    <3>2. /\ p.from # Null /\ p.before \in source
          /\ \A e \in Promised \cap source : p.before <= e /\ e < p.from => e \in p.got
      BY <1>3, <3>1 DEF Backwards
    <3>3. \A e \in Promised \cap source : o <= e /\ e < p.from => e \in q.got
      <4>1. SUFFICES ASSUME NEW e \in Promised \cap source, o <= e, e < p.from
                     PROVE  e \in q.got
        OBVIOUS
      <4>2. e \in Nat /\ p.before \in Nat BY <1>3, <3>2, Numbers
      <4>3. CASE e < p.before BY <2>3, <4>1, <4>3
      <4>4. CASE p.before <= e BY <1>4, <2>1, <3>2, <4>1, <4>4
      <4>5. QED BY <4>2, <4>3, <4>4
    <3>4. QED BY <1>5, <2>1, <3>2, <3>3 DEF Backwards
  <2>5. Forwards(q, source)
    <3>1. SUFFICES ASSUME p.pc = "forward", q.newest # Null,
                          NEW e \in Promised \cap source, o <= e, e <= q.newest
                   PROVE  e \in q.got
      BY <1>5, <2>1 DEF Forwards
    <3>2. e \in Event BY <1>3
    <3>3. CASE p.before = Top
      <4>1. e < p.before BY <3>2, <3>3, Numbers
      <4>2. QED BY <2>3, <3>1, <4>1
    <3>4. CASE p.before # Top
      <4>1. /\ p.before \in source /\ p.newest = q.newest
            /\ \A f \in Promised \cap source : p.before <= f /\ f <= p.newest => f \in p.got
        BY <1>3, <1>4, <2>1, <3>1, <3>4 DEF Forwards
      <4>2. e \in Nat /\ p.before \in Nat BY <1>3, <3>2, <4>1, Numbers
      <4>3. CASE e < p.before BY <2>3, <3>1, <4>3
      <4>4. CASE p.before <= e BY <1>4, <2>1, <3>1, <4>1, <4>4
      <4>5. QED BY <4>2, <4>3, <4>4
    <3>5. QED BY <3>3, <3>4
  <2>6. Resumed(q, source, stored) BY <1>2, <1>3, <1>4, <2>1 DEF Resumed
  <2>7. Reached(q, source, stored) BY <1>2, <2>1 DEF Reached
  <2>8. Sound(q, source, stored, watermark) BY <2>2, <2>4, <2>5, <2>6, <2>7 DEF Sound
  <2>9. QED BY <1>1, <1>7, <2>1, <2>8 DEF q
<1>8. CASE ~(n.left > 0)
  <2>1. Done(n, "capped", o) \in Poll /\ Sound(Done(n, "capped", o), source, stored, watermark)
    BY <1>3, <1>4, <1>5, <1>6, DoneSound
  <2>2. QED BY <1>1, <1>8, <2>1
<1>9. QED BY <1>7, <1>8

LEMMA EndBackwardSound ==
    ASSUME NEW w, PullState(poll[w]), EndBackward(w)
    PROVE  \E q \in Poll : /\ poll' = [poll EXCEPT ![w] = q]
                           /\ Sound(q, source, stored, watermark)
<1> DEFINE p == poll[w]
           page == Page(p.after, p.before)
           n == Read(p, page)
<1>1. /\ p.pc = "backward" /\ AtAnEnd(p)
      /\ poll' = [poll EXCEPT ![w] = IF n.left > 0 THEN Forward(n) ELSE Done(n, "capped", Null)]
  BY DEF EndBackward
<1>3. /\ p \in Poll /\ source \subseteq Event /\ watermark \in Instant /\ NothingIsPassedOver
      /\ Rooted(p, source, watermark) /\ Backwards(p, source)
  BY DEF PullState, Sound
<1> HIDE DEF p
<1>4. /\ n \in Poll /\ n.wm = p.wm /\ n.from = p.from
      /\ n.got = p.got \cup (page \ Garbled)
      /\ n.newest \in source \cup {Null}
  BY <1>1, ReadState DEF p
<1>6. /\ p.wm <= watermark /\ p.from \in source \cup {Null}
  BY <1>3 DEF Rooted
<1>5. \A e \in Promised \cap source : e < p.from => e \in n.got \cup stored
  <2>1. SUFFICES ASSUME NEW e \in Promised \cap source, e < p.from PROVE e \in n.got \cup stored
    OBVIOUS
  <2>2. /\ p.after = Null /\ p.before \in source
        /\ \A f \in Promised \cap source : p.before <= f /\ f < p.from => f \in p.got
    BY <1>1, <1>3 DEF Backwards
  <2>3. e \in Nat /\ p.before \in Nat /\ ~(e <= p.after)
    <3>1. e \in Event /\ p.before \in Event BY <1>3, <2>2
    <3>2. e \in Nat /\ p.before \in Nat /\ Null < e BY <3>1, Numbers
    <3>3. QED BY <2>2, <3>2 DEF Null
  <2>4. CASE e < p.before BY <1>1, <1>3, <1>4, <1>6, <2>3, <2>4, EndTakesAll
  <2>5. CASE p.before <= e BY <1>4, <2>1, <2>2, <2>5
  <2>6. QED BY <2>3, <2>4, <2>5
<1> HIDE DEF page, n
<1>7. CASE n.left > 0
  <2> DEFINE q == Forward(n)
  <2>1. /\ q \in Poll
        /\ q.pc = "forward" /\ q.before = Top /\ q.after <= q.wm /\ q.left = n.left
        /\ q.wm = p.wm /\ q.from = p.from /\ q.newest = n.newest /\ q.got = n.got
    BY <1>4, ForwardParts
  <2> HIDE DEF q
  <2>2. Rooted(q, source, watermark) BY <1>4, <1>6, <1>7, <2>1 DEF Rooted
  <2>3. Backwards(q, source) /\ Forwards(q, source) BY <2>1 DEF Backwards, Forwards
  <2>4. Resumed(q, source, stored)
    <3>1. \A e \in Promised \cap source : e < q.from => e \in q.got \cup stored BY <1>5, <2>1
    <3>2. QED BY <3>1 DEF Resumed
  <2>5. Reached(q, source, stored) BY <2>1 DEF Reached
  <2>6. QED BY <1>1, <1>7, <2>1, <2>2, <2>3, <2>4, <2>5 DEF Sound, q
<1>8. CASE ~(n.left > 0)
  <2>1. Done(n, "capped", Null) \in Poll
        /\ Sound(Done(n, "capped", Null), source, stored, watermark)
    BY <1>3, <1>4, <1>6, DoneSound
  <2>2. QED BY <1>1, <1>8, <2>1
<1>9. QED BY <1>7, <1>8
LEMMA EndForwardSound ==
    ASSUME NEW w, PullState(poll[w]), EndForward(w)
    PROVE  \E q \in Poll : /\ poll' = [poll EXCEPT ![w] = q]
                           /\ Sound(q, source, stored, watermark)
<1> DEFINE p == poll[w]
           page == Page(p.after, p.before)
           n == Read(p, page)
           q == Done(n, "contiguous", Null)
<1>1. p.pc = "forward" /\ AtAnEnd(p) /\ poll' = [poll EXCEPT ![w] = q]
  BY DEF EndForward
<1>3. /\ p \in Poll /\ source \subseteq Event /\ watermark \in Instant /\ NothingIsPassedOver
      /\ Rooted(p, source, watermark) /\ Forwards(p, source) /\ Resumed(p, source, stored)
  BY DEF PullState, Sound
<1> HIDE DEF p
<1>4. /\ n \in Poll /\ n.wm = p.wm /\ n.from = p.from
      /\ n.got = p.got \cup (page \ Garbled)
      /\ n.newest \in source \cup {Null}
      /\ n.newest = IF p.before = Top THEN FirstItem(page) ELSE p.newest
  BY <1>1, ReadState DEF p
<1>5. p.wm <= watermark /\ p.from \in source \cup {Null}
  BY <1>3 DEF Rooted
<1>6. p.wm \in Nat /\ watermark \in Nat /\ p.after \in Nat BY <1>3, PollParts, Numbers
<1>7. \A e \in Promised \cap source : n.newest # Null /\ e <= n.newest => e \in n.got \cup stored
  <2>1. SUFFICES ASSUME NEW e \in Promised \cap source, n.newest # Null, e <= n.newest
                 PROVE  e \in n.got \cup stored
    OBVIOUS
  <2>2. e \in Event /\ e \in Nat /\ Null < e /\ e < Top BY <1>3, Numbers
  <2>3. CASE e < p.before
    <3>1. e <= p.after \/ e \in page \ Garbled \/ e \in stored
      BY <1>1, <1>3, <1>5, <2>3, EndTakesAll
    <3>2. ASSUME e <= p.after PROVE e \in stored
      <4>1. p.after # Null BY <2>2, <3>2 DEF Null
      <4>2. p.after <= p.wm BY <1>1, <1>3, <4>1 DEF Forwards
      <4>3. e <= watermark BY <1>5, <1>6, <2>2, <3>2, <4>2
      <4>4. QED BY <1>3, <4>3 DEF NothingIsPassedOver
    <3>3. QED BY <1>4, <3>1, <3>2
  <2>4. CASE ~(e < p.before)
    <3>1. p.before # Top BY <2>2, <2>4
    <3>2. /\ p.before \in source /\ p.newest = n.newest
          /\ \A f \in Promised \cap source : p.before <= f /\ f <= p.newest => f \in p.got
      BY <1>1, <1>3, <1>4, <2>1, <3>1 DEF Forwards
    <3>3. p.before <= e
      <4>1. p.before \in Event BY <1>3, <3>2
      <4>2. p.before \in Nat BY <4>1, Numbers
      <4>3. QED BY <2>2, <2>4, <4>2
    <3>4. QED BY <1>4, <2>1, <3>2, <3>3
  <2>5. QED BY <2>3, <2>4
<1>8. \A e \in Promised \cap source : n.from # Null /\ e < n.from => e \in n.got \cup stored
  BY <1>1, <1>3, <1>4 DEF Resumed
<1> HIDE DEF page, n
<1>9. /\ q \in Poll /\ q.pc = "store" /\ q.outcome = "contiguous" /\ q.before = Null
      /\ q.wm = p.wm /\ q.from = p.from /\ q.newest = n.newest /\ q.got = n.got
  BY <1>4, DoneParts DEF Outcomes, Instant
<1> HIDE DEF q
<1>10. Rooted(q, source, watermark) BY <1>4, <1>5, <1>9 DEF Rooted
<1>11. Backwards(q, source) /\ Forwards(q, source) BY <1>9 DEF Backwards, Forwards
<1>12. Resumed(q, source, stored) BY <1>4, <1>8, <1>9 DEF Resumed
<1>13. Reached(q, source, stored) BY <1>7, <1>9 DEF Reached
<1>14. QED BY <1>1, <1>9, <1>10, <1>11, <1>12, <1>13 DEF Sound

LEMMA PullFailsSound ==
    ASSUME NEW w, PullState(poll[w]), PullFails(w)
    PROVE  \E q \in Poll : /\ poll' = [poll EXCEPT ![w] = q]
                           /\ Sound(q, source, stored, watermark)
<1>1. poll' = [poll EXCEPT ![w] = Done(poll[w], "failed", Null)] BY DEF PullFails
<1>2. /\ poll[w].wm <= watermark /\ poll[w].from \in source \cup {Null}
      /\ poll[w].newest \in source \cup {Null}
  BY DEF PullState, Sound, Rooted
<1>3. QED BY <1>1, <1>2, DoneSound DEF PullState

-----------------------------------------------------------------------------
(* The steps that write.                                                   *)

\* What is collected is in the database before the poll can apply its cursors.
LEMMA StoreSound ==
    ASSUME NEW w, PullState(poll[w]), Store(w)
    PROVE  \E q \in Poll : /\ poll' = [poll EXCEPT ![w] = q]
                           /\ Sound(q, source, stored', watermark)
<1> DEFINE p == poll[w]
           q == [p EXCEPT !.pc = "apply", !.got = {}, !.passes = IF p.got = {} THEN p.passes ELSE 1]
<1>1. /\ p.pc = "store"
      /\ stored' = stored \cup p.got
      /\ poll' = [poll EXCEPT ![w] = IF p.outcome = "failed" THEN Idle ELSE q]
  BY DEF Store
<1>2. p \in Poll /\ Sound(p, source, stored, watermark) /\ watermark \in Instant
  BY DEF PullState
<1> HIDE DEF p
<1>3. CASE p.outcome = "failed" BY <1>1, <1>2, <1>3, IdleType, IdleSound
<1>4. CASE p.outcome # "failed"
  <2>1. /\ q \in Poll /\ q.pc = "apply" /\ q.got = {} /\ q.outcome = p.outcome
        /\ q.before = p.before /\ q.wm = p.wm /\ q.from = p.from /\ q.newest = p.newest
    BY <1>2 DEF Poll, Steps
  <2> HIDE DEF q
  <2>2. Rooted(q, source, watermark) BY <1>1, <1>2, <2>1 DEF Sound, Rooted
  <2>3. Backwards(q, source) /\ Forwards(q, source) BY <2>1 DEF Backwards, Forwards
  <2>4. Resumed(q, source, stored') BY <1>1, <1>2, <2>1 DEF Sound, Resumed
  <2>5. Reached(q, source, stored') BY <1>1, <1>2, <2>1 DEF Sound, Reached
  <2>6. QED BY <1>1, <1>4, <2>1, <2>2, <2>3, <2>4, <2>5 DEF Sound
<1>5. QED BY <1>3, <1>4

\* Whatever ends a pass leaves the poll idle or at the start of another.
LEMMA PassEndsSound ==
    ASSUME NEW w, poll[w] \in Poll, source \subseteq Event, NEW m \in Instant,
           NEW wm \in Instant, wm <= m, NEW from \in source \cup {Null},
           PassEnds(w, wm, from)
    PROVE  \E q \in Poll : /\ poll' = [poll EXCEPT ![w] = q]
                           /\ Sound(q, source, stored, m)
<1>1. CASE poll' = [poll EXCEPT ![w] = Idle] BY <1>1, IdleType, IdleSound
<1>2. CASE /\ poll[w].passes > 1
           /\ poll' = [poll EXCEPT ![w] = Pass("worker", wm, from, PageCap, poll[w].passes - 1)]
  <2>1. poll[w].passes - 1 \in Nat BY <1>2, PollParts
  <2>2. PageCap \in Nat \ {0} BY PageAssumption
  <2>3. QED BY <1>2, <2>1, <2>2, PassSound
<1>3. QED BY <1>1, <1>2 DEF PassEnds
-----------------------------------------------------------------------------
(* Every step.                                                             *)

\* Moving one poll leaves all sound if what others rely on only grows.
LEMMA OneMoves ==
    ASSUME PollInv, NEW w \in Pollers, NEW q, q \in Poll, poll' = [poll EXCEPT ![w] = q],
           source' = source, stored \subseteq stored', watermark' \in Instant,
           watermark <= watermark', Sound(q, source, stored', watermark')
    PROVE  poll' \in [Pollers -> Poll] /\ AllSound'
<1>1. /\ poll \in [Pollers -> Poll] /\ source \subseteq Event /\ watermark \in Instant
      /\ AllSound
  BY DEF PollInv, TypeOK
<1>2. poll' \in [Pollers -> Poll] BY <1>1
<1>3. ASSUME NEW v \in Pollers PROVE Sound(poll'[v], source', stored', watermark')
  <2>1. CASE v = w BY <1>1, <2>1
  <2>2. CASE v # w
    <3>1. poll'[v] = poll[v] /\ poll[v] \in Poll /\ Sound(poll[v], source, stored, watermark)
      BY <1>1, <2>2 DEF AllSound
    <3>2. Sound(poll[v], source, stored', watermark') BY <1>1, <3>1, SoundGrows
    <3>3. QED BY <3>1, <3>2
  <2>3. QED BY <2>1, <2>2
<1>4. QED BY <1>2, <1>3 DEF AllSound

\* What the steps of a poll find.
LEMMA PollFinds ==
    ASSUME PollInv, NEW w \in Pollers
    PROVE  /\ PullState(poll[w])
           /\ poll[w] \in Poll /\ Sound(poll[w], source, stored, watermark)
           /\ source \subseteq Event /\ stored \subseteq Event
           /\ announced \subseteq Event
           /\ watermark \in Instant /\ watermark \in Nat
           /\ cursor \in Instant /\ connects \in Nat /\ faults \in Nat
           /\ CursorsExist /\ NothingIsPassedOver /\ NoFalseDrain
BY Numbers DEF PollInv, TypeOK, AllSound, PullState

\* A step of a poll keeps the invariant if it leaves its poll sound and what it
\* writes keeps to what is stored.
LEMMA OneWrites ==
    ASSUME PollInv, NEW w \in Pollers, NEW q \in Poll, poll' = [poll EXCEPT ![w] = q],
           source' = source, connects' \in Nat, faults' \in Nat,
           stored \subseteq stored', stored' \subseteq Event,
           watermark' \in source \cup {Null}, watermark <= watermark',
           cursor' \in source \cup {Null}, announced' \subseteq source,
           \A e \in Promised \cap source : e <= watermark' => e \in stored',
           \A c \in announced' : \A e \in Promised \cap source : e < c => e \in stored',
           Sound(q, source, stored', watermark')
    PROVE  PollInv'
<1>1. TypeOK /\ source \subseteq Event BY PollFinds DEF PollInv
<1>2. watermark' \in Instant /\ cursor' \in Instant BY <1>1 DEF Instant
<1>3. poll' \in [Pollers -> Poll] /\ AllSound' BY <1>2, OneMoves
<1>4. TypeOK' BY <1>1, <1>2, <1>3 DEF TypeOK
<1>5. CursorsExist' /\ NothingIsPassedOver' /\ NoFalseDrain'
  BY DEF CursorsExist, NothingIsPassedOver, NoFalseDrain
<1>6. QED BY <1>3, <1>4, <1>5 DEF PollInv

LEMMA OnlyThePoll ==
    ASSUME PollInv, NEW w \in Pollers,
           UNCHANGED <<source, watermark, cursor, stored, announced>>,
           connects' \in Nat, faults' \in Nat,
           NEW q \in Poll, poll' = [poll EXCEPT ![w] = q],
           Sound(q, source, stored, watermark)
    PROVE  PollInv'
<1>1. /\ watermark \in Nat /\ watermark <= watermark /\ stored \subseteq Event
      /\ watermark \in source \cup {Null} /\ cursor \in source \cup {Null}
      /\ announced \subseteq source
      /\ \A e \in Promised \cap source : e <= watermark => e \in stored
      /\ \A c \in announced : \A e \in Promised \cap source : e < c => e \in stored
  BY PollFinds DEF CursorsExist, NothingIsPassedOver, NoFalseDrain
<1>2. QED BY <1>1, OneWrites

\* Arrivals.
LEMMA ArriveKeeps ==
    ASSUME PollInv, NEW e \in Event, Arrive(e)
    PROVE  PollInv'
<1>0. /\ TypeOK /\ CursorsExist /\ NothingIsPassedOver /\ NoFalseDrain /\ AllSound
      /\ source \subseteq Event /\ watermark \in Instant /\ announced \subseteq source
      /\ poll \in [Pollers -> Poll]
  BY DEF PollInv, TypeOK, CursorsExist
<1>1. /\ source' = source \cup {e}
      /\ e \in Late \/ \A f \in source : f < e
      /\ UNCHANGED <<watermark, cursor, stored, announced, poll, connects, faults>>
  BY DEF Arrive
<1>2. TypeOK' BY <1>0, <1>1 DEF TypeOK
<1>3. CursorsExist' BY <1>0, <1>1 DEF CursorsExist
<1>n. \A f \in source : \A g \in Promised \cap source' : g <= f => g \in source
  <2>1. SUFFICES ASSUME NEW f \in source, NEW g \in Promised \cap source', g <= f, g = e
                 PROVE  FALSE
    BY <1>1
  <2>2. e \notin Late BY <2>1 DEF Promised
  <2>3. f < g /\ f \in Nat /\ g \in Nat BY <1>0, <1>1, <2>1, <2>2, Numbers
  <2>4. QED BY <2>1, <2>3
<1>4. NothingIsPassedOver'
  <2>1. SUFFICES ASSUME NEW g \in Promised \cap source', g <= watermark PROVE g \in stored
    BY <1>1 DEF NothingIsPassedOver
  <2>2. g \in Event /\ g \in Nat /\ Null < g BY <1>0, <1>1, Numbers
  <2>3. watermark # Null BY <2>1, <2>2 DEF Null
  <2>4. watermark \in source BY <1>0, <2>3 DEF CursorsExist
  <2>5. QED BY <1>0, <1>n, <2>1, <2>4 DEF NothingIsPassedOver
<1>5. NoFalseDrain'
  <2>1. SUFFICES ASSUME NEW c \in announced, NEW g \in Promised \cap source', g < c
                 PROVE  g \in stored
    BY <1>1 DEF NoFalseDrain
  <2>2. c \in source /\ c \in Nat /\ g \in Nat BY <1>0, <1>1, Numbers
  <2>3. g <= c BY <2>1, <2>2
  <2>4. g \in source BY <1>n, <2>2, <2>3
  <2>5. QED BY <1>0, <2>1, <2>4 DEF NoFalseDrain
<1>6. ASSUME NEW v \in Pollers PROVE Sound(poll[v], source', stored, watermark)
  <2>1. poll[v] \in Poll /\ Sound(poll[v], source, stored, watermark) BY <1>0 DEF AllSound
  <2>2. /\ source \subseteq source' /\ source' \subseteq Event
        /\ \A f \in source' \ source : f \in Late \/ \A g \in source : g < f
    BY <1>0, <1>1
  <2>3. watermark <= watermark BY <1>0, Numbers
  <2>4. QED BY <1>0, <2>1, <2>2, <2>3, SoundGrows
<1>7. AllSound' BY <1>1, <1>6 DEF AllSound
<1>8. QED BY <1>2, <1>3, <1>4, <1>5, <1>7 DEF PollInv
\* Steps that only move the poll: the claim, the pull, and losing all of it.
LEMMA PullKeeps ==
    ASSUME PollInv, NEW w \in Pollers,
           \/ Claim(w) \/ FirstPull(w)
           \/ Continue(w) \/ EndBackward(w) \/ EndForward(w)
           \/ PullFails(w) \/ Lose(w)
    PROVE  PollInv'
<1>0. /\ PullState(poll[w]) /\ source \subseteq Event
      /\ watermark \in Instant /\ watermark \in Nat /\ cursor \in source \cup {Null}
      /\ connects \in Nat /\ faults \in Nat
  BY PollFinds DEF CursorsExist
<1>1. CASE Claim(w)
  <2>1. /\ UNCHANGED <<source, watermark, cursor, stored, announced, connects, faults>>
        /\ poll' = [poll EXCEPT ![w] = Pass("worker", watermark, cursor, PageCap, MaxPasses)]
    BY <1>1 DEF Claim
  <2>2. PageCap \in Nat \ {0} /\ MaxPasses \in Nat /\ watermark <= watermark
    BY <1>0, PageAssumption, PassAssumption
  <2>3. /\ Pass("worker", watermark, cursor, PageCap, MaxPasses) \in Poll
        /\ Sound(Pass("worker", watermark, cursor, PageCap, MaxPasses), source, stored, watermark)
    BY <1>0, <2>2, PassSound
  <2>4. QED BY <1>0, <2>1, <2>3, OnlyThePoll
<1>2. CASE FirstPull(w)
  <2>1. /\ UNCHANGED <<source, watermark, cursor, stored, announced, faults>>
        /\ connects' = connects + 1
        /\ poll' = [poll EXCEPT ![w] = Pass("connect", watermark, cursor, FirstCap, 1)]
    BY <1>2 DEF FirstPull
  <2>2. FirstCap \in Nat \ {0} /\ 1 \in Nat /\ watermark <= watermark
    BY <1>0, PageAssumption
  <2>3. /\ Pass("connect", watermark, cursor, FirstCap, 1) \in Poll
        /\ Sound(Pass("connect", watermark, cursor, FirstCap, 1), source, stored, watermark)
    BY <1>0, <2>2, PassSound
  <2>4. connects' \in Nat BY <1>0, <2>1
  <2>5. QED BY <1>0, <2>1, <2>3, <2>4, OnlyThePoll
<1>3. ASSUME \E q \in Poll : /\ poll' = [poll EXCEPT ![w] = q]
                             /\ Sound(q, source, stored, watermark),
             UNCHANGED <<source, watermark, cursor, stored, announced, connects>>,
             faults' \in Nat
      PROVE  PollInv'
  <2>1. PICK q \in Poll : /\ poll' = [poll EXCEPT ![w] = q]
                          /\ Sound(q, source, stored, watermark)
    BY <1>3
  <2>2. QED BY <1>0, <1>3, <2>1, OnlyThePoll
<1>4. CASE Continue(w)
  <2>1. UNCHANGED <<source, watermark, cursor, stored, announced, connects, faults>>
    BY <1>4 DEF Continue
  <2>2. QED BY <1>0, <1>3, <1>4, <2>1, ContinueSound
<1>5. CASE EndBackward(w)
  <2>1. UNCHANGED <<source, watermark, cursor, stored, announced, connects, faults>>
    BY <1>5 DEF EndBackward
  <2>2. QED BY <1>0, <1>3, <1>5, <2>1, EndBackwardSound
<1>6. CASE EndForward(w)
  <2>1. UNCHANGED <<source, watermark, cursor, stored, announced, connects, faults>>
    BY <1>6 DEF EndForward
  <2>2. QED BY <1>0, <1>3, <1>6, <2>1, EndForwardSound
<1>7. CASE PullFails(w)
  <2>1. UNCHANGED <<source, watermark, cursor, stored, announced, connects>>
        /\ faults' \in Nat
    BY <1>0, <1>7 DEF PullFails
  <2>2. QED BY <1>0, <1>3, <1>7, <2>1, PullFailsSound
<1>8. CASE Lose(w)
  <2>1. UNCHANGED <<source, watermark, cursor, stored, announced, connects>>
        /\ faults' \in Nat /\ poll' = [poll EXCEPT ![w] = Idle]
    BY <1>0, <1>8 DEF Lose
  <2>2. QED BY <1>0, <1>3, <2>1, IdleType, IdleSound
<1>9. QED BY <1>1, <1>2, <1>4, <1>5, <1>6, <1>7, <1>8

LEMMA StoreKeeps ==
    ASSUME PollInv, NEW w \in Pollers, Store(w)
    PROVE  PollInv'
<1>1. UNCHANGED <<source, watermark, cursor, announced, connects, faults>>
      /\ stored' = stored \cup poll[w].got
  BY DEF Store
<1>2. /\ PullState(poll[w]) /\ poll[w] \in Poll
      /\ stored \subseteq Event /\ watermark \in Nat /\ connects \in Nat /\ faults \in Nat
      /\ watermark \in source \cup {Null} /\ cursor \in source \cup {Null}
      /\ announced \subseteq source
      /\ \A e \in Promised \cap source : e <= watermark => e \in stored
      /\ \A c \in announced : \A e \in Promised \cap source : e < c => e \in stored
  BY PollFinds DEF CursorsExist, NothingIsPassedOver, NoFalseDrain
<1>3. stored' \subseteq Event BY <1>1, <1>2, PollParts
<1>4. PICK q \in Poll : /\ poll' = [poll EXCEPT ![w] = q]
                        /\ Sound(q, source, stored', watermark)
  BY <1>2, StoreSound
<1>5. watermark <= watermark' BY <1>1, <1>2
<1>6. QED BY <1>1, <1>2, <1>3, <1>4, <1>5, OneWrites

\* The watermark moves to an event below which all is stored.
LEMMA AdvanceKeeps ==
    ASSUME PollInv, NEW w \in Pollers, Advance(w)
    PROVE  PollInv'
<1> DEFINE p == poll[w]
<1>1. /\ p.pc = "apply" /\ p.outcome = "contiguous" /\ p.newest # Null
      /\ watermark' = Later(watermark, p.newest) /\ cursor' = Null
      /\ PassEnds(w, watermark', Null)
      /\ UNCHANGED <<source, stored, announced, connects, faults>>
  BY DEF Advance, CanAdvance
<1>2. /\ p \in Poll /\ Rooted(p, source, watermark) /\ Reached(p, source, stored)
      /\ source \subseteq Event /\ stored \subseteq Event
      /\ watermark \in Nat /\ connects \in Nat /\ faults \in Nat
      /\ watermark \in source \cup {Null} /\ announced \subseteq source
      /\ \A e \in Promised \cap source : e <= watermark => e \in stored
      /\ \A c \in announced : \A e \in Promised \cap source : e < c => e \in stored
  BY PollFinds DEF Sound, CursorsExist, NothingIsPassedOver, NoFalseDrain
<1> HIDE DEF p
<1>3. p.newest \in source /\ p.newest \in Nat /\ p.got = {}
  BY <1>1, <1>2, PollParts, Numbers DEF Rooted
<1>4. /\ watermark' \in source \cup {Null} /\ watermark' \in Nat
      /\ watermark <= watermark'
      /\ watermark' = watermark \/ watermark' = p.newest
  BY <1>1, <1>2, <1>3 DEF Later
<1>5. \A e \in Promised \cap source : e <= watermark' => e \in stored
  BY <1>1, <1>2, <1>3, <1>4 DEF Reached
<1>6. watermark' \in Instant /\ watermark' <= watermark' BY <1>2, <1>4 DEF Instant
<1>7. PICK q \in Poll : /\ poll' = [poll EXCEPT ![w] = q]
                        /\ Sound(q, source, stored, watermark')
  BY <1>1, <1>2, <1>6, PassEndsSound DEF p
<1>8. QED BY <1>1, <1>2, <1>4, <1>5, <1>7, OneWrites

\* The steps at the end of a pass that write the place, or nothing.
LEMMA CursorKeeps ==
    ASSUME PollInv, NEW w \in Pollers,
           HoldCursor(w) \/ ClearCursor(w) \/ LeaveCursors(w) \/ EmitBackfillComplete(w)
    PROVE  PollInv'
<1> DEFINE p == poll[w]
<1>0. /\ p \in Poll /\ Sound(p, source, stored, watermark)
      /\ p.wm <= watermark /\ p.wm \in Instant
      /\ source \subseteq Event /\ stored \subseteq Event
      /\ watermark \in Nat /\ watermark \in Instant /\ watermark <= watermark
      /\ connects \in Nat /\ faults \in Nat
      /\ watermark \in source \cup {Null} /\ cursor \in source \cup {Null}
      /\ announced \subseteq source
      /\ \A e \in Promised \cap source : e <= watermark => e \in stored
      /\ \A c \in announced : \A e \in Promised \cap source : e < c => e \in stored
  BY PollFinds, PollParts DEF Sound, Rooted, CursorsExist, NothingIsPassedOver, NoFalseDrain
<1>1. CASE HoldCursor(w)
  <2>1. /\ p.pc = "apply" /\ cursor' = p.before /\ PassEnds(w, watermark, cursor')
        /\ UNCHANGED <<source, watermark, stored, announced, connects, faults>>
    BY <1>1 DEF HoldCursor
  <2> HIDE DEF p
  <2>2. cursor' \in source \cup {Null} BY <1>0, <2>1 DEF Sound, Rooted
  <2>3. PICK q \in Poll : /\ poll' = [poll EXCEPT ![w] = q]
                          /\ Sound(q, source, stored, watermark)
    BY <1>0, <2>1, <2>2, PassEndsSound DEF p
  <2>4. QED BY <1>0, <2>1, <2>2, <2>3, OneWrites
<1>2. CASE ClearCursor(w)
  <2> DEFINE q == [p EXCEPT !.pc = "emit", !.wm = watermark]
  <2>1. /\ p.pc = "apply" /\ p.outcome = "contiguous" /\ p.from # Null /\ cursor' = Null
        /\ UNCHANGED <<source, watermark, stored, announced, connects, faults>>
    BY <1>2 DEF ClearCursor, Drained
  <2>2. poll' = [poll EXCEPT ![w].pc = "emit", ![w].wm = watermark] BY <1>2 DEF ClearCursor
  <2>3. poll \in [Pollers -> Poll] BY DEF PollInv, TypeOK
  <2>4. poll' = [poll EXCEPT ![w] = q] BY <2>2, <2>3
  <2> HIDE DEF p
  <2>5. /\ q \in Poll /\ q.pc = "emit" /\ q.wm = watermark /\ q.from = p.from
        /\ q.newest = p.newest /\ q.got = p.got
    BY <1>0 DEF Poll, Steps
  <2> HIDE DEF q
  <2>6. Rooted(q, source, watermark) BY <1>0, <2>1, <2>5 DEF Sound, Rooted
  <2>7. Backwards(q, source) /\ Forwards(q, source) /\ Reached(q, source, stored)
    BY <2>5 DEF Backwards, Forwards, Reached
  <2>8. Resumed(q, source, stored)
    <3>1. \A e \in Promised \cap source : e < p.from => e \in p.got \cup stored
      BY <1>0, <2>1 DEF Sound, Resumed
    <3>2. QED BY <2>5, <3>1 DEF Resumed
  <2>9. Sound(q, source, stored, watermark) BY <2>6, <2>7, <2>8 DEF Sound
  <2>10. QED BY <1>0, <2>1, <2>4, <2>5, <2>9, OneWrites
<1>3. CASE LeaveCursors(w)
  <2>1. /\ PassEnds(w, p.wm, Null)
        /\ UNCHANGED <<source, watermark, cursor, stored, announced, connects, faults>>
    BY <1>3 DEF LeaveCursors
  <2> HIDE DEF p
  <2>2. PICK q \in Poll : /\ poll' = [poll EXCEPT ![w] = q]
                          /\ Sound(q, source, stored, watermark)
    BY <1>0, <2>1, PassEndsSound DEF p
  <2>3. QED BY <1>0, <2>1, <2>2, OneWrites
<1>4. CASE EmitBackfillComplete(w)
  <2>1. /\ p.pc = "emit" /\ announced' = announced \cup {p.from} /\ PassEnds(w, p.wm, Null)
        /\ UNCHANGED <<source, watermark, cursor, stored, connects, faults>>
    BY <1>4 DEF EmitBackfillComplete
  <2> HIDE DEF p
  <2>2. p.from \in source /\ p.got = {} BY <1>0, <2>1 DEF Sound, Rooted
  <2>3. \A e \in Promised \cap source : e < p.from => e \in stored
    <3>1. \A e \in Promised \cap source : e < p.from => e \in p.got \cup stored
      BY <1>0, <2>1 DEF Sound, Rooted, Resumed
    <3>2. QED BY <2>2, <3>1
  <2>4. /\ announced' \subseteq source
        /\ \A c \in announced' : \A e \in Promised \cap source : e < c => e \in stored
    BY <1>0, <2>1, <2>2, <2>3
  <2>5. PICK q \in Poll : /\ poll' = [poll EXCEPT ![w] = q]
                          /\ Sound(q, source, stored, watermark)
    BY <1>0, <2>1, PassEndsSound DEF p
  <2>6. QED BY <1>0, <2>1, <2>4, <2>5, OneWrites
<1>5. QED BY <1>1, <1>2, <1>3, <1>4

LEMMA PollInvariant == Spec => []PollInv
<1>1. Init => PollInv
  <2> SUFFICES ASSUME Init PROVE PollInv OBVIOUS
  <2>1. TypeOK BY IdleType DEF Init, TypeOK, Instant
  <2>2. CursorsExist /\ NothingIsPassedOver /\ NoFalseDrain
    BY DEF Init, CursorsExist, NothingIsPassedOver, NoFalseDrain
  <2>3. AllSound
    <3>1. SUFFICES ASSUME NEW w \in Pollers PROVE Sound(Idle, source, stored, watermark)
      BY DEF Init, AllSound
    <3>2. watermark \in Instant BY DEF Init, Instant
    <3>3. QED BY <3>2, IdleSound
  <2>4. QED BY <2>1, <2>2, <2>3 DEF PollInv
<1>2. PollInv /\ [Next]_vars => PollInv'
  <2> SUFFICES ASSUME PollInv, [Next]_vars PROVE PollInv' OBVIOUS
  <2>1. CASE \E e \in Event : Arrive(e) BY <2>1, ArriveKeeps
  <2>2. CASE \E w \in Pollers : Claim(w) \/ FirstPull(w) \/ PullFails(w) \/ Lose(w)
    BY <2>2, PullKeeps
  <2>3. CASE \E w \in Pollers : Step(w)
    BY <2>3, PullKeeps, StoreKeeps, AdvanceKeeps, CursorKeeps DEF Step
  <2>4. CASE UNCHANGED vars
    BY <2>4 DEF vars, PollInv, TypeOK, CursorsExist, NothingIsPassedOver, NoFalseDrain, AllSound
  <2>5. QED BY <2>1, <2>2, <2>3, <2>4 DEF Next
<1>3. QED BY <1>1, <1>2, PTL DEF Spec

\* The variables keep their types.
THEOREM TypeCorrect == Spec => []TypeOK
<1>1. PollInv => TypeOK BY DEF PollInv
<1>2. QED BY <1>1, PollInvariant, PTL

\* Whatever polls overlap, fail or die half way, and whatever the sizes of pages
\* and caps: the watermark of a connection (advanceWatermark) is never beyond an
\* event that came in order, can be read, and is not in the database.
THEOREM WatermarkIsSafe == Spec => []NothingIsPassedOver
<1>1. PollInv => NothingIsPassedOver BY DEF PollInv
<1>2. QED BY <1>1, PollInvariant, PTL

\* A backfill that is announced as complete (emitBackfillComplete) is complete.
THEOREM DrainIsNeverFalse == Spec => []NoFalseDrain
<1>1. PollInv => NoFalseDrain BY DEF PollInv
<1>2. QED BY <1>1, PollInvariant, PTL
=============================================================================

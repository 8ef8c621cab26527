-------------------------- MODULE SessionSourcePoll --------------------------
(***************************************************************************)
(* How the events of one connection are read from its source               *)
(* (worker/src/tasks/session-source-poll.ts, the walk in                   *)
(* packages/adapters/src/posthog/session-source.ts) and stored             *)
(* (packages/db/src/services/intake.service.ts).                           *)
(*                                                                         *)
(* The source lists the newest events first, a page at a time. The row of  *)
(* the connection has two cursors: the watermark, down to which a walk     *)
(* from the newest event must get, and the place where a walk that ran out *)
(* of pages is to be resumed. A pull resumes first and walks from the      *)
(* newest event only if that got to an end. The cursors are read when the  *)
(* connection is claimed and written after the events were stored; a poll  *)
(* may last longer than the interval, and connecting polls once itself.    *)
(*                                                                         *)
(* An event is the instant it carries, and no two carry the same. A page's *)
(* next URL is the instant before which it goes on; it drops the lower     *)
(* limit, as in the fixtures. Sessions are stored with their events.       *)
(*                                                                         *)
(* A definition whose name starts with Bad is a bug the definition after   *)
(* it could have had.  No action uses one: each is put in the place of the *)
(* good definition to see that a property notices.                         *)
(***************************************************************************)
EXTENDS Integers, FiniteSets

CONSTANTS
    Pollers,       \* poll jobs and connect requests that may be in progress
    Garbled,       \* events whose item the parser drops
    Late,          \* events that may become visible after newer ones
    PageLimit,     \* events on a page (200)
    PageCap,       \* pages a pull may fetch (25)
    FirstCap,      \* pages the pull of connect may fetch (1)
    Overlap,       \* how far below the watermark a walk asks (900 s)
    MaxPasses,     \* passes of a poll while the project is being set up (4)
    MaxEvent,      \* bound: instants
    MaxConnects,   \* bound: connects, the first and those with a new key
    MaxFaults      \* bound: failed requests and lost polls

ASSUME PageAssumption == PageLimit \in Nat \ {0} /\ PageCap \in Nat \ {0}
                         /\ FirstCap \in Nat \ {0}
ASSUME OverlapAssumption == Overlap \in Nat
ASSUME PassAssumption == MaxPasses \in Nat \ {0}
ASSUME BoundAssumption == MaxEvent \in Nat /\ MaxConnects \in Nat /\ MaxFaults \in Nat

VARIABLES
    source,        \* events the source lists
    watermark,     \* project_connections.watermark_at
    cursor,        \* project_connections.backfill_before
    stored,        \* events in the database
    announced,     \* cursors whose backfill was announced as complete
    poll,          \* what each poller does
    connects,
    faults

vars == <<source, watermark, cursor, stored, announced, poll, connects, faults>>

Event == 1..MaxEvent
Null == 0
Top == MaxEvent + 1        \* no upper limit

Instant == Event \cup {Null}

\* An instant that is in order is newer than all there was when it became
\* visible; only these are promised, and only if they can be read.
Promised == Event \ (Late \cup Garbled)

Steps == {"idle", "backward", "forward", "store", "apply", "emit"}
Outcomes == {"none", "failed", "capped", "contiguous"}

\* wm and from are the cursors as the poll read them; the walk goes on below
\* before and above after; left pages may still be fetched; newest is the first
\* item of the first page of the forward walk; got is collected.
Poll == [ pc      : Steps,
          by      : {"worker", "connect"},
          wm      : Instant,
          from    : Instant,
          after   : Instant,
          before  : Instant \cup {Top},
          left    : Nat,
          newest  : Instant,
          got     : SUBSET Event,
          outcome : Outcomes,
          passes  : Nat ]

Idle == [ pc |-> "idle", by |-> "worker", wm |-> Null, from |-> Null, after |-> Null,
          before |-> Top, left |-> 0, newest |-> Null, got |-> {}, outcome |-> "none",
          passes |-> 0 ]

-----------------------------------------------------------------------------
(* The source.                                                             *)

\* An event becomes visible: a new one, or a late one.
Arrive(e) ==
    /\ e \notin source
    /\ e \in Late \/ \A f \in source : f < e
    /\ source' = source \cup {e}
    /\ UNCHANGED <<watermark, cursor, stored, announced, poll, connects, faults>>

\* What a request may list: the events above after and below before.
Window(after, before) == {e \in source : after < e /\ e < before}

Page(after, before) ==
    LET listed == Window(after, before)
    IN  {e \in listed : Cardinality({f \in listed : f > e}) < PageLimit}

\* A page has a next URL if something is left below it.
Exhausted(after, before) == Page(after, before) = Window(after, before)

-----------------------------------------------------------------------------
(* The pull.                                                               *)

\* The walk asks for more than the watermark calls for.
LowerLimit(wm) == IF wm > Overlap THEN wm - Overlap ELSE Null

Forward(p) == [p EXCEPT !.pc = "forward", !.after = LowerLimit(p.wm), !.before = Top]
Backward(p) == [p EXCEPT !.pc = "backward", !.after = Null, !.before = p.from]

\* One pass, from the cursors it is given.
Pass(by, wm, from, pages, passes) ==
    LET p == [Idle EXCEPT !.by = by, !.wm = wm, !.from = from, !.left = pages,
                          !.passes = passes]
    IN  IF from = Null THEN Forward(p) ELSE Backward(p)

Done(p, outcome, resume) ==
    [p EXCEPT !.pc = "store", !.outcome = outcome, !.before = resume,
              !.after = Null, !.left = 0]

\* firstItemAt: the newest item of the page, unless the parser dropped it.
FirstItem(page) == IF \E n \in page \ Garbled : \A e \in page : e =< n
                   THEN CHOOSE n \in page \ Garbled : \A e \in page : e =< n
                   ELSE Null

\* The poll with a page more.
Read(p, page) ==
    [p EXCEPT !.left = @ - 1,
              !.got = @ \cup (page \ Garbled),
              !.newest = IF p.pc = "forward" /\ p.before = Top THEN FirstItem(page) ELSE @]

\* The oldest item of the page is at or below the watermark.
Reaches(p, page) == p.wm # Null /\ \E e \in page \ Garbled : e =< p.wm

AtAnEnd(p) == LET page == Page(p.after, p.before)
              IN  Reaches(p, page) \/ Exhausted(p.after, p.before)

Walking(w) == poll[w].pc \in {"backward", "forward"}

IsOldest(o, page) == o \in page /\ \A e \in page : o =< e

\* A page that is not the last of its walk: the next one is fetched, or the walk
\* ends here and keeps the place.
Continue(w) ==
    LET page == Page(poll[w].after, poll[w].before)
        p == Read(poll[w], page)
    IN  /\ Walking(w)
        /\ ~AtAnEnd(poll[w])
        /\ \E o \in page :
              /\ IsOldest(o, page)
              /\ poll' = [poll EXCEPT ![w] =
                            IF p.left > 0 THEN [p EXCEPT !.after = Null, !.before = o]
                            ELSE Done(p, "capped", o)]
        /\ UNCHANGED <<source, watermark, cursor, stored, announced, connects, faults>>

BadEndBackward(w) ==
    /\ poll[w].pc = "backward"
    /\ AtAnEnd(poll[w])
    /\ poll' = [poll EXCEPT ![w] = Done(Read(poll[w], Page(poll[w].after, poll[w].before)), "capped", poll[w].from)]
    /\ UNCHANGED <<source, watermark, cursor, stored, announced, connects, faults>>

\* The resumed walk is through. The forward walk has what is left of the pages;
\* without one it makes no request and has no place to keep.
EndBackward(w) ==
    LET p == Read(poll[w], Page(poll[w].after, poll[w].before))
    IN  /\ poll[w].pc = "backward"
        /\ AtAnEnd(poll[w])
        /\ poll' = [poll EXCEPT ![w] = IF p.left > 0 THEN Forward(p)
                                       ELSE Done(p, "capped", Null)]
        /\ UNCHANGED <<source, watermark, cursor, stored, announced, connects, faults>>

EndForward(w) ==
    LET p == Read(poll[w], Page(poll[w].after, poll[w].before))
    IN  /\ poll[w].pc = "forward"
        /\ AtAnEnd(poll[w])
        /\ poll' = [poll EXCEPT ![w] = Done(p, "contiguous", Null)]
        /\ UNCHANGED <<source, watermark, cursor, stored, announced, connects, faults>>

\* A request is refused, or times out: what was collected is kept.
PullFails(w) ==
    /\ Walking(w)
    /\ faults < MaxFaults
    /\ faults' = faults + 1
    /\ poll' = [poll EXCEPT ![w] = Done(@, "failed", Null)]
    /\ UNCHANGED <<source, watermark, cursor, stored, announced, connects>>

-----------------------------------------------------------------------------
(* The poll.                                                               *)

\* claimDuePollableConnections. The claim moves only the instant of the next one,
\* so it does not wait for a poll still at work.
Claim(w) ==
    /\ poll[w].pc = "idle"
    /\ poll' = [poll EXCEPT ![w] = Pass("worker", watermark, cursor, PageCap, MaxPasses)]
    /\ UNCHANGED <<source, watermark, cursor, stored, announced, connects, faults>>

\* connect: the first pull, of a connection just stored or given a new key.
FirstPull(w) ==
    /\ poll[w].pc = "idle"
    /\ connects < MaxConnects
    /\ connects' = connects + 1
    /\ poll' = [poll EXCEPT ![w] = Pass("connect", watermark, cursor, FirstCap, 1)]
    /\ UNCHANGED <<source, watermark, cursor, stored, announced, faults>>

\* persistPullResult stores a failed pull's part as well. A pass that saw events
\* will be the last of its poll.
Store(w) ==
    LET p == poll[w]
    IN  /\ p.pc = "store"
        /\ stored' = stored \cup p.got
        /\ poll' = [poll EXCEPT ![w] =
                      IF p.outcome = "failed" THEN Idle
                      ELSE [p EXCEPT !.pc = "apply", !.got = {},
                                     !.passes = IF p.got = {} THEN p.passes ELSE 1]]
        /\ UNCHANGED <<source, watermark, cursor, announced, connects, faults>>

\* A pass that saw nothing is followed by another if the plan has one (a project
\* past its set-up has one pass) and the budget of the run has not gone. It has the
\* cursors the pass before it left.
PassEnds(w, wm, from) ==
    \/ poll' = [poll EXCEPT ![w] = Idle]
    \/ /\ poll[w].passes > 1
       /\ poll' = [poll EXCEPT ![w] = Pass("worker", wm, from, PageCap, poll[w].passes - 1)]

Later(a, b) == IF a > b THEN a ELSE b

BadCanAdvance(p) == p.outcome # "failed" /\ p.newest # Null

CanAdvance(p) == p.outcome = "contiguous" /\ p.newest # Null

\* applyCursors, and runFirstPull, which only lacks ClearCursor. The watermark is
\* written as the greatest of the two.
Advance(w) ==
    /\ poll[w].pc = "apply"
    /\ CanAdvance(poll[w])
    /\ watermark' = Later(watermark, poll[w].newest)
    /\ cursor' = Null
    /\ PassEnds(w, watermark', Null)
    /\ UNCHANGED <<source, stored, announced, connects, faults>>

HoldCursor(w) ==
    /\ poll[w].pc = "apply"
    /\ ~CanAdvance(poll[w])
    /\ poll[w].outcome = "capped"
    /\ cursor' = poll[w].before
    /\ PassEnds(w, watermark, cursor')
    /\ UNCHANGED <<source, watermark, stored, announced, connects, faults>>

BadDrained2(p) == p.by = "worker" /\ p.newest = Null /\ p.from # Null

Drained(p) == p.by = "worker" /\ p.outcome = "contiguous" /\ p.newest = Null /\ p.from # Null

\* The resumed walk is through and the forward walk saw nothing; the clear commits
\* before the notification.
ClearCursor(w) ==
    /\ poll[w].pc = "apply"
    /\ Drained(poll[w])
    /\ cursor' = Null
    /\ poll' = [poll EXCEPT ![w].pc = "emit", ![w].wm = watermark]
    /\ UNCHANGED <<source, watermark, stored, announced, connects, faults>>

EmitBackfillComplete(w) ==
    /\ poll[w].pc = "emit"
    /\ announced' = announced \cup {poll[w].from}
    /\ PassEnds(w, poll[w].wm, Null)
    /\ UNCHANGED <<source, watermark, cursor, stored, connects, faults>>

\* Nothing seen from the newest event on, and no place kept.
LeaveCursors(w) ==
    /\ poll[w].pc = "apply"
    /\ poll[w].outcome = "contiguous"
    /\ ~CanAdvance(poll[w])
    /\ ~Drained(poll[w])
    /\ PassEnds(w, poll[w].wm, Null)
    /\ UNCHANGED <<source, watermark, cursor, stored, announced, connects, faults>>

\* The pull throws, a statement fails, or the process dies.
Lose(w) ==
    /\ poll[w].pc # "idle"
    /\ faults < MaxFaults
    /\ faults' = faults + 1
    /\ poll' = [poll EXCEPT ![w] = Idle]
    /\ UNCHANGED <<source, watermark, cursor, stored, announced, connects>>

-----------------------------------------------------------------------------
Init ==
    /\ source = {}
    /\ watermark = Null
    /\ cursor = Null
    /\ stored = {}
    /\ announced = {}
    /\ poll = [w \in Pollers |-> Idle]
    /\ connects = 0
    /\ faults = 0

Step(w) ==
    \/ Continue(w) \/ EndBackward(w) \/ EndForward(w)
    \/ Store(w)
    \/ Advance(w) \/ HoldCursor(w) \/ ClearCursor(w) \/ LeaveCursors(w)
    \/ EmitBackfillComplete(w)

Next ==
    \/ \E e \in Event : Arrive(e)
    \/ \E w \in Pollers :
          \/ Claim(w) \/ FirstPull(w)
          \/ Step(w)
          \/ PullFails(w) \/ Lose(w)

Spec == Init /\ [][Next]_vars

\* The crontab fires every minute, and a poll gets its answers.
Fairness ==
    /\ WF_vars(\E w \in Pollers : Claim(w))
    /\ \A w \in Pollers : WF_vars(Step(w))

FairSpec == Spec /\ Fairness

-----------------------------------------------------------------------------
TypeOK ==
    /\ source \subseteq Event
    /\ watermark \in Instant
    /\ cursor \in Instant
    /\ stored \subseteq Event
    /\ announced \subseteq Event
    /\ poll \in [Pollers -> Poll]
    /\ connects \in Nat
    /\ faults \in Nat

\* The watermark passes over nothing: an event that came in order and can be read
\* is in the database once the watermark is at or beyond it, for no walk will go
\* that far down again. It is so whatever polls overlap, fail or die half way,
\* and though one that is slow writes cursors it read long ago.
NothingIsPassedOver == \A e \in Promised \cap source : e =< watermark => e \in stored

\* "a notification claiming a drain that never happened stays impossible"
\* (session-source-poll.ts:375-376): a backfill announced as complete has left
\* nothing behind below the place it was resumed from.
NoFalseDrain == \A c \in announced : \A e \in Promised \cap source : e < c => e \in stored

\* The database catches up with the source again and again, also while the same
\* pages are read over and over: what came in order and can be read is stored.
EveryEventIsStored == []<>(Promised \cap source \subseteq stored)

\* "the backlog drains instead of re-fetching the same slice forever" (the title
\* in session-source-poll.backfill-resume.test.ts:102): a connection with a
\* history has a watermark in the end.
BacklogDrains == source # {} ~> watermark # Null
=============================================================================

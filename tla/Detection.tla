------------------------------ MODULE Detection ------------------------------
(***************************************************************************)
(* What the analysis of a project concludes from what has been stored of   *)
(* its sessions.  Intake stores a pull in two statements, the sessions     *)
(* first and their events after; recordings come from another task.  A     *)
(* lane reads the project's corpus in four statements, with no transaction *)
(* around them: the audience rules, the newest sessions of a window, their *)
(* events, the recordings of those it keeps.  Three detectors look at what *)
(* it read, a gate lets through what the evidence proves, and what passes  *)
(* is proposed under an identity a later tick is to find again.            *)
(*                                                                         *)
(* An instant stands for an event's time and, within a session, for its    *)
(* identifier: the order of a timeline is total.  Paths are normalised     *)
(* before they are stored.  A transcript is what a recording was reduced   *)
(* to: pages, and the beats of struggle seen on them.                      *)
(***************************************************************************)
EXTENDS Integers, FiniteSets, Sequences

CONSTANTS
    Sessions, Surfaces, NoPath,
    Facts,          \* what a pull may know of a session: its rank and its stamp
    Work,           \* the sessions of people with a work address
    RuleSets,       \* the audience rules a founder may have confirmed
    Transcripts,
    Span,           \* the length of the analysis window
    CorpusMax,      \* sessions a corpus holds
    OriginMin, DropoffMin, DropoffPercent,          \* floors of the funnel
    RepeatMin, StruggleMin,                         \* visits, and sessions with so many
    ErrorMin, Correlation,                          \* sessions, and how long after an act
    BeatMin, ObservedMin,                           \* per kind of beat, and sessions
    Told,           \* the names and paths an event may have
    MaxAt, MaxEvents, MaxPulls,     \* bounds: instants, events stored at first, pulls after
    MaxRecordings                   \* bound: recordings a lane reads

Instants == 1 .. MaxAt
Reasons == {"none", "automation_headless", "internal_domain"}
Beats == {"rage_click", "field_abandoned", "dead_click", "field_refocus", "scroll_back"}

(* Of the beats, a burst of clicks and a return to a field have a number.  *)
IsTranscript(t) ==
    /\ Len(t) \in Nat /\ DOMAIN t = 1 .. Len(t)
    /\ \A i \in DOMAIN t : t[i].kind \in {"rage_click", "field_refocus"} => t[i].times \in Nat

ASSUME DetectionAssumption ==
    /\ Told \subseteq {"act", "view", "exception"} \X (Surfaces \cup {NoPath})
    /\ NoPath \notin Surfaces /\ Work \subseteq Sessions
    /\ Facts \subseteq [rank : 1 .. 3, reason : Reasons]
    /\ RuleSets \subseteq SUBSET SUBSET {"resolved", "not_resolved", "work", "free_mail"}
    /\ RuleSets # {} /\ IsFiniteSet(Sessions)
    /\ \A t \in Transcripts : IsTranscript(t)
    /\ BeatMin \in [Beats -> Nat]
    /\ {Span, CorpusMax, OriginMin, DropoffMin, DropoffPercent, RepeatMin, StruggleMin,
        ErrorMin, Correlation, ObservedMin, MaxAt, MaxEvents, MaxRecordings,
        MaxPulls} \subseteq Nat

VARIABLES
    row,         \* each session's row; rank 0 is none
    events,      \* the events stored
    pulls,       \* pulls so far
    pull,        \* events whose session is stored and they are not
    lane,        \* the lane under way and what it has read
    proposed     \* identities handed on to be written up

vars == <<row, events, pulls, pull, lane, proposed>>

Event == {[of |-> s, at |-> i, name |-> t[1], path |-> t[2]] :
              s \in Sessions, i \in Instants, t \in Told}
Row == [rank : 0 .. 3, reason : Reasons, start : 0 .. MaxAt]
Recording == [of : Sessions, told : Transcripts]
Lane == [at : {"idle", "sessions", "events", "recordings", "detect"},
         rules : RuleSets, end : 0 .. MaxAt,
         read : SUBSET Sessions, kept : SUBSET Sessions, unchecked : SUBSET Sessions,
         events : SUBSET Event, told : SUBSET Recording]

NoRow == [rank |-> 0, reason |-> "none", start |-> 0]

Larger(a, b) == IF a >= b THEN a ELSE b
Smaller(a, b) == IF a <= b THEN a ELSE b
Smallest(S) == CHOOSE n \in S : \A m \in S : n <= m
Largest(S) == IF S = {} THEN 0 ELSE CHOOSE n \in S : \A m \in S : m <= n

-----------------------------------------------------------------------------
(* Who counts.  A rule is a set of clauses that must all hold, the rules   *)
(* are alternatives, and what cannot be checked is neither in nor out.  A  *)
(* pull knows the domain of an email exactly when it resolves the identity. *)

ClauseVerdict(clause, s, r) ==
    LET resolved == r.rank = 3
        says(holds) == IF holds THEN "counts" ELSE "outside"
    IN  IF clause \in {"resolved", "not_resolved"} THEN says(resolved <=> clause = "resolved")
        ELSE IF resolved THEN says(s \in Work <=> clause = "work")
        ELSE "unknown"

RuleVerdict(rule, s, r) ==
    LET said == {ClauseVerdict(clause, s, r) : clause \in rule}
    IN  IF "outside" \in said THEN "outside"
        ELSE IF "unknown" \in said THEN "unknown" ELSE "counts"

Audience(rules, s, r) ==
    LET said == {RuleVerdict(rule, s, r) : rule \in rules}
    IN  IF rules = {} \/ "counts" \in said THEN "counts"
        ELSE IF "unknown" \in said THEN "unknown" ELSE "outside"

-----------------------------------------------------------------------------
(* The walk of a session: the events at which it comes to another page.    *)

Before(E, e) == {d \in E : d.of = e.of /\ d.at < e.at}
Last(E) == CHOOSE e \in E : \A d \in E : d.at <= e.at

Walk(E, s) ==
    LET paths == {e \in E : e.of = s /\ e.path # NoPath}
    IN  {e \in paths : LET before == Before(paths, e)
                       IN  before = {} \/ Last(before).path # e.path}

Visits(E, s, o) == {e \in Walk(E, s) : e.path = o}

\* Bug: from the last visit on.
BadSince(E, s, o) == {e \in Walk(E, s) : \A v \in Visits(E, s, o) : v.at < e.at}

(* What came after the first visit.                                        *)
Since(E, s, o) ==
    LET visits == Visits(E, s, o)
    IN  {e \in Walk(E, s) : \E v \in visits : v.at < e.at}

(* Where sessions go next from a surface.                                  *)
NextFrom(W, o) ==
    {e.path : e \in {e \in W : /\ e.path # o
                               /\ Before(W, e) # {} /\ Last(Before(W, e)).path = o}}

Destinations(S, E, o) == UNION {NextFrom(Walk(E, s), o) : s \in S}

AtOrigin(S, E, o) == {s \in S : Visits(E, s, o) # {}}

Failed(S, E, o) ==
    LET goals == Destinations(S, E, o)
    IN  {s \in AtOrigin(S, E, o) : \A e \in Since(E, s, o) : e.path \notin goals}

Succeeded(S, E, o) == AtOrigin(S, E, o) \ Failed(S, E, o)

IsCohort(S, E, o) ==
    LET came == Cardinality(AtOrigin(S, E, o))
        lost == Cardinality(Failed(S, E, o))
    IN  /\ Destinations(S, E, o) # {}
        /\ came >= OriginMin /\ lost >= DropoffMin
        /\ lost * 100 >= DropoffPercent * came

(* Those who came to a surface again and again.                            *)
Strugglers(S, E, o) == {s \in AtOrigin(S, E, o) : Cardinality(Visits(E, s, o)) >= RepeatMin}

Funnel(l) ==
    {LET S == l.kept
         E == l.events
         visits == {Cardinality(Visits(E, s, o)) : s \in AtOrigin(S, E, o)}
     IN  [detector |-> "funnel_dropoff", class |-> "confusing", surface |-> o,
          signals |-> IF Largest(visits) < RepeatMin THEN {}
                      ELSE {[kind |-> "struggle", subkind |-> "repeated_attempt", surface |-> o,
                             attempts |-> Largest(visits),
                             sessions |-> Cardinality(Strugglers(S, E, o))]},
          counts |-> {Cardinality(AtOrigin(S, E, o)), Cardinality(Failed(S, E, o))}] :
     o \in {o \in Surfaces : IsCohort(l.kept, l.events, o)}}

-----------------------------------------------------------------------------
(* Exceptions, each put to what the person did just before: the latest     *)
(* event that is no exception, unless it is one nobody initiated.          *)

Exceptions(S, E) == {e \in E : e.of \in S /\ e.name = "exception"}

\* Bug: an event nobody initiated does not come in between.
BadActBefore(E, x) ==
    LET acts == {e \in Before(E, x) : e.name = "act"}
    IN  IF acts = {} THEN {} ELSE {Last(acts)}

ActBefore(E, x) ==
    LET others == {e \in Before(E, x) : e.name # "exception"}
    IN  IF others = {} \/ Last(others).name = "view" THEN {} ELSE {Last(others)}

Attribution(E, x) ==
    IF x.path = NoPath /\ ActBefore(E, x) # {} THEN Last(ActBefore(E, x)).path ELSE x.path

IsCorrelated(E, x) == \E a \in ActBefore(E, x) : x.at - a.at <= Correlation

Group(l, o) == {x \in Exceptions(l.kept, l.events) : Attribution(l.events, x) = o}

\* Bug: exceptions are counted where sessions are meant.
BadSessionsOf(X) == X

SessionsOf(X) == {x.of : x \in X}

Errors(l) ==
    {LET group == Group(l, o)
         correlated == Cardinality(SessionsOf({x \in group : IsCorrelated(l.events, x)}))
     IN  [detector |-> "error_event", class |-> "broken", surface |-> o,
          signals |-> {IF IsCorrelated(l.events, x)
                       THEN [kind |-> "failure_correlated", at |-> x.at, sessions |-> correlated]
                       ELSE [kind |-> "failure_uncorrelated", at |-> x.at] : x \in group},
          counts |-> {Cardinality(SessionsOf(group))}] :
     o \in {o \in Surfaces : Cardinality(SessionsOf(Group(l, o))) >= ErrorMin}}

-----------------------------------------------------------------------------
(* Struggle seen in recordings.  A beat is on the latest page before it.   *)

PageAt(t, i) ==
    LET pages == {j \in 1 .. i - 1 : t[j].kind = "page"}
    IN  IF pages = {} THEN NoPath ELSE t[Largest(pages)].on

Reached(t) == {t[i].on : i \in {i \in DOMAIN t : t[i].kind = "page"}} \ {NoPath}

(* Which beats count: scrolling back is of no control; the others need one *)
(* that can be told again, and two need it told for certain.               *)
Counted(beat) ==
    CASE beat.kind = "dead_click"      -> beat.tier = "stable" /\ beat.interactive
      [] beat.kind = "field_abandoned" -> beat.tier = "stable"
      [] beat.kind \in {"rage_click", "field_refocus"}   -> beat.tier # "none"
      [] OTHER                                           -> TRUE

BeatsOn(t, o, kind) ==
    {i \in DOMAIN t : t[i].kind = kind /\ PageAt(t, i) = o /\ Counted(t[i])}

Magnitude(t, o, kind) ==
    LET beats == BeatsOn(t, o, kind)
    IN  CASE kind \in {"rage_click", "field_refocus"} -> Largest({t[i].times : i \in beats})
          [] kind = "dead_click" ->
                Largest({Cardinality({j \in beats : t[j].key = t[i].key}) : i \in beats})
          [] kind = "field_abandoned" -> Cardinality({t[i].key : i \in beats})
          [] OTHER -> Cardinality(beats)

Precedence == <<"rage_click", "field_abandoned", "dead_click", "field_refocus", "scroll_back">>

Qualifying(l, o, kind) ==
    {r \in l.told : o \in Reached(r.told) /\ Magnitude(r.told, o, kind) >= BeatMin[kind]}

Qualifies(l, o, i) ==
    LET those == Qualifying(l, o, Precedence[i])
    IN  those # {} /\ Cardinality(those) >= ObservedMin

Winner(l, o) ==
    CHOOSE i \in DOMAIN Precedence :
        Qualifies(l, o, i) /\ \A j \in 1 .. i - 1 : ~Qualifies(l, o, j)

Observed(l) ==
    {LET kind == Precedence[Winner(l, o)]
         those == Qualifying(l, o, kind)
     IN  [detector |-> "observed_struggle", class |-> "confusing", surface |-> o,
          signals |-> {[kind |-> "struggle", subkind |-> kind, surface |-> o,
                        attempts |-> Largest({Magnitude(r.told, o, kind) : r \in those}),
                        sessions |-> Cardinality(those)]},
          counts |-> {Cardinality({r \in l.told : o \in Reached(r.told)}), Cardinality(those)}] :
     o \in {o \in Surfaces : \E i \in DOMAIN Precedence : Qualifies(l, o, i)}}

Candidates(l) == Funnel(l) \cup Errors(l) \cup Observed(l)

-----------------------------------------------------------------------------
(* The gate.  A claim stands on what its class is proved by, or goes down  *)
(* to the next class, or out.                                              *)

Proves == [broken |-> {"failure_correlated"}, confusing |-> {"struggle"}]

Ladder == [broken |-> <<"broken", "confusing">>, confusing |-> <<"confusing">>]

Start(l) == l.end - Span

IsAboutClaim(l, c, sig) ==
    IF sig.kind = "struggle" THEN sig.surface = c.surface ELSE sig.at \in Start(l) .. l.end

Floors(sig) ==
    IF sig.kind = "failure_correlated" THEN [attempts |-> 0, sessions |-> ErrorMin]
    ELSE IF sig.subkind = "repeated_attempt"
         THEN [attempts |-> RepeatMin, sessions |-> StruggleMin]
         ELSE [attempts |-> BeatMin[sig.subkind], sessions |-> ObservedMin]

MagnitudeSatisfied(sig) ==
    /\ sig.sessions >= Floors(sig).sessions
    /\ sig.kind = "struggle" => sig.attempts >= Floors(sig).attempts

AtInclusiveBoundary(sig) ==
    \/ sig.sessions = Floors(sig).sessions
    \/ sig.kind = "struggle" /\ sig.attempts = Floors(sig).attempts

Proofs(sigs, class) == {sig \in sigs : sig.kind \in Proves[class] /\ MagnitudeSatisfied(sig)}

\* Bug: a claim is let through on the class it was made with.
BadFinalClass(l, c) == c.class

FinalClass(l, c) ==
    LET about == {sig \in c.signals : IsAboutClaim(l, c, sig)}
        ladder == Ladder[c.class]
        stands(i) == Proofs(about, ladder[i]) # {}
    IN  IF \E i \in DOMAIN ladder : stands(i)
        THEN ladder[CHOOSE i \in DOMAIN ladder : stands(i) /\ \A j \in 1 .. i - 1 : ~stands(j)]
        ELSE "drop"

Confidence(c, class) ==
    LET proving == Proofs(c.signals, class)
    IN  IF proving # {} /\ \A sig \in proving : AtInclusiveBoundary(sig)
        THEN "at_threshold" ELSE "threshold_met"

Passed(l) == {c \in Candidates(l) : FinalClass(l, c) # "drop"}

(* What a problem is known by: of its signals, only the kinds that could   *)
(* prove its class.                                                        *)

\* Bug: every kind of signal the window held is part of it.
BadProofKinds(l, c) == {sig.kind : sig \in c.signals}

ProofKinds(l, c) == {sig.kind : sig \in c.signals} \cap Proves[FinalClass(l, c)]

Identity(l, c) == [detector |-> c.detector, surface |-> c.surface, class |-> FinalClass(l, c),
                   shape |-> ProofKinds(l, c)]

-----------------------------------------------------------------------------
Idle == [at |-> "idle", rules |-> CHOOSE r \in RuleSets : TRUE, end |-> 0, read |-> {},
         kept |-> {}, unchecked |-> {}, events |-> {}, told |-> {}]

(* What earlier pulls have stored, of sessions about which they knew alike. *)
OneAtATime(E) == \A d, e \in E : d.of = e.of /\ d.at = e.at => d = e

Init ==
    /\ events \in {{}} \cup {{h[i] : i \in 1 .. MaxEvents} : h \in [1 .. MaxEvents -> Event]}
    /\ OneAtATime(events)
    /\ \E f \in Facts :
        row = [s \in Sessions |->
                  LET own == {e.at : e \in {e \in events : e.of = s}}
                  IN  IF own = {} THEN NoRow
                      ELSE [rank |-> f.rank, reason |-> f.reason, start |-> Smallest(own)]]
    /\ pulls = 0
    /\ pull = {}
    /\ lane = Idle
    /\ proposed = {}

(* A bound, and no loss: what is stored when a lane has read its sessions  *)
(* and events it no longer sees, so it is stored before or after.          *)
CorpusIsRead == lane.at \in {"recordings", "detect"}

(* What is known best stands: identity and stamp are replaced by a pull    *)
(* that knows at least as much, and the start only moves back.             *)
Merged(r, f, at) ==
    IF r.rank = 0 THEN [rank |-> f.rank, reason |-> f.reason, start |-> at]
    ELSE [rank |-> Larger(r.rank, f.rank),
          reason |-> IF f.rank >= r.rank THEN f.reason ELSE r.reason,
          start |-> Smaller(r.start, at)]

(* A pull brings an event of a session, and what it knows of the session:  *)
(* the sessions are stored first.  What it brings may be stored already.   *)
StoreSession ==
    /\ pull = {} /\ ~CorpusIsRead /\ pulls < MaxPulls
    /\ pulls' = pulls + 1
    /\ \E e \in Event :
        /\ \A d \in events : d.of = e.of /\ d.at = e.at => d = e
        /\ pull' = {e}
        /\ \E f \in Facts : row' = [row EXCEPT ![e.of] = Merged(@, f, e.at)]
    /\ UNCHANGED <<events, lane, proposed>>

StoreEvents ==
    /\ pull # {} /\ ~CorpusIsRead
    /\ events' = events \cup pull
    /\ pull' = {}
    /\ UNCHANGED <<row, pulls, lane, proposed>>

(* The second statement fails, or the worker dies before it.               *)
LosePull ==
    /\ pull # {} /\ ~CorpusIsRead
    /\ pull' = {}
    /\ UNCHANGED <<row, events, pulls, lane, proposed>>

-----------------------------------------------------------------------------
(* A lane begins at the instant of the latest event there is, and reads    *)
(* the rules that are confirmed by then.                                   *)
StartLane ==
    /\ lane.at = "idle"
    /\ \E rules \in RuleSets :
        LET end == Largest({e.at : e \in events \cup pull})
        IN  lane' = [Idle EXCEPT !.at = "sessions", !.end = end, !.rules = rules]
    /\ UNCHANGED <<row, events, pulls, pull, proposed>>

(* The newest sessions that started in the window.                         *)
InCorpus(S) ==
    LET due == {s \in Sessions : row[s].rank > 0 /\ row[s].start \in Start(lane) .. lane.end}
    IN  /\ S \subseteq due
        /\ Cardinality(S) = Smaller(Cardinality(due), CorpusMax)
        /\ \A s \in S, d \in due \ S : row[s].start >= row[d].start

ReadSessions ==
    /\ lane.at = "sessions"
    /\ \E S \in SUBSET Sessions :
        /\ InCorpus(S)
        /\ LET said(s) == Audience(lane.rules, s, row[s])
               kept == {s \in S : row[s].reason = "none" /\ said(s) # "outside"}
           IN  lane' = [lane EXCEPT !.at = "events", !.read = S, !.kept = kept,
                                    !.unchecked = {s \in kept : said(s) = "unknown"}]
    /\ UNCHANGED <<row, events, pulls, pull, proposed>>

(* All events of the sessions read, those of after the window too.         *)
ReadEvents ==
    /\ lane.at = "events"
    /\ lane' = [lane EXCEPT !.at = "recordings", !.events = {e \in events : e.of \in lane.read}]
    /\ UNCHANGED <<row, events, pulls, pull, proposed>>

(* The recordings of the sessions kept, one of each: what has been stored  *)
(* of them by now is another module's matter, and a free choice here.      *)
ReadRecordings ==
    /\ lane.at = "recordings"
    /\ \E T \in SUBSET Recording :
        /\ Cardinality(T) <= MaxRecordings
        /\ \A r, t \in T : r.of \in lane.kept /\ (r.of = t.of => r = t)
        /\ lane' = [lane EXCEPT !.at = "detect", !.told = T]
    /\ UNCHANGED <<row, events, pulls, pull, proposed>>

Conclude ==
    /\ lane.at = "detect"
    /\ proposed' = proposed \cup {Identity(lane, c) : c \in Passed(lane)}
    /\ lane' = Idle
    /\ UNCHANGED <<row, events, pulls, pull>>

(* A statement fails: the project is skipped this time.                    *)
LaneErrors ==
    /\ lane.at \notin {"idle", "detect"}
    /\ lane' = Idle
    /\ UNCHANGED <<row, events, pulls, pull, proposed>>

Next ==
    \/ StoreSession \/ StoreEvents \/ LosePull
    \/ StartLane \/ ReadSessions \/ ReadEvents \/ ReadRecordings \/ Conclude \/ LaneErrors

Spec == Init /\ [][Next]_vars

-----------------------------------------------------------------------------
(* Every variable has its type.                                           *)
TypeOK ==
    /\ row \in [Sessions -> Row]
    /\ events \subseteq Event
    /\ pulls \in 0 .. MaxPulls
    /\ pull \subseteq Event
    /\ lane \in Lane
    /\ \A p \in proposed : p.detector \in {"funnel_dropoff", "error_event", "observed_struggle"}

(* All is of its type, and every count a lane makes is of the sessions it  *)
(* keeps, which, like those it could not check, are among those it read.   *)
(* measured-count.ts refuses any other count by throwing, and the          *)
(* project's analysis would be lost.                                       *)
CountsAreOfTheKept ==
    /\ TypeOK
    /\ lane.at = "detect" =>
        /\ lane.unchecked \subseteq lane.kept /\ lane.kept \subseteq lane.read
        /\ \A c \in Candidates(lane) :
            /\ \A n \in c.counts : n <= Cardinality(lane.kept)
            /\ \A sig \in c.signals :
                sig.kind # "failure_uncorrelated" => sig.sessions <= Cardinality(lane.kept)

(* Who dropped off at a surface is who came to it once and ended there.    *)
(* So nobody who came again and again is among them: the struggle by which *)
(* a drop-off is proved is always of sessions that went on.                *)
DropoffsEndThere ==
    lane.at = "detect" => \A o \in Surfaces :
        LET paths(s) == {e \in lane.events : e.of = s /\ e.path # NoPath}
            ended(s) == /\ \E e \in paths(s) : e.path = o
                        /\ \A d, e \in paths(s) : d.at < e.at /\ d.path = o => e.path = o
        IN  /\ Failed(lane.kept, lane.events, o) = {s \in lane.kept : ended(s)}
            /\ RepeatMin > 1 =>
                   Strugglers(lane.kept, lane.events, o)
                       \subseteq Succeeded(lane.kept, lane.events, o)

(* A session that went on from a surface is never found later to have      *)
(* dropped off there, in whatever order the rest of its events and those   *)
(* of others are stored.                                                   *)
VerdictsOnlyImprove ==
    [][events' # events =>
          \A o \in Surfaces :
              Succeeded(Sessions, events, o) \cap Failed(Sessions, events', o) = {}]_vars

(* What is let through as broken was seen to happen: in enough kept        *)
(* sessions somebody did something, an exception followed within the       *)
(* window, with nothing but exceptions in between, and one of them lies in *)
(* the time the claim is about.  What is let through as confusing has      *)
(* enough kept sessions behind it that came there or were recorded there.  *)
NoClaimWithoutProof ==
    lane.at = "detect" => \A c \in Passed(lane) :
        LET follows(a, x) ==
                /\ a \in lane.events /\ a.of = x.of /\ a.name = "act" /\ a.at < x.at
                /\ x.at - a.at <= Correlation
                /\ \A e \in lane.events :
                    e.of = x.of /\ a.at < e.at /\ e.at < x.at => e.name = "exception"
                /\ c.surface = IF x.path # NoPath THEN x.path ELSE a.path
            seen == {x \in lane.events : x.of \in lane.kept /\ x.name = "exception"
                                         /\ \E a \in lane.events : follows(a, x)}
        IN  IF FinalClass(lane, c) = "broken"
            THEN /\ Cardinality({x.of : x \in seen}) >= ErrorMin
                 /\ \E x \in seen : x.at \in Start(lane) .. lane.end
            ELSE \E sig \in c.signals :
                    /\ sig.kind = "struggle" /\ sig.surface = c.surface
                    /\ sig.sessions >= (IF c.detector = "funnel_dropoff"
                                        THEN StruggleMin ELSE ObservedMin)
                    /\ Confidence(c, "confusing") = "threshold_met" =>
                           sig.sessions > Floors(sig).sessions /\ sig.attempts > Floors(sig).attempts

(* A detector knows the problem of a surface by one identity, whatever     *)
(* else the window held: a later lane finds it again, dismissed or posted. *)
OneIdentityPerProblem ==
    \A p, q \in proposed : p.detector = q.detector /\ p.surface = q.surface => p = q
=============================================================================

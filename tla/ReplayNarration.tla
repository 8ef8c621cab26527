--------------------------- MODULE ReplayNarration ---------------------------
(***************************************************************************)
(* The tick that reads a project's session recordings and writes one       *)
(* summary of each.  It keeps no list of what it owes: it lists again, on  *)
(* every tick, what the source has from the newest summarised recording    *)
(* on, and takes from that the oldest ones that have no summary, as many   *)
(* as its budget allows.  A recording whose events arrived only in part    *)
(* is summarised from that part and its events are read again later, from  *)
(* where the first read stopped.                                           *)
(*                                                                         *)
(* Ticks may overlap: one that outlives its ten minutes, one whose worker  *)
(* died and that is run again.                                             *)
(*                                                                         *)
(* Every recording knows when it started, the source lists the newest      *)
(* first, and every chunk of a recording holds one beat.                   *)
(***************************************************************************)
EXTENDS Integers, FiniteSets

CONSTANTS
    Workers,      \* ticks that may be under way at once
    Recordings,
    Instants,     \* when recordings start
    None,
    Chunks,       \* the chunks a recording's events are fetched in
    PageSize,     \* RECORDINGS_PAGE_LIMIT
    PageCap,      \* listPages
    Budget,       \* perProjectCap; perTickCap may leave less of it
    BeatLimit,    \* NARRATION_MAX_ACTIONS
    MaxFaults     \* bound on calls that fail, workers that die, events gone

ASSUME InstantsAssumption == Instants \subseteq Nat \ {0}
ASSUME NoneAssumption == None \notin Recordings
ASSUME WorkersAssumption == IsFiniteSet(Workers)
ASSUME BoundsAssumption ==
    /\ Chunks \in Nat \ {0} /\ BeatLimit \in Nat
    /\ PageSize \in Nat \ {0} /\ PageCap \in Nat \ {0}
    /\ Budget \in Nat \ {0} /\ MaxFaults \in Nat

VARIABLES
    visible,   \* the recordings the source lists
    start,     \* when each of them started; 0 for one not listed yet
    row,       \* recording_summaries: what was read of each recording
    tick,      \* each tick under way
    asked,     \* how often a model was asked about each recording
    excused,   \* the recordings that something went wrong with
    faults

vars == <<visible, start, row, tick, asked, excused, faults>>

-----------------------------------------------------------------------------
(* A summary, of which the beats are what matters here.                    *)

Places == 1 .. Chunks

Row == [stop : {"none", "failed", "settled"},
        cursor : 0 .. Chunks,          \* the chunk to go on from; 0 for null
        beats : Nat,                   \* actionCount, the omitted included
        copies : [Places -> Nat]]      \* how often each chunk was counted in

NoRow == [stop |-> "none", cursor |-> 0, beats |-> 0, copies |-> [c \in Places |-> 0]]

Held(r) == row[r].stop # "none"

Retryable(r) == row[r].stop = "failed"

(* The watermark: the start of the newest recording with a summary. *)
LatestStartedAt ==
    IF \E r \in Recordings : Held(r)
    THEN CHOOSE t \in {start[r] : r \in {q \in Recordings : Held(q)}} :
            \A r \in Recordings : Held(r) => start[r] <= t
    ELSE 0

(* A transcript that fits ends with the beat "ended", and the next read    *)
(* takes the place of it; of one that does not fit that beat was cut off.  *)
EndsWithEnded(held) == held.beats > 0 /\ held.beats <= BeatLimit

(* What the row says when the chunks of `read` continue what it held.      *)
ResumeDigest(held, read, stop, cursor) ==
    [stop |-> stop, cursor |-> cursor,
     beats |-> held.beats - (IF EndsWithEnded(held) THEN 1 ELSE 0)
                 + (IF read = {} THEN 0 ELSE Cardinality(read) + 1),
     copies |-> [c \in Places |-> held.copies[c] + (IF c \in read THEN 1 ELSE 0)]]

\* Bug: what is there already is never gone on from.
BadResumeAt(held) == 1

ResumeAt(held) == IF held.cursor = 0 THEN 1 ELSE held.cursor

(* A pull that went well: to the end, or to a chunk or byte cap.           *)
PulledWell(held) ==
    {ResumeDigest(held, ResumeAt(held) .. Chunks, "settled", 0)}
        \cup {ResumeDigest(held, ResumeAt(held) .. c - 1, "settled", c) :
                c \in {d \in Places : d > ResumeAt(held)}}

(* One that did not: the sources were not listed, a chunk did not come, or *)
(* the source has nothing stored of the recording any more.                *)
PulledBadly(held) ==
    {ResumeDigest(held, {}, "failed", 0), ResumeDigest(held, {}, "settled", 0)}
        \cup {ResumeDigest(held, ResumeAt(held) .. c - 1, "failed", c) :
                c \in {d \in Places : d >= ResumeAt(held)}}

-----------------------------------------------------------------------------
(* A tick. *)

Tick == [at : {"idle", "started", "listed", "known", "working", "writing"},
         mark : Nat, listed : SUBSET Recordings, fresh : SUBSET Recordings,
         retries : SUBSET Recordings, left : 0 .. Budget,
         doing : Recordings \cup {None}, again : BOOLEAN, got : Row]

Idle == [at |-> "idle", mark |-> 0, listed |-> {}, fresh |-> {}, retries |-> {},
         left |-> 0, doing |-> None, again |-> FALSE, got |-> NoRow]

\* Bug: what starts at the watermark is dropped from the listing.
BadBefore(r, mark) == start[r] <= mark

IsBeforeWatermark(r, mark) == start[r] < mark

(* The newest n of the recordings the source has, in whole pages; of those *)
(* that started together, any.                                             *)
NewestPages(n) ==
    {s \in SUBSET visible :
        /\ \/ Cardinality(s) = n * PageSize
           \/ Cardinality(s) < n * PageSize /\ s = visible
        /\ \A r \in s : \A q \in visible \ s : start[q] <= start[r]}

\* Bug: the newest first.
BadOldestFirst(rs) == {r \in rs : \A q \in rs : start[q] <= start[r]}

OldestFirst(rs) == {r \in rs : \A q \in rs : start[r] <= start[q]}

Fresh(listed) == {r \in listed : ~Held(r)}

\* Bug: a row that settled meanwhile is written over.
BadMayRefresh(r, new) == row[r].beats <= new.beats

(* The condition of the one statement that refreshes a failed row.         *)
MayRefresh(r, new) == Retryable(r) /\ row[r].beats <= new.beats

-----------------------------------------------------------------------------
Init ==
    /\ visible = {}
    /\ start = [r \in Recordings |-> 0]
    /\ row = [r \in Recordings |-> NoRow]
    /\ tick = [w \in Workers |-> Idle]
    /\ asked = [r \in Recordings |-> 0]
    /\ excused = {}
    /\ faults = 0

(* The source lists a recording, perhaps later than one that began after.  *)
Appear(r) ==
    /\ r \notin visible
    /\ visible' = visible \cup {r}
    /\ \E t \in Instants :
        /\ start' = [start EXCEPT ![r] = t]
        /\ excused' = IF \E q \in visible : start[q] > t THEN excused \cup {r} ELSE excused
    /\ UNCHANGED <<row, tick, asked, faults>>

Fault == faults < MaxFaults /\ faults' = faults + 1

StartTick(w) ==
    /\ tick[w].at = "idle"
    /\ tick' = [tick EXCEPT ![w] = [Idle EXCEPT !.at = "started", !.mark = LatestStartedAt]]
    /\ UNCHANGED <<visible, start, row, asked, excused, faults>>

(* As many pages as it may, or as came before one failed.  What it should  *)
(* have listed and did not is noted.                                       *)
ListRecordings(w) ==
    /\ tick[w].at = "started"
    /\ \E n \in 0 .. PageCap : \E page \in NewestPages(n) :
        LET due    == {r \in visible : ~IsBeforeWatermark(r, tick[w].mark)}
            listed == due \cap page
        IN  /\ IF n = PageCap THEN UNCHANGED faults ELSE Fault
            /\ tick' = [tick EXCEPT ![w] = [Idle EXCEPT !.at = "listed", !.listed = listed]]
            /\ excused' = excused \cup (due \ listed)
    /\ UNCHANGED <<visible, start, row, asked>>

SummarisedIds(w) ==
    /\ tick[w].at = "listed"
    /\ tick' = [tick EXCEPT ![w].at = "known", ![w].fresh = Fresh(tick[w].listed)]
    /\ UNCHANGED <<visible, start, row, asked, excused, faults>>

(* It goes on while there is something to do and budget to do it.          *)
Onwards(fresh, retries, left) ==
    IF left = 0 \/ fresh \cup retries = {} THEN Idle
    ELSE [Idle EXCEPT !.at = "working", !.left = left, !.fresh = fresh, !.retries = retries]

(* Asked a moment after, so that a row written in between is in both.      *)
RetryablePullIds(w) ==
    /\ tick[w].at = "known"
    /\ \E left \in 1 .. Budget :
        tick' = [tick EXCEPT ![w] =
                    Onwards(tick[w].fresh, {r \in tick[w].listed : Retryable(r)}, left)]
    /\ UNCHANGED <<visible, start, row, asked, excused, faults>>

(* The recordings without a summary come first, then those to read again.  *)
Due(w) == IF tick[w].fresh # {} THEN OldestFirst(tick[w].fresh)
                                ELSE OldestFirst(tick[w].retries)

(* It pulls the events of the next one, from where the row it holds says,  *)
(* and has a first attempt put in words.                                   *)
PullEvents(w) ==
    /\ tick[w].at = "working"
    /\ \E r \in Due(w) :
        LET again == r \in tick[w].retries
            held  == IF again THEN row[r] ELSE NoRow
        IN  \E got \in PulledWell(held) \cup PulledBadly(held) :
                /\ IF got \in PulledWell(held) THEN UNCHANGED faults ELSE Fault
                /\ tick' = [tick EXCEPT ![w].at = "writing", ![w].doing = r,
                                        ![w].again = again, ![w].got = got,
                                        ![w].left = @ - 1,
                                        ![w].fresh = @ \ {r},
                                        ![w].retries = IF r \in tick[w].fresh
                                                       THEN @ ELSE @ \ {r}]
                /\ asked' = IF again THEN asked
                            ELSE [asked EXCEPT ![r] = @ + 1]
    /\ UNCHANGED <<visible, start, row, excused>>

GoOn(w) ==
    tick' = [tick EXCEPT ![w] = Onwards(tick[w].fresh, tick[w].retries, tick[w].left)]

(* A first attempt inserts the row, unless someone has.                    *)
Persist(w) ==
    /\ tick[w].at = "writing"
    /\ ~tick[w].again
    /\ row' = IF Held(tick[w].doing) THEN row
              ELSE [row EXCEPT ![tick[w].doing] = tick[w].got]
    /\ GoOn(w)
    /\ UNCHANGED <<visible, start, asked, excused, faults>>

(* A retry replaces the evidence of the row, unless it read less or the    *)
(* row has settled.                                                        *)
RefreshFailedPull(w) ==
    /\ tick[w].at = "writing"
    /\ tick[w].again
    /\ row' = IF MayRefresh(tick[w].doing, tick[w].got)
              THEN [row EXCEPT ![tick[w].doing] = tick[w].got] ELSE row
    /\ GoOn(w)
    /\ UNCHANGED <<visible, start, asked, excused, faults>>

(* One recording's failure is caught, and the tick goes on to the next.    *)
AttemptFails(w) ==
    /\ tick[w].at = "writing"
    /\ Fault
    /\ excused' = excused \cup {tick[w].doing}
    /\ GoOn(w)
    /\ UNCHANGED <<visible, start, row, asked>>

(* The worker dies, or a call outside the loop throws.                     *)
Die(w) ==
    /\ tick[w].at # "idle"
    /\ Fault
    /\ tick' = [tick EXCEPT ![w] = Idle]
    /\ UNCHANGED <<visible, start, row, asked, excused>>

Work(w) ==
    \/ ListRecordings(w) \/ SummarisedIds(w) \/ RetryablePullIds(w) \/ PullEvents(w)
    \/ Persist(w) \/ RefreshFailedPull(w)

Next ==
    \/ \E r \in Recordings : Appear(r)
    \/ \E w \in Workers : StartTick(w) \/ Work(w) \/ AttemptFails(w) \/ Die(w)

Spec == Init /\ [][Next]_vars

(* The crontab fires every ten minutes, and a tick gets its answers.       *)
Fairness ==
    /\ WF_vars(\E w \in Workers : StartTick(w))
    /\ \A w \in Workers : WF_vars(Work(w))

FairSpec == Spec /\ Fairness

-----------------------------------------------------------------------------
(* Every row has the shape of a summary -- one read to its end or to a cap *)
(* goes on, if anywhere, from a chunk there is -- and every tick is at a   *)
(* step of the loop with no more budget than it was given.                 *)
TypeOK ==
    /\ visible \subseteq Recordings
    /\ start \in [Recordings -> Instants \cup {0}]
    /\ row \in [Recordings -> Row]
    /\ tick \in [Workers -> Tick]
    /\ asked \in [Recordings -> Nat]
    /\ excused \subseteq Recordings
    /\ faults \in 0 .. MaxFaults

(* The watermark passes over a recording without a summary only if it came *)
(* late, a listing was cut short before it, or an attempt at it failed: no *)
(* budget, race of two ticks, death of one or twin of the same instant     *)
(* leaves one behind.                                                      *)
NoneIsPassedOver ==
    \A r \in visible \ excused : ~Held(r) => LatestStartedAt <= start[r]

(* The chunks a row says it has read. *)
ReadUpTo(held) ==
    IF held.cursor # 0 THEN held.cursor - 1
    ELSE IF held.stop = "settled" /\ held.beats > 0 THEN Chunks ELSE 0

(* What a row says it has read is what is in its transcript, each chunk    *)
(* once, whatever retries of two ticks raced -- as long as the transcript  *)
(* never outgrew what is kept of it.                                       *)
EachBeatOnce ==
    \A r \in Recordings :
        row[r].beats <= BeatLimit =>
            \A c \in Places : row[r].copies[c] = IF c <= ReadUpTo(row[r]) THEN 1 ELSE 0

(* No retry takes beats away, and a row that has settled never changes.    *)
RowsOnlyGrow ==
    [][\A r \in Recordings :
            /\ row[r].beats <= row'[r].beats
            /\ row[r].stop = "settled" => row'[r] = row[r]]_vars

(* A summary is bought once: once for each tick that was at it when it was *)
(* written, and once more for each fault.                                  *)
BoughtOnce ==
    \A r \in Recordings : asked[r] <= Cardinality(Workers) + faults

(* Whatever ticks overlap and retries race, nothing is done over: no chunk *)
(* is counted in twice and no recording narrated again.                    *)
NothingIsDoneOver == EachBeatOnce /\ BoughtOnce

(* A recording always ends with a summary, read to an end or to a cap,     *)
(* unless the watermark has passed it: again and again, and so for ever    *)
(* once no more recordings come, there is none of which that is not true.  *)
EveryRecordingSettles ==
    []<>\A r \in visible : row[r].stop = "settled" \/ start[r] < LatestStartedAt
=============================================================================

----------------------------- MODULE DecisionLog -----------------------------
(***************************************************************************)
(* The record of what the delivery lane of one project concluded           *)
(* (packages/db/src/repositories/delivery-decisions.repo.ts), written by   *)
(* every tick in recordDecision (worker/src/tasks/delivery-tick.ts). A run *)
(* is one uninterrupted stretch of the same answer.                        *)
(*                                                                         *)
(* record is one READ COMMITTED transaction of two statements: close the   *)
(* open run if its answer differs, then extend or open. The close reads a  *)
(* snapshot, waits for whoever has the row, and looks at it again; once it *)
(* has closed a run no other transaction gets past that row before the     *)
(* commit, so closing and opening are one step here. A close that found    *)
(* nothing to close holds no lock, and the second statement comes later.   *)
(*                                                                         *)
(* A definition whose name starts with Bad is a bug the definition after   *)
(* it could have had.  No action uses one: each is put in the place of the *)
(* good definition to see that a property notices.                         *)
(***************************************************************************)
EXTENDS Integers, Sequences

CONSTANTS
    Recorders,       \* delivery ticks that may be running at the same time
    Answers,       \* a decision with its reason code
    MaxClock,      \* bound: instants at which a tick may start
    MaxRecords     \* bound: decisions handed to record

ASSUME BoundAssumption == MaxClock \in Nat \ {0} /\ MaxRecords \in Nat

VARIABLES
    runs,          \* the delivery_decisions rows of the project, in opening order
    recorder,          \* the ticks, and how far each is into record
    clock,
    records        \* decisions handed to record so far

logVars == <<runs, recorder, clock, records>>

Now == 1..MaxClock
Open == 0          \* ended_at of the open run

Run == [ answer : Answers,
         first  : Now,
         last   : Now,
         ended  : Now \cup {Open},
         about  : Now ]  \* decidedAt of the tick whose finding and channel it carries

\* seen is the open run in the snapshot of the closing statement, 0 for none.
NotRecording == [pc |-> "idle"]
Deciding == [pc : {"decide"}, at : Now]
Recording == [pc : {"close", "extend"}, at : Now, answer : Answers, seen : Nat]

IsOpen(i) == i \in DOMAIN runs /\ runs[i].ended = Open

\* openRunFor.
OpenRun == IF \E i \in DOMAIN runs : IsOpen(i) THEN CHOOSE i \in DOMAIN runs : IsOpen(i) ELSE 0

NewRun(a, at) == [answer |-> a, first |-> at, last |-> at, ended |-> Open, about |-> at]

Advance ==
    /\ clock < MaxClock
    /\ clock' = clock + 1
    /\ UNCHANGED <<runs, recorder, records>>

\* runDeliveryTick fixes the instant every decision of the tick is recorded at.
StartTick(w) ==
    /\ recorder[w].pc = "idle"
    /\ recorder' = [recorder EXCEPT ![w] = [pc |-> "decide", at |-> clock]]
    /\ UNCHANGED <<runs, clock, records>>

\* The lane concluded something, and the closing statement takes its snapshot.
BeginRecord(w, a) ==
    /\ recorder[w].pc = "decide"
    /\ records < MaxRecords
    /\ records' = records + 1
    /\ recorder' = [recorder EXCEPT ![w] = [pc |-> "close", at |-> recorder[w].at,
                                    answer |-> a, seen |-> OpenRun]]
    /\ UNCHANGED <<runs, clock>>

AnswerChanged(w) == IsOpen(recorder[w].seen) /\ runs[recorder[w].seen].answer # recorder[w].answer

BadReplace(w) ==
    /\ recorder[w].pc = "close"
    /\ AnswerChanged(w)
    /\ runs' = Append(runs, NewRun(recorder[w].answer, recorder[w].at))
    /\ recorder' = [recorder EXCEPT ![w] = NotRecording]
    /\ UNCHANGED <<clock, records>>

\* The run of the snapshot is still open under another answer: it ends at this
\* tick's instant, and this tick opens the next one.
Replace(w) ==
    /\ recorder[w].pc = "close"
    /\ AnswerChanged(w)
    /\ runs' = Append([runs EXCEPT ![recorder[w].seen].ended = recorder[w].at],
                      NewRun(recorder[w].answer, recorder[w].at))
    /\ recorder' = [recorder EXCEPT ![w] = NotRecording]
    /\ UNCHANGED <<clock, records>>

\* Nothing in the snapshot was left to close.
CloseNothing(w) ==
    /\ recorder[w].pc = "close"
    /\ ~AnswerChanged(w)
    /\ recorder' = [recorder EXCEPT ![w].pc = "extend"]
    /\ UNCHANGED <<runs, clock, records>>

Later(a, b) == IF a > b THEN a ELSE b

BadExtended2(r, at) == [r EXCEPT !.last = at, !.about = at]

\* The row the conflict's update leaves.
Extended(r, at) == [r EXCEPT !.last = Later(@, at), !.about = IF r.last > at THEN @ ELSE at]

\* extendOrOpenRun arriving alone: the open run is extended when it carries this
\* answer, and left alone when another tick won.
ExtendOrOpen(w) ==
    LET i == OpenRun
        t == recorder[w]
    IN  /\ t.pc = "extend"
        /\ runs' = IF i = 0 THEN Append(runs, NewRun(t.answer, t.at))
                   ELSE IF runs[i].answer = t.answer THEN [runs EXCEPT ![i] = Extended(@, t.at)]
                   ELSE runs
        /\ recorder' = [recorder EXCEPT ![w] = NotRecording]
        /\ UNCHANGED <<clock, records>>

\* The process dies, or record throws: the transaction is rolled back whole, and
\* a tick whose decision could not be recorded carries on.
RollBack(w) ==
    /\ recorder[w].pc # "idle"
    /\ recorder' = [recorder EXCEPT ![w] = NotRecording]
    /\ UNCHANGED <<runs, clock, records>>

LogInit ==
    /\ runs = <<>>
    /\ recorder = [w \in Recorders |-> NotRecording]
    /\ clock = 1
    /\ records = 0

LogNext ==
    \/ Advance
    \/ \E w \in Recorders :
          \/ StartTick(w)
          \/ \E a \in Answers : BeginRecord(w, a)
          \/ Replace(w) \/ CloseNothing(w) \/ ExtendOrOpen(w)
          \/ RollBack(w)

LogSpec == LogInit /\ [][LogNext]_logVars

-----------------------------------------------------------------------------
LogTypeOK ==
    /\ runs \in Seq(Run)
    /\ recorder \in [Recorders -> {NotRecording} \cup Deciding \cup Recording]
    /\ clock \in Now
    /\ records \in Nat

\* currentForProject always has an answer once there is one, and only one: the
\* newest run is the open run, however the ticks interleave or abort. The throw
\* "neither opened nor extended" is unreachable.
LastRunIsOpen == \A i \in DOMAIN runs : IsOpen(i) <=> i = Len(runs)

\* A run is one uninterrupted stretch: "quiet since" is never cut in two by a
\* race or a retry, so neighbouring runs carry different answers.
NeighboursDiffer == \A i \in 1..(Len(runs) - 1) : runs[i].answer # runs[i + 1].answer

\* The finding and channel of a run are those of the latest tick that spoke in
\* it, in whatever order the ticks commit.
AboutTheLatestTick == \A i \in DOMAIN runs : runs[i].about = runs[i].last

\* The rows of a lane are one history, with one current answer, of uninterrupted
\* runs, each about the latest tick in it.
OneHistory == LogTypeOK /\ LastRunIsOpen /\ NeighboursDiffer /\ AboutTheLatestTick

Settled(i) ==
    /\ i \in DOMAIN runs'
    /\ ~IsOpen(i) => runs'[i] = runs[i]
    /\ runs'[i].answer = runs[i].answer
    /\ runs'[i].first = runs[i].first
    /\ runs'[i].last >= runs[i].last

KeepsHistory == \A i \in DOMAIN runs : Settled(i)

\* What was recorded stays recorded: an ended run never changes, and an open one
\* only gains: no tick overwrites its answer, its start, or its last instant.
HistoryIsKept == [][KeepsHistory]_logVars
=============================================================================

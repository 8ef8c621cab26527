---------------------------- MODULE ShippedChanges ----------------------------
(***************************************************************************)
(* One change a founder's assistant reported as shipped, from the promise  *)
(* of a date to the verdict.  A clock runs; when it has run out an hourly  *)
(* tick measures what came of the change, claims the row as read out and   *)
(* has the readout announced, with buttons to answer it by.  An answer, or *)
(* a window without one, closes the row; if the readout reached nobody, or *)
(* the project is gone, it is abandoned.  Reporting the change again       *)
(* starts another clock if the last readout could not measure anything.    *)
(*                                                                         *)
(* The tick lists rows and acts on them later, each act a conditional      *)
(* write, while the founder presses, the assistant reports again and the   *)
(* announcements travel through the notification outbox.  The clocks of a  *)
(* change are numbered; every message is about one of them.  The wording   *)
(* of the change and the count that leads its readout are left out.        *)
(***************************************************************************)
EXTENDS Integers

CONSTANTS
    Workers,     \* ticks that may be under way at once
    MaxClocks,   \* bound on the times the change is reported afresh
    MaxFaults    \* bound on statements that fail and workers that die

ASSUME BoundsAssumption == MaxClocks \in Nat \ {0} /\ MaxFaults \in Nat

VARIABLES
    change,    \* the row of shipped_changes
    verdict,   \* the row of shipped_change_verdicts
    note,      \* the announcement of each clock's readout
    shown,     \* what that announcement said
    project,   \* the project is still there
    readable,  \* the page is spelled as when the change was first reported
    report,    \* a report under way has found nothing to reword
    tick,      \* each tick under way
    faults

shippedVars == <<change, verdict, note, shown, project, readable, report, tick, faults>>

-----------------------------------------------------------------------------
Clocks == 1 .. MaxClocks
Outcomes == {"measured", "too_few", "unreadable"}
Reasons == {"project_gone", "never_asked"}

Change == [state : {"none", "reported", "read_out", "closed", "abandoned"},
           clock : 0 .. MaxClocks,
           due : BOOLEAN,                      \* readout_due_at has come
           outcome : Outcomes \cup {"none"},
           lapsed : BOOLEAN,                   \* the verdict window is over
           reason : Reasons \cup {"none"}]

NoChange == [state |-> "none", clock |-> 0, due |-> FALSE, outcome |-> "none",
             lapsed |-> FALSE, reason |-> "none"]

Verdict == [given : {"none", "pressed", "no_verdict_given"},
            outcome : Outcomes \cup {"none"}, pressed : 0 .. MaxClocks]

NoVerdict == [given |-> "none", outcome |-> "none", pressed |-> 0]

Tick == [at : {"idle", "due", "claiming", "lapsing", "closing"},
         project : BOOLEAN,                    \* as it was listed
         over : 0 .. MaxClocks,                \* the window over when it began
         saw : 0 .. MaxClocks,                 \* the clock that was due
         outcome : Outcomes \cup {"none"},
         delivered : BOOLEAN]

Idle == [at |-> "idle", project |-> FALSE, over |-> 0, saw |-> 0, outcome |-> "none",
         delivered |-> FALSE]

Fault == faults < MaxFaults /\ faults' = faults + 1

\* Bug: the clock is not looked at.
BadIsDue == change.state = "reported"

IsDue == change.state = "reported" /\ change.due

(* A change the last readout of which measured nothing may be watched      *)
(* again, as long as it is found under its project.                        *)
CanReopen == project /\ change.state = "read_out" /\ change.outcome \in {"too_few", "unreadable"}

\* Bug: whether the question landed is not asked.
BadWasDelivered == TRUE

WasDelivered == \E c \in Clocks : note[c] = "sent"

\* Bug: only what was delivered is looked for.
BadIsLapsed == change.state = "read_out" /\ change.lapsed /\ WasDelivered

IsLapsed == change.state = "read_out" /\ change.lapsed

\* Bug: a row that is closed may be abandoned.
BadAbandonable == change.state # "abandoned"

Abandonable == change.state \in {"reported", "read_out"}

(* What comes of a change is measured from the sessions of its clock.      *)
Measured == IF readable THEN {"measured", "too_few"} ELSE {"unreadable"}

(* What the readout says when it is dispatched: the branch of the row, or a *)
(* sentence that asks nothing, if there is no project, no branch or nothing *)
(* to read any more.                                                        *)
Rendered ==
    IF project /\ (readable \/ change.outcome = "unreadable") THEN change.outcome ELSE "none"

-----------------------------------------------------------------------------
ShippedInit ==
    /\ change = NoChange
    /\ verdict = NoVerdict
    /\ note = [c \in Clocks |-> "none"]
    /\ shown = [c \in Clocks |-> "none"]
    /\ project = TRUE
    /\ readable = TRUE
    /\ report = FALSE
    /\ tick = [w \in Workers |-> Idle]
    /\ faults = 0

\* Bug: what the last readout measured stays on the row.
BadNewClock == [change EXCEPT !.state = "reported", !.clock = @ + 1, !.due = FALSE]

NewClock == [NoChange EXCEPT !.state = "reported", !.clock = change.clock + 1]

(* The change is reported: a first report inserts the row, one of a change *)
(* that is still watched rewords it, and any other looks further.          *)
Report ==
    /\ project /\ ~report
    /\ change.clock < MaxClocks
    /\ \/ /\ change.state = "none"
          /\ change' = NewClock
          /\ UNCHANGED report
       \/ /\ change.state \notin {"none", "reported"}
          /\ report' = TRUE
          /\ UNCHANGED change
    /\ UNCHANGED <<verdict, note, shown, project, readable, tick, faults>>

(* It starts another clock, or answers that the change is closed.          *)
Reopen ==
    /\ report
    /\ report' = FALSE
    /\ change' = IF CanReopen THEN NewClock ELSE change
    /\ UNCHANGED <<verdict, note, shown, project, readable, tick, faults>>

ClockRunsOut ==
    /\ change.state = "reported" /\ ~change.due
    /\ change' = [change EXCEPT !.due = TRUE]
    /\ UNCHANGED <<verdict, note, shown, project, readable, report, tick, faults>>

WindowRunsOut ==
    /\ change.state = "read_out" /\ ~change.lapsed
    /\ change' = [change EXCEPT !.lapsed = TRUE]
    /\ UNCHANGED <<verdict, note, shown, project, readable, report, tick, faults>>

ProjectGoes ==
    /\ project
    /\ project' = FALSE
    /\ UNCHANGED <<change, verdict, note, shown, readable, report, tick, faults>>

(* A release spells the pages of sessions in another way.                  *)
Respell ==
    /\ readable
    /\ readable' = FALSE
    /\ UNCHANGED <<change, verdict, note, shown, project, report, tick, faults>>

(* The outbox takes up an announcement and renders it as the row is now... *)
Dispatch(c) ==
    /\ note[c] = "owed"
    /\ shown' = [shown EXCEPT ![c] = Rendered]
    /\ note' = [note EXCEPT ![c] = "posting"]
    /\ UNCHANGED <<change, verdict, project, readable, report, tick, faults>>

(* ...and it is posted and received, or left to be tried again.            *)
Receipt(c) ==
    /\ note[c] = "posting"
    /\ \E outcome \in {"sent", "owed"} : note' = [note EXCEPT ![c] = outcome]
    /\ UNCHANGED <<change, verdict, shown, project, readable, report, tick, faults>>

(* The row is closed and the answer stored, with the branch on the row.    *)
RecordVerdict(given, pressed) ==
    /\ change.state = "read_out"
    /\ change' = [change EXCEPT !.state = "closed"]
    /\ verdict' = [given |-> given, outcome |-> change.outcome, pressed |-> pressed]

(* A founder presses a button of a readout, the latest or an older one.    *)
Press(c) ==
    /\ note[c] = "sent" /\ shown[c] \in Outcomes
    /\ RecordVerdict("pressed", c)
    /\ UNCHANGED <<note, shown, project, readable, report, tick, faults>>

-----------------------------------------------------------------------------
(* The hourly tick. *)

(* The first list is done with.                                            *)
Lapsing(over) == [Idle EXCEPT !.at = "lapsing", !.over = over]

(* It lists what is due.                                                   *)
ListDue(w) ==
    /\ tick[w].at = "idle"
    /\ LET over == IF IsLapsed THEN change.clock ELSE 0
       IN  tick' = [tick EXCEPT ![w] =
                      IF IsDue THEN [at |-> "due", project |-> project, over |-> over,
                                     saw |-> change.clock, outcome |-> "none",
                                     delivered |-> FALSE]
                      ELSE Lapsing(over)]
    /\ UNCHANGED <<change, verdict, note, shown, project, readable, report, faults>>

Abandon(reason) ==
    change' = IF Abandonable THEN [change EXCEPT !.state = "abandoned", !.reason = reason]
              ELSE change

AbandonDue(w) ==
    /\ tick[w].at = "due" /\ ~tick[w].project
    /\ Abandon("project_gone")
    /\ tick' = [tick EXCEPT ![w] = Lapsing(@.over)]
    /\ UNCHANGED <<verdict, note, shown, project, readable, report, faults>>

(* The readout is measured before the row is claimed for it, from the row  *)
(* as it is read now.                                                      *)
Measure(w) ==
    /\ tick[w].at = "due" /\ tick[w].project
    /\ \E outcome \in IF change.state = "reported" /\ project THEN Measured ELSE {"none"} :
        tick' = [tick EXCEPT ![w].at = "claiming", ![w].outcome = outcome]
    /\ UNCHANGED <<change, verdict, note, shown, project, readable, report, faults>>

(* The claim and the announcement commit together: a clock that has been   *)
(* announced already takes the claim back.                                 *)
ReadOut(w) ==
    /\ tick[w].at = "claiming"
    /\ tick' = [tick EXCEPT ![w] = Lapsing(@.over)]
    /\ IF change.state = "reported" /\ note[change.clock] = "none"
       THEN /\ change' = [change EXCEPT !.state = "read_out", !.outcome = tick[w].outcome]
            /\ note' = [note EXCEPT ![change.clock] = "owed"]
       ELSE UNCHANGED <<change, note>>
    /\ UNCHANGED <<verdict, shown, project, readable, report, faults>>

(* It lists the windows that were over when it began, and with each        *)
(* whether any readout of the change was delivered.                        *)
ListLapsed(w) ==
    /\ tick[w].at = "lapsing"
    /\ tick' = [tick EXCEPT ![w] =
                  IF IsLapsed /\ change.clock = tick[w].over
                  THEN [Idle EXCEPT !.at = "closing", !.project = project,
                                    !.delivered = WasDelivered]
                  ELSE Idle]
    /\ UNCHANGED <<change, verdict, note, shown, project, readable, report, faults>>

(* It closes a change nobody answered: as abandoned, or as unanswered.     *)
Close(w) ==
    /\ tick[w].at = "closing"
    /\ tick' = [tick EXCEPT ![w] = Idle]
    /\ \/ ~tick[w].delivered /\ Abandon("never_asked") /\ UNCHANGED verdict
       \/ tick[w].delivered /\ ~tick[w].project /\ Abandon("project_gone") /\ UNCHANGED verdict
       \/ /\ tick[w].delivered /\ tick[w].project
          /\ \/ RecordVerdict("no_verdict_given", 0)
             \/ change.state # "read_out" /\ UNCHANGED <<change, verdict>>
    /\ UNCHANGED <<note, shown, project, readable, report, faults>>

(* One row's failure is caught, and the second list is still made.         *)
ReadoutFails(w) ==
    /\ tick[w].at \in {"due", "claiming"}
    /\ Fault
    /\ tick' = [tick EXCEPT ![w] = Lapsing(@.over)]
    /\ UNCHANGED <<change, verdict, note, shown, project, readable, report>>

(* The worker dies, or closing the row fails.                              *)
Die(w) ==
    /\ tick[w].at # "idle"
    /\ Fault
    /\ tick' = [tick EXCEPT ![w] = Idle]
    /\ UNCHANGED <<change, verdict, note, shown, project, readable, report>>

Work(w) ==
    \/ AbandonDue(w) \/ Measure(w) \/ ReadOut(w) \/ ListLapsed(w) \/ Close(w)

ShippedNext ==
    \/ Report \/ Reopen \/ ClockRunsOut \/ WindowRunsOut \/ ProjectGoes \/ Respell
    \/ \E c \in Clocks : Dispatch(c) \/ Receipt(c) \/ Press(c)
    \/ \E w \in Workers : ListDue(w) \/ Work(w) \/ ReadoutFails(w) \/ Die(w)

ShippedSpec == ShippedInit /\ [][ShippedNext]_shippedVars

(* Time passes, the crontab fires every hour and a tick gets its answers.  *)
ShippedFairness ==
    /\ WF_shippedVars(ClockRunsOut) /\ WF_shippedVars(WindowRunsOut)
    /\ WF_shippedVars(\E w \in Workers : ListDue(w))
    /\ \A w \in Workers : WF_shippedVars(Work(w))

ShippedFairSpec == ShippedSpec /\ ShippedFairness

-----------------------------------------------------------------------------
(* The values are of their types; a row that waits for its clock carries   *)
(* nothing of an earlier readout, one that was read out was announced with *)
(* the same commit, and a reason is given exactly when it is abandoned.    *)
ShippedTypeOK ==
    /\ change \in Change
    /\ verdict \in Verdict
    /\ note \in [Clocks -> {"none", "owed", "posting", "sent"}]
    /\ shown \in [Clocks -> Outcomes \cup {"none"}]
    /\ project \in BOOLEAN /\ readable \in BOOLEAN /\ report \in BOOLEAN
    /\ tick \in [Workers -> Tick]
    /\ faults \in 0 .. MaxFaults
    /\ change.state = "reported" =>
           change.outcome = "none" /\ ~change.lapsed /\ note[change.clock] = "none"
    /\ change.state \in {"read_out", "closed"} => note[change.clock] # "none"
    /\ change.state = "abandoned" <=> change.reason # "none"

Ended == change.state \in {"closed", "abandoned"}

(* A change has one end: a verdict is stored exactly when it is closed,    *)
(* and no late press, lapse, report or tick moves a change that has ended. *)
OneEnd ==
    /\ [](change.state = "closed" <=> verdict.given # "none")
    /\ [][Ended => UNCHANGED <<change, verdict>>]_shippedVars

(* A tick reads the change out on a listing of another clock: an            *)
(* overlapping tick was faster, and the founder had the change watched     *)
(* again in between.                                                       *)
ListedForAnotherClock ==
    \E w \in Workers : /\ tick[w].at = "claiming" /\ tick'[w] # tick[w]
                       /\ tick[w].saw # change.clock

(* A promised date is kept: a change is read out only when its clock has   *)
(* run out, and with what was measured of it then, unless its project went *)
(* before it could be measured or the listing is about another clock.      *)
ReadOutWhenDue ==
    [][change.state = "reported" /\ change'.state = "read_out" =>
            \/ change.due /\ (change'.outcome = "none" => ~project)
            \/ ListedForAnotherClock]_shippedVars

(* An answer is about what was asked.  The branch stored with a press is   *)
(* the one the message showed, unless the message is about an older clock. *)
(* No silence is recorded for a founder who was not asked: a readout had   *)
(* reached a channel, and it asked its question, unless it is one of an    *)
(* older clock, the row lost its branch to a listing of an older clock, or *)
(* the page could not be read any more when it was posted.                 *)
AnswersAreToWhatWasAsked ==
    /\ verdict.given = "pressed" /\ verdict.pressed = change.clock =>
           verdict.outcome = shown[change.clock]
    /\ verdict.given = "no_verdict_given" =>
           \E c \in 1 .. change.clock :
               /\ note[c] = "sent"
               /\ \/ shown[c] # "none"
                  \/ c < change.clock \/ verdict.outcome = "none" \/ ~readable

(* Every change that is watched comes to an end, whatever statement fails  *)
(* and whether or not anyone was told: again and again none is open.       *)
EveryChangeEnds == []<>(change.state = "none" \/ Ended)
=============================================================================

---------------------------- MODULE AnalysisRuns ----------------------------
(***************************************************************************)
(* The analysis lane: the hourly tick and the onboarding trigger that turn *)
(* the candidates of a project into findings                               *)
(* (worker/src/tasks/analysis-tick.ts, worker/src/analysis/), the run that *)
(* keeps two of them off one project and the claims that keep the spending *)
(* on model calls under its caps (packages/db/.../analysis-runs.repo.ts).  *)
(*                                                                         *)
(* Every statement is its own READ COMMITTED transaction.  Instants are    *)
(* ages in tick intervals, as in the module Delivery: a lane runs with the *)
(* instant its tick started, and a run is as old as the lane that opened   *)
(* it.  A candidate is named by its signature, and is detected every time. *)
(*                                                                         *)
(* A definition whose name starts with Bad is a bug the definition after   *)
(* it could have had.  No action uses one: each is put in the place of the *)
(* good definition to see that a property notices.                         *)
(***************************************************************************)
EXTENDS Integers, FiniteSets

CONSTANTS
    Workers,       \* lanes that may be in progress at the same time
    Projects,      \* the projects of one organization
    Signatures,
    ProjectOf,     \* Signatures -> Projects
    Nobody,        \* a lane that died
    None,
    Lease,         \* ANALYSIS_RUN_LEASE_MS, in tick intervals
    ProjectCap,    \* COLDSTART_MODEL_CALL_CAP
    OrgCap,        \* ORG_MODEL_CALL_CAP
    Configured,    \* whether a lane may find a model configured: subset of BOOLEAN
    MaxSpan,       \* bound: the longest a lane runs, in tick intervals
    MaxFaults      \* bound: crashes and failed statements

ASSUME RunsAssumption ==
    /\ Nobody \notin Workers
    /\ None \notin Workers \cup {Nobody} \cup Projects \cup Signatures
    /\ None \notin [owner : Workers \cup {Nobody}, age : Nat]
    /\ ProjectOf \in [Signatures -> Projects]
    /\ {Lease, ProjectCap, OrgCap, MaxSpan, MaxFaults} \subseteq Nat
    /\ Configured \subseteq BOOLEAN

ASSUME WorkersAssumption == IsFiniteSet(Workers) /\ Workers # {}

VARIABLES
    running,       \* the analysis_runs row of each project that is still running
    claims,        \* analysis_model_calls: <<signature, stage>>
    findings,      \* the signatures whose finding is recorded
    dismissed,     \* signatures the ledger suppresses
    lane,          \* the lanes in progress
    asked,         \* history: the calls made to a model, by <<signature, stage>>
    faults

vars == <<running, claims, findings, dismissed, lane, asked, faults>>

Stages == {"render", "cause"}
Calls == Signatures \X Stages
Horizon == MaxSpan + Lease + 1
Ages == 0..Horizon

Run == [owner : Workers \cup {Nobody}, age : Ages]

Opening == {"insert", "reclaim", "insertAgain", "existing", "insertLast"}
Checking == {"next", "count", "claim", "lookup", "ask", "persist", "close"}

Lane == [ pc      : {"idle"} \cup Opening \cup Checking,
          project : Projects \cup {None},
          age     : 0..MaxSpan,
          model   : BOOLEAN,
          todo    : SUBSET Signatures,
          sig     : Signatures \cup {None},
          stage   : Stages,
          room    : BOOLEAN ]

Idle == [ pc |-> "idle", project |-> None, age |-> 0, model |-> FALSE, todo |-> {},
          sig |-> None, stage |-> "render", room |-> FALSE ]

InProgress(w) == lane[w].pc # "idle"
Goto(w, pc) == lane' = [lane EXCEPT ![w].pc = pc]

\* The lane is between two candidates: nothing of the last one is carried over.
Between(w) ==
    [Idle EXCEPT !.pc = "next", !.project = lane[w].project, !.age = lane[w].age,
                 !.model = lane[w].model, !.todo = lane[w].todo]

GotoNext(w) == lane' = [lane EXCEPT ![w] = Between(w)]

(***************************************************************************)
(* Around the lane.                                                        *)
(***************************************************************************)

Older(a) == IF a = Horizon THEN a ELSE a + 1

Advance ==
    /\ \A w \in Workers : InProgress(w) => lane[w].age < MaxSpan
    /\ lane' = [w \in Workers |->
                  IF InProgress(w) THEN [lane[w] EXCEPT !.age = @ + 1] ELSE lane[w]]
    /\ running' = [p \in Projects |->
                     IF running[p] = None THEN None ELSE [running[p] EXCEPT !.age = Older(@)]]
    /\ UNCHANGED <<claims, findings, dismissed, asked, faults>>

Dismiss(s) ==
    /\ s \in findings
    /\ dismissed' = dismissed \cup {s}
    /\ UNCHANGED <<running, claims, findings, lane, asked, faults>>

\* The hourly tick, or the trigger of a finished onboarding, reaches a project.
StartLane(w, p) ==
    /\ ~InProgress(w)
    /\ \E m \in Configured :
          lane' = [lane EXCEPT ![w] = [Idle EXCEPT !.pc = "insert", !.project = p, !.model = m]]
    /\ UNCHANGED <<running, claims, findings, dismissed, asked, faults>>

(***************************************************************************)
(* open: one running run per project.                                      *)
(***************************************************************************)

Mine(w) == [owner |-> w, age |-> lane[w].age]

\* insertRunningRun, against the partial unique index on running runs.
InsertRun(w, from, otherwise) ==
    LET p == lane[w].project
    IN  /\ lane[w].pc = from
        /\ running' = IF running[p] = None THEN [running EXCEPT ![p] = Mine(w)] ELSE running
        /\ lane' = IF running[p] = None
                   THEN [lane EXCEPT ![w].pc = "next",
                                     ![w].todo = {s \in Signatures : ProjectOf[s] = p}]
                   ELSE IF otherwise = "idle" THEN [lane EXCEPT ![w] = Idle]
                   ELSE [lane EXCEPT ![w].pc = otherwise]
        /\ UNCHANGED <<claims, findings, dismissed, asked, faults>>

BadAbandonedNever(r, age) == FALSE

\* A running run whose lane has had longer than the lease.
Abandoned(r, age) == r.age > age + Lease

ReclaimRun(w) ==
    LET p == lane[w].project
    IN  /\ lane[w].pc = "reclaim"
        /\ IF running[p] # None /\ Abandoned(running[p], lane[w].age)
           THEN running' = [running EXCEPT ![p] = None] /\ Goto(w, "insertAgain")
           ELSE UNCHANGED running /\ Goto(w, "existing")
        /\ UNCHANGED <<claims, findings, dismissed, asked, faults>>

\* The run that was in the way is left alone, or has gone in the meantime.
FindExisting(w) ==
    /\ lane[w].pc = "existing"
    /\ lane' = IF running[lane[w].project] # None THEN [lane EXCEPT ![w] = Idle]
               ELSE [lane EXCEPT ![w].pc = "insertLast"]
    /\ UNCHANGED <<running, claims, findings, dismissed, asked, faults>>

Open(w) ==
    \/ InsertRun(w, "insert", "reclaim")
    \/ ReclaimRun(w)
    \/ InsertRun(w, "insertAgain", "existing")
    \/ FindExisting(w)
    \/ InsertRun(w, "insertLast", "idle")

(***************************************************************************)
(* One candidate: planCandidate, the finding, and the cause stage.         *)
(***************************************************************************)

BadIsSuppressed(s) == FALSE

\* consultSignature; see the module SignatureLedger.
IsSuppressed(s) == s \in dismissed

Call(w) == <<lane[w].sig, lane[w].stage>>

\* A suppressed candidate is not written up.
SkipCandidate(w) ==
    /\ lane[w].pc = "next"
    /\ \E s \in lane[w].todo :
          /\ IsSuppressed(s)
          /\ lane' = [lane EXCEPT ![w].todo = @ \ {s}]
    /\ UNCHANGED <<running, claims, findings, dismissed, asked, faults>>

\* With no model configured the finding is written up at the floor.
PlanCandidate(w) ==
    /\ lane[w].pc = "next"
    /\ \E s \in lane[w].todo :
          /\ ~IsSuppressed(s)
          /\ lane' = [lane EXCEPT ![w].todo = @ \ {s},
                                  ![w].sig = s,
                                  ![w].stage = "render",
                                  ![w].pc = IF lane[w].model THEN "count" ELSE "persist"]
    /\ UNCHANGED <<running, claims, findings, dismissed, asked, faults>>

ClaimsOf(p) == {c \in claims : ProjectOf[c[1]] = p}

BadHasRoom(p) == Cardinality(claims) < OrgCap

\* Both ceilings, counted over both stages.
HasRoom(p) ==
    /\ Cardinality(ClaimsOf(p)) < ProjectCap
    /\ Cardinality(claims) < OrgCap

\* claimModelCall takes its snapshot: what it counts may grow before it inserts.
CountClaims(w) ==
    /\ lane[w].pc = "count"
    /\ lane' = [lane EXCEPT ![w].pc = "claim", ![w].room = HasRoom(lane[w].project)]
    /\ UNCHANGED <<running, claims, findings, dismissed, asked, faults>>

BadMayClaim(w) == lane[w].room

\* It inserts unless a ceiling is reached or the call was claimed before.
MayClaim(w) == lane[w].room /\ Call(w) \notin claims

Claim(w) ==
    /\ lane[w].pc = "claim"
    /\ MayClaim(w)
    /\ claims' = claims \cup {Call(w)}
    /\ lane' = [lane EXCEPT ![w].pc = "ask", ![w].room = FALSE]
    /\ UNCHANGED <<running, findings, dismissed, asked, faults>>

\* already_claimed looks for the finding that came of it, cap_exhausted settles
\* for the floor, and the cause stage stops at either.
NotClaimed(w) ==
    /\ lane[w].pc = "claim"
    /\ ~MayClaim(w)
    /\ IF lane[w].stage = "cause" THEN GotoNext(w)
       ELSE lane' = [lane EXCEPT ![w].pc = IF Call(w) \in claims THEN "lookup" ELSE "persist",
                                 ![w].room = FALSE]
    /\ UNCHANGED <<running, claims, findings, dismissed, asked, faults>>

\* After a finding was written or found: the cause stage, when this candidate has
\* a divergence to explain and a session to explain it from.
ThenCause(w) ==
    \/ GotoNext(w)
    \/ lane[w].model /\ lane' = [lane EXCEPT ![w].pc = "count", ![w].stage = "cause"]

\* A call claimed by an earlier run: its finding is reused, or is written at the
\* floor when that run recorded none.
LookUp(w) ==
    /\ lane[w].pc = "lookup"
    /\ IF lane[w].sig \in findings THEN ThenCause(w) ELSE Goto(w, "persist")
    /\ UNCHANGED <<running, claims, findings, dismissed, asked, faults>>

\* The model answers, or the call fails, or its text fails a guard: the finding is
\* written with that text or at the floor, which is all one here. A floor that could
\* not be written either leaves nothing (a template's own defect, not modelled).
AskRender(w) ==
    /\ lane[w].pc = "ask"
    /\ lane[w].stage = "render"
    /\ asked' = [asked EXCEPT ![Call(w)] = @ + 1]
    /\ Goto(w, "persist")
    /\ UNCHANGED <<running, claims, findings, dismissed, faults>>

AskCause(w) ==
    /\ lane[w].pc = "ask"
    /\ lane[w].stage = "cause"
    /\ asked' = [asked EXCEPT ![Call(w)] = @ + 1]
    /\ GotoNext(w)
    /\ UNCHANGED <<running, claims, findings, dismissed, faults>>

\* findings.persist keeps the row that is there. The payload and the ledger entry
\* that follow are isolated: their faults change nothing here.
Persist(w) ==
    LET s == lane[w].sig
    IN  /\ lane[w].pc = "persist"
        /\ findings' = findings \cup {s}
        /\ ThenCause(w)
        /\ UNCHANGED <<running, claims, dismissed, asked, faults>>

\* The candidates are done, or the run failed and pc is "close". The update matches
\* the run by its id while it is running; when it matches nothing, that is logged
\* and swallowed.
Close(w) ==
    LET p == lane[w].project
    IN  /\ lane[w].pc = "close" \/ (lane[w].pc = "next" /\ lane[w].todo = {})
        /\ running' = IF running[p] # None /\ running[p].owner = w
                      THEN [running EXCEPT ![p] = None] ELSE running
        /\ lane' = [lane EXCEPT ![w] = Idle]
        /\ UNCHANGED <<claims, findings, dismissed, asked, faults>>

Work(w) ==
    \/ SkipCandidate(w) \/ PlanCandidate(w)
    \/ CountClaims(w) \/ Claim(w) \/ NotClaimed(w) \/ LookUp(w)
    \/ AskRender(w) \/ AskCause(w) \/ Persist(w)

Check(w) == Work(w) \/ Close(w)

(***************************************************************************)
(* Faults.                                                                 *)
(***************************************************************************)

Fault == faults < MaxFaults /\ faults' = faults + 1

\* What a dead lane had open stays running, and nobody will close it.
Orphaned(w) ==
    [p \in Projects |-> IF running[p] # None /\ running[p].owner = w
                        THEN [running[p] EXCEPT !.owner = Nobody] ELSE running[p]]

\* A statement inside the run throws: the run is closed as failed. Before the run
\* is open, and when the close is what throws, the lane just ends.
LaneThrows(w) ==
    /\ InProgress(w)
    /\ Fault
    /\ IF lane[w].pc \in Checking \ {"close"}
       THEN UNCHANGED running /\ lane' = [lane EXCEPT ![w] = [Between(w) EXCEPT !.pc = "close",
                                                                               !.todo = {}]]
       ELSE running' = Orphaned(w) /\ lane' = [lane EXCEPT ![w] = Idle]
    /\ UNCHANGED <<claims, findings, dismissed, asked>>

\* consultSignature throws: the candidate is refused, for this run.
ConsultThrows(w) ==
    /\ lane[w].pc = "next"
    /\ Fault
    /\ \E s \in lane[w].todo : lane' = [lane EXCEPT ![w].todo = @ \ {s}]
    /\ UNCHANGED <<running, claims, findings, dismissed, asked>>

Crash(w) ==
    /\ InProgress(w)
    /\ Fault
    /\ running' = Orphaned(w)
    /\ lane' = [lane EXCEPT ![w] = Idle]
    /\ UNCHANGED <<claims, findings, dismissed, asked>>

Init ==
    /\ running = [p \in Projects |-> None]
    /\ claims = {}
    /\ findings = {}
    /\ dismissed = {}
    /\ lane = [w \in Workers |-> Idle]
    /\ asked = [c \in Calls |-> 0]
    /\ faults = 0

Next ==
    \/ Advance
    \/ \E s \in Signatures : Dismiss(s)
    \/ \E w \in Workers :
          \/ \E p \in Projects : StartLane(w, p)
          \/ Open(w) \/ Check(w)
          \/ LaneThrows(w) \/ ConsultThrows(w) \/ Crash(w)

Spec == Init /\ [][Next]_vars

\* The crontab reaches every project again and again, time passes, and a lane
\* gets the answers it waits for: every call of it is bounded by a timeout.
Fairness ==
    /\ WF_vars(Advance)
    /\ \A p \in Projects : SF_vars(\E w \in Workers : StartLane(w, p))
    /\ \A w \in Workers : WF_vars(Open(w) \/ Check(w))

FairSpec == Spec /\ Fairness

(***************************************************************************)
(* Properties.                                                             *)
(***************************************************************************)

TypeOK ==
    /\ running \in [Projects -> Run \cup {None}]
    /\ claims \subseteq Calls
    /\ findings \subseteq Signatures
    /\ dismissed \subseteq Signatures
    /\ lane \in [Workers -> Lane]
    /\ asked \in [Calls -> Nat]
    /\ faults \in Nat

InRun(w, p) == lane[w].pc \in Checking /\ lane[w].project = p

\* The run is a lease on the project: of the lanes that write up one project at
\* the same time, at most one has had no longer than the lease (open in
\* analysis-runs.repo.ts). A lane that was overtaken may still be at work.
OneLanePerLease ==
    \A p \in Projects : \A v, w \in Workers :
        v # w /\ InRun(v, p) /\ InRun(w, p) => lane[v].age > Lease \/ lane[w].age > Lease

\* Exactly one attempt, ever, per finding and stage: whatever lanes overlap, die
\* or are overtaken, no model is asked twice about the same thing.
AskedAtMostOnce == \A c \in Calls : asked[c] <= 1

\* No race, death or overtaking buys a thing twice: a run is a lease on its project,
\* and there is one attempt per finding and stage.
NothingIsBoughtTwice == TypeOK /\ OneLanePerLease /\ AskedAtMostOnce

\* The ceilings hold up to the claims in flight: the count is read before the row
\* is inserted, so each lane may pass at most one claim too many.
CapsHoldUpToRaces ==
    /\ Cardinality(claims) <= OrgCap + Cardinality(Workers) - 1
    /\ \A p \in Projects :
          Cardinality(ClaimsOf(p)) <= ProjectCap + Cardinality(Workers) - 1

InHand(s) == \E w \in Workers : lane[w].sig = s /\ lane[w].pc \in Checking

\* A dismissal also ends the spending: once no lane has a dismissed signature in
\* hand, no lane takes it up, and no model is asked about it, again.
DismissedCostsNothing ==
    [][\A s \in dismissed : ~InHand(s) =>
          /\ ~InHand(s)'
          /\ \A c \in Calls : c[1] = s => asked'[c] = asked[c]]_vars

\* Whatever dies, whichever cap is reached and whoever claimed the call, every
\* candidate is written up in the end, at the floor if need be.
EveryCandidateIsRecorded == \A s \in Signatures : <>(s \in findings)
=============================================================================

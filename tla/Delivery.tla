------------------------------ MODULE Delivery ------------------------------
(***************************************************************************)
(* The delivery lane of one project: the tick that puts one finding at a   *)
(* time in front of a founder (worker/src/tasks/delivery-tick.ts), the     *)
(* snapshot it decides on (worker/src/delivery-lane-source.ts), the        *)
(* decision (packages/core/src/delivery/schedule.ts) and the deliveries    *)
(* rows that serialise ticks (packages/db/.../deliveries.repo.ts).         *)
(*                                                                         *)
(* Time.  The code stores instants and compares differences.  The model    *)
(* stores how long ago each instant was, in tick intervals, and Advance    *)
(* makes everything one interval older.  Ages saturate at Horizon, which   *)
(* is beyond every difference the code tests.                              *)
(*                                                                         *)
(* A definition whose name starts with Bad is a bug the definition after   *)
(* it could have had.  No action uses one: each is put in the place of the *)
(* good definition to see that a property notices.                         *)
(***************************************************************************)
EXTENDS Integers, Sequences, FiniteSets

CONSTANTS
    Findings,      \* findings the analysis lane may persist for the project
    Channels,      \* Slack channels the organization may choose
    Workers,       \* delivery ticks that may be running at the same time
    NoChannel,     \* no delivery address yet
    NoFinding,
    Confidence,    \* Findings -> 0..2: threshold_met, at_threshold, below_threshold
    Held,          \* findings whose stored text must not be shown
    Unreadable,    \* findings no message can be built from: deliverableFor is null
    Poison,        \* findings whose message is never accepted: the render or the
                   \* residual PII scan refuses it on every tick
    Budget,        \* DELIVERY_BUDGET_PER_WEEK
    TTL,           \* DELIVERY_CLAIM_TTL_MS, in tick intervals
    Week,          \* DELIVERY_WEEK_MS, in tick intervals
    Considered,    \* FINDINGS_CONSIDERED_PER_LANE
    ReadLimit,     \* FINDINGS_READ_PER_LANE
    MaxSpan,       \* bound: the longest a tick runs, in tick intervals
    Horizon,       \* bound: ages saturate here
    MaxDue,        \* bound: delivery jobs waiting at once
    MaxFaults,     \* bound: crashes, lost answers and refused calls
    MaxMoves       \* bound: times the delivery channel is re-pointed

ASSUME DomainAssumption ==
    /\ NoChannel \notin Channels
    /\ NoFinding \notin Findings
    /\ Confidence \in [Findings -> 0..2]
    /\ Held \cup Unreadable \cup Poison \subseteq Findings

ASSUME BoundAssumption ==
    /\ {Budget, TTL, Week, Considered, ReadLimit, MaxDue, MaxFaults, MaxMoves} \subseteq Nat
    /\ MaxSpan \in Nat
    /\ Horizon \in Nat
    /\ Horizon > MaxSpan + TTL
    /\ Horizon > MaxSpan + Week

VARIABLES
    backlog,       \* findings rows of the project, newest first
    dismissed,     \* findings whose signature the ledger suppresses
    connection,    \* the active Slack connection: address, cutover
    row,           \* deliveries, one row per (finding, channel)
    slack,         \* every message Slack accepted, in order: its index is its ref
    bell,          \* (finding, channel) pairs with a finding_delivered notification
    tick,          \* the running delivery ticks
    due,           \* delivery jobs waiting for a worker
    faults,        \* faults so far
    moves          \* re-points so far

vars == <<backlog, dismissed, connection, row, slack, bell, tick, due, faults, moves>>

Null == -1
NoRef == 0
Ages == 0..Horizon
Pairs == Findings \X Channels

Row == [ status   : {"none", "pending", "posted", "failed"},
         claimAge : Ages \cup {Null},
         postAge  : Ages \cup {Null},
         ref      : Nat ]

\* claimedAt is only ever read of a pending row, so the model forgets it elsewhere.
NoRow == [status |-> "none", claimAge |-> Null, postAge |-> Null, ref |-> NoRef]

Tick == [ pc        : {"idle", "list", "scan", "decide", "claim", "post", "record", "fail"},
          age       : Ages,
          channel   : Channels \cup {NoChannel},
          cutover   : SUBSET Findings,
          todo      : Seq(Findings),
          considered: Nat,
          delivered : Nat,
          ready     : SUBSET Findings,
          chosen    : Findings \cup {NoFinding},
          ref       : Nat ]

Idle == [ pc |-> "idle", age |-> 0, channel |-> NoChannel, cutover |-> {},
          todo |-> <<>>, considered |-> 0, delivered |-> 0, ready |-> {},
          chosen |-> NoFinding, ref |-> NoRef ]

Running(w) == tick[w].pc # "idle"
Pair(w) == <<tick[w].chosen, tick[w].channel>>

InBacklog(f) == \E i \in DOMAIN backlog : backlog[i] = f
Posted(p) == row[p].status = "posted"

Older(a) == IF a = Null \/ a = Horizon THEN a ELSE a + 1

(***************************************************************************)
(* Everything that happens around the tick.                                *)
(***************************************************************************)

\* findings.persist by the analysis lane: once per signature, newest first.
Persist(f) ==
    /\ ~InBacklog(f)
    /\ backlog' = <<f>> \o backlog
    /\ UNCHANGED <<dismissed, connection, row, slack, bell, tick, due, faults, moves>>

\* recordDismissal, from the button under a message or from the first-run
\* screen, which offers it for any finding of the project.
Dismiss(f) ==
    /\ InBacklog(f)
    /\ dismissed' = dismissed \cup {f}
    /\ UNCHANGED <<backlog, connection, row, slack, bell, tick, due, faults, moves>>

\* The first address of the connection: a fill, with no cutover.
AttachChannel(c) ==
    /\ connection.channel = NoChannel
    /\ connection' = [connection EXCEPT !.channel = c]
    /\ UNCHANGED <<backlog, dismissed, row, slack, bell, tick, due, faults, moves>>

\* Moving an address already set: the cutover, stamped in the same statement,
\* is the set of findings created up to now.
RepointChannel(c) ==
    /\ moves < MaxMoves
    /\ connection.channel # NoChannel
    /\ connection.channel # c
    /\ connection' = [channel |-> c, cutover |-> {f \in Findings : InBacklog(f)}]
    /\ moves' = moves + 1
    /\ UNCHANGED <<backlog, dismissed, row, slack, bell, tick, due, faults>>

\* One tick interval passes and the crontab queues another delivery job.
Advance ==
    /\ \A w \in Workers : Running(w) => tick[w].age < MaxSpan
    /\ tick' = [w \in Workers |->
                  IF Running(w) THEN [tick[w] EXCEPT !.age = @ + 1] ELSE tick[w]]
    /\ row' = [p \in Pairs |-> [row[p] EXCEPT !.claimAge = Older(@), !.postAge = Older(@)]]
    /\ due' = IF due < MaxDue THEN due + 1 ELSE due
    /\ UNCHANGED <<backlog, dismissed, connection, slack, bell, faults, moves>>

(***************************************************************************)
(* The tick.                                                               *)
(***************************************************************************)

\* runDeliveryTick fixes tickAt, then listDueLanes reads the organizations
\* with an active connection; with no address there is no lane.
StartTick(w) ==
    /\ ~Running(w)
    /\ due > 0
    /\ due' = due - 1
    /\ tick' = IF connection.channel = NoChannel THEN tick
               ELSE [tick EXCEPT ![w] = [Idle EXCEPT !.pc = "list",
                                                     !.channel = connection.channel,
                                                     !.cutover = connection.cutover]]
    /\ UNCHANGED <<backlog, dismissed, connection, row, slack, bell, faults, moves>>

\* laneFor reads the newest findings of the project.
ListFindings(w) ==
    /\ tick[w].pc = "list"
    /\ tick' = [tick EXCEPT
                  ![w].pc = "scan",
                  ![w].todo = SubSeq(backlog, 1, IF Len(backlog) < ReadLimit
                                                 THEN Len(backlog) ELSE ReadLimit)]
    /\ UNCHANGED <<backlog, dismissed, connection, row, slack, bell, due, faults, moves>>

\* A claim that is still in flight for a tick that started `age` ago.
InFlight(r, age) == r.status = "pending" /\ r.claimAge <= age + TTL

IsSpokenFor(r, age) == r.status = "posted" \/ InFlight(r, age)

WasPostedInWindow(r, age) ==
    /\ r.status = "posted"
    /\ r.postAge <= age + Week
    /\ r.postAge >= age

BadIsBeforeCutover(f, w) == FALSE
IsBeforeCutover(f, w) == f \in tick[w].cutover

BadIsSuppressed(f) == FALSE
\* consultSignature answered suppress; see the module SignatureLedger.
IsSuppressed(f) == f \in dismissed

Skipped(f, w) == IsBeforeCutover(f, w) \/ f \in Held \/ IsSuppressed(f)

\* One finding of the snapshot: the reads of laneFor's loop, in its order. A
\* finding before the cutover, held or suppressed costs no slot and is not
\* counted; every other one is, whether or not it becomes a candidate.
Scanning(w) ==
    /\ tick[w].pc = "scan"
    /\ tick[w].todo # <<>>
    /\ tick[w].considered < Considered

SkipFinding(w) ==
    /\ Scanning(w)
    /\ Skipped(Head(tick[w].todo), w)
    /\ tick' = [tick EXCEPT ![w].todo = Tail(@)]
    /\ UNCHANGED <<backlog, dismissed, connection, row, slack, bell, due, faults, moves>>

ConsiderFinding(w) ==
    LET t == tick[w]
        f == Head(t.todo)
        d == row[<<f, t.channel>>]
    IN  /\ Scanning(w)
        /\ ~Skipped(f, w)
        /\ tick' = [tick EXCEPT
                      ![w].todo = Tail(t.todo),
                      ![w].considered = t.considered + 1,
                      ![w].delivered = t.delivered + (IF WasPostedInWindow(d, t.age) THEN 1 ELSE 0),
                      ![w].ready = IF IsSpokenFor(d, t.age) \/ f \in Unreadable
                                   THEN t.ready ELSE t.ready \cup {f}]
        /\ UNCHANGED <<backlog, dismissed, connection, row, slack, bell, due, faults, moves>>

\* A consult that throws holds the finding back for this tick only.
ScanUnreadable(w) ==
    /\ Scanning(w)
    /\ faults < MaxFaults
    /\ faults' = faults + 1
    /\ tick' = [tick EXCEPT ![w].todo = Tail(@)]
    /\ UNCHANGED <<backlog, dismissed, connection, row, slack, bell, due, moves>>

EndScan(w) ==
    /\ tick[w].pc = "scan"
    /\ tick[w].todo = <<>> \/ tick[w].considered >= Considered
    /\ tick' = [tick EXCEPT ![w].pc = "decide", ![w].todo = <<>>]
    /\ UNCHANGED <<backlog, dismissed, connection, row, slack, bell, due, faults, moves>>

\* listPendingForProject: claims still in flight, in any channel.
OpenFindings(age) == {f \in Findings : \E c \in Channels : InFlight(row[<<f, c>>], age)}

BadBudgetRemains(delivered) == delivered <= Budget
BudgetRemains(delivered) == delivered < Budget
IsDeliverable(f) == Confidence[f] # 2

\* compareDeliveryCandidates ranks by confidence and then by what the surface is
\* worth, which is read afresh on every tick: any of the most confident may win.
BestOf(S) == {f \in S : \A g \in S : Confidence[f] <= Confidence[g]}

\* What decideDelivery may choose: nothing while a finding is open, nothing when
\* the week's budget is spent, else the first of the eligible candidates.
Choices(w) ==
    IF OpenFindings(tick[w].age) # {} \/ ~BudgetRemains(tick[w].delivered) THEN {}
    ELSE BestOf({f \in tick[w].ready : IsDeliverable(f)})

DecideNothing(w) ==
    /\ tick[w].pc = "decide"
    /\ Choices(w) = {}
    /\ tick' = [tick EXCEPT ![w] = Idle]
    /\ UNCHANGED <<backlog, dismissed, connection, row, slack, bell, due, faults, moves>>

DecideDeliver(w) ==
    /\ tick[w].pc = "decide"
    /\ \E f \in Choices(w) :
          tick' = [tick EXCEPT ![w].pc = "claim", ![w].chosen = f]
    /\ UNCHANGED <<backlog, dismissed, connection, row, slack, bell, due, faults, moves>>

BadReclaimable1(r, age) == r.status # "pending" \/ r.claimAge > age + TTL
BadReclaimable3(r, age) == r.status \in {"none", "failed"}

\* The conflict predicate of claimForPost: no row, a failed one, or a pending
\* one whose lease has run out.
Reclaimable(r, age) ==
    \/ r.status \in {"none", "failed"}
    \/ r.status = "pending" /\ r.claimAge > age + TTL

\* The row claimForPost leaves: it carries the instant the tick STARTED.
Claimed(r, age) == [r EXCEPT !.status = "pending", !.claimAge = age]

\* claimForPost. A message that cannot be prepared goes straight to recordFailed.
Claim(w) ==
    /\ tick[w].pc = "claim"
    /\ Reclaimable(row[Pair(w)], tick[w].age)
    /\ row' = [row EXCEPT ![Pair(w)] = Claimed(@, tick[w].age)]
    /\ tick' = [tick EXCEPT ![w].pc = IF tick[w].chosen \in Poison THEN "fail" ELSE "post"]
    /\ UNCHANGED <<backlog, dismissed, connection, slack, bell, due, faults, moves>>

NotClaimed(w) ==
    /\ tick[w].pc = "claim"
    /\ ~Reclaimable(row[Pair(w)], tick[w].age)
    /\ tick' = [tick EXCEPT ![w] = Idle]
    /\ UNCHANGED <<backlog, dismissed, connection, row, slack, bell, due, faults, moves>>

BadPost(w) ==
    /\ tick[w].pc = "post"
    /\ slack' = Append(slack, Pair(w))
    /\ bell' = bell \cup {Pair(w)}
    /\ tick' = [tick EXCEPT ![w].pc = "record", ![w].ref = Len(slack) + 1]
    /\ UNCHANGED <<backlog, dismissed, connection, row, due, faults, moves>>

\* chat.postMessage accepted the message and the answer named it.
Post(w) ==
    /\ tick[w].pc = "post"
    /\ slack' = Append(slack, Pair(w))
    /\ tick' = [tick EXCEPT ![w].pc = "record", ![w].ref = Len(slack) + 1]
    /\ UNCHANGED <<backlog, dismissed, connection, row, bell, due, faults, moves>>

\* The post failed, or Slack has the message and the answer was lost to the
\* request timeout: the poster says call_failed either way.
PostFails(w) ==
    /\ tick[w].pc = "post"
    /\ faults < MaxFaults
    /\ faults' = faults + 1
    /\ slack' \in {slack, Append(slack, Pair(w))}
    /\ tick' = [tick EXCEPT ![w].pc = "fail"]
    /\ UNCHANGED <<backlog, dismissed, connection, row, bell, due, moves>>

\* The row markPosted leaves: posted_at and message_ref keep a value they have.
Receipted(r, ref) ==
    [ status   |-> "posted",
      claimAge |-> Null,
      postAge  |-> IF r.postAge # Null THEN r.postAge ELSE 0,
      ref      |-> IF r.ref # NoRef THEN r.ref ELSE ref ]

\* markPosted and the notification copied from it, in one transaction.
MarkPosted(w) ==
    /\ tick[w].pc = "record"
    /\ row' = [row EXCEPT ![Pair(w)] = Receipted(@, tick[w].ref)]
    /\ bell' = bell \cup {Pair(w)}
    /\ tick' = [tick EXCEPT ![w] = Idle]
    /\ UNCHANGED <<backlog, dismissed, connection, slack, due, faults, moves>>

\* The savepoint around emitNotification: a fault there loses the notification
\* and leaves the posted row.
MarkPostedUnannounced(w) ==
    /\ tick[w].pc = "record"
    /\ faults < MaxFaults
    /\ faults' = faults + 1
    /\ row' = [row EXCEPT ![Pair(w)] = Receipted(@, tick[w].ref)]
    /\ tick' = [tick EXCEPT ![w] = Idle]
    /\ UNCHANGED <<backlog, dismissed, connection, slack, bell, due, moves>>

\* markPosted throws: rolled back, or committed with the answer lost. Either way
\* the tick goes on to record a failure.
MarkPostedThrows(w) ==
    /\ tick[w].pc = "record"
    /\ faults < MaxFaults
    /\ faults' = faults + 1
    /\ \/ UNCHANGED <<row, bell>>
       \/ /\ row' = [row EXCEPT ![Pair(w)] = Receipted(@, tick[w].ref)]
          /\ bell' = bell \cup {Pair(w)}
    /\ tick' = [tick EXCEPT ![w].pc = "fail"]
    /\ UNCHANGED <<backlog, dismissed, connection, slack, due, moves>>

\* The row markFailed leaves. A posted row is never turned into a failed one.
Failed(r) ==
    IF r.status \in {"none", "posted"} THEN r
    ELSE [r EXCEPT !.status = "failed", !.claimAge = Null]

MarkFailed(w) ==
    /\ tick[w].pc = "fail"
    /\ row' = [row EXCEPT ![Pair(w)] = Failed(@)]
    /\ tick' = [tick EXCEPT ![w] = Idle]
    /\ UNCHANGED <<backlog, dismissed, connection, slack, bell, due, faults, moves>>

\* A call of the lane throws and the lane is dropped, its error logged: a read of
\* laneFor or runLane, a poster that cannot be opened, a claim (which may have been
\* committed with its answer lost), or the record of a failure.
LaneErrors(w) ==
    /\ tick[w].pc \in {"list", "scan", "decide", "claim", "fail"}
    /\ faults < MaxFaults
    /\ faults' = faults + 1
    /\ \/ UNCHANGED row
       \/ /\ tick[w].pc = "claim"
          /\ Reclaimable(row[Pair(w)], tick[w].age)
          /\ row' = [row EXCEPT ![Pair(w)] = Claimed(@, tick[w].age)]
    /\ tick' = [tick EXCEPT ![w] = Idle]
    /\ UNCHANGED <<backlog, dismissed, connection, slack, bell, due, moves>>

\* The worker process dies: the tick is gone and whatever it had claimed stays
\* claimed. graphile-worker runs the job again.
Crash(w) ==
    /\ Running(w)
    /\ faults < MaxFaults
    /\ faults' = faults + 1
    /\ tick' = [tick EXCEPT ![w] = Idle]
    /\ due' = IF due < MaxDue THEN due + 1 ELSE due
    /\ UNCHANGED <<backlog, dismissed, connection, row, slack, bell, moves>>

Init ==
    /\ backlog = <<>>
    /\ dismissed = {}
    /\ connection = [channel |-> NoChannel, cutover |-> {}]
    /\ row = [p \in Pairs |-> NoRow]
    /\ slack = <<>>
    /\ bell = {}
    /\ tick = [w \in Workers |-> Idle]
    /\ due = 0
    /\ faults = 0
    /\ moves = 0

\* What a running tick does next, whatever its calls answer.
Step(w) ==
    \/ ListFindings(w)
    \/ SkipFinding(w) \/ ConsiderFinding(w) \/ ScanUnreadable(w) \/ EndScan(w)
    \/ DecideNothing(w) \/ DecideDeliver(w)
    \/ Claim(w) \/ NotClaimed(w)
    \/ Post(w) \/ PostFails(w)
    \/ MarkPosted(w) \/ MarkPostedUnannounced(w) \/ MarkPostedThrows(w)
    \/ MarkFailed(w)
    \/ LaneErrors(w)

Next ==
    \/ \E f \in Findings : Persist(f) \/ Dismiss(f)
    \/ \E c \in Channels : AttachChannel(c) \/ RepointChannel(c)
    \/ Advance
    \/ \E w \in Workers : StartTick(w) \/ Step(w) \/ Crash(w)

Spec == Init /\ [][Next]_vars

\* The crontab keeps firing, a queued job finds a worker, and a tick that runs
\* gets its answers: every call it makes is bounded by a timeout.
Fairness ==
    /\ WF_vars(Advance)
    /\ WF_vars(\E w \in Workers : StartTick(w))
    /\ \A w \in Workers : WF_vars(Step(w))

FairSpec == Spec /\ Fairness

-----------------------------------------------------------------------------
(***************************************************************************)
(* Properties.                                                             *)
(***************************************************************************)

TypeOK ==
    /\ backlog \in Seq(Findings)
    /\ dismissed \subseteq Findings
    /\ connection \in [channel : Channels \cup {NoChannel}, cutover : SUBSET Findings]
    /\ row \in [Pairs -> Row]
    /\ slack \in Seq(Pairs)
    /\ bell \subseteq Pairs
    /\ tick \in [Workers -> Tick]
    /\ due \in Nat
    /\ faults \in Nat
    /\ moves \in Nat

\* What the steps of a tick rely on: a lane has an address, a tick stays within
\* MaxSpan, and from the decision on it carries the finding it chose.
TickShape ==
    \A w \in Workers :
        /\ Running(w) => tick[w].channel \in Channels /\ tick[w].age <= MaxSpan
        /\ tick[w].pc \in {"claim", "post", "record", "fail"} => tick[w].chosen \in Findings

KeepsReceipts ==
    \A p \in Pairs : Posted(p) => row'[p].status = "posted" /\ row'[p].ref = row[p].ref

\* A receipt is final: once a delivery is posted no later claim, failure or
\* second markPosted of any tick takes it back or points it at another message.
ReceiptsAreFinal == [][KeepsReceipts]_vars

\* The message a posted row names exists and is about that finding in that
\* channel, so a button pressed under it resolves to the right finding.
ReceiptNamesItsMessage ==
    \A p \in Pairs : Posted(p) => /\ row[p].ref \in DOMAIN slack
                                  /\ slack[row[p].ref] = p

\* A tick about to record a post holds the ref of a message about its finding,
\* and a row has a ref exactly when it is posted.
ReceiptShape ==
    /\ \A p \in Pairs : row[p].ref # NoRef <=> Posted(p)
    /\ \A w \in Workers : tick[w].pc = "record" => /\ tick[w].ref \in DOMAIN slack
                                                  /\ slack[tick[w].ref] = Pair(w)

Holding(w) == tick[w].pc \in {"post", "record", "fail"}

\* Why the claim is a lock when ticks end within the lease: the row a tick holds
\* is pending and exactly as old as the tick, or already has its receipt.
LeaseShape ==
    /\ \A w \in Workers : Holding(w) =>
          \/ row[Pair(w)].status = "pending" /\ row[Pair(w)].claimAge = tick[w].age
          \/ tick[w].pc = "fail" /\ Posted(Pair(w))
    /\ \A v, w \in Workers : v # w /\ Holding(v) /\ Holding(w) => Pair(v) # Pair(w)

Speaking(w) == tick[w].pc \in {"post", "record"}

\* The claim is a lock: two ticks are never both between a claim of a delivery
\* and its outcome. It needs ticks that end within the lease (MaxSpan <= TTL).
ExclusivePosting ==
    \A v, w \in Workers : v # w /\ Speaking(v) /\ Speaking(w) => Pair(v) # Pair(w)

\* Every copy of a message beyond the first is the price of a crash or a lost
\* answer: ticks that merely overlap never say a thing twice.
RepeatsNeedFaults ==
    Len(slack) - Cardinality({slack[i] : i \in DOMAIN slack}) <= faults

\* However two ticks of one project overlap, they speak with one voice: one tick at
\* a time posts a delivery, its receipt names the message it posted, and nothing is
\* said again but for a crash or a lost answer.
OneVoice == ExclusivePosting /\ ReceiptNamesItsMessage /\ RepeatsNeedFaults

\* The bell announces only deliveries recorded as posted, and misses one only
\* when the savepoint around the notification rolled back.
BellFollowsReceipts ==
    /\ \A p \in bell : Posted(p)
    /\ Cardinality({p \in Pairs : Posted(p)} \ bell) <= faults

Carries(w, f) == f \in tick[w].ready \/ tick[w].chosen = f

\* A dismissal is remembered: once no running tick carries a dismissed finding,
\* no tick ever picks it up, and so none posts it, again.
QuietAfterDismissal ==
    [][\A f \in dismissed : (\A w \in Workers : ~Carries(w, f)) =>
          /\ \A w \in Workers : ~Carries(w, f)'
          /\ \A c \in Channels : slack' # Append(slack, <<f, c>>)]_vars

\* The finding was there when the address moved, and no tick at work on the channel
\* has it in hand or began before that.
LeftBehind(f, c) ==
    /\ f \in connection.cutover
    /\ \A w \in Workers : Running(w) /\ tick[w].channel = c =>
          ~Carries(w, f) /\ f \in tick[w].cutover

\* Moving the channel does not replay the backlog: whatever ticks are still at work on
\* the old channel, and however often the address moves again, a finding left behind
\* is not said in the new one.
MovedBacklogStaysPut ==
    [][\A f \in Findings, c \in Channels : LeftBehind(f, c) =>
          LeftBehind(f, c)' /\ slack' # Append(slack, <<f, c>>)]_vars

\* "One thing at a time": at most one finding of the project has a claim in
\* flight. listPendingForProject is read before the claim is written, so this
\* needs ticks that do not overlap.
OneOpenFinding ==
    Cardinality({f \in Findings : \E c \in Channels : InFlight(row[<<f, c>>], 0)}) <= 1

PostedThisWeek == {p \in Pairs : Posted(p) /\ row[p].postAge <= Week}

\* The weekly ceiling, as the lane counts it: a dismissed finding is not counted,
\* nor one whose consult threw; and a move starts the week anew, for what was there
\* before it is skipped before it is counted. It needs ticks that do not overlap,
\* and no more findings than a lane considers.
CountedCeiling ==
    Cardinality({p \in PostedThisWeek : p[1] \notin dismissed}) <= Budget * (moves + 1) + faults

\* Ticks that follow one another keep the cadence: one open finding at a time, and
\* the weekly ceiling.
KeepsTheCadence == OneOpenFinding /\ CountedCeiling

Settled(f) ==
    \/ \E c \in Channels : Posted(<<f, c>>)
    \/ f \in dismissed \cup connection.cutover

MayBeSaid(f) ==
    /\ InBacklog(f)
    /\ connection.channel # NoChannel
    /\ IsDeliverable(f)
    /\ f \notin Held \cup Unreadable \cup Poison

\* While every candidate can be posted, no deliverable finding is silenced for
\* ever: whatever crashes, loses its answer or is left claimed, it is posted,
\* dismissed or cut over in the end.
EveryFindingSettles == \A f \in Findings : (MayBeSaid(f) /\ Poison = {}) ~> Settled(f)

\* What the deliveries table promises, as an abstract specification.
Promise == INSTANCE Receipts WITH
    Keys <- Pairs, said <- slack, receipt <- [p \in Pairs |-> row[p].ref]
Promised == Promise!Spec
=============================================================================

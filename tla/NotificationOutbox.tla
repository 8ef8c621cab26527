------------------------- MODULE NotificationOutbox -------------------------
(***************************************************************************)
(* The notification outbox of one organization: what a fact owes Slack     *)
(* when it is written (packages/db/src/notifications/emit.ts), the dispatch *)
(* job that posts it under a lease (worker/src/tasks/notification-dispatch *)
(* .ts, .../notification-dispatch.service.ts), the sweep that queues again *)
(* what no job is left for (notification-rescue*.ts), and the health of    *)
(* the connection, which decides what a claim may take                     *)
(* (slack-connections.repo.ts).                                            *)
(*                                                                         *)
(* Time is counted in whole numbers as in the module Delivery: a lane has  *)
(* the age of its `now`, a pending receipt the age of its claimed_at.  The *)
(* queue is the set of notices with a job that is not locked: a job key    *)
(* collapses the waiting job of a notice, and a locked one is left beside  *)
(* it, so two runners may hold the same notice.                            *)
(*                                                                         *)
(* A definition whose name starts with Bad is a bug the definition after   *)
(* it could have had.  No action uses one: each is put in the place of the *)
(* good definition to see that a property notices.                         *)
(***************************************************************************)
EXTENDS Integers, FiniteSets

CONSTANTS
    Runners,       \* job slots of the worker
    Notices,       \* notifications the organization may come to have
    Alarms,        \* those of type slack_disconnected
    Refusable,     \* notices whose message Slack may refuse
    Channels,
    None,          \* no address, no row, no outcome yet
    NoTarget,      \* NOTIFICATION_SEND_NO_TARGET
    ClaimTtl,      \* NOTIFICATION_DISPATCH_CLAIM_TTL_MS
    MaxAttempts,   \* NOTIFICATION_DISPATCH_MAX_ATTEMPTS
    MaxSpan,       \* bound: how old a lane's `now` may get
    MaxFaults,     \* bound: dead lanes, failed statements, lost answers
    MaxOutages,    \* bound: times Slack stops taking posts
    MaxMoves       \* bound: times the channel is re-pointed

Retryable == {"call_failed", "queue_unavailable"}
Curable == Retryable \cup {"not_authorised", "channel_unavailable"}
FailureReasons == Curable \cup {"rejected"}
\* A channel that is gone ("channel_unavailable") stands here with a token that is
\* not authorised: both are left to the rescue and neither is retried by itself.
PostFailures == {"call_failed", "not_authorised"}

VARIABLES
    channel,       \* the address of the active connection, None without one
    health,        \* slack_connections.health
    reachable,     \* whether Slack takes posts
    refused,       \* notices whose message Slack refuses: never changes
    fact,          \* how each notice came to be: its slack leg
    seen,          \* the channel an emit in progress has read
    send,          \* notification_sends, by notice and target
    jobs,          \* notices with a waiting dispatch job
    rescue,        \* whether a rescue job is waiting
    lane,          \* the dispatches in progress, by runner
    accepted,      \* history: posts Slack took, by notice and channel
    faults, outages, moves

vars == <<channel, health, reachable, refused, fact, seen, send, jobs, rescue, lane,
          accepted, faults, outages, moves>>
world == <<channel, reachable, refused, fact, seen, outages, moves>>

Targets == Channels \cup {NoTarget}
Horizon == MaxSpan + ClaimTtl + 1
Ages == 0..Horizon
Attempts == 1..MaxAttempts

Row == [status : {"pending", "quiet", "failed", "sent"},
        reason : FailureReasons \cup {"no_channel", "digest", None},
        attempts : Attempts, age : Ages]

Quiet(reason) == [status |-> "quiet", reason |-> reason, attempts |-> 1, age |-> 0]
Sent == [status |-> "sent", reason |-> None, attempts |-> 1, age |-> 0]
Failed(reason) ==
    [status |-> "failed", reason |-> reason, attempts |-> 1, age |-> 0]
Pending(attempts, age) ==
    [status |-> "pending", reason |-> None, attempts |-> attempts, age |-> age]

Lane == [at : {"health", "claim", "post", "record", "badge", "quiet"},
         notice : Notices, target : Targets, age : 0..MaxSpan,
         repaired : BOOLEAN, more : BOOLEAN,
         outcome : FailureReasons \cup {"sent", None}]

ASSUME OutboxAssumption ==
    /\ Alarms \subseteq Notices /\ Refusable \subseteq Notices
    /\ NoTarget \notin Channels /\ None \notin Channels \cup {NoTarget}
    /\ None \notin FailureReasons \cup {"sent", "digest"}
    /\ None \notin Row /\ None \notin Lane
    /\ {ClaimTtl, MaxSpan, MaxFaults, MaxOutages, MaxMoves} \subseteq Nat
    /\ MaxAttempts \in Nat \ {0}

Init ==
    /\ channel \in Channels \cup {None} /\ health = "validating" /\ reachable = TRUE
    /\ refused \in SUBSET Refusable
    /\ fact = [n \in Notices |-> "none"]
    /\ seen = [n \in Notices |-> None]
    /\ send = [n \in Notices |-> [t \in Targets |-> None]]
    /\ jobs = {} /\ rescue = FALSE
    /\ lane = [r \in Runners |-> None]
    /\ accepted = [n \in Notices |-> [c \in Channels |-> 0]]
    /\ faults = 0 /\ outages = 0 /\ moves = 0

-----------------------------------------------------------------------------
(* Emitting.  A notification and its Slack receipt, or its job, commit     *)
(* together, in a transaction that read the connection some time before.   *)

\* An owed leg in a transaction that read the address c: no address is a quiet
\* receipt, an address is a job, and a job that cannot be queued a failed receipt.
LegReceipts(n, c, queued) ==
    IF c = None THEN [send EXCEPT ![n][NoTarget] = Quiet("no_channel")]
    ELSE IF queued THEN send
    ELSE [send EXCEPT ![n][c] = Failed("queue_unavailable")]
LegJobs(n, c, queued) == IF c # None /\ queued THEN {n} ELSE {}

BeginEmit(n) ==
    /\ n \notin Alarms /\ fact[n] = "none"
    /\ fact' = [fact EXCEPT ![n] = "emitting"]
    /\ seen' = [seen EXCEPT ![n] = channel]
    /\ UNCHANGED <<channel, health, reachable, refused, send, jobs, rescue,
                   lane, accepted, faults, outages, moves>>

CommitOwed(n, queued) ==
    /\ fact[n] = "emitting"
    /\ fact' = [fact EXCEPT ![n] = "owed"]
    /\ seen' = [seen EXCEPT ![n] = None]
    /\ send' = LegReceipts(n, seen[n], queued)
    /\ jobs' = jobs \cup LegJobs(n, seen[n], queued)
    /\ UNCHANGED <<channel, health, reachable, refused, rescue, lane, accepted,
                   faults, outages, moves>>

\* The announcement of a finding that is in the channel c already, the address its
\* delivery tick had read.
EmitCopied(n, c) ==
    /\ n \notin Alarms /\ fact[n] = "none" /\ channel # None
    /\ fact' = [fact EXCEPT ![n] = "copied"]
    /\ send' = [send EXCEPT ![n][c] = Sent]
    /\ UNCHANGED <<channel, health, reachable, refused, seen, jobs, rescue,
                   lane, accepted, faults, outages, moves>>

\* A notice the weekly summary will carry.
EmitDigest(n) ==
    /\ n \notin Alarms /\ fact[n] = "none"
    /\ fact' = [fact EXCEPT ![n] = "digest"]
    /\ send' = [send EXCEPT ![n][NoTarget] = Quiet("digest")]
    /\ UNCHANGED <<channel, health, reachable, refused, seen, jobs, rescue,
                   lane, accepted, faults, outages, moves>>

-----------------------------------------------------------------------------
(* The connection and the world around it.                                 *)

AttachChannel(c, queued) ==
    /\ channel = None
    /\ channel' = c
    /\ rescue' = (rescue \/ queued)
    /\ UNCHANGED <<health, reachable, refused, fact, seen, send, jobs, lane,
                   accepted, faults, outages, moves>>

RepointChannel(c, queued) ==
    /\ channel \notin {None, c} /\ moves < MaxMoves
    /\ channel' = c /\ moves' = moves + 1
    /\ rescue' = (rescue \/ queued)
    /\ UNCHANGED <<health, reachable, refused, fact, seen, send, jobs, lane,
                   accepted, faults, outages>>

OutageBegins ==
    /\ reachable /\ outages < MaxOutages
    /\ reachable' = FALSE /\ outages' = outages + 1
    /\ UNCHANGED <<channel, health, refused, fact, seen, send, jobs, rescue,
                   lane, accepted, faults, moves>>

OutageEnds ==
    /\ ~reachable
    /\ reachable' = TRUE
    /\ UNCHANGED <<channel, health, refused, fact, seen, send, jobs, rescue,
                   lane, accepted, faults, outages, moves>>

Older(row) ==
    IF row # None /\ row.status = "pending" /\ row.age < Horizon
    THEN [row EXCEPT !.age = @ + 1] ELSE row

Advance ==
    /\ \A r \in Runners : lane[r] # None => lane[r].age < MaxSpan
    /\ lane' = [r \in Runners |->
           IF lane[r] = None THEN None ELSE [lane[r] EXCEPT !.age = @ + 1]]
    /\ send' = [n \in Notices |-> [t \in Targets |-> Older(send[n][t])]]
    /\ UNCHANGED <<world, health, jobs, rescue, accepted, faults>>

-----------------------------------------------------------------------------
(* Dispatching.                                                            *)

Settles(row) == row # None /\ (row.status = "sent" \/ row.reason = "digest")
Settled(n) == \E t \in Targets : Settles(send[n][t])

\* Bug: any claim of an earlier instant looks expired.
BadAbandoned(row, age) == row.status = "pending" /\ row.age >= age

\* An expired lease, as seen by a lane whose `now` has the given age.
Abandoned(row, age) == row.status = "pending" /\ row.age - age > ClaimTtl

RetryReclaimable(row, age) ==
    /\ (row.status = "failed" /\ row.reason \in Retryable) \/ Abandoned(row, age)
    /\ row.attempts < MaxAttempts

\* Bug: a repaired connection reclaims what Slack refused, too.
BadRescueReclaimable(row, age) == row.status = "failed" \/ Abandoned(row, age)

RescueReclaimable(row, age) ==
    (row.status = "failed" /\ row.reason \in Curable) \/ Abandoned(row, age)

Reclaimable(row, age, repaired) ==
    IF repaired THEN RescueReclaimable(row, age) ELSE RetryReclaimable(row, age)

Dispatching(n) ==
    [at |-> IF channel = None THEN "quiet" ELSE "health", notice |-> n,
     target |-> IF channel = None THEN NoTarget ELSE channel, age |-> 0,
     repaired |-> FALSE, more |-> FALSE, outcome |-> None]

\* readNotificationForDispatch: a settled notice ends the job.
Start(r, n) ==
    /\ n \in jobs /\ lane[r] = None
    /\ jobs' = jobs \ {n}
    /\ lane' = [lane EXCEPT ![r] = IF Settled(n) THEN None ELSE Dispatching(n)]
    /\ UNCHANGED <<world, health, send, rescue, accepted, faults>>

ReadHealth(r) ==
    /\ lane[r] # None /\ lane[r].at = "health"
    /\ lane' = [lane EXCEPT ![r].at = "claim",
                            ![r].repaired = channel # None /\ health # "failing"]
    /\ UNCHANGED <<world, health, send, jobs, rescue, accepted, faults>>

Claim(r) ==
    LET n == lane[r].notice
        row == send[n][lane[r].target]
        attempts == IF row = None THEN 1
                    ELSE IF row.attempts < MaxAttempts THEN row.attempts + 1
                    ELSE MaxAttempts
    IN  /\ lane[r] # None /\ lane[r].at = "claim"
        /\ IF row = None \/ Reclaimable(row, lane[r].age, lane[r].repaired)
           THEN /\ send' = [send EXCEPT ![n][lane[r].target] =
                                Pending(attempts, lane[r].age)]
                /\ lane' = [lane EXCEPT ![r].at = "post",
                                        ![r].more = attempts < MaxAttempts]
           ELSE /\ lane' = [lane EXCEPT ![r] = None]
                /\ UNCHANGED send
        /\ UNCHANGED <<world, health, jobs, rescue, accepted, faults>>

Answered(r, outcome) ==
    lane' = [lane EXCEPT ![r].at = "record", ![r].outcome = outcome]

\* Slack takes the message.  The answer may be lost on the way: a fault.
PostAccepted(r, lost) ==
    LET n == lane[r].notice
    IN  /\ lane[r] # None /\ lane[r].at = "post"
        /\ reachable /\ n \notin refused
        /\ lost => faults < MaxFaults
        /\ Answered(r, IF lost THEN "call_failed" ELSE "sent")
        /\ accepted' = [accepted EXCEPT ![n][lane[r].target] = @ + 1]
        /\ faults' = faults + (IF lost THEN 1 ELSE 0)
        /\ UNCHANGED <<world, health, send, jobs, rescue>>

\* No credential opens, no answer comes, or Slack refuses the message.
PostFails(r, reason) ==
    /\ lane[r] # None /\ lane[r].at = "post"
    /\ IF reachable THEN lane[r].notice \in refused /\ reason = "rejected"
                    ELSE reason \in PostFailures
    /\ Answered(r, reason)
    /\ UNCHANGED <<world, health, send, jobs, rescue, accepted, faults>>

Rank(status) ==
    CASE status = "pending" -> 0 [] status = "quiet" -> 1
      [] status = "failed" -> 2 [] status = "sent" -> 3

\* recordDispatchOutcome: an outcome only ever improves the receipt, and does not
\* ask whether the lane still holds the claim.
Recorded(row, status, reason) ==
    IF row # None /\ Rank(row.status) >= Rank(status) THEN row
    ELSE [status |-> status, reason |-> reason,
          attempts |-> IF row = None THEN 1 ELSE row.attempts, age |-> 0]

RecordQuiet(r) ==
    /\ lane[r] # None /\ lane[r].at = "quiet"
    /\ send' = [send EXCEPT ![lane[r].notice][NoTarget] =
                    Recorded(@, "quiet", "no_channel")]
    /\ lane' = [lane EXCEPT ![r] = None]
    /\ UNCHANGED <<world, health, jobs, rescue, accepted, faults>>

Record(r) ==
    LET outcome == lane[r].outcome
    IN  /\ lane[r] # None /\ lane[r].at = "record"
        /\ send' = [send EXCEPT ![lane[r].notice][lane[r].target] =
                        IF outcome = "sent" THEN Recorded(@, "sent", None)
                        ELSE Recorded(@, "failed", outcome)]
        /\ lane' = [lane EXCEPT ![r] = IF outcome = "rejected" THEN None
                                       ELSE [@ EXCEPT !.at = "badge"]]
        /\ UNCHANGED <<world, health, jobs, rescue, accepted, faults>>

\* A retryable failure with attempts left throws, and the job is queued again.
Retried(r) ==
    IF lane[r].outcome \in Retryable /\ lane[r].more THEN {lane[r].notice} ELSE {}

Badge(r) ==
    /\ lane[r] # None /\ lane[r].at = "badge"
    /\ lane' = [lane EXCEPT ![r] = None]

\* recordHealth("failing").  Entering failing is announced, in the same transaction
\* and through the same outbox, unless one was announced within the cooldown.
EntersFailing(r) ==
    /\ Badge(r) /\ lane[r].outcome # "sent" /\ health # "failing"
    /\ health' = "failing"
    /\ UNCHANGED <<channel, reachable, refused, seen, rescue, accepted, faults,
                   outages, moves>>

Announce(r, a, queued) ==
    /\ EntersFailing(r)
    /\ fact[a] = "none"
    /\ fact' = [fact EXCEPT ![a] = "owed"]
    /\ send' = LegReceipts(a, channel, queued)
    /\ jobs' = jobs \cup Retried(r) \cup LegJobs(a, channel, queued)

EnterFailing(r) ==
    /\ EntersFailing(r)
    /\ jobs' = jobs \cup Retried(r)
    /\ UNCHANGED <<fact, send>>

StayFailing(r) ==
    /\ Badge(r) /\ lane[r].outcome # "sent" /\ health = "failing"
    /\ jobs' = jobs \cup Retried(r)
    /\ UNCHANGED <<world, health, send, rescue, accepted, faults>>

\* recordHealth("healthy").  Leaving failing queues the sweep.
TurnHealthy(r, queued) ==
    /\ Badge(r) /\ lane[r].outcome = "sent"
    /\ health' = "healthy"
    /\ rescue' = (rescue \/ (health = "failing" /\ queued))
    /\ UNCHANGED <<world, send, jobs, accepted, faults>>

\* A health write that throws is logged and changes nothing else.
BadgeLost(r) ==
    /\ Badge(r) /\ faults < MaxFaults
    /\ faults' = faults + 1
    /\ jobs' = jobs \cup Retried(r)
    /\ UNCHANGED <<world, health, send, rescue, accepted>>

\* The worker dies or a statement throws.  The job runs again unless its own
\* attempts are spent.
Die(r, again) ==
    /\ lane[r] # None /\ faults < MaxFaults
    /\ faults' = faults + 1
    /\ jobs' = jobs \cup (IF again THEN {lane[r].notice} ELSE {})
    /\ lane' = [lane EXCEPT ![r] = None]
    /\ UNCHANGED <<world, health, send, rescue, accepted>>

-----------------------------------------------------------------------------
(* The sweep.                                                              *)

\* Bug: the sweep looks for the quiet receipt instead of for what is not settled.
BadUnsettled == {n \in Notices : send[n][NoTarget] = Quiet("no_channel")}

\* listUnsettledNotificationIds: no receipt that settles it, no lease in flight.
Unsettled ==
    {n \in Notices :
        /\ fact[n] \notin {"none", "emitting"}
        /\ ~Settled(n)
        /\ ~\E t \in Targets : /\ send[n][t] # None /\ send[n][t].status = "pending"
                               /\ send[n][t].age <= ClaimTtl}

RescueTick ==
    /\ ~rescue
    /\ rescue' = TRUE
    /\ UNCHANGED <<world, health, send, jobs, lane, accepted, faults>>

RunRescue ==
    /\ rescue
    /\ rescue' = FALSE
    /\ jobs' = jobs \cup Unsettled
    /\ UNCHANGED <<world, health, send, lane, accepted, faults>>

-----------------------------------------------------------------------------
Emit(n) ==
    \/ BeginEmit(n)
    \/ \E queued \in BOOLEAN : CommitOwed(n, queued)
    \/ \E c \in Channels : EmitCopied(n, c)
    \/ EmitDigest(n)

Step(r) ==
    \/ ReadHealth(r) \/ Claim(r)
    \/ \E lost \in BOOLEAN : PostAccepted(r, lost)
    \/ \E reason \in FailureReasons : PostFails(r, reason)
    \/ RecordQuiet(r) \/ Record(r)
    \/ \E a \in Alarms, queued \in BOOLEAN : Announce(r, a, queued)
    \/ EnterFailing(r) \/ StayFailing(r)
    \/ \E queued \in BOOLEAN : TurnHealthy(r, queued)

Next ==
    \/ \E n \in Notices : Emit(n)
    \/ \E c \in Channels, queued \in BOOLEAN : AttachChannel(c, queued)
    \/ \E c \in Channels, queued \in BOOLEAN : RepointChannel(c, queued)
    \/ OutageBegins \/ OutageEnds \/ Advance
    \/ \E r \in Runners, n \in Notices : Start(r, n)
    \/ \E r \in Runners : Step(r)
    \/ \E r \in Runners : BadgeLost(r)
    \/ \E r \in Runners, again \in BOOLEAN : Die(r, again)
    \/ RescueTick \/ RunRescue

Spec == Init /\ [][Next]_vars

\* A transaction commits, a dispatch goes on, time passes and the five-minute
\* sweep comes round.  The queue is served oldest first, so a waiting job is not
\* passed over for ever by the jobs the sweep queues again.
Fairness ==
    /\ \A n \in Notices : WF_vars(\E queued \in BOOLEAN : CommitOwed(n, queued))
    /\ \A n \in Notices : SF_vars(\E r \in Runners : Start(r, n))
    /\ \A r \in Runners : WF_vars(Step(r))
    /\ WF_vars(Advance) /\ WF_vars(RescueTick) /\ WF_vars(RunRescue)

FairSpec == Spec /\ Fairness

-----------------------------------------------------------------------------
TypeOK ==
    /\ channel \in Channels \cup {None}
    /\ health \in {"validating", "healthy", "failing"} /\ reachable \in BOOLEAN
    /\ refused \subseteq Refusable
    /\ fact \in [Notices -> {"none", "emitting", "owed", "copied", "digest"}]
    /\ seen \in [Notices -> Channels \cup {None}]
    /\ send \in [Notices -> [Targets -> Row \cup {None}]]
    /\ jobs \subseteq Notices /\ rescue \in BOOLEAN
    /\ lane \in [Runners -> Lane \cup {None}]
    /\ accepted \in [Notices -> [Channels -> Nat]]
    /\ faults \in 0..MaxFaults /\ outages \in 0..MaxOutages /\ moves \in 0..MaxMoves

\* The claim is a lock: two dispatches of one notice never both stand between the
\* claim and the outcome for one channel, however the job key, the sweep and the
\* retries let them overlap.  It needs dispatches shorter than the lease.
Posting(r) == lane[r] # None /\ lane[r].at \in {"post", "record"}
OneDispatcherPerTarget ==
    \A r, q \in Runners :
        Posting(r) /\ Posting(q) /\ r # q =>
            <<lane[r].notice, lane[r].target>> # <<lane[q].notice, lane[q].target>>

\* Every post beyond the first that a channel sees of one notice is paid for by a
\* fault: a lost answer, or a lane that died or threw after its post.
RepeatsNeedFaults ==
    \A n \in Notices : \A c \in Channels : accepted[n][c] <= 1 + faults

\* A notice the dispatch marked sent is in that channel, and only a notice that was
\* owed to Slack is: what was copied or left to the summary is never posted by it.
ReceiptsAreTrue ==
    \A n \in Notices : \A c \in Channels :
        /\ send[n][c] # None /\ send[n][c].status = "sent" =>
               accepted[n][c] > 0 \/ fact[n] = "copied"
        /\ accepted[n][c] > 0 => fact[n] = "owed"

\* What is in a channel is accounted for: one dispatch at a time posts a notice
\* there, what is marked sent is there, and nothing is there twice but for a fault.
PostsAreAccounted == OneDispatcherPerTarget /\ RepeatsNeedFaults /\ ReceiptsAreTrue

\* sent, digest and rejected are final: no late failure, retry or rescue opens one
\* again.
Final(row) ==
    row # None /\ (row.status = "sent" \/ row.reason \in {"digest", "rejected"})
FinalReceipts ==
    [][\A n \in Notices : \A t \in Targets :
          Final(send[n][t]) => send'[n][t] = send[n][t]]_vars

\* Once there is a channel, Slack takes posts and the badge is not failing, for
\* good, everything owed is settled in the end, whichever job, receipt, lease or
\* trigger was lost before.
NothingIsStranded ==
    <>[](channel # None /\ reachable /\ health # "failing") =>
        \A n \in Notices : [](fact[n] = "owed" /\ n \notin refused => <>Settled(n))

-----------------------------------------------------------------------------
(* What the outbox promises of a notice and a channel, as an abstract      *)
(* specification.                                                          *)

FateOf(n, c) ==
    IF send[n][c] # None /\ send[n][c].status = "sent" THEN "there"
    ELSE IF send[n][c] # None /\ send[n][c].reason = "rejected" THEN "refused"
    ELSE IF fact[n] \in {"copied", "digest"} THEN "left" ELSE "open"

Promise == INSTANCE Mailings WITH
    told <- accepted,
    fate <- [n \in Notices |-> [c \in Channels |-> FateOf(n, c)]]

\* Whichever jobs, leases, sweeps and re-points overlap, a channel is told of a notice
\* only while it has no receipt there that says sent or refused, and the summary does
\* not carry it; a receipt says sent after a post, and refused if there was no post.
Promised == Promise!Spec

\* The outbox keeps its word: it implements Mailings, and what is final in its own
\* record, the summary's receipt and the count of attempts too, stays as it is.
KeepsItsWord == FinalReceipts /\ Promised
=============================================================================

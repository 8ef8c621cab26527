# A verification of the Growthmind lanes

Growthmind watches recorded product sessions, finds places where people struggle and tells a
founder about them in Slack, one finding at a time. Most of what can go wrong is in the worker:
cron jobs that overlap, crash and are retried share database rows, post to a network that loses
answers, and promise the founder things such as "a dismissal is permanent" and "one successful post
per notification, ever". The detectors have a hazard of their own: they conclude from a corpus that
is read in pieces while it is being written.

This directory holds TLA+ modules of those lanes, the TLC configurations that check them on small
instances, and theorems about them whose proofs TLAPS checks for every value of the constants.

    Delivery            the delivery tick of one project            -> MCDelivery, DeliveryProofs
    Receipts            what its record promises (abstract)
    DecisionLog         the history of what each tick decided       -> MCDecisionLog, MemoryProofs
    SignatureLedger     what is remembered of findings              -> MCSignatureLedger, MemoryProofs
    AnalysisRuns        the analysis tick, its lease and its caps   -> MCAnalysisRuns, AnalysisRunsProofs
    NotificationOutbox  emission, dispatch, rescue and health       -> MCNotificationOutbox, OutboxProofs
    Mailings            what the outbox promises of a notice (abstract)
    SessionSourcePoll   the cursors of a connection and its events  -> MCSessionSourcePoll, SessionSourcePollProofs
    GrowthContext       what a founder and the site said            -> MCGrowthContext, GrowthContextProofs
    ReplayNarration     the watermark of recordings and its rows    -> MCReplayNarration, ReplayNarrationProofs
    ShippedChanges      a reported change up to its end             -> MCShippedChanges, MemoryProofs
    Detection           what a lane concludes from a corpus         -> MCDetection, DetectionProofs

To check a run: `tlc -config MCDelivery_overlap.cfg MCDelivery`. To check proofs: `tlapm
DeliveryProofs.tla`. `PROJECT.json` names for every definition the lines of the code it stands for.

## 1. The system

A Next.js web application and a graphile-worker process share one Postgres database. The worker
runs jobs from a queue, five at a time (`worker/src/main.ts`); its crontab is at
`worker/src/index.ts:540-561`. A job whose process died is run again by the queue. Nothing holds a
transaction over a network call, statements are READ COMMITTED, and mutual exclusion is done by
conditional writes: an upsert with a predicate that either takes the row or returns nothing.

| component | state it keeps | operations | interacts with | hard part |
|---|---|---|---|---|
| delivery lane (`delivery-tick.ts`, `delivery-lane-source.ts`, `schedule.ts`, `deliveries.repo.ts`) | `deliveries`, one row per finding and channel | every 15 min: scan findings, decide, claim, post, record | reads findings, ledger, connection; writes the bell | overlapping ticks, lost answers, state read before the claim |
| decision log (`delivery-decisions.repo.ts`) | `delivery_decisions`, run-length encoded | close the open run, extend or open one | written by each tick | two statements without a lock, out-of-order commits |
| signature memory (`signature-ledger.service.ts` and its repositories) | `finding_signatures`, `dismissals`, `signature_ancestry` | record, consult, deliver, dismiss, carry along an edge | asked by both lanes, written by the Slack button and the web | read before write, chains, forks, merges, cycles |
| analysis tick (`analysis-tick.ts`, `analysis/`, `analysis-runs.repo.ts`) | `analysis_runs`, `analysis_model_calls`, `findings` | hourly and at onboarding: lease, plan each candidate, claim a model call, persist, close | consults the ledger, calls a model | take-over of a slow lane, count then insert |
| notification outbox (`emit.ts`, `notification-dispatch*`, `notification-rescue*`) | `notifications`, `notification_sends`, jobs | emit, dispatch, retry, sweep every 5 min | written beside every fact, posts to Slack, moves health | doubled jobs, leases, partial failure, a moving address |
| Slack connection (`slack-connections.repo.ts`) | address, cutover, health | attach, re-point, recordHealth | read by both lanes that post | read early and used late |
| session source poll (`session-source-poll.ts`, `intake.service.ts`) | two cursors per connection, sessions, events | every minute: claim due connections, pull, store, move the cursors | PostHog | overlap of slow polls, store without a transaction |
| replay narration (`replay-narration-tick.ts`, `recording-summaries.repo.ts`) | `recording_summaries`; the watermark is their newest | every 10 min: list, pull, summarise, store, retry what failed | recording source, model | a watermark made of what was stored, retries that race |
| shipped changes (`shipped-readout*`, `shipped-changes.repo.ts`) | a state per change, a verdict | report, report again, read out, press, lapse, abandon | outbox, Slack buttons | a late receipt or press against a lapse |
| growth context and business research (`growth-context.repo.ts`, `growth-context.service.ts`, `research-business.ts`) | one row per project: facts, tombstones, page roles, the state of the site read | people's answers, the nightly page roles, the site read, a proposed audience rule | model, web, queue | whole columns written from a row read earlier |
| detectors, gate and predicates (`core/src/detect`, `core/src/evidence`, `detector-corpus.service.ts`) | sessions and events stored by intake | read the corpus, detect, gate, give an identity | intake writes what they read, the analysis tick writes up what they propose | a corpus read in four statements, an order that changes |
| weekly digest (`notification-digest*`) | a notification per week | gather, emit | outbox | windows against commit order |
| provider interest | a stamp | send once | webhook | little |
| fixes and MCP, first-run and settings routes, Slack interactivity | rows of their own | request handlers | the services above | little: one row each |
| rendering, PII redaction, adapters | none | pure functions and I/O | the lanes | data, not order |

What makes each of the modelled ones correct is the list of properties in section 3.

## 2. The modules and the code

Conventions. An instant of the code is an age in the model: how many tick intervals ago it was.
`Advance` makes everything older by one, and ages saturate at a `Horizon` beyond every difference
the code tests (an ASSUME says so). A lane, tick or dispatch is a record with a `pc`; it carries the
instant it started because the code passes one `now` to all its calls. An action is one statement
or one network call together with the pure code around it, since nothing can come between.
A *fault* is a crash of the worker, a statement that fails or whose commit is not acknowledged, or a
Slack answer that is lost; `MaxFaults` bounds them. Operators named `Bad...` are mistakes the code
could contain; no action uses one, and for each property one of them, put in the place of the good
definition, makes TLC find the property violated.

**Delivery** (`MCDelivery`). `StartTick` reads the connection, `ListFindings` and `Skip/Consider
Finding`/`EndScan` are the loop of `laneFor`, in its order (cutover, held text, suppressed, then
counted, then spoken for). `DecideNothing`/`DecideDeliver` are `decideDelivery`; ranking inside one
confidence class depends on what a surface is worth at that moment and is a free choice. `Claim` and
`NotClaimed` are the upsert of `claimForPost`, `Post` and `PostFails` the call of Slack (the second
also when Slack took the message and the answer was lost), `MarkPosted...` the transaction that
writes the receipt and the bell with its savepoint, `MarkFailed` the record of a failure,
`LaneErrors` every other call that may throw, `Crash` the death of the process. `Persist`,
`Dismiss`, `AttachChannel` and `RepointChannel` are what other components do meanwhile.

**Receipts** is the abstract specification: a thing is said any number of times until it is
acknowledged, then never again, and the acknowledgement names one of the times it was said.
`Promised` is `Promise!Spec` under `said <- slack`, `receipt <- row.ref`.

**DecisionLog** (`MCDecisionLog`). `record` is two statements: `Replace`/`CloseNothing`, the
close-update, and `ExtendOrOpen`, the upsert of the open run with its predicate. Ticks carry the
instant they started and may commit in any order.

**SignatureLedger** (`MCSignatureLedger`). One action per statement or transaction; an operation
that reads before it writes is a `Begin...` and a `Commit...`, with everything else free to happen in
between. `Forward` is the bounded walk along ancestry edges, as a recursive function.
`recordAncestry` and `markSignatureDelivered` have no caller in the application yet; they are
modelled because the ledger is written to be right under them.

**AnalysisRuns** (`MCAnalysisRuns`). `Open` is the four statements of `open` (insert the running row,
reclaim an abandoned one, insert again, find the existing one). `PlanCandidate` consults the ledger,
`CountClaims` and `Claim` are the count and the insert of `claimModelCall`, `AskRender`/`AskCause` the
two calls of a model, `Persist` the finding, `Close` the close of the run. A candidate is detected
every time a lane runs.

**NotificationOutbox** (`MCNotificationOutbox`). `BeginEmit` reads the connection, `CommitOwed`,
`EmitCopied` and `EmitDigest` are the legs of `emitNotification`. `Start` is a dispatch up to the
settled check, `ReadHealth` and `Claim` are `claimNotificationSend`, `PostAccepted` and `PostFails` the
post, `Record` the outcome with its rank, `Retried` the re-queue, `Badge`/`Announce` the health edge
with the alarm it emits, `Die` a lane that died or threw, `RescueTick` and `RunRescue` the sweep. The
queue is a set of notices with a waiting job: a job key collapses waiting jobs, but a job that has
started is not waiting, so one notice may be in the hands of two runners.

**Mailings** is its abstract specification, of each notice and each channel: a channel is told any number of times while the notice
is open there, an acknowledgement comes after a telling, a refusal is of a notice that nobody was told, and what another hand
placed in a channel, or the summary carries, is set aside untold; nothing opens again. `Promised` is `Promise!Spec` under
`told <- accepted` and `FateOf`, which reads the fate of a notice off its row and the way it was emitted.

**SessionSourcePoll** (`MCSessionSourcePoll`). `Claim` is the claim of a due connection with both
cursors as they are then; `FirstPull` is the pull `connect` makes by itself, of one page. `Continue`,
`EndBackward` and `EndForward` are one page each: `walk`, first below the kept place, then from the
newest event with the pages that are left. `Store` is `persistPullResult`; `Advance`, `HoldCursor`,
`ClearCursor` and `LeaveCursors` are the four ends of `applyCursors`, and `EmitBackfillComplete` comes
after the clear has committed. A poll may go through several passes; it is given `MaxPasses` of them and
`PassEnds` may stop it after any, which covers the single pass of a project past its set-up and the
budget of the run. `Arrive` is the source: events come in order, but for those in `Late`, and those
in `Garbled` are dropped by the parser. An event is its instant, and a page's next URL is the instant before which it goes on.

**GrowthContext** (`MCGrowthContext`). The one row of a project and its writers. A writer has a pen: `Read`
is its read of the row and the plan it makes of it (`Plans`, one operator for each of
`removeFact`, `addFact`, `correctFact`, `confirmFact`, the audience answers, `statePageRole`, the nightly
`DeriveRoledSurfaces` and the proposal of a rule), `Write` the conditional update, which goes
through only if the stamp it read is still there (`StillAsRead`), `Retry` the loss of that race, after
which a person's request reads again a few times and the nightly tick gives up. `StateSiteDomain` writes blindly. `Enqueue`,
`StartResearch`, `MarkResearchRunning`, `FetchSite`, `RecordResearch`, `RetryRecord`, `SettleResearch`,
`RecordResearchFailure` and `Crash` are the job that reads the site. What pages say of a domain is the constant `Says`; what a model
makes of it is a free choice within it. One kind of sentence stands for all kinds, which never meet in the code.

**ReplayNarration** (`MCReplayNarration`). `StartTick` reads the watermark, `ListRecordings` is the listing, newest
first and cut at `PageCap` pages, `SummarisedIds` and `RetryablePullIds` are the two sets a tick takes up,
`Due` the order in which it does, `PullEvents` one recording with the model's answer, `Persist` the insert that does nothing on
conflict, `RefreshFailedPull` the update of a failed row with its guard, `AttemptFails` and `Die` what
may go wrong. A recording is a number of chunks; a row keeps how many beats it has, a cursor, and (for the properties) how many copies of each chunk.

**ShippedChanges** (`MCShippedChanges`). One change. `Report` and `Reopen` start a clock, `ClockRunsOut` and
`WindowRunsOut` are time, `ListDue`, `Measure`, `ReadOut`, `AbandonDue`, `ListLapsed` and `Close` the statements of the
tick, `Press` is the button, `Abandon` the end without a readout. The outbox is reduced to a note per
clock that is owed, posted and receipted (`Dispatch`, `Receipt`), as NotificationOutbox has it.

**Detection** (`MCDetection`). `StoreSession`, `StoreEvents` and `LosePull` are the two statements of
`persistPullResult` and a failure between them; `Merged` is the upsert of a session with its ranks. `StartLane`, `ReadSessions`,
`ReadEvents` and `ReadRecordings` are the four reads of a corpus, `Audience` the rules in three
values. `Funnel`, `Errors` and `Observed` are the detectors, each as the set of candidates it makes; `FinalClass`, `Proofs` and
`Confidence` are the gate with its ladder and floors; `Identity` is the evidence shape, and `Conclude`
hands on what passed. What has been narrated of a session is a free choice. Nothing is stored between
the read of the events and the end of the lane (`CorpusIsRead`): the lane would not see it.

## 3. What is checked

Every run ends in under four minutes with two workers. Faults, moves and outages are bounded to one each; the
counting properties (`... <= faults`) are stated for any number and proved for any number. A property in bold is made of the parts
after it. The type invariants of Delivery, NotificationOutbox, SessionSourcePoll, GrowthContext and
ReplayNarration are theorems and are not run.

| run | instance | properties |
|---|---|---|
| `overlap` | 2 ticks, 2 findings, 1 channel, 1 fault | **`OneVoice`** (`ExclusivePosting`, `ReceiptNamesItsMessage`, `RepeatsNeedFaults`), `BellFollowsReceipts`, `QuietAfterDismissal`, `Promised` |
| `solo` | 1 tick, 2 findings, 2 channels, 1 move, 1 fault | **`KeepsTheCadence`** (`OneOpenFinding`, `CountedCeiling`), `MovedBacklogStaysPut`, `EveryFindingSettles` |
| `race` | 3 recorders, 3 answers, 4 records | **`OneHistory`** (`LogTypeOK`, `LastRunIsOpen`, `NeighboursDiffer`, `AboutTheLatestTick`), `HistoryIsKept` |
| `ledger` | 3 signatures, 1 press, 2 callers, 4 renames | **`LedgerAddsUp`** (`LedgerTypeOK`, `OneCarryPerEdge`, `NothingIsDismissedUnasked`, `EverySightingCountsOnce`), **`LedgerRemembers`** (`MemoryOnlyGrows`, `ForgetsOnlyThroughAnEdge`) |
| `analysis` | 2 lanes, 1 project, 2 signatures, project cap 2, organization cap 3, a model, 1 fault | **`NothingIsBoughtTwice`** (`TypeOK`, `OneLanePerLease`, `AskedAtMostOnce`), `CapsHoldUpToRaces`, `DismissedCostsNothing`, `EveryCandidateIsRecorded` |
| `outbox` | 2 runners, 1 notice that may be refused, 2 channels, 1 move, 1 fault, 1 outage | **`PostsAreAccounted`** (`OneDispatcherPerTarget`, `RepeatsNeedFaults`, `ReceiptsAreTrue`), **`KeepsItsWord`** (`Promised`, `FinalReceipts`) |
| `rescue` | 1 runner, a notice and the alarm, 1 channel, 1 fault, 1 outage | `NothingIsStranded` |
| `intake` | 2 pollers, 4 events (1 late, 1 unreadable), pages of 1, caps 2 and 1, 2 passes, 1 connect, 1 fault | `NothingIsPassedOver`, `NoFalseDrain`, `EveryEventIsStored` |
| `growth` | 2 writers, 1 site read at a time, 1 page, 2 sentences, 2 domains, 2 sentences a kind, 1 tombstone, 2 attempts, 4 requests, 1 crash, 1 lost call | `PersonsWordStands`, `DecisionsStand`, `AnsweredStaysAnswered`, `OldPagesOnlyByALateRead`, `ResearchSettles` |
| `narration` | 2 ticks, 2 recordings of 2 chunks at 2 instants, pages of 1, 2 pages, a budget of 2, 3 beats at most, 1 fault | `NoneIsPassedOver`, **`NothingIsDoneOver`** (`EachBeatOnce`, `BoughtOnce`), `RowsOnlyGrow`, `EveryRecordingSettles` |
| `shipped` | 2 ticks, 2 clocks, 1 fault | `ShippedTypeOK`, `AnswersAreToWhatWasAsked`, `OneEnd`, `ReadOutWhenDue`, `EveryChangeEnds` |
| `detection` | 2 sessions, 2 pages, an act on A, a view of B, exceptions on A and without a page, 3 instants, up to 3 events stored and 1 pull more, 1 recording | **`CountsAreOfTheKept`** (with `TypeOK`), `DropoffsEndThere`, `NoClaimWithoutProof`, `OneIdentityPerProblem`, `VerdictsOnlyImprove` |

Why the bounds are enough. Two ticks, lanes, runners or calls show every race between a pair, and no
guard in this code mentions more than one other; three are used where two of them can hide the third's
work (`race`). The lease is one tick interval instead of two and a tick may last as long as its lease,
so all orders of "started before, expires after" occur; the week, one interval, is left within a run.
One fault is enough for each `<= faults` bound to be tight, and after it the system must recover. The
budget is 1, not 3, so that it is reached; the project cap 2 and the organization cap 3 instead of 12
and 120 for the same reason: with a cap of 2 a candidate gets to its cause stage. In `analysis` the lease is no whole
tick interval, as 45 minutes are none of an hourly tick, and a lane may run for one. A model is configured; the module has the lane without one, the instance has not. `Considered` and `ReadLimit` are set to the number of findings, so what
the code gives up past 50 and 200 findings is not explored. `MaxHops` is 2 with three signatures, so
the walk is cut short on cycles only; a chain longer than the cap is not explored. `Renames` holds a chain, a fork,
a merge and a cycle. `MaxAttempts` is 2 instead of 5, so that the last attempt is met.
In `intake` pages hold one event instead of 200, and a pull fetches two of them instead of 25, so that
four events are more than two pulls; `Overlap` is 0: it only widens
what the first page of a walk lists, and the theorems of section 4 hold for any overlap and any page size. Arrivals are
bounded, so "again and again everything is stored" says that each event is.
In `growth` a kind holds two sentences instead of 4 and the tombstones one instead of 48, so that both caps are met; a stamp is
finer than the code's clock once (`FineClock`), as the default of the column is; the requests are
bounded, so the run may stop (`CHECK_DEADLOCK FALSE`). In `narration` two recordings may start at one
instant, a listing may be cut, and the budget of 2 recordings instead of 12 is left with one to retry. In `shipped` the
second clock is the reopening that the first one's answers may race. In `detection` the floors are
the smallest at which they differ from nothing (one session with an error, two at a surface), a
window is shorter than the instants there are, and one act may be too early to be put to an exception; a candidate of each
detector, a broken and a confusing pass, a drop and a group of both kinds of signal are all reached.
Symmetry is used for ticks, lanes, runners, channels, answers, callers and signatures in runs that check
safety only, and in none with a liveness property.

Premises that matter.

- `ExclusivePosting`, `LeaseShape`, `RepeatsNeedFaults` and `Promised` (and in the outbox `OneDispatcherPerTarget`, its
  count of repeats and `KeepsItsWord`, under `MaxSpan <= ClaimTtl`) hold because no tick outlives
  its claim (`MaxSpan <= TTL`, 30 minutes against calls that each have a timeout). The code has no
  check that makes it so: `schedule.ts:17-19` ("a slow post is never stolen") holds under it only.
- `OneOpenFinding` and `CountedCeiling` (`KeepsTheCadence`) are checked, and proved, with ticks that do not overlap, because the open
  findings and the count are read before the claim. Nothing enforces that either: with two ticks in
  progress both fail, while docs/architecture.md:182, 523 and 999 state the first as a lock. The ceiling also needs a
  lane that considers every finding: what lies beyond the fiftieth is not counted.
- `CountedCeiling` counts as the lane counts: a dismissed finding is skipped before it is counted
  (`delivery-lane-source.ts:413-428`), so dismissing a posted finding frees its slot, and the plain
  reading of README.md:82, at most three posts a week, is false. A finding from before a cutover is skipped before it is counted
  as well (`delivery-lane-source.ts:394-400`, the count is at `439-446`), so a move gives the new address a whole budget: with
  two posts a week, two may go to the old address and two more to the new one in the same week. (The run
  has a budget of one, the theorem any.)
- `NothingIsStranded` takes the health badge to have left `failing` (section 6), and ignores the
  fourteen days after which the sweep no longer looks at a notification.
- `EveryFindingSettles` is stated for findings that can all be posted (see `Poison` below).
- `NoneIsPassedOver` excuses what came late, what a listing cut at its page cap left below the new
  watermark, and what was tried in vain and overtaken (observations below). `EveryRecordingSettles` takes a
  project to get at least one recording's worth of the shared budget in each tick.
- `PersonsWordStands`, `DecisionsStand` and `AnsweredStaysAnswered` name the writer that may take a word back: the
  person's own withdrawal, and stating an address over an outdated read, which the code does blindly.
- `AnsweredStaysAnswered` does not say that a removed or corrected sentence never returns, for the row does not remember all of
  them. It says that one the row remembers returns only when it is typed (`ReturnsOnlyTyped`), and that a sentence is remembered
  from its removal or correction on until a person does one of three things (`AnswersAreRemembered`): removes it when the tombstones are full, which
  drops the newest (`growth-context.repo.ts:327`); removes a correction made from it, which buries only the correction (`:414`);
  or corrects it when it was a correction itself, which keeps the first wording only (`:449`). After any of the three a plain read of the
  site may bring it back. The run meets all three: without any one of them TLC finds the property violated.
- `OneIdentityPerProblem` speaks of one detector: two detectors may each propose a problem of one page.

Fairness. `Delivery`: the crontab keeps firing (WF on `Advance`), a waiting job finds a worker, and a
tick that runs gets its answers, for each of its calls has a timeout. `AnalysisRuns`: the same, with
strong fairness on starting a lane, for a project whose lane is at work comes round again at the next hour.
`NotificationOutbox`: the sweep's cron and the lanes are weakly fair; starting the dispatch of one notice
is strongly fair, for the queue is served oldest first, and one with a job is reached in the end
though others are queued again meanwhile. `SessionSourcePoll`: the crontab fires every minute (WF on a
claim by some poller) and a poll that runs gets its answers. `ReplayNarration` and `ShippedChanges`: the crontab fires
and a tick gets its answers; in the second time passes too (WF on the clocks that run out). `GrowthContext`: a queued site
read is started and gets its answers; people's requests need not come. `Detection` is checked for safety only.
No fault, dismissal, press, attach or re-point is fair. An outage ends, as an assumption.

### Where the code and its own text differ

Met while reading or modelling. No run of the list is about them: where a property would be false, it is stated
without them, and the premise is named above or in the property.

- A history of as many pages as a pull may fetch never gets a watermark.
  `connect` takes one page and keeps the place; the next poll goes through the rest, has one page left
  for the walk from the newest event, is capped where it was capped before and keeps the same place, for
  ever: 25 pages of stored events every minute. `session-source-poll.backfill-resume.test.ts:102` says
  "the backlog drains instead of re-fetching the same slice forever". `BacklogDrains` states it, and
  `tlc -config MCSessionSourcePoll_backlog.cfg MCSessionSourcePoll` finds it violated. Nothing is lost by it (`EveryEventIsStored`).
- A finding whose message is refused before the post (`Poison`) is recorded failed, and failed is ready: it is chosen on
  every tick and no later finding of the project is delivered. The lane's comment
  (`delivery-lane-source.ts:67-69`) promises that rows that can never become a message are not a silent stop.
- With no fault, a channel re-pointed while a dispatch is in progress puts one notice in both channels,
  against `notification-dispatch.ts:304`. `PostsAreAccounted` counts each channel by itself.
- A slow delivery tick with another answer opens the new run of the decision log at its own earlier
  instant, so the heartbeat a staleness alarm reads goes back; `delivery-decisions.repo.ts:74-76` says it
  must not. The invariants of `race` hold all the same.
- A dismissal committed between the read and the write of a carry stays behind with the old signature,
  against "Dismissals remembered" (`docs/architecture.md:1002`). `recordAncestry` has no caller yet;
  `ForgetsOnlyThroughAnEdge` shows the ways in which it can happen, and that there are no others.
- `backfill_complete` is emitted only when the walk from the newest event saw nothing. The usual end of a
  backfill sees something, goes through `advanceWatermark`, and announces nothing, while
  `wire-backfill-complete.test.ts:77` has "the drain that follows emits exactly one".
- A walk asks for 900 seconds more than the watermark calls for (`OVERLAP_WINDOW_SECONDS`), and ends at the first page
  with an event at or below the watermark (`session-source.ts:126`). A late event deeper than that page is
  not fetched, though it was requested (`session-source.test.ts:103`). That is why `Late` events are not promised.
- Events of one instant on both sides of a page boundary rest on the source's strict `before`; the model gives every event an instant of its own.

Of the growth context:

- Stating the address again, the same one too, drops a decided audience rule that came from the site and the decision
  with it (`growth-context.repo.ts:654`), against `:173-174`. The same blind write loses a sentence stated
  between the read and the write (`:148-149`).
- The stamp of an inserted row is the column's default, in microseconds, and comes back as a date in milliseconds: no guarded
  write matches it. The nightly tick is refused and `statePageRole` throws until some blind write puts a stamp of the
  application there; against `:138-140`.
- Correct A into C, then remove C, and the next site read may bring A back: what C was made from is not buried
  (`research-merge.ts:26-27`). A correction onto a sentence that is there makes a double, one of which survives its removal.
- Adding a sentence the site already said answers "stated" and writes nothing. `removed.slice(0, 48)` drops the newest
  tombstone (`:412-413`). A read of the old address that ends late marks the new one "done".
- If recording a failed read fails as well, the row says "running" for ever (against `:752-753`); `ResearchSettles` excepts it (`mute`).

Of the narration:

- A failed pull strictly older than the newest row is never listed again, and stays failed, against
  `recording-summaries.repo.ts:139-141`. So does one overtaken after a failed attempt, one below a listing that was cut, and one that
  comes late: these are what `NoneIsPassedOver` excuses. The comment at `replay-narration-tick.ts:522` is out of date: the
  test is strict, and recordings of the watermark's own instant are listed again.
- A transcript cut at 120 beats forgets its cursor if a retry of it reads nothing, and the next retry appends its beats a
  second time; `EachBeatOnce` speaks of transcripts that were never cut. A retry whose remaining chunks hold no events is refused and stays failed.
- The ceiling of a tick is spent in the fixed order of the projects (`analysable-projects.ts:24`), so later ones can starve.

Of shipped changes:

- A press on the message of an earlier clock is stored with the outcome of the present one, against
  `shipped-change-verdicts.repo.ts:88-90`, and a readout sent for an earlier clock counts as delivered for the
  present one, so that a founder who was not asked again may be recorded as silent. `AnswersAreToWhatWasAsked` is stated up to these two.
- A note dispatched after the change was reported again posts a sentence without buttons and counts as sent, against
  `shipped-readout-tick.ts:64-66`; a page renamed between claim and dispatch renders nothing
  (`shipped-readout.service.ts:86-106`), and its lapse records "no_verdict_given" all the same.
- Abandoning as never asked also takes a change that was reported again after it was listed; concurrent reports again answer "already answered".

Of the detectors:

- A session has failed at a page if it came there once and its last path is there. So the struggle by which a drop-off is
  proved, three visits or more, is always that of sessions that went on (`DropoffsEndThere`), and a session
  still under way counts as dropped off until it goes on (`VerdictsOnlyImprove` says that it then stops).
- `correlatedSessions` counts exceptions of after the window's end, while the gate asks only that some signal be within it; `confidenceBasisForPass`
  looks at the signals before that filter. Sessions that began before the window are left out though they are active in it.
- `citationsFor` has no ORDER BY: which recording of a session is tallied is arbitrary. A pull of equal rank that does
  not see the headless user agent takes the stamp of a session off again (`sessions.repo.ts`, `upsertMany`).

Also, `gates.ts:90-92` says a row recorded with the fixed text can be written up again, but `findings.persist`
does nothing on conflict; `architecture.md:518` and `1003` rest "never surface twice" on
`delivered_at` of the ledger, which no production code writes; `deliveries.repo.ts:158-159` calls
the receipt and the notification one transaction, and the savepoint at `emit.ts:180-195` lets the
second be lost; `worker/src/index.ts:487-489` says that without a composed poster a notice is quiet,
and the dispatch records it failed and the connection failing.

## 4. What is proved

The theorems hold for any number of ticks, findings, channels, notices, signatures, faults and so
on. Their assumptions are the ASSUMEs of the modules (distinct null values, naturals, finite sets, a large enough
`Horizon`), which TLC evaluates in every run, and where stated that nothing outlives its lease.

| module | theorem | says | needs |
|---|---|---|---|
| DeliveryProofs | `TypeCorrect` | `TypeOK` and `TickShape` | |
| | `ReceiptsNameTheirMessages`, `ReceiptsStayFinal` | `ReceiptNamesItsMessage`, `ReceiptsAreFinal` | `ReceiptShape` |
| | `ClaimIsALock` | `ExclusivePosting` | `MaxSpan <= TTL`, `LeaseShape` |
| | `TicksSpeakWithOneVoice` | `OneVoice` | `MaxSpan <= TTL`, `PriceInv` |
| | `BellsFollowReceipts` | `BellFollowsReceipts` | |
| | `DismissalsAreRemembered`, `MovesReplayNothing` | `QuietAfterDismissal`, `MovedBacklogStaysPut` | |
| | `OneThingAtATime` | `OneOpenFinding` | one tick at a time |
| | `TicksInTurnKeepTheCadence` | `KeepsTheCadence` | one tick at a time, no more findings than a lane considers |
| | `LaneKeepsItsPromise` | the lane implements `Receipts` | `MaxSpan <= TTL` |
| MemoryProofs | `LogIsOneHistory`, `HistoryStaysWritten` | `OneHistory`, `HistoryIsKept` | |
| | `AncestryIsClaimedOnce`, `LedgerForgetsNothing` | `OneCarryPerEdge`, `MemoryOnlyGrows` | |
| | `LedgerIsAccountedFor`, `LedgerNeverForgets` | `LedgerAddsUp`, `LedgerRemembers` | finitely many signatures |
| | `ShippedTypesHold`, `ChangesEndOnce`, `PromisedDatesAreKept`, `AnswersMatchQuestions` | `ShippedTypeOK`, `OneEnd`, `ReadOutWhenDue`, `AnswersAreToWhatWasAsked` | |
| AnalysisRunsProofs | `NothingIsAskedTwice`, `RunsAreLeases`, `RunsBuyOnce` | `AskedAtMostOnce`, `OneLanePerLease`, together `NothingIsBoughtTwice` | |
| | `DismissalsEndTheSpending`, `CeilingsHoldUpToRaces` | `DismissedCostsNothing`, `CapsHoldUpToRaces` | finitely many lanes, at least one |
| OutboxProofs | `TypeCorrect`, `ReceiptsSpeakTrue` | `TypeOK`, `ReceiptsAreTrue` | |
| | `ClaimIsALock`, `ReceiptsStayFinal`, `ChannelsAreAccountedFor` | `OneDispatcherPerTarget`, `FinalReceipts`, `PostsAreAccounted` | `MaxSpan <= ClaimTtl` |
| | `OutboxKeepsItsPromise`, `OutboxKeepsItsWord` | the outbox implements `Mailings`, `KeepsItsWord` | `MaxSpan <= ClaimTtl` |
| SessionSourcePollProofs | `TypeCorrect`, `WatermarkIsSafe`, `DrainIsNeverFalse` | `TypeOK`, `NothingIsPassedOver`, `NoFalseDrain` | |
| GrowthContextProofs | `TypeCorrect`, `WordStands`, `DecisionsAreKept`, `AnswersAreKept`, `SitesAreKeptApart` | `TypeOK`, `PersonsWordStands`, `DecisionsStand`, `AnsweredStaysAnswered`, `OldPagesOnlyByALateRead` | |
| ReplayNarrationProofs | `TypeCorrect`, `WatermarkIsSafe`, `NothingIsRepeated`, `RowsNeverShrink` | `TypeOK`, `NoneIsPassedOver`, `NothingIsDoneOver`, `RowsOnlyGrow` | finitely many ticks |
| DetectionProofs | `CountsHold`, `DropoffsHold`, `ClaimsAreProved` | `CountsAreOfTheKept`, `DropoffsEndThere`, `NoClaimWithoutProof` | finitely many sessions and instants |
| | `VerdictsHold`, `IdentitiesHold` | `VerdictsOnlyImprove`, `OneIdentityPerProblem` | the same |

The arguments.

*Delivery.* `ReceiptInv`: a row has a reference exactly when it is posted, the reference is a message
about that pair, and a tick about to record holds the reference of such a message. No exclusion is
needed, since `markPosted` keeps the reference it finds. `LeaseInv` (`LeaseShape`) is what makes the claim a
lock: the row a tick holds is pending and *exactly as old as the tick*, because the claim is stamped with
the instant the tick started; a second tick can take it only when it is older than TTL, which a tick
that ends within the lease never is. The refinement step of `Post` needs that the pair has no receipt, which is `LeaseShape` again.
`PriceInv` counts: every message is the one of a delivery that is answered (it has its receipt, or a tick is about to record
it) or was paid for by a fault. The answered deliveries, unlike the ones said, lose one with each lost answer and gain one only by
a post, which `LeaseShape` allows only where there is no answer yet. What a tick takes up passed the consult and the cutover
(`NewlyCarried`), and a cutover holds what was in the backlog, so that the next move's holds it too (`CutoverInv`).
`OpenInv` is why one thing at a time needs ticks that follow one another: a tick about to claim has read that nothing is open, and nobody
else can have claimed since. For the ceiling, `CeilingInv` gives each tick room: what it has already passed in its list is within what it has counted,
what faults hid from it and what earlier addresses used up (`Budget` for each move), so that once it decides to go on the whole week has room for
one more; a tick that still works for an old address has a budget less. What it has yet to read it will count (`ScanInv`: what was posted was posted
before it began, and its list holds the rest of the backlog; `KnownInv`: what was posted is in the backlog, is shown and was not cut over).

*DecisionLog* (in MemoryProofs, with the next one and *ShippedChanges*). The three invariants of the run, taken together with `TypeOK`, are inductive: the upsert finds its open run by a
predicate, and that this run is the newest (`LastRunIsOpen`) is what makes its answer the one to differ from.

*SignatureLedger.* The edge is inserted before the carry, in the same transaction: a call in a carry has an
edge nobody else is writing. That growth is monotone needs this for the edges only. An edge is never written twice, so from each signature there is
one way forward (`ReachLinear`: a walk does not fork), and the new edge of a carry that closes no cycle joins two sets of ancestors that have
nothing in common (`AncestorsMeet`): this is why no sighting is added twice. `CountInv` bounds each count by the sightings of the signature and its
ancestors that are not on a cycle, and says of a carry in progress that what it is about to add is such a count too. `CauseInv`: each stamp, also one
about to be written, has a press on an ancestor behind it. `ForgetsOnlyThroughAnEdge` is about the bounded walk `Forward`. That the recursive function is
what its definition says needs no induction: walks of a given length exist and agree (`WalksExist`, `WalksAgree`), by the least length for which they
would not (`LeastNumber`); a walk that gives another answer after a step goes through the edge the step wrote (`WalkUpToTheEdge`).

*AnalysisRuns.* `AskInv`: a lane about to ask holds the claim of a call nobody else is about to ask and nobody asked, and claims
are never taken back. `LeaseInv`: until its lease has passed, the running row of a lane at work is its own and as old as the lane.
`WholeInv`: what a lane has in hand is a candidate of its project. `CapInv`: the claims made and those that may
still be made by lanes that counted are together within the ceiling and one for each lane but one, because a lane let through saw the ceiling
unreached, and at most all lanes have been let through since.

*NotificationOutbox.* `FactInv` ties rows, jobs and posts to what was owed when the notice was emitted
(no row before the notice, settled at once when copied or digested, jobs and lanes and posts only of
owed ones, and a row marked sent only with a post behind it). `LeaseInv` is the lock again:
a dispatch past its claim holds a pending row exactly as old as itself. `Counted`: a channel has at
most one post of a notice for each fault, and one more only while its receipt says sent or a dispatch is between post and record.
The refinement goes by the fate of a row: a post is a `Tell`, for the dispatch that makes it holds a pending row of an owed notice; a claim leaves
the fate open, since what may be reclaimed is not final; an outcome acknowledges (a dispatch that says sent has posted), refuses, or leaves open.
That a refusal is of what nobody was told needs `RefusedInv`: which messages Slack refuses does not change, and what it refuses it never took, not even
in an earlier attempt whose answer was lost.

*SessionSourcePoll.* `PollInv` says of each poll what it has: a resumed walk has everything from its
start down to where it is (`Backwards`), a walk from a readable newest event likewise (`Forwards`), and
once a walk got to an end, everything below its start is collected or stored (`Resumed`, `Reached`). An end is either
the end of the list or an event at or below the watermark the poll read, which is no greater
than the watermark now, below which all is stored: this is where the theorem feeds on itself, and why
two polls with stale cursors do no harm. A page is the newest part of what there is to list (`PageIsNewest`, a fact about
cardinalities), so nothing between the start of a walk and the oldest event of a page is missing. An event that comes in order
is newer than every cursor in use and disturbs nothing (`SoundGrows`).

*GrowthContext.* The properties are about steps, and what they need of the state is `PlansAreCurrent`: what a writer whose read
nobody has overtaken is about to write is a plan for the row *as it is now*, so that each write is one
of the operators applied to the present row; `PlansFit` gives the plan of any other writer its shape. The address is the exception the properties name.
That answers are remembered is a lemma about one plan (`FactPlansRemember`): adding, removing, correcting, confirming and giving an audience
each leave what was answered answered, but for the cases the property names.

*ReplayNarration.* Four strengthenings. `HeldInv`: a held recording is listed, one of the held is the newest. `OrderInv`: whatever has no summary and
is not excused is in a tick's hands or no older than what they hold, which is why taking the oldest first makes the newest
row a watermark. `ChunkInv`: a row, and a row about to be written, tell the truth of the chunks they read, or hold fewer
beats than the row there is, so that the guard of the refresh refuses them. `AskInv`: before a recording has its row it was bought at
most once for each tick and fault, and after it, only ticks that took it up before can buy it again.

*ShippedChanges.* The row is announced in the commit that reads it out, and each tick, dispatch and press carries what it read; the
strengthening says of each of them what is still true of it. `ClockInv`: nothing is announced, shown or pressed for a clock the row has not had. `DueInv`: what a
tick found due is due as long as its clock is the row's, and nothing measured means that the project was gone. `ShownInv`:
what a message shows of the row's clock is the row's outcome, and a message without its question has one of the causes the
property names. `AskedInv` carries that to a tick between its list of lapsed changes and the close, where the property needs it.

*Detection.* Most of it is about one lane's computation on any corpus, not about steps. The detector's walk, first visit, last
path and destinations come to what `DropoffsEndThere` says because a session succeeded at a page exactly when it *went on*:
two of its events have paths, the first on the page and a later one elsewhere (`SucceededWentOn`, `ComingAgainIsGoingOn`). From it
`VerdictsOnlyImprove` follows, since going on is not undone by more events. Counts are cardinalities of images of
kept sessions (`KeptAreCounted`, `ToldAreCounted`), and each claim of each detector is one of four shapes whose
numbers come from such sets (`FunnelClaims`, `ErrorClaims`, `ObservedClaims`). The invariant (`DetectionInv`) has no more than
the types, that events are one at a time, and that the lane's corpus is a part of the stored one read in the code's order. Least and greatest instants exist
by the well-foundedness of strict subsets, for want of induction over numbers (`LargestIsLargest`). The proof found two guards that overlapped in
a CASE, which leaves its value open, and an assumption on transcripts that had to be stated (`IsTranscript`).

Out of the prover's reach and left to TLC: everything under fairness (`EveryFindingSettles`,
`EveryCandidateIsRecorded`, `NothingIsStranded`, `EveryEventIsStored`, `ResearchSettles`, `EveryRecordingSettles`, `EveryChangeEnds`).
Every invariant and every action property that a run checks is a theorem.

## 5. Hazards

`PROJECT.json` lists them at their lines: what is hard to test here and which property would notice.
Those that no property covers have a note: the code does what the hazard says, or no module has the part yet.

## 6. What the models leave out

- Text: rendering, PII scanning, Block Kit, copy. Whether a message is refused is a constant.
- The ranking inside a confidence class and what a model answers. What the detectors propose is a free choice in AnalysisRuns; Detection is not composed with it.
- Of the detectors: the audience clauses on lists of domains and on the entry path, how far two cuts of a cohort diverge, the
  two classes no detector proposes (`changed_mind`, `instrumentation`), and the version of the path normalisation.
- Of shipped changes: the count that leads the readout, rewording a change that is watched, several changes in one tick, the
  acknowledgement of a report. A readout posted whose receipt is lost is posted again: that is NotificationOutbox.
- Of the narration: the source that reads rrweb pages out of the database, the words of a summary, stamps on the session's row, several projects in one tick.
- The weekly digest (a notification stamped inside the window but committed after the gather is skipped:
  `notification-digest.service.ts:113`), the provider-interest ping, the fixes and MCP routes, settings, the web application.
- Tenancy: each module speaks of one organization, one project or a few.
- A post that fails for its channel (`channel_unavailable`) is one with a post that is not authorised: the code treats them alike.
- The statements of one pull's store that follow one another without a choice are one step of `Store`; a failure between them is `Lose`.
- The email domain of a session: an audience clause about it is unknown where the identity is not resolved, since the adapter has a domain
  exactly when it resolves one (`posthog/identity.ts:47-83`).
- The cooldown between two announcements of a broken connection: entering `failing` may or may not announce.
- Who is owed a notification (settings, mutes, the bell): decided before emission, an input here.
- Of the poll: the rows of its runs and the health badge (written, never read back), sessions and identities, opening
  the credential (a pull that throws, `Lose`), disconnecting a source, the request for an early analysis.
- Connecting, pausing and disconnecting Slack. A connection that is re-pointed is modelled, one that is removed is not.

An observation without a run: `failing` is left only by a dispatch that posts (`recordHealth` has no
other caller). If every receipt has used up its attempts and nothing new is emitted, the badge stays
although Slack is back; reconnecting is refused while a row is active, re-pointing to the same channel is
refused, and `deactivate` has no caller. The rescue arm that would retry looks at the badge.
Likewise a `rejected` notice is not settled, so each sweep queues it and each claim refuses it, for as long as it is in the window.

## 7. Plan

Done, in the order of importance: Delivery with Receipts, DecisionLog, SignatureLedger, AnalysisRuns,
NotificationOutbox, SessionSourcePoll, GrowthContext, ReplayNarration, ShippedChanges, Detection, and the
proofs above. A new component's properties take the place of the shallowest ones, or share a run, so
that all runs together stay within half an hour. Left:

1. The weekly digest as a module over the outbox; `SlackConnection` with connect and disconnect, composed
   with Delivery and NotificationOutbox, so that the observation of section 6 gets its run.
2. The delivery comparator as an operator: a total order over bounded candidates.

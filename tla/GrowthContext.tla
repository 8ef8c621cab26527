---------------------------- MODULE GrowthContext ----------------------------
(***************************************************************************)
(* The one row a project's growth context is kept in, and everyone who     *)
(* writes it: people answering in the settings pages, the nightly tick     *)
(* that proposes a role for each page, the job that reads the project's    *)
(* web site and the job that proposes an audience for a sentence.          *)
(*                                                                         *)
(* Nobody locks the row.  A writer reads it, works out what it should say  *)
(* and writes its columns if the row's stamp is still the one it read      *)
(* (`pen` is what a writer holds in between, `fresh` the writers since     *)
(* whose read nobody has written).  Stating the address and the first and  *)
(* last lines of a site read are written unconditionally.                  *)
(*                                                                         *)
(* One kind of sentence stands for all of them: the cap is per kind and no *)
(* rule looks across kinds.  Two copies of a sentence that agree in all    *)
(* but their time are one copy; of several copies `find` may take any.     *)
(* The stamps of two writes are taken to differ.                           *)
(***************************************************************************)
EXTENDS Integers, FiniteSets

CONSTANTS
    Slots,       \* requests and tasks that may be under way at once
    Jobs,        \* site reads that may be queued or under way at once
    Pages, Statements, Domains,
    NoText, NoDomain,
    Says,        \* the sentences each domain's pages can be read to say
    KindMax,     \* FACTS_PER_KIND_MAX
    GoneMax,     \* BUSINESS_FACT_LIMIT, for the tombstones
    Attempts,    \* STATE_FACT_ATTEMPTS and STATE_PAGE_ROLE_ATTEMPTS
    FineClock,   \* the database stamps a new row finer than a Date can hold
    MaxAsks,     \* bound on what people and tasks set out to do
    MaxCrashes,  \* bound on site reads that die and are retried
    MaxLost      \* bound on calls whose database statement fails

ASSUME ActorsAssumption == Slots \cap Jobs = {}
ASSUME TextsAssumption == NoText \notin Statements /\ NoDomain \notin Domains
ASSUME SaysAssumption == Says \in [Domains -> SUBSET Statements]
ASSUME BoundsAssumption ==
    /\ KindMax \in Nat /\ GoneMax \in Nat /\ Attempts \in Nat \ {0}
    /\ MaxAsks \in Nat /\ MaxCrashes \in Nat /\ MaxLost \in Nat
    /\ FineClock \in BOOLEAN

VARIABLES
    row,    \* the row of the table growth_context
    pen,    \* what each request or task under way has read and will write
    job,    \* each site read
    fresh,  \* the writers whose last read is still what the row says
    spent,  \* how much of each bound is used up
    mute    \* a failed site read could not be recorded as failed

vars == <<row, pen, job, fresh, spent, mute>>

-----------------------------------------------------------------------------
(* The row. *)

Roles == {"none", "derived", "stated"}
Statuses == {"never_run", "running", "done", "failed"}

Facts == [text : Statements, source : {"site", "person"}, confirmed : BOOLEAN,
          from : Statements \cup {NoText},
          audience : {"none", "proposed", "decided"}]

(* A list of sentences as the row keeps it: no kind has more than its cap. *)
FactLists == {fs \in SUBSET Facts : IsFiniteSet(fs) /\ Cardinality(fs) <= KindMax}

Rows == [here : BOOLEAN, fine : BOOLEAN, role : [Pages -> Roles],
         facts : FactLists, gone : SUBSET Statements,
         domain : Domains \cup {NoDomain}, status : Statuses]

NoRow == [here |-> FALSE, fine |-> FALSE, role |-> [p \in Pages |-> "none"],
          facts |-> {}, gone |-> {}, domain |-> NoDomain, status |-> "never_run"]

(* What a re-read of the site, or a new address, leaves standing. *)
SurvivesReResearch(f) == f.source # "site" \/ f.confirmed

Kept(r) == {f \in r.facts : SurvivesReResearch(f)}

Texts(fs) == {f.text : f \in fs}

Carrying(r, text) == {f \in r.facts : f.text = text}

(* The sentences a person has answered: the next read does not bring them. *)
AlreadyAnswered(r) == r.gone \cup Texts(Kept(r)) \cup {f.from : f \in Kept(r)}

StatedFact(text, from) ==
    [text |-> text, source |-> "person", confirmed |-> FALSE, from |-> from,
     audience |-> "none"]

SiteFacts(site) ==
    {[text |-> t, source |-> "site", confirmed |-> FALSE, from |-> NoText,
      audience |-> a] : t \in Says[site], a \in {"none", "proposed"}}

(* What a read of the site may come back with: each sentence once. *)
Readings(site) ==
    {fs \in SUBSET SiteFacts(site) :
        IsFiniteSet(fs) /\ \A f, g \in fs : f.text = g.text => f = g}

(* A tombstone goes to the end of its list, and the list is cut at its end. *)
Buried(gone, text) ==
    IF Cardinality(gone \cup {text}) > GoneMax THEN gone ELSE gone \cup {text}

-----------------------------------------------------------------------------
(* What each writer makes of the row it has read: the set of the columns   *)
(* it may write, empty where it answers at once and writes nothing.        *)

FactColumns == [facts : FactLists, gone : SUBSET Statements]
PageColumns == [role : [Pages -> Roles]]

Removals(r, was) ==
    {[facts |-> r.facts \ {f}, gone |-> Buried(r.gone, was)] : f \in Carrying(r, was)}

Additions(r, text) ==
    {c \in {[facts |-> r.facts \cup {StatedFact(text, NoText)}, gone |-> r.gone \ {text}]} :
        /\ text \in r.gone \/ text \notin Texts(r.facts)
        /\ Cardinality(r.facts) < KindMax}

Origin(f) == IF f.from = NoText THEN f.text ELSE f.from

Corrections(r, was, text) ==
    {[facts |-> (r.facts \ {f}) \cup {StatedFact(text, Origin(f))},
      gone |-> r.gone \ {text}] :
        f \in {g \in Carrying(r, was) : Cardinality(r.facts \ {g}) < KindMax}}

Reworked(r, f, g) == [facts |-> (r.facts \ {f}) \cup {g}, gone |-> r.gone]

Confirmed(f) == [f EXCEPT !.confirmed = TRUE]

WithAudience(f, a) == [f EXCEPT !.audience = a]

Confirmations(r, text) ==
    {Reworked(r, f, Confirmed(f)) :
        f \in {g \in Carrying(r, text) : ~g.confirmed}}

Decisions(r, text) ==
    {Reworked(r, f, WithAudience(f, "decided")) :
        f \in {g \in Carrying(r, text) : g.audience # "none"}}

\* Bug: the answer of a person is not looked for.
BadProposals(r, text) ==
    {Reworked(r, f, WithAudience(f, a)) :
        f \in Carrying(r, text), a \in {"none", "proposed"}}

(* A model's answer never replaces a person's. *)
Proposals(r, text) ==
    {Reworked(r, f, WithAudience(f, a)) :
        f \in {g \in Carrying(r, text) : g.audience # "decided"},
        a \in {"none", "proposed"}}

\* Bug: the sentences of the old pages stay.
BadNewAddress(r) == {[facts |-> r.facts, gone |-> r.gone]}

NewAddress(r) == {[facts |-> Kept(r), gone |-> r.gone]}

\* Bug: only what is still there counts as answered.
BadMergeResearch(r, found) ==
    LET news == {f \in found : f.text \notin Texts(Kept(r))}
        room == KindMax - Cardinality(Kept(r))
    IN  {[facts |-> Kept(r) \cup taken, gone |-> r.gone] :
            taken \in {fs \in SUBSET news :
                Cardinality(fs) = (IF Cardinality(news) > room
                                   THEN room ELSE Cardinality(news))}}

(* Kept sentences lead, so the cap costs only what was just read. *)
MergeResearch(r, found) ==
    LET news == {f \in found : f.text \notin AlreadyAnswered(r)}
        room == KindMax - Cardinality(Kept(r))
    IN  {[facts |-> Kept(r) \cup taken, gone |-> r.gone] :
            taken \in {fs \in SUBSET news :
                Cardinality(fs) = (IF Cardinality(news) > room
                                   THEN room ELSE Cardinality(news))}}

StatedRole(r, page) == {[role |-> [r.role EXCEPT ![page] = "stated"]]}

(* Whatever the sessions show, a page a person answered for stays as it is. *)
DeriveRoledSurfaces(r) ==
    {[role |-> roles] : roles \in
        {s \in [Pages -> Roles] :
            /\ s # r.role
            /\ \A p \in Pages : \/ r.role[p] = "stated" /\ s[p] = "stated"
                                \/ r.role[p] # "stated" /\ s[p] # "stated"}}

-----------------------------------------------------------------------------
(* Requests and tasks, and what they would write. *)

Tasks ==
    [do : {"add", "confirm", "decide", "propose"}, text : Statements]
        \cup [do : {"remove"}, was : Statements]
        \cup [do : {"correct"}, was : Statements, text : Statements]
        \cup [do : {"role"}, page : Pages]
        \cup [do : {"tick"}]
        \cup [do : {"address"}, domain : Domains]

PageTasks == {"role", "tick"}

Plans(t, r) ==
    CASE t.do = "role" -> StatedRole(r, t.page)
      [] t.do = "tick" -> DeriveRoledSurfaces(r)
      [] t.do = "address" -> NewAddress(r)
      [] ~r.here -> {}
      [] OTHER ->
            CASE t.do = "add" -> Additions(r, t.text)
              [] t.do = "remove" -> Removals(r, t.was)
              [] t.do = "correct" -> Corrections(r, t.was, t.text)
              [] t.do = "confirm" -> Confirmations(r, t.text)
              [] t.do = "decide" -> Decisions(r, t.text)
              [] t.do = "propose" -> Proposals(r, t.text)

Idle == [do |-> "nothing"]
NoPlan == [plan |-> "nothing"]

Pens == [task : Tasks \cup {Idle}, tries : 0 .. Attempts,
         plan : FactColumns \cup PageColumns \cup {NoPlan}]
NoPen == [task |-> Idle, tries |-> 0, plan |-> NoPlan]

SiteReads == [at : {"none", "queued", "started", "running", "recording"},
              site : Domains \cup {NoDomain}, found : SUBSET Facts,
              plan : FactColumns \cup {NoPlan}, tries : 0 .. Attempts]
NoRead(at) == [at |-> at, site |-> NoDomain, found |-> {}, plan |-> NoPlan, tries |-> 0]

(* The tick has one attempt, a person's request a few. *)
AttemptsOf(t) == IF t.do = "tick" THEN 1 ELSE Attempts

(* The row with the columns of a task's plan in it. *)
Stamped(r) == [r EXCEPT !.here = TRUE, !.fine = ~r.here /\ FineClock]

WithFacts(r, c) == [Stamped(r) EXCEPT !.facts = c.facts, !.gone = c.gone]

WithRoles(r, c) == [Stamped(r) EXCEPT !.role = c.role]

Written(t, plan) ==
    IF t.do \in PageTasks THEN WithRoles(row, plan) ELSE WithFacts(row, plan)

\* Bug: a plain UPDATE, whatever has happened since the read.
BadStillAsRead(w) == ~row.fine

(* The condition of a guarded write: nobody has written since the read,    *)
(* and the stamp read came back from the database as it went in.           *)
StillAsRead(w) == w \in fresh /\ ~row.fine

-----------------------------------------------------------------------------
Init ==
    /\ row = NoRow
    /\ pen = [w \in Slots |-> NoPen]
    /\ job = [j \in Jobs |-> NoRead("none")]
    /\ fresh = {}
    /\ spent = [asks |-> 0, crashes |-> 0, lost |-> 0]
    /\ mute = FALSE

Read(w, t, n) ==
    \E plan \in Plans(t, row) :
        /\ pen' = [pen EXCEPT ![w] = [task |-> t, plan |-> plan, tries |-> n]]
        /\ fresh' = fresh \cup {w}

Leave(w) ==
    /\ pen' = [pen EXCEPT ![w] = NoPen]
    /\ fresh' = fresh \ {w}

(* A person asks for something, or a task starts, and reads the row.  One  *)
(* that answers at once changes nothing and is not shown.                  *)
Ask(w) ==
    /\ pen[w] = NoPen
    /\ spent.asks < MaxAsks
    /\ spent' = [spent EXCEPT !.asks = @ + 1]
    /\ \E t \in Tasks : Read(w, t, 1)
    /\ UNCHANGED <<row, job, mute>>

(* The guarded write goes through.                                         *)
Write(w) ==
    /\ pen[w].task.do \notin {"nothing", "address"}
    /\ StillAsRead(w)
    /\ row' = Written(pen[w].task, pen[w].plan)
    /\ pen' = [pen EXCEPT ![w] = NoPen]
    /\ fresh' = {}
    /\ UNCHANGED <<job, spent, mute>>

(* It does not, and the next attempt begins with the row as it is now.     *)
Retry(w) ==
    /\ pen[w].task.do \notin {"nothing", "address"}
    /\ ~StillAsRead(w)
    /\ \/ /\ pen[w].tries < AttemptsOf(pen[w].task)
          /\ \/ Read(w, pen[w].task, pen[w].tries + 1)
             \/ Plans(pen[w].task, row) = {} /\ Leave(w)
       \/ pen[w].tries >= AttemptsOf(pen[w].task) /\ Leave(w)
    /\ UNCHANGED <<row, job, spent, mute>>

(* A read of the site is queued, in place of one that waits under the same *)
(* key; one that is being retried may have lost the key to a later one.    *)
Enqueue ==
    \/ /\ \E j \in Jobs : /\ job[j].at \in {"none", "queued"}
                          /\ job' = [job EXCEPT ![j] = NoRead("queued")]
       /\ UNCHANGED spent
    \/ /\ spent.lost < MaxLost
       /\ spent' = [spent EXCEPT !.lost = @ + 1]
       /\ UNCHANGED job

(* The site route: the address is written whatever happened since the row  *)
(* was read.                                                               *)
StateSiteDomain(w) ==
    /\ pen[w].task.do = "address"
    /\ row' = [WithFacts(row, pen[w].plan) EXCEPT
                    !.domain = pen[w].task.domain, !.status = "never_run"]
    /\ pen' = [pen EXCEPT ![w] = NoPen]
    /\ fresh' = {}
    /\ mute' = FALSE
    /\ Enqueue

-----------------------------------------------------------------------------
(* The site read. *)

(* It reads which address to open... *)
StartResearch(j) ==
    /\ job[j].at = "queued"
    /\ row.domain # NoDomain
    /\ job' = [job EXCEPT ![j] = [NoRead("started") EXCEPT !.site = row.domain]]
    /\ UNCHANGED <<row, pen, fresh, spent, mute>>

Overwrite(status) ==
    /\ row' = [Stamped(row) EXCEPT !.status = status]
    /\ fresh' = {}

MarkResearchRunning(j) ==
    /\ job[j].at = "started"
    /\ job' = [job EXCEPT ![j] = [NoRead("running") EXCEPT !.site = job[j].site]]
    /\ Overwrite("running")
    /\ mute' = FALSE
    /\ UNCHANGED <<pen, spent>>

Finished(j) == job' = [job EXCEPT ![j] = NoRead("none")]

(* No model, no page, no answer: the failure is recorded, and when that    *)
(* fails too it is logged and the job is done.                             *)
RecordResearchFailure(j) ==
    /\ job[j].at \in {"started", "running"}
    /\ Finished(j)
    /\ \/ Overwrite("failed") /\ mute' = FALSE /\ UNCHANGED spent
       \/ /\ spent.lost < MaxLost
          /\ spent' = [spent EXCEPT !.lost = @ + 1]
          /\ mute' = TRUE
          /\ UNCHANGED <<row, fresh>>
    /\ UNCHANGED pen

Consider(j, found, n) ==
    \E plan \in MergeResearch(row, found) :
        /\ job' = [job EXCEPT ![j] = [at |-> "recording", site |-> job[j].site,
                                      found |-> found, plan |-> plan, tries |-> n]]
        /\ fresh' = fresh \cup {j}

(* ...and comes back with what its pages say, to be merged with the row.   *)
FetchSite(j) ==
    /\ job[j].at = "running"
    /\ \E found \in Readings(job[j].site) : Consider(j, found, 1)
    /\ UNCHANGED <<row, pen, spent, mute>>

RecordResearch(j) ==
    /\ job[j].at = "recording"
    /\ StillAsRead(j)
    /\ row' = [WithFacts(row, job[j].plan) EXCEPT !.status = "done"]
    /\ fresh' = {}
    /\ mute' = FALSE
    /\ Finished(j)
    /\ UNCHANGED <<pen, spent>>

RetryRecord(j) ==
    /\ job[j].at = "recording"
    /\ ~StillAsRead(j)
    /\ job[j].tries < Attempts
    /\ Consider(j, job[j].found, job[j].tries + 1)
    /\ UNCHANGED <<row, pen, spent, mute>>

\* Bug: overtaken on every attempt, it gives up.
BadSettleResearch(j) ==
    /\ job[j].at = "recording"
    /\ ~StillAsRead(j)
    /\ job[j].tries >= Attempts
    /\ Finished(j)
    /\ UNCHANGED <<row, pen, fresh, spent, mute>>

(* Overtaken on every attempt: what it found is dropped and it is "done".  *)
SettleResearch(j) ==
    /\ job[j].at = "recording"
    /\ ~StillAsRead(j)
    /\ job[j].tries >= Attempts
    /\ Overwrite("done")
    /\ mute' = FALSE
    /\ Finished(j)
    /\ UNCHANGED <<pen, spent>>

(* The worker dies or the database throws, and the runner tries again.     *)
Crash(j) ==
    /\ job[j].at \notin {"none", "queued"}
    /\ spent.crashes < MaxCrashes
    /\ spent' = [spent EXCEPT !.crashes = @ + 1]
    /\ job' = [job EXCEPT ![j] = NoRead("queued")]
    /\ fresh' = fresh \ {j}
    /\ UNCHANGED <<row, pen, mute>>

Research(j) ==
    \/ StartResearch(j) \/ MarkResearchRunning(j) \/ RecordResearchFailure(j)
    \/ FetchSite(j) \/ RecordResearch(j) \/ RetryRecord(j) \/ SettleResearch(j)

Serve(w) == Write(w) \/ Retry(w) \/ StateSiteDomain(w)

Next ==
    \/ \E w \in Slots : Ask(w) \/ Serve(w)
    \/ \E j \in Jobs : Research(j) \/ Crash(j)

Spec == Init /\ [][Next]_vars

(* The runner goes on with a job it has, and retries it after a crash.     *)
FairSpec == Spec /\ \A j \in Jobs : WF_vars(Research(j))

-----------------------------------------------------------------------------
(* Each column holds what its schema allows, a list no more than its cap.  *)
TypeOK ==
    /\ row \in Rows
    /\ pen \in [Slots -> Pens]
    /\ job \in [Jobs -> SiteReads]
    /\ fresh \subseteq Slots \cup Jobs
    /\ spent \in [asks : 0 .. MaxAsks, crashes : 0 .. MaxCrashes, lost : 0 .. MaxLost]
    /\ mute \in BOOLEAN

Ends(w) == pen[w].task # Idle /\ pen'[w].task = Idle

Records(j) == job[j].at = "recording" /\ job'[j].at = "none"

(* A person's own request about the sentence `text` ends in this step.     *)
Withdrawn(text) ==
    \E w \in Slots : /\ Ends(w)
                     /\ pen[w].task.do \in {"remove", "correct"}
                     /\ pen[w].task.was = text

(* An address is stated by someone whose read of the row is out of date.   *)
LateAddress ==
    \E w \in Slots : Ends(w) /\ pen[w].task.do = "address" /\ w \notin fresh

(* What a person typed or stood behind leaves the row only when a person   *)
(* removes or corrects that very sentence: no request of somebody else, no *)
(* tick, no site read, retried or late, takes it away -- except that       *)
(* stating an address puts back the sentences its request had read.        *)
SentencesStand ==
    [][\A t \in Texts(Kept(row)) \ Texts(Kept(row')) :
            Withdrawn(t) \/ LateAddress]_vars

(* A role a person gave a page stays theirs: the nightly tick, which reads *)
(* before it looks at a month of sessions, never derives it away, and two  *)
(* people answering for two pages do not undo one another.                 *)
StatedRolesStand ==
    [][\A p \in Pages : row.role[p] = "stated" => row'.role[p] = "stated"]_vars

(* A person's word stands, about the business and about its pages.         *)
PersonsWordStands == SentencesStand /\ StatedRolesStand

(* The sentences of a row whose rule a person has decided on.              *)
Decided(r) == {f.text : f \in {g \in r.facts : g.audience = "decided"}}

(* A rule a person has decided on stays decided, except where the sentence *)
(* goes: withdrawn, or nobody's word and dropped by a site read or by a    *)
(* new address.  No proposal that was computed before the decision lands   *)
(* on top of it.                                                           *)
DecisionsStand ==
    [][\A t \in Decided(row) \ Decided(row') :
            \/ Withdrawn(t)
            \/ LateAddress
            \/ /\ t \notin Decided([facts |-> Kept(row)])
               /\ \/ \E j \in Jobs : Records(j)
                  \/ \E w \in Slots : Ends(w) /\ pen[w].task.do = "address"]_vars

(* In this step a person's removal, or correction, of the sentence `text`  *)
(* is written.                                                             *)
Removed(text) ==
    \E w \in Slots : /\ Write(w)
                     /\ pen[w].task.do = "remove"
                     /\ pen[w].task.was = text

Corrected(text) ==
    \E w \in Slots : /\ Write(w)
                     /\ pen[w].task.do = "correct"
                     /\ pen[w].task.was = text

(* A sentence the row remembers as answered, and does not carry, comes     *)
(* back only when a person types it: never by a site read that began       *)
(* before the answer, or by someone's older copy of the list -- except     *)
(* that stating an address puts back what its request had read.            *)
ReturnsOnlyTyped ==
    [][\A t \in (AlreadyAnswered(row) \cap Texts(row'.facts)) \ Texts(row.facts) :
            \/ LateAddress
            \/ \E w \in Slots : /\ Ends(w)
                                /\ pen[w].task.do \in {"add", "correct"}
                                /\ pen[w].task.text = t]_vars

(* The row remembers a sentence from its removal or correction on.  It     *)
(* forgets one only when a person                                          *)
(*   - removes that sentence and the tombstones are full: the newest goes, *)
(*   - removes a correction made from it: only the correction is buried,   *)
(*   - corrects it and it was a correction: only the first wording stays,  *)
(* or when an address is stated over an outdated read.                     *)
AnswersAreRemembered ==
    [][\A t \in Statements :
            t \in AlreadyAnswered(row) \/ Removed(t) \/ Corrected(t) =>
                \/ t \in AlreadyAnswered(row')
                \/ LateAddress
                \/ Removed(t) /\ Cardinality(row.gone \cup {t}) > GoneMax
                \/ \E f \in row.facts \ row'.facts :
                        \/ f.from = t /\ Removed(f.text)
                        \/ f.text = t /\ f.from # NoText /\ Corrected(t)]_vars

(* A sentence a person removed or corrected comes back only when a person  *)
(* types it, as long as the row remembers the answer, and it forgets an    *)
(* answer in the ways AnswersAreRemembered names and in no other: no site  *)
(* read, tick, proposal or request about another sentence loses one.       *)
AnsweredStaysAnswered == ReturnsOnlyTyped /\ AnswersAreRemembered

(* The sentences of a row that another address's pages said.               *)
Foreign(r) ==
    {f.text : f \in {g \in r.facts : /\ ~SurvivesReResearch(g)
                                     /\ \/ r.domain = NoDomain
                                        \/ g.text \notin Says[r.domain]}}

(* What another address's pages said, and nobody stood behind, enters the  *)
(* row only by a read that was under way when the address changed.         *)
OldPagesOnlyByALateRead ==
    [][Foreign(row') \subseteq Foreign(row)
        \/ \E j \in Jobs : Records(j) /\ job[j].site # row.domain]_vars

(* Nobody watches "running" forever: a site read that is under way comes   *)
(* to an end however often it is overtaken, dies or fails, unless the      *)
(* write that records the failure fails as well.                           *)
ResearchSettles ==
    (row.status = "running" /\ ~mute) ~> (row.status # "running" \/ mute)
=============================================================================

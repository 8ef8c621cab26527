------------------------- MODULE GrowthContextProofs -------------------------
(***************************************************************************)
(* Proofs about GrowthContext.  Everything rests on one fact: what a       *)
(* writer whose read is fresh is about to write is a plan for the row as   *)
(* it is now (PlansAreCurrent).  So the lemmas below are about plans, one  *)
(* row and one task at a time, and the theorems carry them over to steps.  *)
(***************************************************************************)
EXTENDS GrowthContext, FiniteSetTheorems, TLAPS

PlansAreCurrent ==
    /\ \A w \in Slots : pen[w].task # Idle /\ w \in fresh
            => pen[w].plan \in Plans(pen[w].task, row)
    /\ \A j \in Jobs : job[j].at = "recording" /\ j \in fresh
            => job[j].plan \in MergeResearch(row, job[j].found)

PlansFit ==
    /\ \A w \in Slots : pen[w].task.do = "address"
            => /\ pen[w].plan \in FactColumns
               /\ \A f \in pen[w].plan.facts : SurvivesReResearch(f)
    /\ \A w \in Slots : pen[w].task = Idle => w \notin fresh
    /\ \A j \in Jobs :
        /\ IsFiniteSet(job[j].found)
        /\ job[j].at \in {"started", "running", "recording"} => job[j].site \in Domains
        /\ job[j].at = "recording" => job[j].found \subseteq SiteFacts(job[j].site)
        /\ job[j].at # "recording" => j \notin fresh

IInv == TypeOK /\ PlansFit /\ PlansAreCurrent

(* The kinds of task, and what each names.                                 *)
FactTasks == {"add", "confirm", "decide", "propose", "remove", "correct"}

LEMMA TaskForms ==
    ASSUME NEW t \in Tasks
    PROVE  /\ t # Idle
           /\ t.do \in FactTasks \cup PageTasks \cup {"address"}
           /\ t.do \in {"add", "confirm", "decide", "propose", "correct"} => t.text \in Statements
           /\ t.do \in {"remove", "correct"} => t.was \in Statements
           /\ t.do = "role" => t.page \in Pages
           /\ t.do = "address" => t.domain \in Domains
BY DEF Tasks, Idle, FactTasks, PageTasks

(* What each list of sentences a writer may make of the row is.            *)
LEMMA TypedSentences ==
    ASSUME NEW r \in Rows
    PROVE  /\ \A f \in r.facts : f \in Facts
           /\ \A text \in Statements, from \in Statements \cup {NoText} :
                StatedFact(text, from) \in Facts
           /\ \A f \in r.facts : Origin(f) \in Statements
           /\ \A f \in r.facts, a \in {"none", "proposed", "decided"} :
                Confirmed(f) \in Facts /\ WithAudience(f, a) \in Facts
           /\ \A text \in Statements : Buried(r.gone, text) \in SUBSET Statements
BY DEF Rows, FactLists, Facts, StatedFact, Origin, Buried, Confirmed, WithAudience

LEMMA Shorter ==
    ASSUME NEW fs \in FactLists, NEW gs, gs \subseteq fs
    PROVE  gs \in FactLists
<1>1. IsFiniteSet(gs) /\ Cardinality(gs) <= Cardinality(fs)
  BY FS_Subset DEF FactLists
<1>2. Cardinality(gs) \in Nat /\ Cardinality(fs) \in Nat
  BY <1>1, FS_CardinalityType DEF FactLists
<1> QED BY <1>1, <1>2, BoundsAssumption DEF FactLists

LEMMA OneMore ==
    ASSUME NEW fs \in FactLists, NEW g \in Facts, Cardinality(fs) < KindMax
    PROVE  fs \cup {g} \in FactLists
<1>1. IsFiniteSet(fs) /\ Cardinality(fs) \in Nat
  BY FS_CardinalityType DEF FactLists
<1>2. IsFiniteSet(fs \cup {g})
  BY <1>1, FS_AddElement
<1>3. Cardinality(fs \cup {g}) <= Cardinality(fs) + 1 /\ Cardinality(fs \cup {g}) \in Nat
  BY <1>1, <1>2, FS_AddElement, FS_CardinalityType
<1> QED BY <1>1, <1>2, <1>3, BoundsAssumption DEF FactLists

LEMMA InPlace ==
    ASSUME NEW fs \in FactLists, NEW f \in fs, NEW g \in Facts
    PROVE  (fs \ {f}) \cup {g} \in FactLists
<1>1. IsFiniteSet(fs) /\ Cardinality(fs) \in Nat
  BY FS_CardinalityType DEF FactLists
<1>2. IsFiniteSet(fs \ {f}) /\ Cardinality(fs \ {f}) = Cardinality(fs) - 1
  BY <1>1, FS_RemoveElement
<1>3. (fs \ {f}) \in FactLists
  BY Shorter
<1>4. Cardinality(fs \ {f}) < KindMax
  BY <1>1, <1>2, BoundsAssumption DEF FactLists
<1> QED BY <1>3, <1>4, OneMore

(* Every plan for a person's sentences is a list and tombstones that fit.  *)
LEMMA FactPlansFit ==
    ASSUME NEW r \in Rows, NEW t \in Tasks, t.do \in FactTasks \cup {"address"},
           NEW plan \in Plans(t, r)
    PROVE  plan \in FactColumns
<1> USE DEF FactColumns
<1>0. r.facts \in FactLists /\ r.gone \in SUBSET Statements
  BY DEF Rows
<1>1. CASE t.do = "add"
  <2>1. plan \in Additions(r, t.text)
    BY <1>1 DEF Plans, FactTasks, PageTasks
  <2> QED BY <2>1, <1>0, <1>1, TaskForms, TypedSentences, OneMore DEF Additions
<1>2. CASE t.do = "remove"
  <2>1. plan \in Removals(r, t.was)
    BY <1>2 DEF Plans, FactTasks, PageTasks
  <2>2. \A f : r.facts \ {f} \in FactLists
    BY <1>0, Shorter
  <2> QED BY <2>1, <2>2, <1>0, <1>2, TaskForms, TypedSentences DEF Removals
<1>3. CASE t.do = "correct"
  <2>1. plan \in Corrections(r, t.was, t.text)
    BY <1>3 DEF Plans, FactTasks, PageTasks
  <2>2. PICK f \in r.facts :
            plan = [facts |-> (r.facts \ {f}) \cup {StatedFact(t.text, Origin(f))},
                    gone |-> r.gone \ {t.text}]
    BY <2>1 DEF Corrections, Carrying
  <2>3. StatedFact(t.text, Origin(f)) \in Facts
    BY <1>3, TaskForms, TypedSentences
  <2> QED BY <2>2, <2>3, <1>0, InPlace
<1>4. CASE t.do \in {"confirm", "decide", "propose"}
  <2>1. plan \in Confirmations(r, t.text) \cup Decisions(r, t.text) \cup Proposals(r, t.text)
    BY <1>4 DEF Plans, FactTasks, PageTasks
  <2>2. PICK f \in r.facts, g \in Facts : plan = Reworked(r, f, g)
    <3>1. CASE plan \in Confirmations(r, t.text)
      BY <3>1, TypedSentences DEF Confirmations, Carrying
    <3>2. CASE plan \in Decisions(r, t.text)
      BY <3>2, TypedSentences DEF Decisions, Carrying
    <3>3. CASE plan \in Proposals(r, t.text)
      <4>1. PICK f \in Carrying(r, t.text), a \in {"none", "proposed"} :
                plan = Reworked(r, f, WithAudience(f, a))
        BY <3>3 DEF Proposals
      <4>2. f \in r.facts
        BY DEF Carrying
      <4>3. WithAudience(f, a) \in Facts
        BY <4>2, TypedSentences
      <4> QED BY <4>1, <4>2, <4>3
    <3> QED BY <2>1, <3>1, <3>2, <3>3
  <2>3. (r.facts \ {f}) \cup {g} \in FactLists
    BY <2>2, <1>0, InPlace
  <2> QED BY <2>2, <2>3, <1>0 DEF Reworked
<1>5. CASE t.do = "address"
  <2>1. plan = [facts |-> Kept(r), gone |-> r.gone]
    BY <1>5 DEF Plans, NewAddress
  <2>2. Kept(r) \in FactLists
    BY <1>0, Shorter DEF Kept
  <2> QED BY <2>1, <2>2, <1>0
<1> QED BY <1>1, <1>2, <1>3, <1>4, <1>5 DEF FactTasks

LEMMA MergedFits ==
    ASSUME NEW r \in Rows, NEW found \in SUBSET Facts, IsFiniteSet(found),
           NEW plan \in MergeResearch(r, found)
    PROVE  plan \in FactColumns
<1> DEFINE news == {f \in found : f.text \notin AlreadyAnswered(r)}
           room == KindMax - Cardinality(Kept(r))
<1>1. PICK taken \in SUBSET news :
        /\ Cardinality(taken) = (IF Cardinality(news) > room THEN room ELSE Cardinality(news))
        /\ plan = [facts |-> Kept(r) \cup taken, gone |-> r.gone]
  BY DEF MergeResearch
<1>2. Kept(r) \in FactLists
  BY Shorter DEF Kept, Rows
<1>3. IsFiniteSet(taken) /\ IsFiniteSet(news)
  BY FS_Subset
<1>4. /\ IsFiniteSet(Kept(r)) /\ Cardinality(Kept(r)) \in Nat
      /\ Cardinality(Kept(r)) <= KindMax
      /\ Cardinality(taken) \in Nat /\ Cardinality(news) \in Nat
  BY <1>2, <1>3, FS_CardinalityType DEF FactLists
<1>5. Cardinality(taken) <= room
  BY <1>1, <1>4, BoundsAssumption
<1>6. IsFiniteSet(Kept(r) \cup taken) /\ IsFiniteSet(Kept(r) \cap taken)
  BY <1>3, <1>4, FS_Union, FS_Intersection
<1>7. Cardinality(Kept(r) \cup taken)
        = Cardinality(Kept(r)) + Cardinality(taken) - Cardinality(Kept(r) \cap taken)
  BY <1>3, <1>4, FS_Union
<1>8. Cardinality(Kept(r) \cap taken) \in Nat /\ Cardinality(Kept(r) \cup taken) \in Nat
  BY <1>6, FS_CardinalityType
<1>9. Cardinality(Kept(r) \cup taken) <= KindMax
  BY <1>4, <1>5, <1>7, <1>8, BoundsAssumption
<1>10. Kept(r) \cup taken \subseteq Facts
  BY <1>2 DEF FactLists
<1> QED BY <1>1, <1>6, <1>9, <1>10 DEF FactLists, FactColumns, Rows

LEMMA PagePlansFit ==
    ASSUME NEW r \in Rows, NEW t \in Tasks, t.do \in PageTasks, NEW plan \in Plans(t, r)
    PROVE  /\ plan \in PageColumns
           /\ \A p \in Pages : r.role[p] = "stated" => plan.role[p] = "stated"
<1>1. CASE t.do = "role"
  <2>1. plan = [role |-> [r.role EXCEPT ![t.page] = "stated"]]
    BY <1>1 DEF Plans, StatedRole
  <2> QED BY <2>1 DEF PageColumns, Rows, Roles
<1>2. CASE t.do = "tick"
  <2>1. plan \in DeriveRoledSurfaces(r)
    BY <1>2 DEF Plans
  <2> QED BY <2>1 DEF DeriveRoledSurfaces, PageColumns
<1> QED BY <1>1, <1>2 DEF PageTasks

LEMMA PlanFits ==
    ASSUME NEW r \in Rows, NEW t \in Tasks, NEW plan \in Plans(t, r)
    PROVE  plan \in FactColumns \cup PageColumns
BY FactPlansFit, PagePlansFit, TaskForms

(* A row is a row whatever its columns are given to say.                   *)
LEMMA StampedRows ==
    ASSUME NEW r \in Rows
    PROVE  /\ Stamped(r) \in Rows
           /\ Stamped(r).facts = r.facts /\ Stamped(r).gone = r.gone
           /\ Stamped(r).role = r.role /\ Stamped(r).domain = r.domain
BY BoundsAssumption DEF Rows, Stamped

LEMMA WithFactsRows ==
    ASSUME NEW r \in Rows, NEW c \in FactColumns
    PROVE  /\ WithFacts(r, c) \in Rows
           /\ WithFacts(r, c).facts = c.facts /\ WithFacts(r, c).gone = c.gone
           /\ WithFacts(r, c).role = r.role /\ WithFacts(r, c).domain = r.domain
BY StampedRows DEF Rows, WithFacts, FactColumns

LEMMA WithRolesRows ==
    ASSUME NEW r \in Rows, NEW c \in PageColumns
    PROVE  /\ WithRoles(r, c) \in Rows /\ WithRoles(r, c).role = c.role
           /\ WithRoles(r, c).facts = r.facts /\ WithRoles(r, c).gone = r.gone
           /\ WithRoles(r, c).domain = r.domain
BY StampedRows DEF Rows, WithRoles, PageColumns

LEMMA WithStatusRows ==
    ASSUME NEW r \in Rows, NEW s \in Statuses
    PROVE  [r EXCEPT !.status = s] \in Rows
BY DEF Rows

LEMMA Blank ==
    /\ NoPen \in Pens
    /\ \A at \in {"none", "queued", "started", "running"} : NoRead(at) \in SiteReads
BY BoundsAssumption DEF NoPen, Pens, NoRead, SiteReads

LEMMA ReadingsAreFacts ==
    ASSUME NEW site \in Domains, NEW found \in Readings(site)
    PROVE  /\ found \in SUBSET Facts /\ IsFiniteSet(found)
           /\ found \subseteq SiteFacts(site)
<1>1. SiteFacts(site) \subseteq Facts
  <2> SUFFICES ASSUME NEW f \in SiteFacts(site) PROVE f \in Facts
    OBVIOUS
  <2>1. PICK t \in Says[site], a \in {"none", "proposed"} :
            f = [text |-> t, source |-> "site", confirmed |-> FALSE, from |-> NoText,
                 audience |-> a]
    BY DEF SiteFacts
  <2>2. t \in Statements
    BY SaysAssumption
  <2> QED BY <2>1, <2>2 DEF Facts
<1> QED BY <1>1 DEF Readings

-----------------------------------------------------------------------------
(* The invariant.                                                          *)

LEMMA Initially == Init => IInv
<1> SUFFICES ASSUME Init PROVE IInv
  OBVIOUS
<1>1. NoRow \in Rows
  <2>1. {} \in FactLists
    BY FS_EmptySet, BoundsAssumption DEF FactLists
  <2> QED BY <2>1 DEF NoRow, Rows, Roles, Statuses
<1>2. TypeOK
  <2>1. NoPen \in Pens /\ NoRead("none") \in SiteReads
    BY Blank
  <2>2. spent \in [asks : 0 .. MaxAsks, crashes : 0 .. MaxCrashes, lost : 0 .. MaxLost]
    BY BoundsAssumption DEF Init
  <2> QED BY <1>1, <2>1, <2>2 DEF Init, TypeOK
<1>3. PlansFit
  BY FS_EmptySet DEF Init, PlansFit, NoPen, Idle, NoRead
<1>4. PlansAreCurrent
  BY DEF Init, PlansAreCurrent, NoPen, NoRead
<1> QED BY <1>2, <1>3, <1>4 DEF IInv

(* Once somebody has written, nobody's read is fresh.                      *)
LEMMA NobodyIsFresh ==
    ASSUME fresh' = {} PROVE PlansAreCurrent'
BY DEF PlansAreCurrent

Spendings == [asks : 0 .. MaxAsks, crashes : 0 .. MaxCrashes, lost : 0 .. MaxLost]

LEMMA ReadKeeps ==
    ASSUME IInv, NEW w \in Slots, NEW t \in Tasks, NEW n \in 0 .. Attempts, Read(w, t, n),
           UNCHANGED <<row, job, mute>>, spent' \in Spendings
    PROVE  IInv'
<1> USE DEF IInv
<1>1. PICK plan \in Plans(t, row) :
        /\ pen' = [pen EXCEPT ![w] = [task |-> t, plan |-> plan, tries |-> n]]
        /\ fresh' = fresh \cup {w}
  BY DEF Read
<1>2. row \in Rows
  BY DEF TypeOK
<1>3. plan \in FactColumns \cup PageColumns
  BY <1>2, PlanFits
<1>4. TypeOK'
  BY <1>1, <1>2, <1>3 DEF TypeOK, Spendings, Pens
<1>5. t.do = "address" => plan \in FactColumns /\ \A f \in plan.facts : SurvivesReResearch(f)
  BY <1>2, FactPlansFit DEF Plans, NewAddress, Kept
<1>6. pen'[w].task = t /\ pen'[w].plan = plan /\ \A v \in Slots \ {w} : pen'[v] = pen[v]
  BY <1>1 DEF TypeOK
<1>7. PlansFit'
  BY <1>1, <1>5, <1>6, TaskForms, ActorsAssumption DEF PlansFit
<1>8. PlansAreCurrent'
  BY <1>1, <1>6, ActorsAssumption DEF PlansAreCurrent
<1> QED BY <1>4, <1>7, <1>8

LEMMA LeaveKeeps ==
    ASSUME IInv, NEW w \in Slots, Leave(w), UNCHANGED <<row, job, spent, mute>>
    PROVE  IInv'
<1> USE DEF IInv
<1>1. TypeOK'
  BY Blank DEF TypeOK, Leave
<1>2. pen'[w] = NoPen /\ w \notin fresh' /\ \A v \in Slots \ {w} : pen'[v] = pen[v]
  BY DEF TypeOK, Leave
<1>3. PlansFit'
  BY <1>2 DEF PlansFit, Leave, NoPen, Idle
<1>4. PlansAreCurrent'
  BY <1>2 DEF PlansAreCurrent, Leave, NoPen
<1> QED BY <1>1, <1>3, <1>4

LEMMA AskKeeps ==
    ASSUME IInv, NEW w \in Slots, Ask(w) PROVE IInv'
<1>1. spent' \in Spendings
  BY BoundsAssumption DEF IInv, TypeOK, Ask, Spendings
<1> QED BY <1>1, ReadKeeps, BoundsAssumption DEF Ask

LEMMA RetryKeeps ==
    ASSUME IInv, NEW w \in Slots, Retry(w) PROVE IInv'
<1>1. /\ pen[w].task \in Tasks /\ pen[w].tries \in 0 .. Attempts
      /\ spent' \in Spendings
  BY DEF IInv, TypeOK, Retry, Spendings, Idle, Pens
<1>2. CASE Leave(w)
  BY <1>2, LeaveKeeps DEF Retry
<1>3. CASE /\ pen[w].tries < AttemptsOf(pen[w].task)
           /\ Read(w, pen[w].task, pen[w].tries + 1)
  <2>1. pen[w].tries + 1 \in 0 .. Attempts
    BY <1>1, <1>3, BoundsAssumption DEF AttemptsOf
  <2> QED BY <1>1, <1>3, <2>1, ReadKeeps DEF Retry
<1> QED BY <1>2, <1>3 DEF Retry

(* A guarded write writes what the row, as it is now, is to become.        *)
LEMMA WriteIsCurrent ==
    ASSUME IInv, NEW w \in Slots, Write(w)
    PROVE  /\ pen[w].task \in Tasks /\ pen[w].task.do # "address"
           /\ pen[w].plan \in Plans(pen[w].task, row)
           /\ row' = Written(pen[w].task, pen[w].plan)
           /\ row' \in Rows
<1>1. pen[w].task \in Tasks /\ pen[w].task.do # "address"
  BY DEF IInv, TypeOK, Write, Idle, Pens
<1>2. pen[w].plan \in Plans(pen[w].task, row)
  BY <1>1, TaskForms DEF IInv, PlansAreCurrent, Write, StillAsRead
<1>3. row \in Rows /\ row' = Written(pen[w].task, pen[w].plan)
  BY DEF IInv, TypeOK, Write
<1>4. CASE pen[w].task.do \in PageTasks
  <2>1. pen[w].plan \in PageColumns
    BY <1>1, <1>2, <1>3, <1>4, PagePlansFit
  <2> QED BY <1>1, <1>2, <1>3, <1>4, <2>1, WithRolesRows DEF Written
<1>5. CASE pen[w].task.do \notin PageTasks
  <2>1. pen[w].plan \in FactColumns
    BY <1>1, <1>2, <1>3, <1>5, FactPlansFit, TaskForms
  <2> QED BY <1>1, <1>2, <1>3, <1>5, <2>1, WithFactsRows DEF Written
<1> QED BY <1>4, <1>5

LEMMA WriteKeeps ==
    ASSUME IInv, NEW w \in Slots, Write(w) PROVE IInv'
<1> USE DEF IInv
<1>1. row' \in Rows
  BY WriteIsCurrent
<1>2. TypeOK'
  BY <1>1, Blank DEF TypeOK, Write
<1>3. PlansFit'
  BY DEF TypeOK, PlansFit, Write, NoPen, Idle
<1>4. PlansAreCurrent'
  BY NobodyIsFresh DEF Write
<1> QED BY <1>2, <1>3, <1>4

(* A stated address leaves only sentences somebody stands behind.          *)
LEMMA AddressWrites ==
    ASSUME IInv, NEW w \in Slots, StateSiteDomain(w)
    PROVE  /\ pen[w].task \in Tasks
           /\ row' \in Rows /\ row'.facts = pen[w].plan.facts
           /\ row'.gone = pen[w].plan.gone /\ row'.role = row.role
           /\ row'.domain = pen[w].task.domain
           /\ \A f \in row'.facts : SurvivesReResearch(f)
<1>1. pen[w].task \in Tasks /\ pen[w].task.domain \in Domains
  BY TaskForms DEF IInv, TypeOK, StateSiteDomain, Idle, Pens
<1>2. /\ pen[w].plan \in FactColumns
      /\ \A f \in pen[w].plan.facts : SurvivesReResearch(f)
  BY DEF IInv, PlansFit, StateSiteDomain
<1>3. row \in Rows
  BY DEF IInv, TypeOK
<1>4. row' = [WithFacts(row, pen[w].plan) EXCEPT !.domain = pen[w].task.domain,
                                               !.status = "never_run"]
  BY DEF StateSiteDomain
<1>5. WithFacts(row, pen[w].plan) \in Rows
  BY <1>2, <1>3, WithFactsRows
<1>6. /\ row' \in Rows /\ row'.facts = pen[w].plan.facts
      /\ row'.gone = pen[w].plan.gone
      /\ row'.role = row.role /\ row'.domain = pen[w].task.domain
  BY <1>1, <1>2, <1>3, <1>4, <1>5, WithFactsRows DEF Rows, Statuses
<1> QED BY <1>1, <1>2, <1>6

LEMMA AddressKeeps ==
    ASSUME IInv, NEW w \in Slots, StateSiteDomain(w) PROVE IInv'
<1> USE DEF IInv
<1>1. row' \in Rows
  BY AddressWrites
<1>2. spent' \in Spendings
  BY BoundsAssumption DEF TypeOK, StateSiteDomain, Enqueue, Spendings
<1>3. \/ job' = job
      \/ \E j \in Jobs : /\ job[j].at \in {"none", "queued"}
                        /\ job' = [job EXCEPT ![j] = NoRead("queued")]
  BY DEF StateSiteDomain, Enqueue
<1>4. TypeOK'
  <2>1. job' \in [Jobs -> SiteReads]
    BY <1>3, Blank DEF TypeOK
  <2> QED BY <1>1, <1>2, <2>1, Blank DEF TypeOK, StateSiteDomain, Spendings
<1>5. PlansFit'
  <2>1. \A v \in Slots : pen'[v] = NoPen \/ pen'[v] = pen[v]
    BY DEF TypeOK, StateSiteDomain
  <2>2. \A j \in Jobs : job'[j] = job[j] \/ job'[j] = NoRead("queued")
    BY <1>3 DEF TypeOK
  <2>3. fresh' = {}
    BY DEF StateSiteDomain
  <2>4. \A v \in Slots : pen'[v].task.do = "address" => pen'[v] = pen[v]
    BY <2>1 DEF NoPen, Idle
  <2>5. \A j \in Jobs :
        /\ IsFiniteSet(job'[j].found)
        /\ job'[j].at \in {"started", "running", "recording"} => job'[j] = job[j]
    <3>1. NoRead("queued").found = {} /\ NoRead("queued").at = "queued" /\ IsFiniteSet({})
      BY FS_EmptySet DEF NoRead
    <3>2. \A j \in Jobs : IsFiniteSet(job[j].found)
      BY DEF PlansFit
    <3> QED BY <2>2, <3>1, <3>2
  <2> QED BY <2>3, <2>4, <2>5 DEF PlansFit
<1>6. PlansAreCurrent'
  BY NobodyIsFresh DEF StateSiteDomain
<1> QED BY <1>4, <1>5, <1>6

(* A site read moves on, and the row changes in its status at most.        *)
LEMMA ReadMovesOn ==
    ASSUME IInv, NEW j \in Jobs, NEW r \in SiteReads, job' = [job EXCEPT ![j] = r],
           UNCHANGED pen, mute' \in BOOLEAN, spent' \in Spendings,
           row' \in Rows, r.at # "recording", IsFiniteSet(r.found),
           r.at \in {"started", "running"} => r.site \in Domains,
           fresh' = {} \/ (fresh' = fresh \ {j} /\ row' = row)
    PROVE  IInv'
<1> USE DEF IInv
<1>1. TypeOK'
  BY DEF TypeOK, Spendings
<1>2. /\ job'[j] = r /\ \A i \in Jobs \ {j} : job'[i] = job[i]
      /\ j \notin fresh' /\ fresh' \subseteq fresh
  BY DEF TypeOK
<1>3. PlansFit'
  BY <1>2 DEF PlansFit
<1>4. PlansAreCurrent'
  BY <1>2 DEF PlansAreCurrent
<1> QED BY <1>1, <1>3, <1>4

LEMMA ConsiderKeeps ==
    ASSUME IInv, NEW j \in Jobs, NEW found \in SUBSET Facts, IsFiniteSet(found),
           found \subseteq SiteFacts(job[j].site), job[j].site \in Domains,
           NEW n \in 0 .. Attempts, Consider(j, found, n), UNCHANGED <<row, pen, spent, mute>>
    PROVE  IInv'
<1> USE DEF IInv
<1>1. PICK plan \in MergeResearch(row, found) :
        /\ job' = [job EXCEPT ![j] = [at |-> "recording", site |-> job[j].site,
                                      found |-> found, plan |-> plan, tries |-> n]]
        /\ fresh' = fresh \cup {j}
  BY DEF Consider
<1>2. plan \in FactColumns
  BY MergedFits DEF TypeOK
<1>3. TypeOK'
  BY <1>1, <1>2 DEF TypeOK, SiteReads
<1>4. /\ job'[j].at = "recording" /\ job'[j].site = job[j].site
      /\ job'[j].found = found /\ job'[j].plan = plan
      /\ \A i \in Jobs \ {j} : job'[i] = job[i]
  BY <1>1 DEF TypeOK
<1>5. PlansFit'
  BY <1>1, <1>4, ActorsAssumption DEF PlansFit
<1>6. PlansAreCurrent'
  BY <1>1, <1>4, ActorsAssumption DEF PlansAreCurrent
<1> QED BY <1>3, <1>5, <1>6

LEMMA RecordWrites ==
    ASSUME IInv, NEW j \in Jobs, RecordResearch(j)
    PROVE  /\ job[j].plan \in MergeResearch(row, job[j].found)
           /\ row' \in Rows /\ row'.facts = job[j].plan.facts
           /\ row'.gone = job[j].plan.gone /\ row'.role = row.role
           /\ row'.domain = row.domain
<1>1. row \in Rows /\ job[j].plan \in MergeResearch(row, job[j].found)
  BY DEF IInv, TypeOK, PlansAreCurrent, RecordResearch, StillAsRead
<1>2. job[j].plan \in FactColumns
  BY <1>1, MergedFits DEF IInv, TypeOK, PlansFit, SiteReads
<1>3. row' = [WithFacts(row, job[j].plan) EXCEPT !.status = "done"]
  BY DEF RecordResearch
<1>4. /\ WithFacts(row, job[j].plan) \in Rows /\ WithFacts(row, job[j].plan).role = row.role
      /\ WithFacts(row, job[j].plan).facts = job[j].plan.facts
      /\ WithFacts(row, job[j].plan).gone = job[j].plan.gone
      /\ WithFacts(row, job[j].plan).domain = row.domain
  BY <1>1, <1>2, WithFactsRows
<1>5. row' \in Rows
  BY <1>3, <1>4, WithStatusRows DEF Statuses
<1>6. /\ row'.facts = WithFacts(row, job[j].plan).facts
      /\ row'.gone = WithFacts(row, job[j].plan).gone
      /\ row'.role = WithFacts(row, job[j].plan).role
      /\ row'.domain = WithFacts(row, job[j].plan).domain
  BY <1>3, <1>4 DEF Rows
<1> QED BY <1>1, <1>4, <1>5, <1>6

LEMMA OverwriteRows ==
    ASSUME row \in Rows, NEW s \in Statuses, Overwrite(s)
    PROVE  /\ row' \in Rows /\ row'.facts = row.facts /\ row'.gone = row.gone
           /\ row'.role = row.role /\ row'.domain = row.domain
BY StampedRows, WithStatusRows DEF Overwrite, Rows

LEMMA ResearchKeeps ==
    ASSUME IInv, NEW j \in Jobs, Research(j) \/ Crash(j) PROVE IInv'
<1>0. row \in Rows /\ job \in [Jobs -> SiteReads] /\ spent \in Spendings /\ mute \in BOOLEAN
      /\ {"running", "failed", "done"} \subseteq Statuses
  BY DEF IInv, TypeOK, Spendings, Statuses
<1>1. ASSUME NEW at \in {"none", "queued", "started", "running"}
      PROVE  NoRead(at) \in SiteReads /\ NoRead(at).at = at /\ NoRead(at).found = {}
  BY Blank DEF NoRead
<1>2. IsFiniteSet({})
  BY FS_EmptySet
<1>3. CASE StartResearch(j)
  <2> DEFINE r == [NoRead("started") EXCEPT !.site = row.domain]
  <2>1. r \in SiteReads /\ r.at = "started" /\ r.found = {} /\ r.site \in Domains
    BY <1>0, <1>1, <1>3 DEF StartResearch, SiteReads, Rows
  <2>2. job' = [job EXCEPT ![j] = r]
    BY <1>3 DEF StartResearch
  <2>3. fresh' = fresh \ {j}
    BY <1>3 DEF StartResearch, IInv, PlansFit
  <2>4. UNCHANGED pen /\ mute' \in BOOLEAN /\ spent' \in Spendings /\ row' = row
    BY <1>0, <1>3 DEF StartResearch
  <2>5. r.at # "recording" /\ IsFiniteSet(r.found) /\ r.site \in Domains /\ r \in SiteReads
    BY <1>2, <2>1
  <2> HIDE DEF r
  <2> QED BY <1>0, <2>2, <2>3, <2>4, <2>5, ReadMovesOn
<1>4. CASE MarkResearchRunning(j)
  <2> DEFINE r == [NoRead("running") EXCEPT !.site = job[j].site]
  <2>1. r \in SiteReads /\ r.at = "running" /\ r.found = {} /\ r.site \in Domains
    BY <1>0, <1>1, <1>4 DEF MarkResearchRunning, SiteReads, IInv, PlansFit
  <2>2. job' = [job EXCEPT ![j] = r] /\ row' \in Rows /\ fresh' = {}
    BY <1>0, <1>4, OverwriteRows DEF MarkResearchRunning, Overwrite
  <2>4. UNCHANGED pen /\ mute' \in BOOLEAN /\ spent' \in Spendings
    BY <1>0, <1>4 DEF MarkResearchRunning
  <2>5. r.at # "recording" /\ IsFiniteSet(r.found) /\ r.site \in Domains /\ r \in SiteReads
    BY <1>2, <2>1
  <2> HIDE DEF r
  <2> QED BY <1>0, <2>2, <2>4, <2>5, ReadMovesOn
<1>5. CASE RecordResearchFailure(j)
  <2>1. /\ job' = [job EXCEPT ![j] = NoRead("none")] /\ row' \in Rows
        /\ fresh' = {} \/ (fresh' = fresh \ {j} /\ row' = row)
    <3>1. j \notin fresh
      BY <1>5 DEF RecordResearchFailure, IInv, PlansFit
    <3>2. CASE Overwrite("failed")
      BY <1>0, <1>5, <3>2, OverwriteRows DEF RecordResearchFailure, Overwrite, Finished
    <3>3. CASE UNCHANGED <<row, fresh>>
      <4>1. fresh = fresh \ {j}
        BY <3>1
      <4>2. job' = [job EXCEPT ![j] = NoRead("none")]
        BY <1>5 DEF RecordResearchFailure, Finished
      <4> QED BY <1>0, <3>3, <4>1, <4>2
    <3> QED BY <1>5, <3>2, <3>3 DEF RecordResearchFailure
  <2>2. spent' \in Spendings /\ mute' \in BOOLEAN /\ UNCHANGED pen
    <3>1. CASE spent.lost < MaxLost /\ spent' = [spent EXCEPT !.lost = @ + 1]
      <4>1. spent' \in Spendings
        BY <1>0, <3>1, BoundsAssumption DEF Spendings
      <4>2. mute' \in BOOLEAN /\ UNCHANGED pen
        BY <1>5 DEF RecordResearchFailure
      <4> QED BY <4>1, <4>2
    <3>2. CASE UNCHANGED spent
      BY <1>0, <1>5, <3>2 DEF RecordResearchFailure
    <3> QED BY <1>5, <3>1, <3>2 DEF RecordResearchFailure
  <2> QED BY <1>1, <1>2, <2>1, <2>2, ReadMovesOn
<1>6. CASE FetchSite(j)
  <2>1. job[j].site \in Domains
    BY <1>6 DEF FetchSite, IInv, PlansFit
  <2>2. PICK found \in Readings(job[j].site) : Consider(j, found, 1)
    BY <1>6 DEF FetchSite
  <2> QED BY <1>6, <2>1, <2>2, ReadingsAreFacts, ConsiderKeeps, BoundsAssumption DEF FetchSite
<1>7. CASE RecordResearch(j)
  <2>1. /\ job' = [job EXCEPT ![j] = NoRead("none")] /\ row' \in Rows /\ fresh' = {}
    BY <1>7, RecordWrites DEF RecordResearch, Finished
  <2>2. UNCHANGED pen /\ mute' \in BOOLEAN /\ spent' \in Spendings
    BY <1>0, <1>7 DEF RecordResearch
  <2> QED BY <1>1, <1>2, <2>1, <2>2, ReadMovesOn
<1>8. CASE RetryRecord(j)
  <2>1. /\ job[j].found \in SUBSET Facts /\ IsFiniteSet(job[j].found)
        /\ job[j].site \in Domains /\ job[j].found \subseteq SiteFacts(job[j].site)
        /\ job[j].tries + 1 \in 0 .. Attempts
    BY <1>0, <1>8, BoundsAssumption DEF RetryRecord, IInv, PlansFit, SiteReads
  <2> QED BY <1>8, <2>1, ConsiderKeeps DEF RetryRecord
<1>9. CASE SettleResearch(j)
  <2>1. /\ job' = [job EXCEPT ![j] = NoRead("none")] /\ row' \in Rows /\ fresh' = {}
    BY <1>0, <1>9, OverwriteRows DEF SettleResearch, Finished, Overwrite
  <2>2. UNCHANGED pen /\ mute' \in BOOLEAN /\ spent' \in Spendings
    BY <1>0, <1>9 DEF SettleResearch
  <2> QED BY <1>1, <1>2, <2>1, <2>2, ReadMovesOn
<1>10. CASE Crash(j)
  <2>1. spent' \in Spendings
    BY <1>0, <1>10, BoundsAssumption DEF Crash, Spendings
  <2> QED BY <1>0, <1>1, <1>2, <1>10, <2>1, ReadMovesOn DEF Crash
<1> QED BY <1>3, <1>4, <1>5, <1>6, <1>7, <1>8, <1>9, <1>10 DEF Research

LEMMA StepKeeps == IInv /\ [Next]_vars => IInv'
<1> SUFFICES ASSUME IInv, [Next]_vars PROVE IInv'
  OBVIOUS
<1>1. CASE \E w \in Slots : Ask(w)
  BY <1>1, AskKeeps
<1>2. CASE \E w \in Slots : Serve(w)
  BY <1>2, WriteKeeps, RetryKeeps, AddressKeeps DEF Serve
<1>3. CASE \E j \in Jobs : Research(j) \/ Crash(j)
  BY <1>3, ResearchKeeps
<1>4. CASE UNCHANGED vars
  BY <1>4 DEF vars, IInv, TypeOK, PlansFit, PlansAreCurrent
<1> QED BY <1>1, <1>2, <1>3, <1>4 DEF Next

LEMMA Inductive == Spec => []IInv
BY Initially, StepKeeps, PTL DEF Spec

(* The row, the writers and the site reads keep their types, and no kind   *)
(* of sentence outgrows its cap, whoever writes and in whatever order.     *)
THEOREM TypeCorrect == Spec => []TypeOK
BY Inductive, PTL DEF IInv

-----------------------------------------------------------------------------
(* What a plan keeps of the row it is a plan for.                          *)

Unkept(r) == {f \in r.facts : ~SurvivesReResearch(f)}

(* A plan of a person's task, or of the one that proposes an audience:     *)
(* only the sentence it names is withdrawn, only the sentence it types is  *)
(* new, and no sentence loses the person who stands behind it.             *)
LEMMA FactPlansKeep ==
    ASSUME NEW r \in Rows, NEW t \in Tasks, t.do \in FactTasks, NEW plan \in Plans(t, r)
    PROVE  /\ \A x \in Texts(Kept(r)) \ Texts(Kept(plan)) :
                t.do \in {"remove", "correct"} /\ t.was = x
           /\ \A x \in Decided(r) \ Decided(plan) :
                t.do \in {"remove", "correct"} /\ t.was = x
           /\ \A x \in Texts(plan.facts) \ Texts(r.facts) :
                t.do \in {"add", "correct"} /\ t.text = x
           /\ Texts(Unkept(plan)) \subseteq Texts(Unkept(r))
<1> USE DEF Texts, Kept, Decided, Unkept
<1>1. CASE t.do = "add"
  <2>1. plan \in Additions(r, t.text)
    BY <1>1 DEF Plans, FactTasks, PageTasks
  <2>2. plan = [facts |-> r.facts \cup {StatedFact(t.text, NoText)}, gone |-> r.gone \ {t.text}]
    BY <2>1 DEF Additions
  <2> QED BY <1>1, <2>2 DEF StatedFact, SurvivesReResearch
<1>2. CASE t.do = "remove"
  <2>1. plan \in Removals(r, t.was)
    BY <1>2 DEF Plans, FactTasks, PageTasks
  <2>2. PICK f \in r.facts :
            f.text = t.was /\ plan = [facts |-> r.facts \ {f}, gone |-> Buried(r.gone, t.was)]
    BY <2>1 DEF Removals, Carrying
  <2> QED BY <1>2, <2>2
<1>3. CASE t.do = "correct"
  <2>1. plan \in Corrections(r, t.was, t.text)
    BY <1>3 DEF Plans, FactTasks, PageTasks
  <2>2. PICK f \in r.facts :
            /\ f.text = t.was
            /\ plan = [facts |-> (r.facts \ {f}) \cup {StatedFact(t.text, Origin(f))},
                       gone |-> r.gone \ {t.text}]
    BY <2>1 DEF Corrections, Carrying
  <2> QED BY <1>3, <2>2 DEF StatedFact, SurvivesReResearch
<1>4. CASE t.do \in {"confirm", "decide", "propose"}
  <2>1. PICK f, g :
            /\ f \in r.facts
            /\ plan = Reworked(r, f, g) /\ g.text = f.text
            /\ SurvivesReResearch(f) => SurvivesReResearch(g)
            /\ SurvivesReResearch(g) \/ ~SurvivesReResearch(f)
            /\ f.audience = "decided" => g.audience = "decided"
    <3>1. CASE t.do = "confirm"
      <4>1. plan \in Confirmations(r, t.text)
        BY <3>1 DEF Plans, FactTasks, PageTasks
      <4>2. PICK f \in r.facts : plan = Reworked(r, f, Confirmed(f)) /\ f \in Facts
        BY <4>1, TypedSentences DEF Confirmations, Carrying
      <4> QED BY <4>2 DEF Confirmed, SurvivesReResearch, Facts
    <3>2. CASE t.do = "decide"
      <4>1. plan \in Decisions(r, t.text)
        BY <3>2 DEF Plans, FactTasks, PageTasks
      <4>2. PICK f \in r.facts : plan = Reworked(r, f, WithAudience(f, "decided")) /\ f \in Facts
        BY <4>1, TypedSentences DEF Decisions, Carrying
      <4> QED BY <4>2 DEF WithAudience, SurvivesReResearch, Facts
    <3>3. CASE t.do = "propose"
      <4>1. plan \in Proposals(r, t.text)
        BY <3>3 DEF Plans, FactTasks, PageTasks
      <4>2. PICK f \in {h \in Carrying(r, t.text) : h.audience # "decided"}, a \in {"none", "proposed"} :
                plan = Reworked(r, f, WithAudience(f, a))
        BY <4>1 DEF Proposals
      <4>3. f \in r.facts /\ f \in Facts /\ f.audience # "decided"
        BY <4>2, TypedSentences DEF Carrying
      <4> QED BY <4>2, <4>3 DEF WithAudience, SurvivesReResearch, Facts
    <3> QED BY <1>4, <3>1, <3>2, <3>3
  <2>2. plan.facts = (r.facts \ {f}) \cup {g}
    BY <2>1 DEF Reworked
  <2> QED BY <2>1, <2>2
<1> QED BY <1>1, <1>2, <1>3, <1>4 DEF FactTasks

(* To confirm a sentence, or to give it an audience, leaves its wording.    *)
LEMMA SameSentence ==
    ASSUME NEW r \in Rows, NEW f \in r.facts, NEW a \in {"none", "proposed", "decided"}
    PROVE  \A g \in {Confirmed(f), WithAudience(f, a)} :
                /\ g.text = f.text /\ g.from = f.from
                /\ SurvivesReResearch(f) => SurvivesReResearch(g)
<1>1. f \in Facts
  BY TypedSentences
<1> QED BY <1>1 DEF Confirmed, WithAudience, SurvivesReResearch, Facts

(* A person's or a model's plan for a sentence forgets an answer only as    *)
(* the property says: by removing it over full tombstones, by removing     *)
(* what was made from it, or by correcting what was a correction.          *)
LEMMA FactPlansRemember ==
    ASSUME NEW r \in Rows, NEW t \in Tasks, t.do \in FactTasks, NEW plan \in Plans(t, r),
           NEW x \in Statements, x \notin AlreadyAnswered(plan),
           x \in AlreadyAnswered(r) \/ (t.do \in {"remove", "correct"} /\ t.was = x)
    PROVE  \/ t.do = "remove" /\ t.was = x /\ Cardinality(r.gone \cup {x}) > GoneMax
           \/ \E f \in r.facts \ plan.facts :
                f.from = x /\ t.do = "remove" /\ t.was = f.text
           \/ \E f \in r.facts \ plan.facts :
                f.text = x /\ f.from # NoText /\ t.do = "correct" /\ t.was = x
<1>0. \A c : /\ c.gone \subseteq AlreadyAnswered(c)
             /\ \A f \in c.facts : SurvivesReResearch(f) => {f.text, f.from} \subseteq AlreadyAnswered(c)
             /\ \A y \in AlreadyAnswered(c) \ c.gone :
                    \E f \in c.facts : SurvivesReResearch(f) /\ (f.text = y \/ f.from = y)
  BY DEF AlreadyAnswered, Texts, Kept
<1>1. CASE t.do = "add"
  <2>1. plan \in Additions(r, t.text)
    BY <1>1 DEF Plans, FactTasks, PageTasks
  <2>2. plan = [facts |-> r.facts \cup {StatedFact(t.text, NoText)}, gone |-> r.gone \ {t.text}]
    BY <2>1 DEF Additions
  <2> DEFINE new == StatedFact(t.text, NoText)
  <2>3. new \in plan.facts /\ SurvivesReResearch(new) /\ new.text = t.text
    BY <2>2 DEF StatedFact, SurvivesReResearch
  <2>4. x # t.text
    BY <1>0, <2>3
  <2> HIDE DEF new
  <2>5. r.gone \ {t.text} = plan.gone /\ r.facts \subseteq plan.facts
    BY <2>2
  <2> QED BY <1>0, <1>1, <2>4, <2>5
<1>2. CASE t.do = "remove"
  <2>1. plan \in Removals(r, t.was)
    BY <1>2 DEF Plans, FactTasks, PageTasks
  <2>2. PICK f \in r.facts :
            f.text = t.was /\ plan = [facts |-> r.facts \ {f}, gone |-> Buried(r.gone, t.was)]
    BY <2>1 DEF Removals, Carrying
  <2>3. plan.facts = r.facts \ {f} /\ plan.gone = Buried(r.gone, t.was)
    BY <2>2
  <2>4. CASE x = t.was
    <3>1. x \notin Buried(r.gone, x)
      BY <1>0, <2>3, <2>4
    <3> QED BY <1>2, <2>4, <3>1 DEF Buried
  <2>5. CASE x # t.was
    <3>1. r.gone \subseteq plan.gone
      BY <2>3 DEF Buried
    <3>2. PICK g \in r.facts : SurvivesReResearch(g) /\ (g.text = x \/ g.from = x)
      BY <1>0, <2>5, <3>1
    <3>3. g = f
      BY <1>0, <2>3, <3>2
    <3> QED BY <1>2, <2>2, <2>3, <2>5, <3>2, <3>3
  <2> QED BY <2>4, <2>5
<1>3. CASE t.do = "correct"
  <2>1. plan \in Corrections(r, t.was, t.text)
    BY <1>3 DEF Plans, FactTasks, PageTasks
  <2>2. PICK f \in r.facts :
            /\ f.text = t.was
            /\ plan = [facts |-> (r.facts \ {f}) \cup {StatedFact(t.text, Origin(f))},
                       gone |-> r.gone \ {t.text}]
    BY <2>1 DEF Corrections, Carrying
  <2> DEFINE new == StatedFact(t.text, Origin(f))
  <2>3. /\ new \in plan.facts /\ SurvivesReResearch(new)
        /\ new.text = t.text /\ new.from = Origin(f)
    BY <2>2 DEF StatedFact, SurvivesReResearch
  <2>4. x # t.text /\ x # Origin(f)
    BY <1>0, <2>3
  <2>5. \A g \in r.facts : g \in plan.facts \/ g = f
    BY <2>2
  <2>6. r.gone \ {t.text} = plan.gone
    BY <2>2
  <2>7. plan.facts \subseteq (r.facts \ {f}) \cup {new}
    BY <2>2
  <2> HIDE DEF new
  <2>8. f.text = x \/ f.from = x
    BY <1>0, <1>3, <2>2, <2>4, <2>5, <2>6
  <2>9. f.from # NoText /\ f.text = x
    BY <2>4, <2>8, TextsAssumption DEF Origin
  <2>10. f \notin plan.facts
    BY <2>3, <2>4, <2>7, <2>9
  <2> QED BY <1>3, <2>2, <2>9, <2>10
<1>4. CASE t.do \in {"confirm", "decide", "propose"}
  <2>1. plan \in Confirmations(r, t.text) \cup Decisions(r, t.text) \cup Proposals(r, t.text)
    BY <1>4 DEF Plans, FactTasks, PageTasks
  <2>2. PICK f, g :
            /\ f \in r.facts /\ plan = Reworked(r, f, g)
            /\ g.text = f.text /\ g.from = f.from
            /\ SurvivesReResearch(f) => SurvivesReResearch(g)
    BY <2>1, SameSentence DEF Confirmations, Decisions, Proposals, Carrying
  <2>3. plan.facts = (r.facts \ {f}) \cup {g} /\ plan.gone = r.gone
    BY <2>2 DEF Reworked
  <2> QED BY <1>0, <1>4, <2>2, <2>3
<1> QED BY <1>1, <1>2, <1>3, <1>4 DEF FactTasks

(* A new address, or a site read, keeps what somebody stands behind.       *)
LEMMA AddressPlansKeep ==
    ASSUME NEW r, NEW plan \in NewAddress(r)
    PROVE  /\ Kept(plan) = Kept(r) /\ plan.facts = Kept(r) /\ plan.facts \subseteq r.facts
           /\ plan.gone = r.gone
BY DEF NewAddress, Kept

LEMMA MergesKeep ==
    ASSUME NEW r, NEW found, NEW plan \in MergeResearch(r, found)
    PROVE  /\ Kept(r) \subseteq plan.facts /\ plan.gone = r.gone
           /\ \A f \in plan.facts \ Kept(r) : f \in found /\ f.text \notin AlreadyAnswered(r)
<1>1. PICK taken \in SUBSET {f \in found : f.text \notin AlreadyAnswered(r)} :
        plan = [facts |-> Kept(r) \cup taken, gone |-> r.gone]
  BY Zenon DEF MergeResearch
<1> QED BY <1>1

-----------------------------------------------------------------------------
(* What a step makes of the row.                                           *)

Columnwise(facts, gone, role) == row'.facts = facts /\ row'.gone = gone /\ row'.role = role

LEMMA WhatAStepWrites ==
    ASSUME IInv, [Next]_vars
    PROVE  \/ Columnwise(row.facts, row.gone, row.role) /\ row'.domain = row.domain
           \/ \E w \in Slots : /\ Write(w) /\ Ends(w) /\ pen[w].task \in Tasks
                               /\ pen[w].task.do \in FactTasks
                               /\ pen[w].plan \in Plans(pen[w].task, row)
                               /\ Columnwise(pen[w].plan.facts, pen[w].plan.gone, row.role)
                               /\ row'.domain = row.domain
           \/ \E w \in Slots : /\ pen[w].task.do \in PageTasks /\ pen[w].task \in Tasks
                               /\ pen[w].plan \in Plans(pen[w].task, row)
                               /\ Columnwise(row.facts, row.gone, pen[w].plan.role)
                               /\ row'.domain = row.domain
           \/ \E w \in Slots : /\ Ends(w) /\ pen[w].task.do = "address"
                               /\ w \in fresh => pen[w].plan \in NewAddress(row)
                               /\ Columnwise(pen[w].plan.facts, pen[w].plan.gone, row.role)
                               /\ \A f \in row'.facts : SurvivesReResearch(f)
           \/ \E j \in Jobs : /\ Records(j) /\ job[j].plan \in MergeResearch(row, job[j].found)
                              /\ job[j].found \subseteq SiteFacts(job[j].site)
                              /\ job[j].site \in Domains
                              /\ Columnwise(job[j].plan.facts, job[j].plan.gone, row.role)
                              /\ row'.domain = row.domain
<1> DEFINE Same == Columnwise(row.facts, row.gone, row.role) /\ row'.domain = row.domain
<1>0. row \in Rows /\ {"running", "failed", "done"} \subseteq Statuses
      /\ \A s \in Statuses : Overwrite(s) => Same
  BY OverwriteRows DEF IInv, TypeOK, Statuses, Columnwise
<1>1. CASE UNCHANGED vars
  BY <1>1 DEF vars, Columnwise
<1>2. ASSUME NEW w \in Slots, Ask(w) \/ Retry(w) PROVE Same
  BY <1>2 DEF Ask, Retry, Columnwise
<1>3. ASSUME NEW w \in Slots, Write(w), pen[w].task.do \in FactTasks
      PROVE  /\ Ends(w) /\ pen[w].task \in Tasks
             /\ pen[w].plan \in Plans(pen[w].task, row)
             /\ Columnwise(pen[w].plan.facts, pen[w].plan.gone, row.role) /\ row'.domain = row.domain
  <2>1. /\ pen[w].task \in Tasks /\ pen[w].plan \in Plans(pen[w].task, row)
        /\ row' = Written(pen[w].task, pen[w].plan)
    BY <1>3, WriteIsCurrent
  <2>2. pen[w].plan \in FactColumns /\ row' = WithFacts(row, pen[w].plan)
    BY <1>0, <1>3, <2>1, FactPlansFit DEF Written, FactTasks, PageTasks
  <2>3. Ends(w)
    BY <1>3 DEF Ends, Write, Idle, NoPen, IInv, TypeOK
  <2> QED BY <1>0, <2>1, <2>2, <2>3, WithFactsRows DEF Columnwise
<1>4. ASSUME NEW w \in Slots, Write(w), pen[w].task.do \in PageTasks
      PROVE  /\ pen[w].task \in Tasks /\ pen[w].plan \in Plans(pen[w].task, row)
             /\ Columnwise(row.facts, row.gone, pen[w].plan.role) /\ row'.domain = row.domain
  <2>1. /\ pen[w].task \in Tasks /\ pen[w].plan \in Plans(pen[w].task, row)
        /\ row' = Written(pen[w].task, pen[w].plan)
    BY <1>4, WriteIsCurrent
  <2>2. pen[w].plan \in PageColumns /\ row' = WithRoles(row, pen[w].plan)
    BY <1>0, <1>4, <2>1, PagePlansFit DEF Written
  <2> QED BY <1>0, <2>1, <2>2, WithRolesRows DEF Columnwise
<1>5. ASSUME NEW w \in Slots, StateSiteDomain(w)
      PROVE  /\ Ends(w) /\ pen[w].task.do = "address"
             /\ w \in fresh => pen[w].plan \in NewAddress(row)
             /\ Columnwise(pen[w].plan.facts, pen[w].plan.gone, row.role)
             /\ \A f \in row'.facts : SurvivesReResearch(f)
  <2>1. pen[w].task.do = "address" /\ pen[w].task # Idle
    BY <1>5 DEF StateSiteDomain, Idle
  <2>2. Ends(w)
    BY <1>5, <2>1 DEF Ends, StateSiteDomain, NoPen, IInv, TypeOK
  <2>3. w \in fresh => pen[w].plan \in NewAddress(row)
    BY <2>1 DEF IInv, PlansAreCurrent, Plans
  <2> QED BY <1>5, <2>1, <2>2, <2>3, AddressWrites DEF Columnwise
<1>6. ASSUME NEW j \in Jobs, RecordResearch(j)
      PROVE  /\ Records(j) /\ job[j].plan \in MergeResearch(row, job[j].found)
             /\ job[j].found \subseteq SiteFacts(job[j].site) /\ job[j].site \in Domains
             /\ Columnwise(job[j].plan.facts, job[j].plan.gone, row.role) /\ row'.domain = row.domain
  <2>1. Records(j)
    BY <1>6 DEF Records, RecordResearch, Finished, NoRead, IInv, TypeOK
  <2>2. job[j].found \subseteq SiteFacts(job[j].site) /\ job[j].site \in Domains
    BY <1>6 DEF RecordResearch, IInv, PlansFit
  <2> QED BY <1>6, <2>1, <2>2, RecordWrites DEF Columnwise
<1>7. ASSUME NEW j \in Jobs,
             \/ StartResearch(j) \/ MarkResearchRunning(j) \/ RecordResearchFailure(j)
             \/ FetchSite(j) \/ RetryRecord(j) \/ SettleResearch(j) \/ Crash(j)
      PROVE  Same
  <2>1. UNCHANGED row \/ Overwrite("running") \/ Overwrite("failed") \/ Overwrite("done")
    BY <1>7 DEF StartResearch, MarkResearchRunning, RecordResearchFailure, FetchSite,
                RetryRecord, SettleResearch, Crash
  <2> QED BY <1>0, <2>1 DEF Columnwise
<1>8. ASSUME NEW w \in Slots, Write(w)
      PROVE  pen[w].task.do \in FactTasks \/ pen[w].task.do \in PageTasks
  BY <1>8, WriteIsCurrent, TaskForms
<1> HIDE DEF Same
<1>9. \/ Same
      \/ \E w \in Slots : Write(w) /\ pen[w].task.do \in FactTasks
      \/ \E w \in Slots : Write(w) /\ pen[w].task.do \in PageTasks
      \/ \E w \in Slots : StateSiteDomain(w)
      \/ \E j \in Jobs : RecordResearch(j)
      \/ UNCHANGED vars
  BY <1>2, <1>7, <1>8 DEF Next, Serve, Research
<1>10. CASE Same
  BY <1>10 DEF Same
<1>11. CASE \E w \in Slots : Write(w) /\ pen[w].task.do \in FactTasks
  BY <1>3, <1>11
<1>12. CASE \E w \in Slots : Write(w) /\ pen[w].task.do \in PageTasks
  BY <1>4, <1>12
<1>13. CASE \E w \in Slots : StateSiteDomain(w)
  BY <1>5, <1>13
<1>14. CASE \E j \in Jobs : RecordResearch(j)
  BY <1>6, <1>14
<1> QED BY <1>1, <1>9, <1>10, <1>11, <1>12, <1>13, <1>14

-----------------------------------------------------------------------------
(* A person's word leaves the row only by a person's withdrawal of it, or  *)
(* by an address stated over a read that is out of date.                   *)
LEMMA SentencesAreKept == Spec => SentencesStand
<1>1. ASSUME IInv, [Next]_vars,
             NEW t \in Texts(Kept(row)) \ Texts(Kept(row'))
      PROVE  Withdrawn(t) \/ LateAddress
  <2>1. \A c : row'.facts = c.facts => Kept(row') = Kept(c)
    BY DEF Kept
  <2>2. CASE row'.facts = row.facts
    BY <1>1, <2>2 DEF Kept
  <2>3. ASSUME NEW w \in Slots, Ends(w), pen[w].task \in Tasks, pen[w].task.do \in FactTasks,
               pen[w].plan \in Plans(pen[w].task, row), row'.facts = pen[w].plan.facts
        PROVE  Withdrawn(t)
    BY <1>1, <2>1, <2>3, FactPlansKeep DEF Withdrawn, IInv, TypeOK
  <2>4. ASSUME NEW w \in Slots, Ends(w), pen[w].task.do = "address",
               w \in fresh => pen[w].plan \in NewAddress(row), row'.facts = pen[w].plan.facts
        PROVE  LateAddress
    BY <1>1, <2>1, <2>4, AddressPlansKeep DEF LateAddress
  <2>5. ASSUME NEW j \in Jobs, job[j].plan \in MergeResearch(row, job[j].found),
               row'.facts = job[j].plan.facts
        PROVE  FALSE
    BY <1>1, <2>5, MergesKeep DEF Kept, Texts
  <2> QED BY <1>1, <2>2, <2>3, <2>4, <2>5, WhatAStepWrites DEF Columnwise
<1>2. IInv /\ [Next]_vars =>
        [\A t \in Texts(Kept(row)) \ Texts(Kept(row')) : Withdrawn(t) \/ LateAddress]_vars
  BY <1>1
<1> QED BY <1>2, Inductive, PTL DEF Spec, SentencesStand

(* What a person decided about a sentence goes only with the sentence.     *)
THEOREM DecisionsAreKept == Spec => DecisionsStand
<1> DEFINE Dropped(t) ==
        /\ t \notin Decided([facts |-> Kept(row)])
        /\ \/ \E j \in Jobs : Records(j)
           \/ \E w \in Slots : Ends(w) /\ pen[w].task.do = "address"
<1>1. ASSUME IInv, [Next]_vars, NEW t \in Decided(row) \ Decided(row')
      PROVE  Withdrawn(t) \/ LateAddress \/ Dropped(t)
  <2>1. \A c : row'.facts = c.facts => Decided(row') = Decided(c)
    BY DEF Decided
  <2>2. CASE row'.facts = row.facts
    BY <1>1, <2>2 DEF Decided
  <2>3. ASSUME NEW w \in Slots, Ends(w), pen[w].task \in Tasks, pen[w].task.do \in FactTasks,
               pen[w].plan \in Plans(pen[w].task, row), row'.facts = pen[w].plan.facts
        PROVE  Withdrawn(t)
    BY <1>1, <2>1, <2>3, FactPlansKeep DEF Withdrawn, IInv, TypeOK
  <2>4. ASSUME Kept(row) \subseteq row'.facts
        PROVE  t \notin Decided([facts |-> Kept(row)])
    BY <1>1, <2>4 DEF Decided
  <2>5. ASSUME NEW w \in Slots, Ends(w), pen[w].task.do = "address",
               w \in fresh => pen[w].plan \in NewAddress(row), row'.facts = pen[w].plan.facts
        PROVE  LateAddress \/ Dropped(t)
    BY <2>4, <2>5, AddressPlansKeep DEF LateAddress
  <2>6. ASSUME NEW j \in Jobs, Records(j), job[j].plan \in MergeResearch(row, job[j].found),
               row'.facts = job[j].plan.facts
        PROVE  Dropped(t)
    BY <2>4, <2>6, MergesKeep
  <2> QED BY <1>1, <2>2, <2>3, <2>5, <2>6, WhatAStepWrites DEF Columnwise
<1>2. IInv /\ [Next]_vars =>
        [\A t \in Decided(row) \ Decided(row') :
            \/ Withdrawn(t)
            \/ LateAddress
            \/ Dropped(t)]_vars
  BY <1>1
<1> QED BY <1>2, Inductive, PTL DEF Spec, DecisionsStand

(* No step takes a role a person gave.                                     *)
LEMMA RolesAreKept == Spec => StatedRolesStand
<1>1. ASSUME IInv, [Next]_vars, NEW p \in Pages, row.role[p] = "stated"
      PROVE  row'.role[p] = "stated"
  <2>1. ASSUME NEW w \in Slots, pen[w].task.do \in PageTasks, pen[w].task \in Tasks,
               pen[w].plan \in Plans(pen[w].task, row), row'.role = pen[w].plan.role
        PROVE  row'.role[p] = "stated"
    BY <1>1, <2>1, PagePlansFit DEF IInv, TypeOK
  <2> QED BY <1>1, <2>1, WhatAStepWrites DEF Columnwise
<1>2. IInv /\ [Next]_vars =>
        [\A p \in Pages : row.role[p] = "stated" => row'.role[p] = "stated"]_vars
  BY <1>1
<1> QED BY <1>2, Inductive, PTL DEF Spec, StatedRolesStand

(* What a person said of the business and of its pages stands.             *)
THEOREM WordStands == Spec => PersonsWordStands
BY SentencesAreKept, RolesAreKept DEF PersonsWordStands

(* What the row remembers as answered comes back only by a person's own    *)
(* typing, or by an address stated over a read that is out of date.        *)
LEMMA AnswersReturnTyped == Spec => ReturnsOnlyTyped
<1> DEFINE Typed(t) == \E w \in Slots : /\ Ends(w)
                                        /\ pen[w].task.do \in {"add", "correct"}
                                        /\ pen[w].task.text = t
<1>1. ASSUME IInv, [Next]_vars,
             NEW t \in (AlreadyAnswered(row) \cap Texts(row'.facts)) \ Texts(row.facts)
      PROVE  LateAddress \/ Typed(t)
  <2>2. CASE row'.facts = row.facts
    BY <1>1, <2>2
  <2>3. ASSUME NEW w \in Slots, Ends(w), pen[w].task \in Tasks, pen[w].task.do \in FactTasks,
               pen[w].plan \in Plans(pen[w].task, row), row'.facts = pen[w].plan.facts
        PROVE  Typed(t)
    BY <1>1, <2>3, FactPlansKeep DEF IInv, TypeOK
  <2>4. ASSUME NEW w \in Slots, Ends(w), pen[w].task.do = "address",
               w \in fresh => pen[w].plan \in NewAddress(row), row'.facts = pen[w].plan.facts
        PROVE  LateAddress
    BY <1>1, <2>4, AddressPlansKeep DEF LateAddress, Texts
  <2>5. ASSUME NEW j \in Jobs, job[j].plan \in MergeResearch(row, job[j].found),
               row'.facts = job[j].plan.facts
        PROVE  FALSE
    BY <1>1, <2>5, MergesKeep DEF Kept, Texts
  <2> QED BY <1>1, <2>2, <2>3, <2>4, <2>5, WhatAStepWrites DEF Columnwise
<1>2. IInv /\ [Next]_vars =>
        [\A t \in (AlreadyAnswered(row) \cap Texts(row'.facts)) \ Texts(row.facts) :
            \/ LateAddress
            \/ Typed(t)]_vars
  BY <1>1
<1> QED BY <1>2, Inductive, PTL DEF Spec, ReturnsOnlyTyped

(* The row remembers what was removed or corrected, and forgets an answer  *)
(* only in the ways the property names.                                    *)
LEMMA AnswersStayInMind == Spec => AnswersAreRemembered
<1> DEFINE Answered(t) == t \in AlreadyAnswered(row) \/ Removed(t) \/ Corrected(t)
           Explained(t) ==
                \/ t \in AlreadyAnswered(row')
                \/ LateAddress
                \/ Removed(t) /\ Cardinality(row.gone \cup {t}) > GoneMax
                \/ \E f \in row.facts \ row'.facts :
                        \/ f.from = t /\ Removed(f.text)
                        \/ f.text = t /\ f.from # NoText /\ Corrected(t)
<1>1. ASSUME IInv, [Next]_vars, NEW t \in Statements, Answered(t)
      PROVE  Explained(t)
  <2>0. \A c : row'.facts = c.facts /\ row'.gone = c.gone
                => AlreadyAnswered(row') = AlreadyAnswered(c)
    BY DEF AlreadyAnswered, Kept
  <2>1. row \in Rows
    BY <1>1 DEF IInv, TypeOK
  <2>2. ASSUME NEW w \in Slots, Write(w), pen[w].task \in Tasks, pen[w].task.do \in FactTasks,
               pen[w].plan \in Plans(pen[w].task, row),
               row'.facts = pen[w].plan.facts, row'.gone = pen[w].plan.gone,
               \/ t \in AlreadyAnswered(row)
               \/ pen[w].task.do \in {"remove", "correct"} /\ pen[w].task.was = t
        PROVE  Explained(t)
    <3>1. SUFFICES ASSUME t \notin AlreadyAnswered(pen[w].plan) PROVE Explained(t)
      BY <2>0, <2>2
    <3>2. \/ /\ pen[w].task.do = "remove" /\ pen[w].task.was = t
             /\ Cardinality(row.gone \cup {t}) > GoneMax
          \/ \E f \in row.facts \ row'.facts :
                f.from = t /\ pen[w].task.do = "remove" /\ pen[w].task.was = f.text
          \/ \E f \in row.facts \ row'.facts :
                /\ f.text = t /\ f.from # NoText
                /\ pen[w].task.do = "correct" /\ pen[w].task.was = t
      BY <2>1, <2>2, <3>1, FactPlansRemember
    <3> QED BY <2>2, <3>2 DEF Removed, Corrected
  <2>3. CASE Removed(t) \/ Corrected(t)
    <3>1. PICK w \in Slots :
            Write(w) /\ pen[w].task.do \in {"remove", "correct"} /\ pen[w].task.was = t
      BY <2>3 DEF Removed, Corrected
    <3>2. /\ pen[w].task \in Tasks /\ pen[w].task.do \in FactTasks
          /\ pen[w].plan \in Plans(pen[w].task, row)
          /\ row' = WithFacts(row, pen[w].plan)
      BY <1>1, <3>1, WriteIsCurrent DEF FactTasks, PageTasks, Written
    <3>3. row'.facts = pen[w].plan.facts /\ row'.gone = pen[w].plan.gone
      BY <2>1, <3>2, FactPlansFit, WithFactsRows
    <3> QED BY <2>2, <3>1, <3>2, <3>3
  <2>4. CASE t \in AlreadyAnswered(row)
    <3>1. CASE row'.facts = row.facts /\ row'.gone = row.gone
      BY <2>0, <2>4, <3>1
    <3>2. ASSUME NEW w \in Slots, Ends(w), pen[w].task.do = "address",
                 w \in fresh => pen[w].plan \in NewAddress(row),
                 row'.facts = pen[w].plan.facts, row'.gone = pen[w].plan.gone
          PROVE  Explained(t)
      <4>1. CASE w \notin fresh
        BY <3>2, <4>1 DEF LateAddress
      <4>2. CASE w \in fresh
        <5>1. row'.facts = Kept(row) /\ row'.gone = row.gone
          BY <3>2, <4>2, AddressPlansKeep
        <5> QED BY <2>4, <5>1 DEF AlreadyAnswered, Kept
      <4> QED BY <4>1, <4>2
    <3>3. ASSUME NEW j \in Jobs, job[j].plan \in MergeResearch(row, job[j].found),
                 row'.facts = job[j].plan.facts, row'.gone = job[j].plan.gone
          PROVE  Explained(t)
      <4>1. Kept(row) \subseteq row'.facts /\ row'.gone = row.gone
        BY <3>3, MergesKeep
      <4>2. Kept(row) \subseteq Kept(row')
        BY <4>1 DEF Kept
      <4> QED BY <2>4, <4>1, <4>2 DEF AlreadyAnswered, Texts
    <3> HIDE DEF Explained
    <3> QED BY <1>1, <2>2, <2>4, <3>1, <3>2, <3>3, WhatAStepWrites DEF Columnwise
  <2> QED BY <1>1, <2>3, <2>4
<1>2. IInv /\ [Next]_vars =>
        [\A t \in Statements :
            t \in AlreadyAnswered(row) \/ Removed(t) \/ Corrected(t) => Explained(t)]_vars
  BY <1>1
<1> QED BY <1>2, Inductive, PTL DEF Spec, AnswersAreRemembered

(* A removed or corrected sentence comes back only by a person's typing as *)
(* long as the row remembers it, and what makes the row forget is named.   *)
THEOREM AnswersAreKept == Spec => AnsweredStaysAnswered
BY AnswersReturnTyped, AnswersStayInMind DEF AnsweredStaysAnswered

(* Another site's sentences enter only by a read that was under way when   *)
(* the address changed.                                                    *)
THEOREM SitesAreKeptApart == Spec => OldPagesOnlyByALateRead
<1> DEFINE Late == \E j \in Jobs : Records(j) /\ job[j].site # row.domain
<1>0. \A r : Foreign(r) = {x \in Texts(Unkept(r)) : r.domain = NoDomain \/ x \notin Says[r.domain]}
  BY DEF Foreign, Texts, Unkept
<1>1. ASSUME IInv, [Next]_vars PROVE Foreign(row') \subseteq Foreign(row) \/ Late
  <2>1. ASSUME row'.domain = row.domain, Texts(Unkept(row')) \subseteq Texts(Unkept(row))
        PROVE  Foreign(row') \subseteq Foreign(row)
    BY <1>0, <2>1
  <2>2. \A c : row'.facts = c.facts => Unkept(row') = Unkept(c)
    BY DEF Unkept
  <2>3. CASE row'.facts = row.facts /\ row'.domain = row.domain
    BY <2>1, <2>2, <2>3
  <2>4. ASSUME NEW w \in Slots, Ends(w), pen[w].task \in Tasks, pen[w].task.do \in FactTasks,
               pen[w].plan \in Plans(pen[w].task, row), row'.facts = pen[w].plan.facts,
               row'.domain = row.domain
        PROVE  Foreign(row') \subseteq Foreign(row)
    BY <1>1, <2>1, <2>2, <2>4, FactPlansKeep DEF IInv, TypeOK
  <2>5. ASSUME \A f \in row'.facts : SurvivesReResearch(f)
        PROVE  Foreign(row') \subseteq Foreign(row)
    BY <1>0, <2>5 DEF Unkept, Texts
  <2>6. ASSUME NEW j \in Jobs, Records(j), job[j].plan \in MergeResearch(row, job[j].found),
               job[j].found \subseteq SiteFacts(job[j].site), job[j].site \in Domains,
               row'.facts = job[j].plan.facts, row'.domain = row.domain
        PROVE  Foreign(row') \subseteq Foreign(row) \/ Late
    <3>1. SUFFICES ASSUME job[j].site = row.domain PROVE Foreign(row') = {}
      BY <2>6
    <3>2. \A f \in Unkept(row') : f \in SiteFacts(row.domain)
      BY <2>6, <3>1, MergesKeep DEF Unkept, Kept
    <3>3. \A f \in SiteFacts(row.domain) : f.text \in Says[row.domain]
      BY DEF SiteFacts
    <3>4. row'.domain # NoDomain
      BY <2>6, <3>1, TextsAssumption
    <3> QED BY <1>0, <2>6, <3>2, <3>3, <3>4 DEF Texts
  <2> QED BY <1>1, <2>3, <2>4, <2>5, <2>6, WhatAStepWrites DEF Columnwise
<1>2. IInv /\ [Next]_vars => [Foreign(row') \subseteq Foreign(row) \/ Late]_vars
  BY <1>1
<1> QED BY <1>2, Inductive, PTL DEF Spec, OldPagesOnlyByALateRead
=============================================================================

------------------------- MODULE AnalysisRunsProofs -------------------------
(***************************************************************************)
(* For any lanes, projects, caps, lease and number of faults: no model is  *)
(* asked twice about one thing, and of the lanes at work on one project at *)
(* most one has had no longer than the lease.                              *)
(***************************************************************************)
EXTENDS AnalysisRuns, TLAPS, FiniteSetTheorems

Handling == {"count", "claim", "lookup", "ask", "persist"}

\* What a lane needs in hand where it is.
Sound(l) ==
    /\ l.pc # "idle" => l.project \in Projects
    /\ l.pc \in Handling => l.sig \in Signatures

TypeInv == TypeOK /\ \A w \in Workers : Sound(lane[w])

Asking(w) == lane[w].pc = "ask"

\* A model is asked under a claim nobody else acts on, and the claim outlives
\* the call.
AskInv ==
    /\ \A c \in Calls : asked[c] = 0 \/ (asked[c] = 1 /\ c \in claims)
    /\ \A w \in Workers : Asking(w) => Call(w) \in claims /\ asked[Call(w)] = 0
    /\ \A v, w \in Workers : v # w /\ Asking(v) /\ Asking(w) => Call(v) # Call(w)

\* Until the lease has passed, the running run of a lane at work is its own.
LeaseInv ==
    \A p \in Projects : \A w \in Workers :
        InRun(w, p) /\ lane[w].age <= Lease =>
            running[p] # None /\ running[p].owner = w /\ running[p].age = lane[w].age

(***************************************************************************)
(* Types.                                                                  *)
(***************************************************************************)

LEMMA IdleIsSound == Idle \in Lane /\ Sound(Idle)
BY RunsAssumption DEF Idle, Lane, Opening, Checking, Stages, Sound, Handling

\* One lane moves and the others are left alone.
LEMMA LaneMoves ==
  ASSUME TypeInv, NEW w \in Workers, NEW x \in Lane, Sound(x),
         lane' = [lane EXCEPT ![w] = x]
  PROVE  /\ lane' \in [Workers -> Lane]
         /\ \A v \in Workers : Sound(lane[v])'
         /\ lane'[w] = x
         /\ \A v \in Workers : v # w => lane'[v] = lane[v]
BY DEF TypeInv, TypeOK, Sound

\* A step of the work on the candidates: the lane stays in its run.
Working(w, x) ==
    /\ lane' = [lane EXCEPT ![w] = x]
    /\ x \in Lane
    /\ Sound(x)
    /\ lane[w].pc \in Checking
    /\ x.pc \in Checking
    /\ x.project = lane[w].project
    /\ x.age = lane[w].age

LEMMA BetweenIsWorking ==
  ASSUME TypeInv, NEW w \in Workers, lane[w].pc \in Checking,
         NEW pc \in {"next", "close"}, NEW todo \in SUBSET Signatures,
         NEW x, x = [Between(w) EXCEPT !.pc = pc, !.todo = todo],
         lane' = [lane EXCEPT ![w] = x]
  PROVE  Working(w, x) /\ x.pc = pc
<1> DEFINE m == lane[w].model
<1>1. lane[w] \in Lane /\ lane[w].project \in Projects
  BY DEF TypeInv, TypeOK, Sound, Checking
<1>2. m \in BOOLEAN /\ lane[w].age \in 0..MaxSpan BY <1>1 DEF Lane
<1>3. x = [Idle EXCEPT !.pc = pc, !.project = lane[w].project, !.age = lane[w].age,
                       !.model = m, !.todo = todo]
  BY DEF Between, Idle
<1> HIDE DEF m
<1>4. Idle \in Lane BY IdleIsSound
<1>5. /\ x \in Lane
      /\ x.pc = pc /\ x.project = lane[w].project /\ x.age = lane[w].age
  BY <1>1, <1>2, <1>3, <1>4 DEF Lane, Checking
<1>6. Sound(x) BY <1>1, <1>5 DEF Sound, Handling
<1>7. Working(w, x) BY <1>5, <1>6 DEF Working, Checking
<1>8. QED BY <1>5, <1>7

LEMMA GotoNextIsWorking ==
  ASSUME TypeInv, NEW w \in Workers, lane[w].pc \in Checking, GotoNext(w)
  PROVE  \E x \in Lane : Working(w, x) /\ x.pc = "next"
<1>1. lane[w].todo \in SUBSET Signatures BY DEF TypeInv, TypeOK, Lane
<1>2. Between(w) = [Between(w) EXCEPT !.pc = "next", !.todo = lane[w].todo] BY DEF Between, Idle
<1>3. Working(w, Between(w)) /\ Between(w).pc = "next"
  BY <1>1, <1>2, BetweenIsWorking DEF GotoNext
<1>4. QED BY <1>3 DEF Working

LEMMA ThenCauseIsWorking ==
  ASSUME TypeInv, NEW w \in Workers, lane[w].pc \in Handling, ThenCause(w)
  PROVE  \E x \in Lane : Working(w, x) /\ x.pc \in {"next", "count"}
<1>0. lane[w].pc \in Checking BY DEF Handling, Checking
<1>1. CASE GotoNext(w) BY <1>0, <1>1, GotoNextIsWorking
<1>2. CASE lane' = [lane EXCEPT ![w].pc = "count", ![w].stage = "cause"]
  <2> DEFINE x == [lane[w] EXCEPT !.pc = "count", !.stage = "cause"]
  <2>1. lane[w] \in Lane /\ Sound(lane[w]) BY DEF TypeInv, TypeOK
  <2>2. x \in Lane BY <2>1 DEF Lane, Checking, Stages
  <2>3. lane' = [lane EXCEPT ![w] = x] BY <1>2 DEF TypeInv, TypeOK
  <2>4. /\ x.pc = "count" /\ x.project = lane[w].project
        /\ x.age = lane[w].age /\ x.sig = lane[w].sig
    BY <2>1 DEF Lane
  <2>5. Sound(x) BY <2>1, <2>4 DEF Sound, Handling
  <2>6. Working(w, x) BY <1>0, <2>2, <2>3, <2>4, <2>5 DEF Working, Checking
  <2>7. QED BY <2>2, <2>4, <2>6
<1>3. QED BY <1>1, <1>2 DEF ThenCause

\* What a step of the work does to the claims and to the calls made.
Spends(w, x) ==
    \/ /\ x.pc # "ask"
       /\ UNCHANGED <<claims, asked>>
    \/ /\ x.pc = "ask" /\ x.sig = lane[w].sig /\ x.stage = lane[w].stage
       /\ Call(w) \in Calls \ claims
       /\ claims' = claims \cup {Call(w)}
       /\ UNCHANGED asked
    \/ /\ Asking(w) /\ x.pc # "ask"
       /\ Call(w) \in Calls
       /\ asked' = [asked EXCEPT ![Call(w)] = @ + 1]
       /\ UNCHANGED claims

LEMMA CallIsACall ==
  ASSUME TypeInv, NEW w \in Workers, lane[w].pc \in Handling
  PROVE  Call(w) \in Calls
BY DEF TypeInv, TypeOK, Lane, Sound, Call, Calls

LEMMA WorkStep ==
  ASSUME TypeInv, NEW w \in Workers, Work(w)
  PROVE  /\ \E x \in Lane : Working(w, x) /\ Spends(w, x)
         /\ UNCHANGED <<running, dismissed, faults>>
         /\ findings' \subseteq Signatures
<1>0. lane \in [Workers -> Lane] /\ lane[w] \in Lane /\ Sound(lane[w])
  BY DEF TypeInv, TypeOK
<1>f. findings \subseteq Signatures BY DEF TypeInv, TypeOK
<1>1. ASSUME SkipCandidate(w) PROVE \E x \in Lane : Working(w, x) /\ Spends(w, x)
  <2>1. PICK s \in lane[w].todo : lane' = [lane EXCEPT ![w].todo = @ \ {s}]
    BY <1>1 DEF SkipCandidate
  <2> DEFINE x == [lane[w] EXCEPT !.todo = @ \ {s}]
  <2>2. lane' = [lane EXCEPT ![w] = x] BY <1>0, <2>1
  <2>3. lane[w].pc = "next" /\ UNCHANGED <<claims, asked>> BY <1>1 DEF SkipCandidate
  <2>4. /\ x \in Lane /\ x.pc = "next" /\ x.project = lane[w].project
        /\ x.age = lane[w].age
    BY <1>0, <2>3 DEF Lane
  <2>5. Sound(x) BY <1>0, <2>3, <2>4 DEF Sound, Handling
  <2> HIDE DEF x
  <2>6. Working(w, x) /\ Spends(w, x)
    BY <2>2, <2>3, <2>4, <2>5 DEF Working, Spends, Checking
  <2>7. QED BY <2>4, <2>6
<1>2. ASSUME PlanCandidate(w) PROVE \E x \in Lane : Working(w, x) /\ Spends(w, x)
  <2> DEFINE pc == IF lane[w].model THEN "count" ELSE "persist"
  <2>1. PICK s \in lane[w].todo :
           lane' = [lane EXCEPT ![w].todo = @ \ {s}, ![w].sig = s, ![w].stage = "render", ![w].pc = pc]
    BY <1>2 DEF PlanCandidate
  <2>2. pc \in {"count", "persist"} OBVIOUS
  <2> HIDE DEF pc
  <2> DEFINE x == [lane[w] EXCEPT !.todo = @ \ {s}, !.sig = s, !.stage = "render", !.pc = pc]
  <2>3. lane' = [lane EXCEPT ![w] = x] BY <1>0, <2>1
  <2>4. lane[w].pc = "next" /\ UNCHANGED <<claims, asked>> BY <1>2 DEF PlanCandidate
  <2>5. s \in Signatures BY <1>0 DEF Lane
  <2>6. /\ x \in Lane /\ x.pc = pc /\ x.project = lane[w].project /\ x.sig = s
        /\ x.age = lane[w].age
    BY <1>0, <2>2, <2>5 DEF Lane, Checking, Stages
  <2>7. Sound(x) BY <1>0, <2>4, <2>5, <2>6 DEF Sound, Handling
  <2> HIDE DEF x
  <2>8. Working(w, x) /\ Spends(w, x)
    BY <2>2, <2>3, <2>4, <2>6, <2>7 DEF Working, Spends, Checking
  <2>9. QED BY <2>6, <2>8
<1>3. ASSUME NEW pc \in {"claim", "ask", "lookup", "persist"}, NEW b \in BOOLEAN,
             lane' = [lane EXCEPT ![w].pc = pc, ![w].room = b], lane[w].pc \in Handling
      PROVE  \E x \in Lane : /\ Working(w, x) /\ x.pc = pc
                            /\ x.sig = lane[w].sig /\ x.stage = lane[w].stage
  <2> DEFINE x == [lane[w] EXCEPT !.pc = pc, !.room = b]
  <2>1. lane' = [lane EXCEPT ![w] = x] BY <1>0, <1>3
  <2>2. /\ x \in Lane /\ x.pc = pc /\ x.project = lane[w].project
        /\ x.sig = lane[w].sig /\ x.stage = lane[w].stage
        /\ x.age = lane[w].age
    BY <1>0 DEF Lane, Checking
  <2>3. Sound(x) BY <1>0, <1>3, <2>2 DEF Sound, Handling
  <2> HIDE DEF x
  <2>4. Working(w, x) BY <1>3, <2>1, <2>2, <2>3 DEF Working, Checking, Handling
  <2>5. QED BY <2>2, <2>4
<1>4. ASSUME CountClaims(w) PROVE \E x \in Lane : Working(w, x) /\ Spends(w, x)
  <2> DEFINE b == HasRoom(lane[w].project)
  <2>1. b \in BOOLEAN BY DEF HasRoom
  <2>2. /\ lane[w].pc = "count" /\ UNCHANGED <<claims, asked>>
        /\ lane' = [lane EXCEPT ![w].pc = "claim", ![w].room = b]
    BY <1>4 DEF CountClaims
  <2> HIDE DEF b
  <2>3. QED BY <1>3, <2>1, <2>2 DEF Handling, Spends
<1>5. ASSUME Claim(w) PROVE \E x \in Lane : Working(w, x) /\ Spends(w, x)
  <2> DEFINE b == FALSE
  <2>1. b \in BOOLEAN OBVIOUS
  <2>2. /\ lane[w].pc = "claim" /\ UNCHANGED asked
        /\ claims' = claims \cup {Call(w)} /\ Call(w) \notin claims
        /\ lane' = [lane EXCEPT ![w].pc = "ask", ![w].room = b]
    BY <1>5 DEF Claim, MayClaim
  <2> HIDE DEF b
  <2>3. Call(w) \in Calls BY <2>2, CallIsACall DEF Handling
  <2>4. QED BY <1>3, <2>1, <2>2, <2>3 DEF Handling, Spends
<1>6. ASSUME NotClaimed(w) PROVE \E x \in Lane : Working(w, x) /\ Spends(w, x)
  <2> DEFINE pc == IF Call(w) \in claims THEN "lookup" ELSE "persist"
             b == FALSE
  <2>1. pc \in {"lookup", "persist"} /\ b \in BOOLEAN OBVIOUS
  <2>2. /\ lane[w].pc = "claim" /\ UNCHANGED <<claims, asked>>
        /\ GotoNext(w) \/ lane' = [lane EXCEPT ![w].pc = pc, ![w].room = b]
    BY <1>6 DEF NotClaimed
  <2> HIDE DEF pc, b
  <2>3. CASE GotoNext(w) BY <2>2, <2>3, GotoNextIsWorking DEF Spends, Checking
  <2>4. CASE lane' = [lane EXCEPT ![w].pc = pc, ![w].room = b]
    BY <1>3, <2>1, <2>2, <2>4 DEF Handling, Spends
  <2>5. QED BY <2>2, <2>3, <2>4
<1>7. ASSUME LookUp(w) PROVE \E x \in Lane : Working(w, x) /\ Spends(w, x)
  <2>1. /\ lane[w].pc = "lookup" /\ UNCHANGED <<claims, asked>>
        /\ ThenCause(w) \/ Goto(w, "persist")
    BY <1>7 DEF LookUp
  <2>2. CASE ThenCause(w) BY <2>1, <2>2, ThenCauseIsWorking DEF Spends, Handling
  <2>3. CASE Goto(w, "persist")
    <3> DEFINE b == lane[w].room
    <3>1. b \in BOOLEAN BY <1>0 DEF Lane
    <3>2. lane' = [lane EXCEPT ![w].pc = "persist", ![w].room = b]
      BY <1>0, <2>3 DEF Goto, Lane
    <3> HIDE DEF b
    <3>3. QED BY <1>3, <2>1, <3>1, <3>2 DEF Handling, Spends
  <2>4. QED BY <2>1, <2>2, <2>3
<1>8. ASSUME AskRender(w) PROVE \E x \in Lane : Working(w, x) /\ Spends(w, x)
  <2>1. lane' = [lane EXCEPT ![w].pc = "persist"] BY <1>8 DEF AskRender, Goto
  <2> DEFINE x == [lane[w] EXCEPT !.pc = "persist"]
  <2>2. /\ Asking(w) /\ UNCHANGED claims
        /\ asked' = [asked EXCEPT ![Call(w)] = @ + 1]
    BY <1>8 DEF AskRender, Asking
  <2>3. Call(w) \in Calls BY <2>2, CallIsACall DEF Asking, Handling
  <2>4. lane' = [lane EXCEPT ![w] = x] BY <1>0, <2>1
  <2>5. /\ x \in Lane /\ x.pc = "persist" /\ x.project = lane[w].project
        /\ x.sig = lane[w].sig
        /\ x.age = lane[w].age
    BY <1>0 DEF Lane, Checking
  <2>6. Sound(x) BY <1>0, <2>2, <2>5 DEF Sound, Handling, Asking
  <2> HIDE DEF x
  <2>7. Working(w, x) /\ Spends(w, x)
    BY <2>2, <2>3, <2>4, <2>5, <2>6 DEF Working, Spends, Checking, Asking
  <2>8. QED BY <2>5, <2>7
<1>9. ASSUME AskCause(w) PROVE \E x \in Lane : Working(w, x) /\ Spends(w, x)
  <2>1. /\ Asking(w) /\ GotoNext(w) /\ UNCHANGED claims
        /\ asked' = [asked EXCEPT ![Call(w)] = @ + 1]
    BY <1>9 DEF AskCause, Asking
  <2>2. Call(w) \in Calls BY <2>1, CallIsACall DEF Asking, Handling
  <2>3. PICK x \in Lane : Working(w, x) /\ x.pc = "next"
    BY <2>1, GotoNextIsWorking DEF Asking, Checking
  <2>4. QED BY <2>1, <2>2, <2>3 DEF Spends
<1>10. ASSUME Persist(w)
       PROVE  /\ \E x \in Lane : Working(w, x) /\ Spends(w, x)
              /\ findings' \subseteq Signatures
  <2> DEFINE s == lane[w].sig
  <2>1. /\ lane[w].pc = "persist" /\ UNCHANGED <<claims, asked>> /\ ThenCause(w)
        /\ findings' = findings \cup {s}
    BY <1>10 DEF Persist
  <2>2. s \in Signatures BY <1>0, <2>1 DEF Sound, Handling
  <2> HIDE DEF s
  <2>3. findings' \subseteq Signatures BY <1>f, <2>1, <2>2
  <2>4. \E x \in Lane : Working(w, x) /\ Spends(w, x)
    BY <2>1, ThenCauseIsWorking DEF Spends, Handling
  <2>5. QED BY <2>3, <2>4
<1>11. UNCHANGED <<running, dismissed, faults>>
  BY DEF Work, SkipCandidate, PlanCandidate, CountClaims, Claim, NotClaimed, LookUp,
         AskRender, AskCause, Persist
<1>12. Persist(w) \/ UNCHANGED findings
  BY DEF Work, SkipCandidate, PlanCandidate, CountClaims, Claim, NotClaimed, LookUp,
         AskRender, AskCause
<1>13. QED
  BY <1>f, <1>1, <1>2, <1>4, <1>5, <1>6, <1>7, <1>8, <1>9, <1>10, <1>11, <1>12 DEF Work

LEMMA ConsultThrowsStep ==
  ASSUME TypeInv, NEW w \in Workers, ConsultThrows(w)
  PROVE  /\ \E x \in Lane : Working(w, x) /\ x.pc = "next"
         /\ UNCHANGED <<running, claims, findings, dismissed, asked>>
         /\ faults' \in Nat
<1>1. lane \in [Workers -> Lane] /\ lane[w] \in Lane /\ Sound(lane[w]) /\ faults \in Nat
  BY DEF TypeInv, TypeOK
<1>2. PICK s \in lane[w].todo : lane' = [lane EXCEPT ![w].todo = @ \ {s}]
  BY DEF ConsultThrows
<1> DEFINE x == [lane[w] EXCEPT !.todo = @ \ {s}]
<1>3. lane[w].pc = "next" /\ lane' = [lane EXCEPT ![w] = x] BY <1>1, <1>2 DEF ConsultThrows
<1>4. /\ x \in Lane /\ x.pc = "next" /\ x.project = lane[w].project
      /\ x.age = lane[w].age
  BY <1>1, <1>3 DEF Lane
<1>5. Sound(x) BY <1>1, <1>3, <1>4 DEF Sound, Handling
<1> HIDE DEF x
<1>6. Working(w, x) BY <1>3, <1>4, <1>5 DEF Working, Checking
<1>7. UNCHANGED <<running, claims, findings, dismissed, asked>> /\ faults' = faults + 1
  BY DEF ConsultThrows, Fault
<1>8. QED BY <1>1, <1>4, <1>6, <1>7

\* A step outside the work on the candidates: one lane opens, closes or ends.
Moving(w, x) ==
    /\ lane' = [lane EXCEPT ![w] = x]
    /\ x \in Lane
    /\ Sound(x)
    /\ x.pc # "ask"

LEMMA MineIsARun == ASSUME TypeInv, NEW w \in Workers PROVE Mine(w) \in Run
<1>1. lane[w].age \in 0..MaxSpan BY DEF TypeInv, TypeOK, Lane
<1>2. MaxSpan \in Nat /\ Lease \in Nat BY RunsAssumption
<1>3. lane[w].age \in Ages BY <1>1, <1>2 DEF Ages, Horizon
<1>4. QED BY <1>3 DEF Mine, Run

LEMMA OpeningStep ==
  ASSUME TypeInv, NEW w \in Workers, NEW from \in {"insert", "insertAgain", "insertLast"},
         NEW otherwise \in {"reclaim", "existing", "idle"}, InsertRun(w, from, otherwise)
  PROVE  /\ \E x \in Lane : Moving(w, x)
                           /\ \/ running' = running /\ x.pc \notin Checking
                              \/ /\ lane[w].project \in Projects
                                 /\ running[lane[w].project] = None
                                 /\ running' = [running EXCEPT ![lane[w].project] = Mine(w)]
                                 /\ x.project = lane[w].project
                                 /\ x.age = lane[w].age
         /\ running' \in [Projects -> Run \cup {None}]
         /\ UNCHANGED <<claims, findings, dismissed, asked, faults>>
<1>0. /\ lane \in [Workers -> Lane] /\ lane[w] \in Lane /\ Sound(lane[w])
      /\ running \in [Projects -> Run \cup {None}]
  BY DEF TypeInv, TypeOK
<1> DEFINE p == lane[w].project
           todo == {s \in Signatures : ProjectOf[s] = p}
<1>1. /\ lane[w].pc = from
      /\ UNCHANGED <<claims, findings, dismissed, asked, faults>>
  BY DEF InsertRun
<1>2. p \in Projects BY <1>0, <1>1 DEF Sound
<1>3. CASE running[p] = None
  <2> DEFINE x == [lane[w] EXCEPT !.pc = "next", !.todo = todo]
  <2>1. running' = [running EXCEPT ![p] = Mine(w)] BY <1>3 DEF InsertRun
  <2>2. lane' = [lane EXCEPT ![w].pc = "next", ![w].todo = todo] BY <1>3 DEF InsertRun
  <2>3. todo \in SUBSET Signatures OBVIOUS
  <2> HIDE DEF todo
  <2>4. lane' = [lane EXCEPT ![w] = x] BY <1>0, <2>2
  <2>5. /\ x \in Lane /\ x.pc = "next" /\ x.project = lane[w].project
        /\ x.age = lane[w].age
    BY <1>0, <2>3 DEF Lane, Checking
  <2> HIDE DEF x
  <2>6. Sound(x) BY <1>2, <2>5 DEF Sound, Handling
  <2>7. running' \in [Projects -> Run \cup {None}] BY <1>0, <2>1, MineIsARun
  <2>8. QED BY <1>1, <1>2, <1>3, <2>1, <2>4, <2>5, <2>6, <2>7 DEF Moving
<1>4. CASE running[p] # None
  <2>1. running' = running BY <1>4 DEF InsertRun
  <2>2. CASE otherwise = "idle"
    <3>1. lane' = [lane EXCEPT ![w] = Idle] BY <1>4, <2>2 DEF InsertRun
    <3>2. Idle.pc = "idle" BY DEF Idle
    <3>3. QED BY <1>0, <1>1, <2>1, <3>1, <3>2, IdleIsSound DEF Moving, Checking
  <2>3. CASE otherwise \in {"reclaim", "existing"}
    <3> DEFINE x == [lane[w] EXCEPT !.pc = otherwise]
    <3>1. lane' = [lane EXCEPT ![w].pc = otherwise] BY <1>4, <2>3 DEF InsertRun
    <3>2. lane' = [lane EXCEPT ![w] = x] BY <1>0, <3>1
    <3>3. x \in Lane /\ x.pc = otherwise /\ x.project = lane[w].project
      BY <1>0, <2>3 DEF Lane, Opening
    <3> HIDE DEF x
    <3>4. Sound(x) BY <1>2, <2>3, <3>3 DEF Sound, Handling
    <3>5. QED BY <1>0, <1>1, <2>1, <2>3, <3>2, <3>3, <3>4 DEF Moving, Checking
  <2>4. QED BY <2>2, <2>3
<1>5. QED BY <1>3, <1>4

\* A lane that is not at work moves, and is not at work afterwards.
Aside(w, x) == Moving(w, x) /\ x.pc \notin Checking

LEMMA StartStep ==
  ASSUME TypeInv, NEW w \in Workers, NEW p \in Projects, StartLane(w, p)
  PROVE  /\ \E x \in Lane : Aside(w, x)
         /\ UNCHANGED <<running, claims, findings, dismissed, asked, faults>>
<1>1. PICK m \in Configured :
         lane' = [lane EXCEPT ![w] = [Idle EXCEPT !.pc = "insert", !.project = p, !.model = m]]
  BY DEF StartLane
<1>2. m \in BOOLEAN BY RunsAssumption
<1> DEFINE x == [Idle EXCEPT !.pc = "insert", !.project = p, !.model = m]
<1>3. Idle \in Lane BY IdleIsSound
<1>4. x \in Lane /\ x.pc = "insert" /\ x.project = p BY <1>2, <1>3 DEF Lane, Opening
<1>5. lane' = [lane EXCEPT ![w] = x] BY <1>1
<1>6. UNCHANGED <<running, claims, findings, dismissed, asked, faults>> BY DEF StartLane
<1> HIDE DEF x
<1>7. Aside(w, x) BY <1>4, <1>5 DEF Aside, Moving, Sound, Handling, Checking
<1>8. QED BY <1>4, <1>6, <1>7

LEMMA ReclaimStep ==
  ASSUME TypeInv, NEW w \in Workers, ReclaimRun(w)
  PROVE  /\ \E x \in Lane : Aside(w, x)
         /\ \/ UNCHANGED running
            \/ /\ lane[w].project \in Projects
               /\ running[lane[w].project] # None
               /\ running[lane[w].project].age > lane[w].age + Lease
               /\ running' = [running EXCEPT ![lane[w].project] = None]
         /\ UNCHANGED <<claims, findings, dismissed, asked, faults>>
<1>0. lane \in [Workers -> Lane] /\ lane[w] \in Lane /\ Sound(lane[w])
  BY DEF TypeInv, TypeOK
<1>1. ASSUME NEW pc \in {"insertAgain", "existing"}, Goto(w, pc)
      PROVE  \E x \in Lane : Aside(w, x)
  <2> DEFINE x == [lane[w] EXCEPT !.pc = pc]
  <2>1. lane[w].pc = "reclaim" BY DEF ReclaimRun
  <2>2. lane' = [lane EXCEPT ![w] = x] BY <1>0, <1>1 DEF Goto
  <2>3. x \in Lane /\ x.pc = pc /\ x.project = lane[w].project BY <1>0 DEF Lane, Opening
  <2> HIDE DEF x
  <2>4. Aside(w, x) BY <1>0, <2>1, <2>2, <2>3 DEF Aside, Moving, Sound, Handling, Checking
  <2>5. QED BY <2>3, <2>4
<1>2. lane[w].project \in Projects BY <1>0 DEF ReclaimRun, Sound
<1>3. UNCHANGED <<claims, findings, dismissed, asked, faults>> BY DEF ReclaimRun
<1>4. CASE running[lane[w].project] # None /\ Abandoned(running[lane[w].project], lane[w].age)
  BY <1>1, <1>2, <1>3, <1>4 DEF ReclaimRun, Abandoned
<1>5. CASE ~(running[lane[w].project] # None /\ Abandoned(running[lane[w].project], lane[w].age))
  BY <1>1, <1>3, <1>5 DEF ReclaimRun
<1>6. QED BY <1>4, <1>5

LEMMA ExistingStep ==
  ASSUME TypeInv, NEW w \in Workers, FindExisting(w)
  PROVE  /\ \E x \in Lane : Aside(w, x)
         /\ UNCHANGED <<running, claims, findings, dismissed, asked, faults>>
<1>0. lane \in [Workers -> Lane] /\ lane[w] \in Lane /\ Sound(lane[w])
  BY DEF TypeInv, TypeOK
<1>1. UNCHANGED <<running, claims, findings, dismissed, asked, faults>> BY DEF FindExisting
<1>2. CASE lane' = [lane EXCEPT ![w] = Idle]
  <2>1. Idle.pc = "idle" BY DEF Idle
  <2>2. QED BY <1>1, <1>2, <2>1, IdleIsSound DEF Aside, Moving, Checking
<1>3. CASE lane' = [lane EXCEPT ![w].pc = "insertLast"]
  <2> DEFINE x == [lane[w] EXCEPT !.pc = "insertLast"]
  <2>1. lane[w].pc = "existing" BY DEF FindExisting
  <2>2. lane' = [lane EXCEPT ![w] = x] BY <1>0, <1>3
  <2>3. x \in Lane /\ x.pc = "insertLast" /\ x.project = lane[w].project
    BY <1>0 DEF Lane, Opening
  <2> HIDE DEF x
  <2>4. Aside(w, x) BY <1>0, <2>1, <2>2, <2>3 DEF Aside, Moving, Sound, Handling, Checking
  <2>5. QED BY <1>1, <2>3, <2>4
<1>4. QED BY <1>2, <1>3 DEF FindExisting

LEMMA OrphanedIsTyped ==
  ASSUME TypeInv, NEW w \in Workers
  PROVE  /\ Orphaned(w) \in [Projects -> Run \cup {None}]
         /\ \A p \in Projects : running[p] # None /\ running[p].owner # w
                              => Orphaned(w)[p] = running[p]
<1>0. running \in [Projects -> Run \cup {None}] BY DEF TypeInv, TypeOK
<1>1. ASSUME NEW p \in Projects, running[p] # None
      PROVE  [running[p] EXCEPT !.owner = Nobody] \in Run
  BY <1>0, <1>1 DEF Run
<1>2. QED BY <1>0, <1>1 DEF Orphaned

\* A lane ends: closed, failed before its run, or dead.
Ends(w) ==
    /\ lane' = [lane EXCEPT ![w] = Idle]
    /\ \A p \in Projects : running[p] # None /\ running[p].owner # w => running'[p] = running[p]
    /\ running' \in [Projects -> Run \cup {None}]
    /\ faults' \in Nat
    /\ UNCHANGED <<claims, findings, dismissed, asked>>

LEMMA CloseEnds ==
  ASSUME TypeInv, NEW w \in Workers, Close(w)
  PROVE  Ends(w)
<1>1. running \in [Projects -> Run \cup {None}] /\ faults \in Nat BY DEF TypeInv, TypeOK
<1>2. QED BY <1>1 DEF Close, Ends

LEMMA CrashEnds ==
  ASSUME TypeInv, NEW w \in Workers, Crash(w)
  PROVE  Ends(w)
<1>1. faults \in Nat BY DEF TypeInv, TypeOK
<1>2. QED BY <1>1, OrphanedIsTyped DEF Crash, Fault, Ends

LEMMA LaneThrowsEnds ==
  ASSUME TypeInv, NEW w \in Workers, LaneThrows(w)
  PROVE  \/ Ends(w)
         \/ /\ \E x \in Lane : Working(w, x) /\ x.pc = "close"
            /\ UNCHANGED <<running, claims, findings, dismissed, asked>>
            /\ faults' \in Nat
<1>1. faults \in Nat BY DEF TypeInv, TypeOK
<1>2. CASE lane[w].pc \in Checking \ {"close"}
  <2> DEFINE x == [Between(w) EXCEPT !.pc = "close", !.todo = {}]
  <2>1. UNCHANGED running /\ lane' = [lane EXCEPT ![w] = x] BY <1>2 DEF LaneThrows
  <2>2. {} \in SUBSET Signatures OBVIOUS
  <2>3. Working(w, x) /\ x.pc = "close" BY <1>2, <2>1, <2>2, BetweenIsWorking
  <2>4. UNCHANGED <<claims, findings, dismissed, asked>> /\ faults' = faults + 1
    BY DEF LaneThrows, Fault
  <2>5. x \in Lane BY <2>3 DEF Working
  <2> HIDE DEF x
  <2>6. \E y \in Lane : Working(w, y) /\ y.pc = "close" BY <2>3, <2>5
  <2>7. UNCHANGED <<running, claims, findings, dismissed, asked>> BY <2>1, <2>4
  <2>8. QED BY <1>1, <2>4, <2>6, <2>7
<1>3. CASE lane[w].pc \notin Checking \ {"close"}
  BY <1>1, <1>3, OrphanedIsTyped DEF LaneThrows, Fault, Ends
<1>4. QED BY <1>2, <1>3

\* What the passing of time does to a lane.
Aged(w) ==
    /\ lane'[w].pc = lane[w].pc
    /\ lane'[w].project = lane[w].project
    /\ lane'[w].sig = lane[w].sig
    /\ lane'[w].stage = lane[w].stage
    /\ lane[w].pc # "idle" => lane[w].age < MaxSpan /\ lane'[w].age = lane[w].age + 1

LEMMA AdvanceStep ==
  ASSUME TypeInv, Advance
  PROVE  /\ lane' \in [Workers -> Lane]
         /\ running' \in [Projects -> Run \cup {None}]
         /\ \A w \in Workers : Aged(w)
         /\ \A p \in Projects : running[p] # None =>
               /\ running'[p] # None
               /\ running'[p].owner = running[p].owner
               /\ running'[p].age = Older(running[p].age)
         /\ UNCHANGED <<claims, findings, dismissed, asked, faults>>
<1>0. /\ lane \in [Workers -> Lane] /\ running \in [Projects -> Run \cup {None}]
      /\ MaxSpan \in Nat /\ Lease \in Nat
  BY RunsAssumption DEF TypeInv, TypeOK
<1>1. ASSUME NEW w \in Workers
      PROVE  lane'[w] \in Lane /\ Aged(w)
  <2>1. lane[w] \in Lane BY <1>0
  <2>2. lane[w].age \in 0..MaxSpan BY <2>1 DEF Lane
  <2>3. CASE InProgress(w)
    <3>1. lane'[w] = [lane[w] EXCEPT !.age = @ + 1] /\ lane[w].age < MaxSpan
      BY <2>3 DEF Advance
    <3>2. lane[w].age + 1 \in 0..MaxSpan BY <1>0, <2>2, <3>1
    <3>3. QED BY <2>1, <3>1, <3>2 DEF Lane, Aged
  <2>4. CASE ~InProgress(w)
    <3>1. lane'[w] = lane[w] BY <2>4 DEF Advance
    <3>2. QED BY <2>1, <2>4, <3>1 DEF Aged, InProgress
  <2>5. QED BY <2>3, <2>4
<1>2. ASSUME NEW p \in Projects, running[p] # None
      PROVE  /\ running'[p] \in Run
             /\ running'[p].owner = running[p].owner
             /\ running'[p].age = Older(running[p].age)
  <2>1. running[p] \in Run /\ running[p].age \in Ages BY <1>0, <1>2 DEF Run
  <2>2. Older(running[p].age) \in Ages BY <1>0, <2>1 DEF Older, Ages, Horizon
  <2>3. running'[p] = [running[p] EXCEPT !.age = Older(running[p].age)] BY <1>2 DEF Advance
  <2>4. QED BY <2>1, <2>2, <2>3 DEF Run
<1>3. None \notin Run BY <1>0, RunsAssumption DEF Run, Ages, Horizon
<1>4. \A p \in Projects : running[p] # None => running'[p] # None BY <1>2, <1>3
<1>5. \A p \in Projects : running[p] = None => running'[p] = None BY DEF Advance
<1>6. running' \in [Projects -> Run \cup {None}] BY <1>2, <1>5 DEF Advance
<1>7. lane' \in [Workers -> Lane] BY <1>1 DEF Advance
<1>8. UNCHANGED <<claims, findings, dismissed, asked, faults>> BY DEF Advance
<1>9. QED BY <1>1, <1>2, <1>4, <1>6, <1>7, <1>8

(***************************************************************************)
(* Every step is one of six kinds.                                         *)
(***************************************************************************)

LEMMA StepKinds ==
  ASSUME TypeInv, Next
  PROVE  \/ Advance
         \/ \E s \in Signatures : Dismiss(s)
         \/ \E w \in Workers :
               \/ /\ \E x \in Lane : Aside(w, x)
                  /\ \/ UNCHANGED running
                     \/ /\ lane[w].project \in Projects
                        /\ running[lane[w].project] # None
                        /\ running[lane[w].project].age > lane[w].age + Lease
                        /\ running' = [running EXCEPT ![lane[w].project] = None]
                  /\ UNCHANGED <<claims, findings, dismissed, asked, faults>>
               \/ /\ \E x \in Lane : Moving(w, x)
                                   /\ lane[w].project \in Projects
                                   /\ running[lane[w].project] = None
                                   /\ running' = [running EXCEPT ![lane[w].project] = Mine(w)]
                                   /\ x.project = lane[w].project
                                   /\ x.age = lane[w].age
                  /\ UNCHANGED <<claims, findings, dismissed, asked, faults>>
               \/ Work(w)
               \/ /\ \E x \in Lane : Working(w, x) /\ x.pc # "ask"
                  /\ UNCHANGED <<running, claims, findings, dismissed, asked>>
                  /\ faults' \in Nat
               \/ Ends(w)
<1>1. CASE Advance BY <1>1
<1>2. CASE \E s \in Signatures : Dismiss(s) BY <1>2
<1>3. ASSUME NEW w \in Workers, NEW p \in Projects, StartLane(w, p)
      PROVE  /\ \E x \in Lane : Aside(w, x)
             /\ UNCHANGED <<running, claims, findings, dismissed, asked, faults>>
  BY <1>3, StartStep
<1>4. ASSUME NEW w \in Workers, Open(w)
      PROVE  \/ /\ \E x \in Lane : Aside(w, x)
                /\ \/ UNCHANGED running
                   \/ /\ lane[w].project \in Projects
                      /\ running[lane[w].project] # None
                      /\ running[lane[w].project].age > lane[w].age + Lease
                      /\ running' = [running EXCEPT ![lane[w].project] = None]
                /\ UNCHANGED <<claims, findings, dismissed, asked, faults>>
             \/ /\ \E x \in Lane : Moving(w, x)
                                 /\ lane[w].project \in Projects
                                 /\ running[lane[w].project] = None
                                 /\ running' = [running EXCEPT ![lane[w].project] = Mine(w)]
                                 /\ x.project = lane[w].project
                                 /\ x.age = lane[w].age
                /\ UNCHANGED <<claims, findings, dismissed, asked, faults>>
  <2>1. CASE ReclaimRun(w) BY <2>1, ReclaimStep
  <2>2. CASE FindExisting(w) BY <2>2, ExistingStep
  <2>3. CASE InsertRun(w, "insert", "reclaim") BY <2>3, OpeningStep DEF Aside
  <2>4. CASE InsertRun(w, "insertAgain", "existing") BY <2>4, OpeningStep DEF Aside
  <2>5. CASE InsertRun(w, "insertLast", "idle") BY <2>5, OpeningStep DEF Aside
  <2>6. QED BY <1>4, <2>1, <2>2, <2>3, <2>4, <2>5 DEF Open
<1>5. ASSUME NEW w \in Workers, Close(w) PROVE Ends(w) BY <1>5, CloseEnds
<1>6. ASSUME NEW w \in Workers, Crash(w) PROVE Ends(w) BY <1>6, CrashEnds
<1>7. ASSUME NEW w \in Workers, LaneThrows(w)
      PROVE  \/ Ends(w)
             \/ /\ \E x \in Lane : Working(w, x) /\ x.pc # "ask"
                /\ UNCHANGED <<running, claims, findings, dismissed, asked>>
                /\ faults' \in Nat
  BY <1>7, LaneThrowsEnds
<1>8. ASSUME NEW w \in Workers, ConsultThrows(w)
      PROVE  /\ \E x \in Lane : Working(w, x) /\ x.pc # "ask"
             /\ UNCHANGED <<running, claims, findings, dismissed, asked>>
             /\ faults' \in Nat
  BY <1>8, ConsultThrowsStep
<1>9. ASSUME NEW w \in Workers,
             (\E p \in Projects : StartLane(w, p)) \/ Open(w) \/ Check(w)
             \/ LaneThrows(w) \/ ConsultThrows(w) \/ Crash(w)
      PROVE  \/ \E p \in Projects : StartLane(w, p)
             \/ Open(w) \/ Work(w) \/ Close(w)
             \/ LaneThrows(w) \/ ConsultThrows(w) \/ Crash(w)
  BY <1>9 DEF Check
<1>10. CASE \E w \in Workers :
               \/ \E p \in Projects : StartLane(w, p)
               \/ Open(w) \/ Check(w)
               \/ LaneThrows(w) \/ ConsultThrows(w) \/ Crash(w)
  <2>1. PICK w \in Workers :
               \/ \E p \in Projects : StartLane(w, p)
               \/ Open(w) \/ Work(w) \/ Close(w)
               \/ LaneThrows(w) \/ ConsultThrows(w) \/ Crash(w)
    BY <1>9, <1>10
  <2>2. QED BY <1>3, <1>4, <1>5, <1>6, <1>7, <1>8, <2>1
<1>11. QED BY <1>1, <1>2, <1>10 DEF Next

(***************************************************************************)
(* The invariants.                                                         *)
(***************************************************************************)

LEMMA InitHolds == ASSUME Init PROVE TypeInv /\ AskInv /\ LeaseInv
<1>1. \A w \in Workers : lane[w] = Idle /\ lane[w].pc = "idle" BY DEF Init, Idle
<1>2. TypeInv BY <1>1, IdleIsSound DEF TypeInv, TypeOK, Init
<1>3. AskInv BY <1>1 DEF AskInv, Asking, Init
<1>4. LeaseInv BY <1>1 DEF LeaseInv, InRun, Checking
<1>5. QED BY <1>2, <1>3, <1>4

LEMMA TypeStep == ASSUME TypeInv, [Next]_vars PROVE TypeInv'
<1>0. /\ running \in [Projects -> Run \cup {None}]
      /\ claims \subseteq Calls
      /\ findings \subseteq Signatures
      /\ dismissed \subseteq Signatures
      /\ asked \in [Calls -> Nat]
      /\ faults \in Nat
  BY DEF TypeInv, TypeOK
<1>1. CASE Advance
  <2>0. \A w \in Workers : Aged(w) BY <1>1, AdvanceStep
  <2>1. ASSUME NEW w \in Workers PROVE Sound(lane[w])'
    <3>1. Sound(lane[w]) BY DEF TypeInv
    <3>2. /\ lane'[w].pc = lane[w].pc /\ lane'[w].project = lane[w].project
          /\ lane'[w].sig = lane[w].sig
      BY <2>0 DEF Aged
    <3>3. QED BY <3>1, <3>2 DEF Sound
  <2>2. QED BY <1>0, <1>1, <2>1, AdvanceStep DEF TypeInv, TypeOK
<1>2. ASSUME NEW s \in Signatures, Dismiss(s) PROVE TypeInv'
  BY <1>2 DEF Dismiss, TypeInv, TypeOK, Sound
<1>3. ASSUME NEW w \in Workers, NEW x \in Lane, Sound(x), lane' = [lane EXCEPT ![w] = x]
      PROVE  lane' \in [Workers -> Lane] /\ \A v \in Workers : Sound(lane[v])'
  BY <1>3, LaneMoves
<1>4. ASSUME NEW w \in Workers, NEW x \in Lane, Moving(w, x),
             \/ UNCHANGED running
             \/ running' = [running EXCEPT ![lane[w].project] = None]
             \/ running' = [running EXCEPT ![lane[w].project] = Mine(w)],
             UNCHANGED <<claims, findings, dismissed, asked, faults>>
      PROVE  TypeInv'
  <2>1. running' \in [Projects -> Run \cup {None}] BY <1>0, <1>4, MineIsARun
  <2>2. QED BY <1>0, <1>3, <1>4, <2>1 DEF Moving, TypeInv, TypeOK
<1>5. ASSUME NEW w \in Workers, Work(w) PROVE TypeInv'
  <2>1. PICK x \in Lane : Working(w, x) /\ Spends(w, x) BY <1>5, WorkStep
  <2>2. UNCHANGED <<running, dismissed, faults>>
        /\ findings' \subseteq Signatures
    BY <1>5, WorkStep
  <2>3. claims' \subseteq Calls BY <1>0, <2>1 DEF Spends
  <2>4. asked' \in [Calls -> Nat] BY <1>0, <2>1 DEF Spends
  <2>5. QED BY <1>0, <1>3, <2>1, <2>2, <2>3, <2>4 DEF Working, TypeInv, TypeOK
<1>6. ASSUME NEW w \in Workers, NEW x \in Lane, Working(w, x),
             UNCHANGED <<running, claims, findings, dismissed, asked>>, faults' \in Nat
      PROVE  TypeInv'
  BY <1>0, <1>3, <1>6 DEF Working, TypeInv, TypeOK
<1>7. ASSUME NEW w \in Workers, Ends(w) PROVE TypeInv'
  BY <1>0, <1>3, <1>7, IdleIsSound DEF Ends, TypeInv, TypeOK
<1>8. CASE UNCHANGED vars BY <1>8 DEF vars, TypeInv, TypeOK, Sound
<1>9. QED BY <1>1, <1>2, <1>4, <1>5, <1>6, <1>7, <1>8, StepKinds DEF Aside

LEMMA AskStep == ASSUME TypeInv, AskInv, [Next]_vars PROVE AskInv'
<1>0. /\ lane \in [Workers -> Lane]
      /\ asked \in [Calls -> Nat]
      /\ \A v \in Workers : Asking(v) => Call(v) \in Calls
  BY CallIsACall DEF TypeInv, TypeOK, Asking, Handling
<1>1. ASSUME UNCHANGED <<claims, asked>>,
             \A v \in Workers : Asking(v)' => Asking(v) /\ Call(v)' = Call(v)
      PROVE  AskInv'
  BY <1>1 DEF AskInv
<1>2. ASSUME NEW w \in Workers, NEW x \in Lane, lane' = [lane EXCEPT ![w] = x], x.pc # "ask"
      PROVE  \A v \in Workers : Asking(v)' => v # w /\ Asking(v) /\ Call(v)' = Call(v)
  BY <1>0, <1>2 DEF Asking, Call
<1>3. CASE Advance
  <2>1. \A w \in Workers : Aged(w) BY <1>3, AdvanceStep
  <2>2. UNCHANGED <<claims, asked>> BY <1>3 DEF Advance
  <2>3. QED BY <1>1, <2>1, <2>2 DEF Asking, Call, Aged
<1>4. ASSUME NEW s \in Signatures, Dismiss(s) PROVE AskInv'
  BY <1>1, <1>4 DEF Dismiss, Asking, Call
<1>5. ASSUME NEW w \in Workers, NEW x \in Lane, Moving(w, x), UNCHANGED <<claims, asked>>
      PROVE  AskInv'
  BY <1>1, <1>2, <1>5 DEF Moving
<1>6. ASSUME NEW w \in Workers, NEW x \in Lane, Working(w, x), x.pc # "ask",
             UNCHANGED <<claims, asked>>
      PROVE  AskInv'
  BY <1>1, <1>2, <1>6 DEF Working
<1>7. ASSUME NEW w \in Workers, Ends(w) PROVE AskInv'
  <2>1. Idle \in Lane /\ Idle.pc # "ask" BY IdleIsSound DEF Idle
  <2>2. QED BY <1>1, <1>2, <1>7, <2>1 DEF Ends
<1>8. ASSUME NEW w \in Workers, Work(w) PROVE AskInv'
  <2>1. PICK x \in Lane : Working(w, x) /\ Spends(w, x) BY <1>8, WorkStep
  <2>2. lane' = [lane EXCEPT ![w] = x] BY <2>1 DEF Working
  <2>3. CASE x.pc # "ask" /\ UNCHANGED <<claims, asked>> BY <1>6, <2>1, <2>3
  <2>4. CASE /\ x.pc = "ask" /\ x.sig = lane[w].sig /\ x.stage = lane[w].stage
             /\ Call(w) \in Calls \ claims
             /\ claims' = claims \cup {Call(w)}
             /\ UNCHANGED asked
    <3>1. lane'[w] = x /\ \A v \in Workers : v # w => lane'[v] = lane[v] BY <1>0, <2>2
    <3>2. Asking(w)' /\ Call(w)' = Call(w) BY <2>4, <3>1 DEF Asking, Call
    <3>3. \A v \in Workers : v # w /\ Asking(v)' => Asking(v) /\ Call(v)' = Call(v)
      BY <3>1 DEF Asking, Call
    <3>4. asked[Call(w)] = 0 BY <2>4 DEF AskInv
    <3>5. \A v \in Workers : v # w /\ Asking(v) => Call(v) # Call(w) BY <2>4 DEF AskInv
    <3>6. QED BY <2>4, <3>2, <3>3, <3>4, <3>5 DEF AskInv
  <2>5. CASE /\ Asking(w) /\ x.pc # "ask" /\ Call(w) \in Calls
             /\ asked' = [asked EXCEPT ![Call(w)] = @ + 1]
             /\ UNCHANGED claims
    <3>1. \A v \in Workers : Asking(v)' => v # w /\ Asking(v) /\ Call(v)' = Call(v)
      BY <1>2, <2>2, <2>5
    <3>2. asked[Call(w)] = 0 /\ Call(w) \in claims BY <2>5 DEF AskInv
    <3>3. asked'[Call(w)] = 1 /\ \A c \in Calls : c # Call(w) => asked'[c] = asked[c]
      BY <1>0, <2>5, <3>2
    <3>4. \A v \in Workers : v # w /\ Asking(v) => Call(v) # Call(w) BY <2>5 DEF AskInv
    <3>5. QED BY <1>0, <2>5, <3>1, <3>2, <3>3, <3>4 DEF AskInv
  <2>6. QED BY <2>1, <2>3, <2>4, <2>5 DEF Spends
<1>9. CASE UNCHANGED vars BY <1>1, <1>9 DEF vars, Asking, Call
<1>10. QED BY <1>3, <1>4, <1>5, <1>6, <1>7, <1>8, <1>9, StepKinds DEF Aside

LEMMA LeaseStep == ASSUME TypeInv, LeaseInv, [Next]_vars PROVE LeaseInv'
<1>0. /\ lane \in [Workers -> Lane] /\ running \in [Projects -> Run \cup {None}]
      /\ MaxSpan \in Nat /\ Lease \in Nat
  BY RunsAssumption DEF TypeInv, TypeOK
<1>a. \A w \in Workers : lane[w].age \in 0..MaxSpan BY <1>0 DEF Lane
<1>n. None \notin Run BY <1>0, RunsAssumption DEF Run, Ages, Horizon
<1>1. ASSUME UNCHANGED running,
             \A p \in Projects, v \in Workers :
                InRun(v, p)' => InRun(v, p) /\ lane'[v].age = lane[v].age
      PROVE  LeaseInv'
  BY <1>1 DEF LeaseInv
<1>2. ASSUME NEW w \in Workers, NEW x \in Lane, lane' = [lane EXCEPT ![w] = x],
             x.pc \notin Checking
      PROVE  \A p \in Projects, v \in Workers :
                InRun(v, p)' => v # w /\ InRun(v, p) /\ lane'[v].age = lane[v].age
  BY <1>0, <1>2 DEF InRun
<1>3. CASE Advance
  <2>1. ASSUME NEW p \in Projects, NEW w \in Workers, InRun(w, p)', lane'[w].age <= Lease
        PROVE  running'[p] # None /\ running'[p].owner = w /\ running'[p].age = lane'[w].age
    <3>1. Aged(w) BY <1>3, AdvanceStep
    <3>2. InRun(w, p) /\ lane[w].pc # "idle" BY <2>1, <3>1 DEF InRun, Checking, Aged
    <3>3. lane[w].age < MaxSpan /\ lane'[w].age = lane[w].age + 1 /\ lane[w].age <= Lease
      BY <1>0, <1>a, <2>1, <3>1, <3>2 DEF Aged
    <3>4. running[p] # None /\ running[p].owner = w /\ running[p].age = lane[w].age
      BY <3>2, <3>3 DEF LeaseInv
    <3>5. /\ running'[p] # None /\ running'[p].owner = running[p].owner
          /\ running'[p].age = Older(running[p].age)
      BY <1>3, <3>4, AdvanceStep
    <3>6. Older(lane[w].age) = lane[w].age + 1 BY <1>0, <1>a, <3>3 DEF Older, Horizon
    <3>7. QED BY <3>3, <3>4, <3>5, <3>6
  <2>2. QED BY <2>1 DEF LeaseInv
<1>4. ASSUME NEW s \in Signatures, Dismiss(s) PROVE LeaseInv'
  BY <1>1, <1>4 DEF Dismiss, InRun
<1>5. ASSUME NEW w \in Workers, NEW x \in Lane, Aside(w, x), UNCHANGED running
      PROVE  LeaseInv'
  BY <1>1, <1>2, <1>5 DEF Aside, Moving
<1>6. ASSUME NEW w \in Workers, NEW x \in Lane, Aside(w, x), lane[w].project \in Projects,
             running[lane[w].project] # None,
             running[lane[w].project].age > lane[w].age + Lease,
             running' = [running EXCEPT ![lane[w].project] = None]
      PROVE  LeaseInv'
  <2>1. \A p \in Projects, v \in Workers :
           InRun(v, p)' => v # w /\ InRun(v, p) /\ lane'[v].age = lane[v].age
    BY <1>2, <1>6 DEF Aside, Moving
  <2>2. \A p \in Projects : p # lane[w].project => running'[p] = running[p] BY <1>0, <1>6
  <2>3. ASSUME NEW v \in Workers, InRun(v, lane[w].project), lane[v].age <= Lease PROVE FALSE
    <3>1. running[lane[w].project].age = lane[v].age BY <1>6, <2>3 DEF LeaseInv
    <3>2. QED BY <1>0, <1>a, <1>6, <2>3, <3>1
  <2>4. QED BY <2>1, <2>2, <2>3 DEF LeaseInv
<1>7. ASSUME NEW w \in Workers, NEW x \in Lane, Moving(w, x), lane[w].project \in Projects,
             running[lane[w].project] = None,
             running' = [running EXCEPT ![lane[w].project] = Mine(w)],
             x.project = lane[w].project, x.age = lane[w].age
      PROVE  LeaseInv'
  <2>1. lane'[w] = x /\ \A v \in Workers : v # w => lane'[v] = lane[v]
    BY <1>0, <1>7 DEF Moving
  <2>2. \A p \in Projects : p # lane[w].project => running'[p] = running[p] BY <1>0, <1>7
  <2>3. running'[lane[w].project] = Mine(w) BY <1>0, <1>7
  <2>4. Mine(w) \in Run /\ Mine(w).owner = w /\ Mine(w).age = lane[w].age
    BY MineIsARun DEF Mine
  <2>5. ASSUME NEW v \in Workers, v # w, NEW p \in Projects, InRun(v, p)',
               lane'[v].age <= Lease
        PROVE  running'[p] # None /\ running'[p].owner = v /\ running'[p].age = lane'[v].age
    <3>1. InRun(v, p) /\ lane'[v].age = lane[v].age BY <2>1, <2>5 DEF InRun
    <3>2. running[p] # None /\ running[p].owner = v /\ running[p].age = lane[v].age
      BY <2>5, <3>1 DEF LeaseInv
    <3>3. QED BY <1>7, <2>2, <3>1, <3>2
  <2>6. ASSUME NEW p \in Projects, InRun(w, p)'
        PROVE  running'[p] # None /\ running'[p].owner = w /\ running'[p].age = lane'[w].age
    <3>1. p = lane[w].project BY <1>7, <2>1, <2>6 DEF InRun
    <3>2. QED BY <1>7, <1>n, <2>1, <2>3, <2>4, <3>1
  <2>7. QED BY <2>5, <2>6 DEF LeaseInv
<1>8. ASSUME NEW w \in Workers, NEW x \in Lane, Working(w, x), UNCHANGED running
      PROVE  LeaseInv'
  <2>1. \A p \in Projects, v \in Workers :
           InRun(v, p)' => InRun(v, p) /\ lane'[v].age = lane[v].age
    BY <1>0, <1>8 DEF Working, InRun
  <2>2. QED BY <1>1, <1>8, <2>1
<1>9. ASSUME NEW w \in Workers, Ends(w) PROVE LeaseInv'
  <2>1. Idle \in Lane /\ Idle.pc \notin Checking BY IdleIsSound DEF Idle, Checking
  <2>2. \A p \in Projects, v \in Workers :
           InRun(v, p)' => v # w /\ InRun(v, p) /\ lane'[v].age = lane[v].age
    BY <1>2, <1>9, <2>1 DEF Ends
  <2>3. QED BY <1>9, <2>2 DEF Ends, LeaseInv
<1>10. CASE UNCHANGED vars BY <1>1, <1>10 DEF vars, InRun
<1>11. ASSUME NEW w \in Workers, Work(w) PROVE LeaseInv'
  BY <1>8, <1>11, WorkStep
<1>12. QED
  BY <1>3, <1>4, <1>5, <1>6, <1>7, <1>8, <1>9, <1>10, <1>11, StepKinds

(***************************************************************************)
(* The theorems.                                                           *)
(***************************************************************************)

THEOREM RunsInvariant == Spec => [](TypeInv /\ AskInv /\ LeaseInv)
<1>1. Init => TypeInv /\ AskInv /\ LeaseInv BY InitHolds
<1>2. (TypeInv /\ AskInv /\ LeaseInv) /\ [Next]_vars => (TypeInv /\ AskInv /\ LeaseInv)'
  BY TypeStep, AskStep, LeaseStep
<1>3. QED BY <1>1, <1>2, PTL DEF Spec

\* Exactly one attempt, ever, per signature and stage (claimModelCall).
THEOREM NothingIsAskedTwice == Spec => []AskedAtMostOnce
<1>1. TypeInv /\ AskInv => AskedAtMostOnce
  BY DEF TypeInv, TypeOK, AskInv, AskedAtMostOnce
<1>2. QED BY <1>1, RunsInvariant, PTL

\* The run is a lease on its project (open).
THEOREM RunsAreLeases == Spec => []OneLanePerLease
<1>1. ASSUME TypeInv, LeaseInv PROVE OneLanePerLease
  <2>1. SUFFICES ASSUME NEW p \in Projects, NEW v \in Workers, NEW w \in Workers,
                        InRun(v, p), InRun(w, p), lane[v].age <= Lease, lane[w].age <= Lease
                 PROVE  v = w
    <3>1. \A u \in Workers : lane[u].age \in 0..MaxSpan
      BY <1>1 DEF TypeInv, TypeOK, Lane
    <3>2. QED BY <3>1, RunsAssumption DEF OneLanePerLease
  <2>2. running[p].owner = v /\ running[p].owner = w BY <1>1, <2>1 DEF LeaseInv
  <2>3. QED BY <2>2
<1>2. QED BY <1>1, RunsInvariant, PTL

\* The two together, with the types they rest on.
THEOREM RunsBuyOnce == Spec => []NothingIsBoughtTwice
<1>1. TypeInv /\ OneLanePerLease /\ AskedAtMostOnce => NothingIsBoughtTwice
  BY DEF TypeInv, NothingIsBoughtTwice
<1>2. QED BY <1>1, RunsInvariant, NothingIsAskedTwice, RunsAreLeases, PTL

(***************************************************************************)
(* Ceilings and dismissals: which candidate a lane may have in hand.       *)
(***************************************************************************)

\* A lane that has no run has no candidate; the others are of its project.
Whole(l) ==
    /\ l.pc \notin Checking => l.sig = None /\ l.todo = {}
    /\ \A s \in l.todo : ProjectOf[s] = l.project
    /\ l.sig # None => ProjectOf[l.sig] = l.project

WholeInv == \A w \in Workers : Whole(lane[w])

Racing(w) == lane[w].pc = "claim" /\ lane[w].room

\* A lane goes on with the candidate it has, or lets go of it.
Keeps(l, m) ==
    /\ m.project = l.project
    /\ m.sig \in {None, l.sig}
    /\ m.todo \subseteq l.todo
    /\ m.pc \in Checking <=> l.pc \in Checking
    /\ m.pc = "claim" => l.pc = "claim" /\ m.room = l.room

\* It is idle, begins, or gets its run and with it all candidates of the project.
Renews(l, m) ==
    \/ m = Idle
    \/ m.pc = "insert" /\ m.sig = None /\ m.todo = {}
    \/ /\ m.pc = "next" /\ l.pc \in Opening
       /\ m.project = l.project /\ m.sig = l.sig
       /\ m.todo = {s \in Signatures : ProjectOf[s] = l.project}

LEMMA SameLaneKeeps == ASSUME NEW l PROVE Keeps(l, l)
BY DEF Keeps

LEMMA BetweenKeeps ==
  ASSUME TypeInv, NEW w \in Workers, lane[w].pc \in Checking, NEW x,
         x.pc \in {"next", "close"}, x.project = lane[w].project, x.sig = None,
         x.todo \subseteq lane[w].todo
  PROVE  Keeps(lane[w], x)
BY DEF Keeps, Checking

LEMMA GotoNextKeeps ==
  ASSUME TypeInv, NEW w \in Workers, lane[w].pc \in Checking, GotoNext(w)
  PROVE  Keeps(lane[w], lane'[w])
<1>1. lane'[w] = Between(w) BY DEF GotoNext, TypeInv, TypeOK
<1>2. /\ Between(w).pc = "next" /\ Between(w).project = lane[w].project
      /\ Between(w).sig = None /\ Between(w).todo = lane[w].todo
  BY DEF Between, Idle
<1>3. QED BY <1>1, <1>2, BetweenKeeps

LEMMA ThenCauseKeeps ==
  ASSUME TypeInv, NEW w \in Workers, lane[w].pc \in Handling, ThenCause(w)
  PROVE  Keeps(lane[w], lane'[w])
<1>0. lane[w].pc \in Checking BY DEF Handling, Checking
<1>1. CASE GotoNext(w) BY <1>0, <1>1, GotoNextKeeps
<1>2. CASE lane' = [lane EXCEPT ![w].pc = "count", ![w].stage = "cause"]
  <2>1. lane[w] \in Lane BY DEF TypeInv, TypeOK
  <2>2. lane'[w] = [lane[w] EXCEPT !.pc = "count", !.stage = "cause"]
    BY <1>2 DEF TypeInv, TypeOK
  <2>3. QED BY <1>0, <2>1, <2>2 DEF Keeps, Lane, Checking
<1>3. QED BY <1>1, <1>2 DEF ThenCause

\* Of the work on the candidates only PlanCandidate takes one in hand, and only
\* CountClaims makes a lane ready to claim.
LEMMA WorkKeeps ==
  ASSUME TypeInv, NEW w \in Workers, Work(w), ~PlanCandidate(w), ~CountClaims(w)
  PROVE  Keeps(lane[w], lane'[w])
<1>0. lane \in [Workers -> Lane] /\ lane[w] \in Lane BY DEF TypeInv, TypeOK
<1>1. CASE SkipCandidate(w)
  <2>1. PICK s \in lane[w].todo : lane' = [lane EXCEPT ![w].todo = @ \ {s}]
    BY <1>1 DEF SkipCandidate
  <2>2. lane'[w] = [lane[w] EXCEPT !.todo = @ \ {s}] BY <1>0, <2>1
  <2>3. QED BY <1>0, <2>2 DEF Keeps, Lane
<1>2. CASE Claim(w)
  <2>1. lane'[w] = [lane[w] EXCEPT !.pc = "ask", !.room = FALSE] BY <1>0, <1>2 DEF Claim
  <2>2. QED BY <1>0, <1>2, <2>1 DEF Keeps, Lane, Claim, Checking
<1>3. CASE NotClaimed(w)
  <2>1. CASE GotoNext(w) BY <1>3, <2>1, GotoNextKeeps DEF NotClaimed, Checking
  <2>2. CASE ~GotoNext(w)
    <3>1. PICK pc \in {"lookup", "persist"} : lane' = [lane EXCEPT ![w].pc = pc, ![w].room = FALSE]
      BY <1>3, <2>2 DEF NotClaimed
    <3>2. lane'[w] = [lane[w] EXCEPT !.pc = pc, !.room = FALSE] BY <1>0, <3>1
    <3>3. QED BY <1>0, <1>3, <3>2 DEF Keeps, Lane, NotClaimed, Checking
  <2>3. QED BY <2>1, <2>2
<1>4. CASE LookUp(w)
  <2>1. CASE ThenCause(w) BY <1>4, <2>1, ThenCauseKeeps DEF LookUp, Handling
  <2>2. CASE Goto(w, "persist")
    <3>1. lane'[w] = [lane[w] EXCEPT !.pc = "persist"] BY <1>0, <2>2 DEF Goto
    <3>2. QED BY <1>0, <1>4, <3>1 DEF Keeps, Lane, LookUp, Checking
  <2>3. QED BY <1>4, <2>1, <2>2 DEF LookUp
<1>5. CASE AskRender(w)
  <2>1. lane'[w] = [lane[w] EXCEPT !.pc = "persist"] BY <1>0, <1>5 DEF AskRender, Goto
  <2>2. QED BY <1>0, <1>5, <2>1 DEF Keeps, Lane, AskRender, Checking
<1>6. CASE AskCause(w) BY <1>6, GotoNextKeeps DEF AskCause, Checking
<1>7. CASE Persist(w) BY <1>7, ThenCauseKeeps DEF Persist, Handling
<1>8. QED BY <1>1, <1>2, <1>3, <1>4, <1>5, <1>6, <1>7 DEF Work

LEMMA OpenKinds ==
  ASSUME TypeInv, NEW w \in Workers, Open(w)
  PROVE  Keeps(lane[w], lane'[w]) \/ Renews(lane[w], lane'[w])
<1>0. lane \in [Workers -> Lane] /\ lane[w] \in Lane BY DEF TypeInv, TypeOK
<1>1. ASSUME NEW pc \in Opening, lane' = [lane EXCEPT ![w].pc = pc], lane[w].pc \in Opening
      PROVE  Keeps(lane[w], lane'[w])
  <2>1. lane'[w] = [lane[w] EXCEPT !.pc = pc] BY <1>0, <1>1
  <2>2. QED BY <1>0, <1>1, <2>1 DEF Keeps, Lane, Opening, Checking
<1>2. ASSUME lane' = [lane EXCEPT ![w] = Idle] PROVE Renews(lane[w], lane'[w])
  BY <1>0, <1>2 DEF Renews
<1>3. ASSUME NEW from \in Opening, NEW otherwise \in Opening \cup {"idle"},
             InsertRun(w, from, otherwise)
      PROVE  Keeps(lane[w], lane'[w]) \/ Renews(lane[w], lane'[w])
  <2> DEFINE p == lane[w].project
  <2>1. CASE running[p] = None
    <3>1. lane'[w] = [lane[w] EXCEPT !.pc = "next", !.todo = {s \in Signatures : ProjectOf[s] = p}]
      BY <1>0, <1>3, <2>1 DEF InsertRun
    <3>2. lane[w].pc \in Opening BY <1>3 DEF InsertRun
    <3>3. lane'[w].pc = "next" /\ lane'[w].project = lane[w].project /\ lane'[w].sig = lane[w].sig
      BY <1>0, <3>1 DEF Lane
    <3>4. lane'[w].todo = {s \in Signatures : ProjectOf[s] = p} BY <1>0, <3>1, Zenon DEF Lane
    <3>5. QED BY <3>2, <3>3, <3>4, Zenon DEF Renews
  <2>2. CASE running[p] # None /\ otherwise = "idle" BY <1>2, <1>3, <2>2 DEF InsertRun
  <2>3. CASE running[p] # None /\ otherwise # "idle" BY <1>1, <1>3, <2>3 DEF InsertRun
  <2>4. QED BY <2>1, <2>2, <2>3
<1>4. CASE ReclaimRun(w) BY <1>1, <1>4 DEF ReclaimRun, Goto, Opening
<1>5. CASE FindExisting(w) BY <1>1, <1>2, <1>5 DEF FindExisting, Opening
<1>6. QED BY <1>3, <1>4, <1>5 DEF Open, Opening

LEMMA FaultKinds ==
  ASSUME TypeInv, NEW w \in Workers, LaneThrows(w) \/ ConsultThrows(w) \/ Crash(w) \/ Close(w)
  PROVE  Keeps(lane[w], lane'[w]) \/ Renews(lane[w], lane'[w])
<1>0. lane \in [Workers -> Lane] /\ lane[w] \in Lane BY DEF TypeInv, TypeOK
<1>1. ASSUME lane' = [lane EXCEPT ![w] = Idle] PROVE Renews(lane[w], lane'[w])
  BY <1>0, <1>1 DEF Renews
<1>2. CASE Crash(w) \/ Close(w) BY <1>1, <1>2 DEF Crash, Close
<1>3. CASE LaneThrows(w)
  <2>1. CASE lane[w].pc \in Checking \ {"close"}
    <3>1. lane'[w] = [Between(w) EXCEPT !.pc = "close", !.todo = {}]
      BY <1>0, <1>3, <2>1 DEF LaneThrows
    <3>2. /\ lane'[w].pc = "close" /\ lane'[w].project = lane[w].project
          /\ lane'[w].sig = None /\ lane'[w].todo = {}
      BY <3>1 DEF Between, Idle
    <3>3. QED BY <2>1, <3>2, BetweenKeeps
  <2>2. CASE lane[w].pc \notin Checking \ {"close"} BY <1>1, <1>3, <2>2 DEF LaneThrows
  <2>3. QED BY <2>1, <2>2
<1>4. CASE ConsultThrows(w)
  <2>1. PICK s \in lane[w].todo : lane' = [lane EXCEPT ![w].todo = @ \ {s}]
    BY <1>4 DEF ConsultThrows
  <2>2. lane'[w] = [lane[w] EXCEPT !.todo = @ \ {s}] BY <1>0, <2>1
  <2>3. QED BY <1>0, <2>2 DEF Keeps, Lane
<1>5. QED BY <1>2, <1>3, <1>4

\* How a lane may differ after a step.
LEMMA LaneKinds ==
  ASSUME TypeInv, [Next]_vars, NEW w \in Workers
  PROVE  \/ Keeps(lane[w], lane'[w]) \/ Renews(lane[w], lane'[w])
         \/ PlanCandidate(w) \/ CountClaims(w)
<1>0. lane \in [Workers -> Lane] /\ lane[w] \in Lane BY DEF TypeInv, TypeOK
<1>1. CASE Advance
  <2>1. Aged(w) BY <1>1, AdvanceStep
  <2>2. lane'[w] = IF InProgress(w) THEN [lane[w] EXCEPT !.age = @ + 1] ELSE lane[w]
    BY <1>1 DEF Advance
  <2>3. QED BY <1>0, <2>2, SameLaneKeeps DEF Keeps, Lane
<1>2. ASSUME UNCHANGED lane PROVE Keeps(lane[w], lane'[w]) BY <1>2, SameLaneKeeps
<1>3. ASSUME NEW s \in Signatures, Dismiss(s) PROVE UNCHANGED lane BY <1>3 DEF Dismiss
<1>4. ASSUME NEW v \in Workers, v # w,
             \/ Open(v) \/ Work(v) \/ Close(v)
             \/ LaneThrows(v) \/ ConsultThrows(v) \/ Crash(v)
             \/ \E p \in Projects : StartLane(v, p)
      PROVE  lane'[w] = lane[w]
  BY <1>0, <1>4 DEF Open, InsertRun, ReclaimRun, FindExisting, Goto, Work, SkipCandidate,
     PlanCandidate, CountClaims, Claim, NotClaimed, LookUp, ThenCause, GotoNext, AskRender,
     AskCause, Persist, Close, LaneThrows, ConsultThrows, Crash, StartLane
<1>5. ASSUME NEW p \in Projects, StartLane(w, p) PROVE Renews(lane[w], lane'[w])
  <2>1. PICK m \in Configured :
            lane' = [lane EXCEPT ![w] = [Idle EXCEPT !.pc = "insert", !.project = p, !.model = m]]
    BY <1>5 DEF StartLane
  <2>2. lane'[w] = [Idle EXCEPT !.pc = "insert", !.project = p, !.model = m] BY <1>0, <2>1
  <2>3. QED BY <2>2 DEF Renews, Idle
<1>6. QED
  <2>1. CASE \E v \in Workers :
                \/ \E p \in Projects : StartLane(v, p)
                \/ Open(v) \/ Work(v) \/ Close(v)
                \/ LaneThrows(v) \/ ConsultThrows(v) \/ Crash(v)
    BY <1>4, <1>5, <2>1, OpenKinds, WorkKeeps, FaultKinds, SameLaneKeeps
  <2>2. UNCHANGED vars => UNCHANGED lane BY DEF vars
  <2>3. QED BY <1>1, <1>2, <1>3, <2>1, <2>2 DEF Next, Check

\* PlanCandidate and CountClaims, as they change their lane.
LEMMA PlanKind ==
  ASSUME TypeInv, NEW w \in Workers, PlanCandidate(w)
  PROVE  \E s \in lane[w].todo \ dismissed :
            /\ lane'[w].sig = s
            /\ lane'[w].todo = lane[w].todo \ {s}
            /\ lane'[w].project = lane[w].project
            /\ lane'[w].pc \in {"count", "persist"}
<1>0. lane \in [Workers -> Lane] /\ lane[w] \in Lane BY DEF TypeInv, TypeOK
<1>1. PICK s \in lane[w].todo :
          /\ ~IsSuppressed(s)
          /\ lane' = [lane EXCEPT ![w].todo = @ \ {s}, ![w].sig = s, ![w].stage = "render",
                                  ![w].pc = IF lane[w].model THEN "count" ELSE "persist"]
  BY DEF PlanCandidate
<1>2. lane'[w] = [lane[w] EXCEPT !.todo = @ \ {s}, !.sig = s, !.stage = "render",
                                 !.pc = IF lane[w].model THEN "count" ELSE "persist"]
  BY <1>0, <1>1
<1>3. QED BY <1>0, <1>1, <1>2 DEF Lane, IsSuppressed

LEMMA CountKind ==
  ASSUME TypeInv, NEW w \in Workers, CountClaims(w)
  PROVE  /\ lane[w].pc = "count" /\ lane'[w].pc = "claim"
         /\ lane'[w].room = HasRoom(lane[w].project)
         /\ lane'[w].sig = lane[w].sig
         /\ lane'[w].todo = lane[w].todo
         /\ lane'[w].project = lane[w].project
         /\ claims' = claims
         /\ \A v \in Workers : v # w => lane'[v] = lane[v]
<1>0. lane \in [Workers -> Lane] /\ lane[w] \in Lane BY DEF TypeInv, TypeOK
<1>1. lane'[w] = [lane[w] EXCEPT !.pc = "claim", !.room = HasRoom(lane[w].project)]
  BY <1>0 DEF CountClaims
<1>2. QED BY <1>0, <1>1 DEF Lane, CountClaims

LEMMA WholeStep == ASSUME TypeInv, WholeInv, [Next]_vars PROVE WholeInv'
<1> SUFFICES ASSUME NEW w \in Workers PROVE Whole(lane'[w]) BY DEF WholeInv
<1>0. Whole(lane[w]) /\ lane[w] \in Lane BY DEF WholeInv, TypeInv, TypeOK
<1>1. CASE Keeps(lane[w], lane'[w]) BY <1>0, <1>1 DEF Whole, Keeps
<1>2. CASE Renews(lane[w], lane'[w])
  <2>1. CASE lane'[w] = Idle BY <2>1 DEF Whole, Idle, Checking
  <2>2. CASE lane'[w].pc = "insert" /\ lane'[w].sig = None /\ lane'[w].todo = {}
    BY <2>2 DEF Whole, Checking
  <2>3. CASE /\ lane'[w].pc = "next" /\ lane[w].pc \in Opening
             /\ lane'[w].project = lane[w].project /\ lane'[w].sig = lane[w].sig
             /\ lane'[w].todo = {s \in Signatures : ProjectOf[s] = lane[w].project}
    BY <1>0, <2>3 DEF Whole, Checking, Opening
  <2>4. QED BY <1>2, <2>1, <2>2, <2>3 DEF Renews
<1>3. CASE PlanCandidate(w)
  <2>1. PICK s \in lane[w].todo :
            /\ lane'[w].sig = s
            /\ lane'[w].todo = lane[w].todo \ {s}
            /\ lane'[w].project = lane[w].project
            /\ lane'[w].pc \in {"count", "persist"}
    BY <1>3, PlanKind
  <2>2. QED BY <1>0, <2>1 DEF Whole, Checking
<1>4. CASE CountClaims(w) BY <1>0, <1>4, CountKind DEF Whole, Checking
<1>5. QED BY <1>1, <1>2, <1>3, <1>4, LaneKinds

LEMMA WholeInvariant == Spec => []WholeInv
<1>1. Init => WholeInv BY DEF Init, WholeInv, Whole, Idle, Checking
<1>2. TypeInv /\ WholeInv /\ [Next]_vars => WholeInv' BY WholeStep
<1>3. QED BY <1>1, <1>2, RunsInvariant, PTL DEF Spec

\* Who is asked about is in hand.
LEMMA AskedInHand ==
  ASSUME TypeInv, [Next]_vars, NEW c \in Calls, asked'[c] # asked[c]
  PROVE  InHand(c[1])
<1>0. lane \in [Workers -> Lane] /\ asked \in [Calls -> Nat] BY DEF TypeInv, TypeOK
<1>1. ASSUME NEW w \in Workers, NEW x \in Lane, Working(w, x), Spends(w, x) PROVE InHand(c[1])
  <2>1. Asking(w) /\ asked' = [asked EXCEPT ![Call(w)] = @ + 1] BY <1>1 DEF Spends
  <2>2. c = Call(w) BY <1>0, <2>1
  <2>3. QED BY <2>1, <2>2 DEF InHand, Call, Asking, Checking
<1>2. \/ UNCHANGED asked
      \/ \E w \in Workers : Work(w)
  <2>1. CASE UNCHANGED vars BY <2>1 DEF vars
  <2>2. CASE Next BY <2>2, StepKinds DEF Advance, Dismiss, Ends
  <2>3. QED BY <2>1, <2>2
<1>3. QED BY <1>1, <1>2, WorkStep

\* A dismissal ends the spending: a signature no lane has in hand when it is
\* dismissed is never taken up again, and no model is asked about it.
THEOREM DismissalsEndTheSpending == Spec => DismissedCostsNothing
<1>1. ASSUME TypeInv, WholeInv, [Next]_vars, NEW s \in dismissed, ~InHand(s)
      PROVE  ~InHand(s)' /\ \A c \in Calls : c[1] = s => asked'[c] = asked[c]
  <2>1. ASSUME NEW w \in Workers, lane'[w].sig = s, lane'[w].pc \in Checking PROVE FALSE
    <3>0. s # None /\ s \in Signatures BY <1>1, RunsAssumption DEF TypeInv, TypeOK
    <3>1. CASE Keeps(lane[w], lane'[w]) BY <1>1, <2>1, <3>0, <3>1 DEF Keeps, InHand
    <3>2. CASE Renews(lane[w], lane'[w])
      BY <1>1, <2>1, <3>0, <3>2 DEF Renews, Idle, WholeInv, Whole, Opening, Checking
    <3>3. CASE PlanCandidate(w) BY <1>1, <2>1, <3>3, PlanKind
    <3>4. CASE CountClaims(w) BY <1>1, <2>1, <3>4, CountKind DEF InHand, Checking
    <3>5. QED BY <1>1, <3>1, <3>2, <3>3, <3>4, LaneKinds
  <2>2. QED BY <1>1, <2>1, AskedInHand DEF InHand
<1>2. TypeInv /\ WholeInv /\ [Next]_vars =>
        [\A s \in dismissed : ~InHand(s) =>
              /\ ~InHand(s)'
              /\ \A c \in Calls : c[1] = s => asked'[c] = asked[c]]_vars
  BY <1>1
<1>3. QED BY <1>2, RunsInvariant, WholeInvariant, PTL DEF Spec, DismissedCostsNothing

(***************************************************************************)
(* The ceilings, up to the claims in flight.                               *)
(***************************************************************************)

RacingOn(p) == {w \in Workers : Racing(w) /\ lane[w].project = p}
AllRacing == {w \in Workers : Racing(w)}

\* The claims that were made and those that still may be, against a ceiling.
Within(C, R, cap) ==
    IsFiniteSet(C) /\ Cardinality(C) + Cardinality(R) <= cap + Cardinality(Workers) - 1

CapInv ==
    /\ Within(claims, AllRacing, OrgCap)
    /\ \A p \in Projects : Within(ClaimsOf(p), RacingOn(p), ProjectCap)

\* A claim that is made is one fewer that may be, and a lane that is let through
\* saw the ceiling unreached: the others are at most all but one.
LEMMA CapKept ==
  ASSUME NEW C, NEW D, NEW R, NEW Q, NEW cap \in Nat,
         R \subseteq Workers, Q \subseteq Workers, Within(C, R, cap),
         \/ D = C /\ Q \subseteq R
         \/ D = C /\ Cardinality(C) < cap
         \/ \E c : \E w \in R : D = C \cup {c} /\ Q \subseteq R \ {w}
  PROVE  Within(D, Q, cap)
<1>0. /\ IsFiniteSet(C) /\ Cardinality(C) \in Nat
      /\ IsFiniteSet(Workers) /\ Cardinality(Workers) \in Nat
  BY WorkersAssumption, FS_CardinalityType DEF Within
<1>1. IsFiniteSet(R) /\ Cardinality(R) \in Nat BY <1>0, FS_Subset, FS_CardinalityType
<1>2. IsFiniteSet(Q) /\ Cardinality(Q) \in Nat /\ Cardinality(Q) <= Cardinality(Workers)
  BY <1>0, FS_Subset, FS_CardinalityType
<1>3. CASE D = C /\ Q \subseteq R
  <2>1. Cardinality(Q) <= Cardinality(R) BY <1>1, <1>3, FS_Subset
  <2>2. QED BY <1>0, <1>1, <1>2, <1>3, <2>1 DEF Within
<1>4. CASE D = C /\ Cardinality(C) < cap BY <1>0, <1>2, <1>4 DEF Within
<1>5. ASSUME NEW c, NEW w \in R, D = C \cup {c}, Q \subseteq R \ {w} PROVE Within(D, Q, cap)
  <2>a. /\ IsFiniteSet(D)
        /\ Cardinality(D) = IF c \in C THEN Cardinality(C) ELSE Cardinality(C) + 1
    BY <1>0, <1>5, FS_AddElement
  <2>1. Cardinality(D) \in Nat /\ Cardinality(D) <= Cardinality(C) + 1 BY <1>0, <2>a
  <2>2. IsFiniteSet(R \ {w}) /\ Cardinality(R \ {w}) = Cardinality(R) - 1
    BY <1>1, FS_RemoveElement
  <2>3. Cardinality(Q) <= Cardinality(R) - 1 BY <1>5, <2>2, FS_Subset
  <2>4. QED BY <1>0, <1>1, <1>2, <2>a, <2>1, <2>3 DEF Within
<1>6. QED BY <1>3, <1>4, <1>5

\* Only Claim adds to the claims.
LEMMA ClaimsChangeByClaim ==
  ASSUME TypeInv, [Next]_vars
  PROVE  UNCHANGED claims \/ \E w \in Workers : Claim(w)
<1>1. \/ UNCHANGED claims
      \/ \E w \in Workers : Work(w)
  <2>1. CASE UNCHANGED vars BY <2>1 DEF vars
  <2>2. CASE Next BY <2>2, StepKinds DEF Advance, Dismiss, Ends
  <2>3. QED BY <2>1, <2>2
<1>2. ASSUME NEW w \in Workers, Work(w), ~Claim(w) PROVE UNCHANGED claims
  BY <1>2 DEF Work, SkipCandidate, PlanCandidate, CountClaims, NotClaimed, LookUp, AskRender,
     AskCause, Persist
<1>3. QED BY <1>1, <1>2

\* The lane that claims no longer races, and it races for a candidate of its project.
LEMMA ClaimKind ==
  ASSUME TypeInv, WholeInv, NEW w \in Workers, Claim(w)
  PROVE  /\ Racing(w) /\ ~Racing(w)'
         /\ claims' = claims \cup {Call(w)}
         /\ Call(w) \in Calls /\ ProjectOf[Call(w)[1]] = lane[w].project
         /\ \A v \in Workers : v # w => lane'[v] = lane[v]
<1>0. lane \in [Workers -> Lane] /\ lane[w] \in Lane BY DEF TypeInv, TypeOK
<1>1. lane'[w] = [lane[w] EXCEPT !.pc = "ask", !.room = FALSE] BY <1>0 DEF Claim
<1>2. Racing(w) /\ ~Racing(w)' BY <1>0, <1>1 DEF Racing, Claim, MayClaim, Lane
<1>3. Call(w) \in Calls BY CallIsACall DEF Claim, Handling
<1>4. lane[w].sig \in Signatures BY DEF TypeInv, Sound, Claim, Handling
<1>5. ProjectOf[lane[w].sig] = lane[w].project
  BY <1>4, RunsAssumption DEF WholeInv, Whole
<1>6. \A v \in Workers : v # w => lane'[v] = lane[v] BY <1>0 DEF Claim
<1>7. QED BY <1>2, <1>3, <1>5, <1>6 DEF Call, Claim

\* A lane that races did so before, unless it has just counted.
LEMMA RacersAreOld ==
  ASSUME TypeInv, [Next]_vars, NEW w \in Workers, ~CountClaims(w), Racing(w)'
  PROVE  Racing(w) /\ lane'[w].project = lane[w].project
<1>1. lane'[w].pc = "claim" /\ lane'[w].room BY DEF Racing
<1>2. CASE Keeps(lane[w], lane'[w]) BY <1>1, <1>2 DEF Keeps, Racing
<1>3. CASE Renews(lane[w], lane'[w]) BY <1>1, <1>3 DEF Renews, Idle
<1>4. CASE PlanCandidate(w) BY <1>1, <1>4, PlanKind
<1>5. QED BY <1>2, <1>3, <1>4, LaneKinds

LEMMA CapStep == ASSUME TypeInv, WholeInv, CapInv, [Next]_vars PROVE CapInv'
<1>0. OrgCap \in Nat /\ ProjectCap \in Nat BY RunsAssumption
<1>a. AllRacing \subseteq Workers /\ AllRacing' \subseteq Workers BY DEF AllRacing
<1>b. \A p \in Projects : RacingOn(p) \subseteq Workers /\ RacingOn(p)' \subseteq Workers
  BY DEF RacingOn
<1>1. ASSUME NEW w \in Workers, Claim(w) PROVE CapInv'
  <2> DEFINE c == Call(w)
             p == lane[w].project
  <2>0. /\ Racing(w) /\ ~Racing(w)'
        /\ claims' = claims \cup {c}
        /\ ProjectOf[c[1]] = p
        /\ \A v \in Workers : v # w => lane'[v] = lane[v]
    BY <1>1, ClaimKind
  <2> HIDE DEF c, p
  <2>1. \A v \in Workers : Racing(v)' => v # w /\ Racing(v) /\ lane'[v].project = lane[v].project
    BY <2>0 DEF Racing
  <2>2. w \in AllRacing /\ AllRacing' \subseteq AllRacing \ {w} BY <2>0, <2>1 DEF AllRacing
  <2>3. Within(claims', AllRacing', OrgCap)
    BY <1>0, <1>a, <2>0, <2>2, CapKept DEF CapInv
  <2>4. ASSUME NEW q \in Projects PROVE Within(ClaimsOf(q)', RacingOn(q)', ProjectCap)
    <3>0. Within(ClaimsOf(q), RacingOn(q), ProjectCap) BY DEF CapInv
    <3>1. RacingOn(q)' \subseteq RacingOn(q) \ {w} BY <2>1 DEF RacingOn
    <3>2. CASE q = p
      <4>1. ClaimsOf(q)' = ClaimsOf(q) \cup {c} BY <2>0, <3>2 DEF ClaimsOf
      <4>2. w \in RacingOn(q) BY <2>0, <3>2 DEF RacingOn, p
      <4>3. QED BY <1>0, <1>b, <3>0, <3>1, <4>1, <4>2, CapKept
    <3>3. CASE q # p
      <4>1. ClaimsOf(q)' = ClaimsOf(q) BY <2>0, <3>3 DEF ClaimsOf
      <4>2. QED BY <1>0, <1>b, <3>0, <3>1, <4>1, CapKept
    <3>4. QED BY <3>2, <3>3
  <2>5. QED BY <2>3, <2>4 DEF CapInv, Within
<1>2. ASSUME NEW w \in Workers, CountClaims(w) PROVE CapInv'
  <2> DEFINE p == lane[w].project
  <2>0. /\ lane[w].pc = "count" /\ lane'[w].room = HasRoom(p)
        /\ lane'[w].project = p /\ claims' = claims
        /\ \A v \in Workers : v # w => lane'[v] = lane[v]
    BY <1>2, CountKind
  <2>c. \A q \in Projects : ClaimsOf(q)' = ClaimsOf(q) BY <2>0 DEF ClaimsOf
  <2>d. p \in Projects BY <2>0 DEF TypeInv, Sound
  <2> HIDE DEF p
  <2>1. \A v \in Workers : v # w /\ Racing(v)' => Racing(v) /\ lane'[v].project = lane[v].project
    BY <2>0 DEF Racing
  <2>2. Within(claims', AllRacing', OrgCap)
    <3>1. CASE HasRoom(p)
      BY <1>0, <1>a, <2>0, <3>1, CapKept DEF CapInv, HasRoom
    <3>2. CASE ~HasRoom(p)
      <4>1. AllRacing' \subseteq AllRacing BY <2>0, <2>1, <3>2 DEF AllRacing, Racing
      <4>2. QED BY <1>0, <1>a, <2>0, <4>1, CapKept DEF CapInv
    <3>3. QED BY <3>1, <3>2
  <2>3. ASSUME NEW q \in Projects PROVE Within(ClaimsOf(q)', RacingOn(q)', ProjectCap)
    <3>0. Within(ClaimsOf(q), RacingOn(q), ProjectCap) BY DEF CapInv
    <3>1. CASE HasRoom(p) /\ q = p
      <4>1. Cardinality(ClaimsOf(q)) < ProjectCap BY <3>1 DEF HasRoom
      <4>2. QED BY <1>0, <1>b, <2>c, <3>0, <4>1, CapKept
    <3>2. CASE ~(HasRoom(p) /\ q = p)
      <4>1. RacingOn(q)' \subseteq RacingOn(q) BY <2>0, <2>1, <3>2 DEF RacingOn, Racing
      <4>2. QED BY <1>0, <1>b, <2>c, <3>0, <4>1, CapKept
    <3>3. QED BY <3>1, <3>2
  <2>4. QED BY <2>2, <2>3 DEF CapInv, Within
<1>3. ASSUME \A w \in Workers : ~Claim(w) /\ ~CountClaims(w) PROVE CapInv'
  <2>1. UNCHANGED claims BY <1>3, ClaimsChangeByClaim
  <2>2. \A w \in Workers : Racing(w)' => Racing(w) /\ lane'[w].project = lane[w].project
    BY <1>3, RacersAreOld
  <2>3. AllRacing' \subseteq AllRacing BY <2>2 DEF AllRacing
  <2>4. \A p \in Projects : RacingOn(p)' \subseteq RacingOn(p) BY <2>2 DEF RacingOn
  <2>5. \A p \in Projects : ClaimsOf(p)' = ClaimsOf(p) BY <2>1 DEF ClaimsOf
  <2>6. Within(claims', AllRacing', OrgCap) BY <1>0, <1>a, <2>1, <2>3, CapKept DEF CapInv
  <2>7. ASSUME NEW p \in Projects PROVE Within(ClaimsOf(p)', RacingOn(p)', ProjectCap)
    BY <1>0, <1>b, <2>4, <2>5, CapKept DEF CapInv
  <2>8. QED BY <2>6, <2>7 DEF CapInv, Within
<1>4. QED BY <1>1, <1>2, <1>3

LEMMA CapInit == ASSUME Init PROVE CapInv
<1>1. AllRacing = {} /\ \A p \in Projects : RacingOn(p) = {}
  BY DEF Init, Idle, Racing, AllRacing, RacingOn
<1>2. claims = {} /\ \A p \in Projects : ClaimsOf(p) = {} BY DEF Init, ClaimsOf
<1>3. IsFiniteSet({}) /\ Cardinality({}) = 0 BY FS_EmptySet
<1>4. Cardinality(Workers) \in Nat /\ Cardinality(Workers) # 0
  BY WorkersAssumption, FS_EmptySet, FS_CardinalityType
<1>5. \A cap \in Nat : Within({}, {}, cap) BY <1>3, <1>4 DEF Within
<1>6. QED BY <1>1, <1>2, <1>5, RunsAssumption DEF CapInv

\* The ceilings on the model calls of a project and of the organization hold up to
\* one call for each lane but one, however the lanes race.
THEOREM CeilingsHoldUpToRaces == Spec => []CapsHoldUpToRaces
<1>1. CapInv => CapsHoldUpToRaces
  <2>1. \A C, R, cap : R \subseteq Workers /\ cap \in Nat /\ Within(C, R, cap)
                         => Cardinality(C) <= cap + Cardinality(Workers) - 1
    <3>1. SUFFICES ASSUME NEW C, NEW R, NEW cap \in Nat, R \subseteq Workers, Within(C, R, cap)
                   PROVE  Cardinality(C) <= cap + Cardinality(Workers) - 1
      OBVIOUS
    <3>2. IsFiniteSet(C) /\ IsFiniteSet(Workers) /\ IsFiniteSet(R)
      BY <3>1, WorkersAssumption, FS_Subset DEF Within
    <3>3. /\ Cardinality(C) \in Nat /\ Cardinality(Workers) \in Nat /\ Cardinality(R) \in Nat
      BY <3>2, FS_CardinalityType
    <3>4. QED BY <3>1, <3>3 DEF Within
  <2>2. AllRacing \subseteq Workers /\ \A p \in Projects : RacingOn(p) \subseteq Workers
    BY DEF AllRacing, RacingOn
  <2>3. QED BY <2>1, <2>2, RunsAssumption DEF CapInv, CapsHoldUpToRaces
<1>2. TypeInv /\ WholeInv /\ CapInv /\ [Next]_vars => CapInv' BY CapStep
<1>3. QED BY <1>1, <1>2, CapInit, RunsInvariant, WholeInvariant, PTL DEF Spec
=============================================================================

--------------------------- MODULE DeliveryProofs ---------------------------
(***************************************************************************)
(* Theorems about the delivery lane, for any number of findings, channels, *)
(* overlapping ticks, faults and channel moves.                            *)
(***************************************************************************)
EXTENDS Delivery, TLAPS, FiniteSetTheorems

\* The idle record is a tick, and an updated tick is a tick.
LEMMA IdleType == Idle \in Tick
BY DomainAssumption, BoundAssumption DEF Idle, Tick, Ages, NoRef

LEMMA NoRowType == NoRow \in Row
BY BoundAssumption DEF NoRow, Row, Ages, Null, NoRef

LEMMA OlderType == \A a \in Ages \cup {Null} : Older(a) \in Ages \cup {Null}
BY BoundAssumption DEF Older, Ages, Null

LEMMA InitType == Init => TypeOK
<1> SUFFICES ASSUME Init PROVE TypeOK OBVIOUS
<1>1. backlog \in Seq(Findings) /\ slack \in Seq(Pairs) BY DEF Init
<1>2. connection \in [channel : Channels \cup {NoChannel}, cutover : SUBSET Findings]
  BY DEF Init
<1>3. row \in [Pairs -> Row] BY NoRowType DEF Init
<1>4. tick \in [Workers -> Tick] BY IdleType DEF Init
<1>5. QED BY <1>1, <1>2, <1>3, <1>4 DEF Init, TypeOK

LEMMA TickUpdate ==
    ASSUME TypeOK, NEW w \in Workers, NEW t \in Tick, tick' = [tick EXCEPT ![w] = t]
    PROVE  tick' \in [Workers -> Tick]
BY DEF TypeOK

LEMMA RowUpdate ==
    ASSUME TypeOK, NEW p \in Pairs, NEW r \in Row, row' = [row EXCEPT ![p] = r]
    PROVE  row' \in [Pairs -> Row]
BY DEF TypeOK

LEMMA PairType ==
    ASSUME TypeOK, TickShape, NEW w \in Workers,
           tick[w].pc \in {"claim", "post", "record", "fail"}
    PROVE  Pair(w) \in Pairs
BY DEF TypeOK, TickShape, Pair, Pairs, Running

\* A step of one tick that leaves it a well-shaped tick keeps every tick so.
LEMMA TickStep ==
    ASSUME TypeOK, TickShape, NEW w \in Workers, NEW t \in Tick,
           tick' = [tick EXCEPT ![w] = t],
           t.pc # "idle" => t.channel \in Channels /\ t.age <= MaxSpan,
           t.pc \in {"claim", "post", "record", "fail"} => t.chosen \in Findings
    PROVE  tick' \in [Workers -> Tick] /\ TickShape'
BY DEF TypeOK, TickShape, Running

LEMMA ScanTicks ==
    ASSUME TypeOK, TickShape, NEW w \in Workers,
           SkipFinding(w) \/ ConsiderFinding(w) \/ ScanUnreadable(w) \/ EndScan(w)
    PROVE  tick' \in [Workers -> Tick] /\ TickShape'
<1> DEFINE t == tick[w]
<1>1. t \in Tick BY DEF TypeOK
<1>2. t.pc = "scan" BY DEF SkipFinding, ConsiderFinding, ScanUnreadable, EndScan, Scanning
<1>3. t.channel \in Channels /\ t.age <= MaxSpan BY <1>2 DEF TickShape, Running
<1>4. CASE SkipFinding(w) \/ ScanUnreadable(w)
  <2> DEFINE u == [t EXCEPT !.todo = Tail(@)]
  <2>1. t.todo \in Seq(Findings) /\ t.todo # <<>>
    BY <1>1, <1>4 DEF SkipFinding, ScanUnreadable, Scanning, Tick
  <2>2. Tail(t.todo) \in Seq(Findings) BY <2>1
  <2>3. u \in Tick BY <1>1, <2>2 DEF Tick
  <2>4. tick' = [tick EXCEPT ![w] = u] BY <1>4 DEF SkipFinding, ScanUnreadable
  <2>5. u.pc = "scan" /\ u.channel = t.channel /\ u.age = t.age BY <1>1, <1>2 DEF Tick
  <2> HIDE DEF u
  <2>6. QED BY <2>3, <2>4, <2>5, <1>3, TickStep
<1>5. CASE ConsiderFinding(w)
  <2> DEFINE d == row[<<Head(t.todo), t.channel>>]
             n == t.delivered + (IF WasPostedInWindow(d, t.age) THEN 1 ELSE 0)
             S == IF IsSpokenFor(d, t.age) \/ Head(t.todo) \in Unreadable
                  THEN t.ready ELSE t.ready \cup {Head(t.todo)}
             u == [t EXCEPT !.todo = Tail(t.todo), !.considered = t.considered + 1,
                            !.delivered = n, !.ready = S]
  <2>1. t.todo \in Seq(Findings) /\ t.todo # <<>> BY <1>1, <1>5 DEF ConsiderFinding, Scanning, Tick
  <2>2. Tail(t.todo) \in Seq(Findings) /\ Head(t.todo) \in Findings BY <2>1
  <2>3. t.considered + 1 \in Nat /\ n \in Nat BY <1>1 DEF Tick
  <2>4. S \in SUBSET Findings BY <1>1, <2>2 DEF Tick
  <2>5. tick' = [tick EXCEPT ![w] = u] BY <1>5 DEF ConsiderFinding
  <2> HIDE DEF n, S
  <2>6. u \in Tick BY <1>1, <2>2, <2>3, <2>4 DEF Tick
  <2>7. u.pc = "scan" /\ u.channel = t.channel /\ u.age = t.age BY <1>1, <1>2 DEF Tick
  <2> HIDE DEF u
  <2>8. QED BY <2>5, <2>6, <2>7, <1>3, TickStep
<1>6. CASE EndScan(w)
  <2> DEFINE u == [t EXCEPT !.pc = "decide", !.todo = <<>>]
  <2>0. <<>> \in Seq(Findings) OBVIOUS
  <2>1. u \in Tick BY <1>1, <2>0 DEF Tick
  <2>2. tick' = [tick EXCEPT ![w] = u] BY <1>6 DEF EndScan
  <2>3. u.pc = "decide" /\ u.channel = t.channel /\ u.age = t.age BY <1>1 DEF Tick
  <2> HIDE DEF u
  <2>4. QED BY <2>1, <2>2, <2>3, <1>3, TickStep
<1>7. QED BY <1>4, <1>5, <1>6

LEMMA ListTicks ==
    ASSUME TypeOK, TickShape, NEW w \in Workers, ListFindings(w)
    PROVE  tick' \in [Workers -> Tick] /\ TickShape'
<1> DEFINE t == tick[w]
           n == IF Len(backlog) < ReadLimit THEN Len(backlog) ELSE ReadLimit
           u == [t EXCEPT !.pc = "scan", !.todo = SubSeq(backlog, 1, n)]
<1>1. t \in Tick BY DEF TypeOK
<1>2. backlog \in Seq(Findings) /\ n \in Nat /\ n <= Len(backlog)
  BY BoundAssumption DEF TypeOK
<1>3. SubSeq(backlog, 1, n) \in Seq(Findings) BY <1>2
<1>4. u \in Tick BY <1>1, <1>3 DEF Tick
<1>5. tick' = [tick EXCEPT ![w] = u] BY DEF ListFindings
<1>6. t.channel \in Channels /\ t.age <= MaxSpan BY DEF ListFindings, TickShape, Running
<1>7. u.pc = "scan" /\ u.channel = t.channel /\ u.age = t.age BY <1>1 DEF Tick
<1> HIDE DEF u
<1>8. QED BY <1>4, <1>5, <1>6, <1>7, TickStep

\* A tick that ends, for whatever reason.
LEMMA EndTick ==
    ASSUME TypeOK, TickShape, NEW w \in Workers, tick' = [tick EXCEPT ![w] = Idle]
    PROVE  tick' \in [Workers -> Tick] /\ TickShape'
<1>1. Idle.pc = "idle" BY DEF Idle
<1>2. QED BY IdleType, TickStep, <1>1

\* A tick that chooses a finding, claims it, or learns what its post did.
LEMMA DeliverTicks ==
    ASSUME TypeOK, TickShape, NEW w \in Workers,
           DecideDeliver(w) \/ Claim(w) \/ Post(w) \/ PostFails(w) \/ MarkPostedThrows(w)
    PROVE  tick' \in [Workers -> Tick] /\ TickShape'
<1> DEFINE t == tick[w]
<1>1. t \in Tick BY DEF TypeOK
<1>2. t.channel \in Channels /\ t.age <= MaxSpan
  BY DEF DecideDeliver, Claim, Post, PostFails, MarkPostedThrows, TickShape, Running
<1>3. CASE DecideDeliver(w)
  <2>1. PICK f \in Choices(w) : tick' = [tick EXCEPT ![w].pc = "claim", ![w].chosen = f]
    BY <1>3 DEF DecideDeliver
  <2> DEFINE u == [t EXCEPT !.pc = "claim", !.chosen = f]
  <2>2. f \in Findings BY <1>1 DEF Choices, BestOf, Tick
  <2>3. u \in Tick BY <1>1, <2>2 DEF Tick
  <2>4. tick' = [tick EXCEPT ![w] = u] BY <2>1
  <2>5. u.channel = t.channel /\ u.age = t.age /\ u.chosen = f BY <1>1 DEF Tick
  <2> HIDE DEF u
  <2>6. QED BY <1>2, <2>2, <2>3, <2>4, <2>5, TickStep
<1>4. CASE Claim(w) \/ PostFails(w) \/ MarkPostedThrows(w)
  <2> DEFINE s == IF ~Claim(w) THEN "fail" ELSE IF t.chosen \in Poison THEN "fail" ELSE "post"
             u == [t EXCEPT !.pc = s]
  <2>1. s \in {"post", "fail"} OBVIOUS
  <2>2. u \in Tick BY <1>1, <2>1 DEF Tick
  <2>3. tick' = [tick EXCEPT ![w] = u]
    BY <1>4 DEF Claim, PostFails, MarkPostedThrows
  <2>4. u.channel = t.channel /\ u.age = t.age /\ u.chosen = t.chosen BY <1>1 DEF Tick
  <2>5. t.chosen \in Findings BY <1>4 DEF Claim, PostFails, MarkPostedThrows, TickShape
  <2> HIDE DEF u
  <2>6. QED BY <1>2, <2>2, <2>3, <2>4, <2>5, TickStep
<1>5. CASE Post(w)
  <2> DEFINE u == [t EXCEPT !.pc = "record", !.ref = Len(slack) + 1]
  <2>1. Len(slack) + 1 \in Nat BY DEF TypeOK
  <2>2. u \in Tick BY <1>1, <2>1 DEF Tick
  <2>3. tick' = [tick EXCEPT ![w] = u] BY <1>5 DEF Post
  <2>4. u.channel = t.channel /\ u.age = t.age /\ u.chosen = t.chosen BY <1>1 DEF Tick
  <2>5. t.chosen \in Findings BY <1>5 DEF Post, TickShape
  <2> HIDE DEF u
  <2>6. QED BY <1>2, <2>2, <2>3, <2>4, <2>5, TickStep
<1>6. QED BY <1>3, <1>4, <1>5

LEMMA StartTicks ==
    ASSUME TypeOK, TickShape, NEW w \in Workers, StartTick(w)
    PROVE  tick' \in [Workers -> Tick] /\ TickShape'
<1> DEFINE u == [Idle EXCEPT !.pc = "list", !.channel = connection.channel,
                             !.cutover = connection.cutover]
<1>1. CASE connection.channel = NoChannel
  <2>1. UNCHANGED tick BY <1>1 DEF StartTick
  <2>2. QED BY <2>1 DEF TypeOK, TickShape, Running
<1>2. CASE connection.channel # NoChannel
  <2>1. connection.channel \in Channels /\ connection.cutover \in SUBSET Findings
    BY <1>2 DEF TypeOK
  <2> DEFINE a == [Idle EXCEPT !.pc = "list", !.channel = connection.channel]
  <2>a. a \in Tick BY <2>1, IdleType DEF Tick
  <2>b. u = [a EXCEPT !.cutover = connection.cutover] OBVIOUS
  <2> HIDE DEF a
  <2>2. u \in Tick BY <2>1, <2>a, <2>b DEF Tick
  <2>3. tick' = [tick EXCEPT ![w] = u] BY <1>2 DEF StartTick
  <2>4. u.pc = "list" /\ u.channel \in Channels /\ u.age = 0 BY <2>1 DEF Idle
  <2> HIDE DEF u
  <2>5. u.age <= MaxSpan BY <2>4, BoundAssumption
  <2>6. QED BY <2>2, <2>3, <2>4, <2>5, TickStep
<1>3. QED BY <1>1, <1>2

LEMMA AdvanceTicks ==
    ASSUME TypeOK, TickShape, Advance
    PROVE  tick' \in [Workers -> Tick] /\ TickShape'
<1> DEFINE u(w) == IF Running(w) THEN [tick[w] EXCEPT !.age = @ + 1] ELSE tick[w]
<1>1. ASSUME NEW w \in Workers
      PROVE  /\ u(w) \in Tick
             /\ u(w).pc = tick[w].pc /\ u(w).channel = tick[w].channel
             /\ u(w).chosen = tick[w].chosen
             /\ Running(w) => u(w).age <= MaxSpan
  <2>1. tick[w] \in Tick BY DEF TypeOK
  <2>2. CASE Running(w)
    <3>1. tick[w].age < MaxSpan /\ tick[w].age \in Ages BY <2>1, <2>2 DEF Advance, Tick
    <3>2. tick[w].age + 1 \in Ages /\ tick[w].age + 1 <= MaxSpan
      BY <3>1, BoundAssumption DEF Ages
    <3>3. QED BY <2>1, <2>2, <3>2 DEF Tick
  <2>3. CASE ~Running(w) BY <2>1, <2>3
  <2>4. QED BY <2>2, <2>3
<1>2. tick' = [w \in Workers |-> u(w)] BY DEF Advance
<1> HIDE DEF u
<1>3. QED BY <1>1, <1>2 DEF TickShape, Running

LEMMA TickTypes ==
    ASSUME TypeOK, TickShape, [Next]_vars
    PROVE  tick' \in [Workers -> Tick] /\ TickShape'
<1>1. ASSUME NEW w \in Workers, Step(w) \/ Crash(w)
      PROVE  tick' \in [Workers -> Tick] /\ TickShape'
  <2>1. CASE ListFindings(w) BY <2>1, ListTicks
  <2>2. CASE SkipFinding(w) \/ ConsiderFinding(w) \/ ScanUnreadable(w) \/ EndScan(w)
    BY <2>2, ScanTicks
  <2>3. CASE DecideDeliver(w) \/ Claim(w) \/ Post(w) \/ PostFails(w) \/ MarkPostedThrows(w)
    BY <2>3, DeliverTicks
  <2>4. CASE DecideNothing(w) \/ NotClaimed(w) \/ MarkPosted(w) \/ MarkPostedUnannounced(w)
             \/ MarkFailed(w) \/ LaneErrors(w) \/ Crash(w)
    BY <2>4, EndTick
       DEF DecideNothing, NotClaimed, MarkPosted, MarkPostedUnannounced, MarkFailed, LaneErrors, Crash
  <2>5. QED BY <1>1, <2>1, <2>2, <2>3, <2>4 DEF Step
<1>2. ASSUME UNCHANGED tick PROVE tick' \in [Workers -> Tick] /\ TickShape'
  BY <1>2 DEF TypeOK, TickShape, Running
<1>3. ASSUME NEW w \in Workers, StartTick(w) PROVE tick' \in [Workers -> Tick] /\ TickShape'
  BY <1>3, StartTicks
<1>4. ASSUME NEW f \in Findings, Persist(f) \/ Dismiss(f) PROVE UNCHANGED tick
  BY <1>4 DEF Persist, Dismiss
<1>5. ASSUME NEW c \in Channels, AttachChannel(c) \/ RepointChannel(c) PROVE UNCHANGED tick
  BY <1>5 DEF AttachChannel, RepointChannel
<1>6. UNCHANGED vars => UNCHANGED tick BY DEF vars
<1>7. QED BY <1>1, <1>2, <1>3, <1>4, <1>5, <1>6, AdvanceTicks DEF Next

\* What claimForPost, markPosted and markFailed leave is a row.
LEMMA ReceiptedType == \A r \in Row, n \in Nat : Receipted(r, n) \in Row
BY BoundAssumption DEF Receipted, Row, Ages, Null, NoRef

LEMMA ClaimedType == \A r \in Row, a \in Ages : Claimed(r, a) \in Row
BY DEF Claimed, Row

LEMMA FailedType == \A r \in Row : Failed(r) \in Row
BY DEF Failed, Row

LEMMA RowTypes ==
    ASSUME TypeOK, TickShape, [Next]_vars
    PROVE  row' \in [Pairs -> Row]
<1>1. ASSUME NEW w \in Workers, Claim(w) \/ LaneErrors(w) PROVE row' \in [Pairs -> Row]
  <2>1. CASE row' = row BY <2>1 DEF TypeOK
  <2>2. CASE tick[w].pc = "claim" /\ row' = [row EXCEPT ![Pair(w)] = Claimed(@, tick[w].age)]
    <3>1. Pair(w) \in Pairs BY <2>2, PairType
    <3>2. tick[w].age \in Ages BY DEF TypeOK, Tick
    <3>3. Claimed(row[Pair(w)], tick[w].age) \in Row BY <3>1, <3>2, ClaimedType DEF TypeOK
    <3>4. row' = [row EXCEPT ![Pair(w)] = Claimed(row[Pair(w)], tick[w].age)] BY <2>2
    <3>5. QED BY <3>1, <3>3, <3>4, RowUpdate
  <2>3. QED BY <1>1, <2>1, <2>2 DEF Claim, LaneErrors
<1>2. ASSUME NEW w \in Workers,
             MarkPosted(w) \/ MarkPostedUnannounced(w) \/ MarkPostedThrows(w)
      PROVE  row' \in [Pairs -> Row]
  <2>1. Pair(w) \in Pairs
    BY <1>2, PairType DEF MarkPosted, MarkPostedUnannounced, MarkPostedThrows
  <2>2. tick[w].ref \in Nat BY DEF TypeOK, Tick
  <2>3. Receipted(row[Pair(w)], tick[w].ref) \in Row BY <2>1, <2>2, ReceiptedType DEF TypeOK
  <2>4. \/ row' = [row EXCEPT ![Pair(w)] = Receipted(row[Pair(w)], tick[w].ref)]
        \/ row' = row
    BY <1>2 DEF MarkPosted, MarkPostedUnannounced, MarkPostedThrows
  <2>5. QED BY <2>1, <2>3, <2>4, RowUpdate DEF TypeOK
<1>3. ASSUME NEW w \in Workers, MarkFailed(w) PROVE row' \in [Pairs -> Row]
  <2>1. Pair(w) \in Pairs BY <1>3, PairType DEF MarkFailed
  <2>2. Failed(row[Pair(w)]) \in Row BY <2>1, FailedType DEF TypeOK
  <2>3. row' = [row EXCEPT ![Pair(w)] = Failed(row[Pair(w)])] BY <1>3 DEF MarkFailed
  <2>4. QED BY <2>1, <2>2, <2>3, RowUpdate
<1>4. CASE Advance
  <2>1. \A p \in Pairs : [row[p] EXCEPT !.claimAge = Older(@), !.postAge = Older(@)] \in Row
    BY OlderType DEF TypeOK, Row
  <2>2. QED BY <1>4, <2>1 DEF Advance
<1>5. ASSUME UNCHANGED row PROVE row' \in [Pairs -> Row] BY <1>5 DEF TypeOK
<1>6. ASSUME NEW w \in Workers,
             \/ ListFindings(w) \/ SkipFinding(w) \/ ConsiderFinding(w) \/ ScanUnreadable(w)
             \/ EndScan(w) \/ DecideNothing(w) \/ DecideDeliver(w) \/ NotClaimed(w)
             \/ Post(w) \/ PostFails(w) \/ StartTick(w) \/ Crash(w)
      PROVE  UNCHANGED row
  BY <1>6 DEF ListFindings, SkipFinding, ConsiderFinding, ScanUnreadable, EndScan,
              DecideNothing, DecideDeliver, NotClaimed, Post, PostFails, StartTick, Crash
<1>7. ASSUME NEW f \in Findings, Persist(f) \/ Dismiss(f) PROVE UNCHANGED row
  BY <1>7 DEF Persist, Dismiss
<1>8. ASSUME NEW c \in Channels, AttachChannel(c) \/ RepointChannel(c) PROVE UNCHANGED row
  BY <1>8 DEF AttachChannel, RepointChannel
<1>9. UNCHANGED vars => UNCHANGED row BY DEF vars
<1>10. QED BY <1>1, <1>2, <1>3, <1>4, <1>5, <1>6, <1>7, <1>8, <1>9 DEF Next, Step

\* The types of the variables that are neither ticks nor rows.
OthersOK ==
    /\ backlog \in Seq(Findings)
    /\ dismissed \subseteq Findings
    /\ connection \in [channel : Channels \cup {NoChannel}, cutover : SUBSET Findings]
    /\ slack \in Seq(Pairs)
    /\ bell \subseteq Pairs
    /\ due \in Nat
    /\ faults \in Nat
    /\ moves \in Nat

LEMMA OtherTypes ==
    ASSUME TypeOK, TickShape, [Next]_vars
    PROVE  OthersOK'
<1> USE DEF OthersOK
<1>0. OthersOK BY DEF TypeOK
<1>1. ASSUME NEW f \in Findings, Persist(f) \/ Dismiss(f) PROVE OthersOK'
  <2>1. backlog' \in Seq(Findings)
    <3>1. <<f>> \in Seq(Findings) OBVIOUS
    <3>2. <<f>> \o backlog \in Seq(Findings) BY <1>0, <3>1
    <3>3. QED BY <1>0, <1>1, <3>2 DEF Persist, Dismiss
  <2>2. QED BY <1>0, <1>1, <2>1 DEF Persist, Dismiss
<1>2. ASSUME NEW c \in Channels, AttachChannel(c) \/ RepointChannel(c) PROVE OthersOK'
  <2>1. connection' \in [channel : Channels \cup {NoChannel}, cutover : SUBSET Findings]
    <3>1. {f \in Findings : InBacklog(f)} \in SUBSET Findings OBVIOUS
    <3>2. QED BY <1>0, <1>2, <3>1 DEF AttachChannel, RepointChannel
  <2>2. QED BY <1>0, <1>2, <2>1 DEF AttachChannel, RepointChannel
<1>3. CASE Advance
  <2>1. UNCHANGED <<backlog, dismissed, connection, slack, bell, faults, moves>>
    BY <1>3 DEF Advance
  <2>2. due' = due \/ due' = due + 1 BY <1>3 DEF Advance
  <2>3. QED BY <1>0, <2>1, <2>2
<1>4. ASSUME NEW w \in Workers, StartTick(w) \/ Crash(w) \/ LaneErrors(w) PROVE OthersOK'
  <2>1. UNCHANGED <<backlog, dismissed, connection, slack, bell, moves>>
    BY <1>4 DEF StartTick, Crash, LaneErrors
  <2>2. due' \in Nat
    <3>1. CASE StartTick(w)
      <4>1. due > 0 /\ due' = due - 1 BY <3>1 DEF StartTick
      <4>2. QED BY <1>0, <4>1
    <3>2. CASE Crash(w)
      <4>1. due' = due \/ due' = due + 1 BY <3>2 DEF Crash
      <4>2. QED BY <1>0, <4>1
    <3>3. CASE LaneErrors(w) BY <1>0, <3>3 DEF LaneErrors
    <3>4. QED BY <1>4, <3>1, <3>2, <3>3
  <2>3. faults' = faults \/ faults' = faults + 1 BY <1>4 DEF StartTick, Crash, LaneErrors
  <2>4. QED BY <1>0, <2>1, <2>2, <2>3
<1>5. ASSUME NEW w \in Workers,
             \/ ListFindings(w) \/ SkipFinding(w) \/ ConsiderFinding(w) \/ ScanUnreadable(w)
             \/ EndScan(w) \/ DecideNothing(w) \/ DecideDeliver(w) \/ NotClaimed(w) \/ Claim(w)
      PROVE  OthersOK'
  <2>1. UNCHANGED <<backlog, dismissed, connection, slack, bell, due, moves>>
    BY <1>5 DEF ListFindings, SkipFinding, ConsiderFinding, ScanUnreadable, EndScan,
                DecideNothing, DecideDeliver, NotClaimed, Claim
  <2>2. faults' = faults \/ faults' = faults + 1
    BY <1>5 DEF ListFindings, SkipFinding, ConsiderFinding, ScanUnreadable, EndScan,
                DecideNothing, DecideDeliver, NotClaimed, Claim
  <2>3. QED BY <1>0, <2>1, <2>2
<1>6. ASSUME NEW w \in Workers, Post(w) \/ PostFails(w) PROVE OthersOK'
  <2>1. Pair(w) \in Pairs BY <1>6, PairType DEF Post, PostFails
  <2>2. Append(slack, Pair(w)) \in Seq(Pairs) BY <1>0, <2>1
  <2>3. slack' \in Seq(Pairs) BY <1>0, <1>6, <2>2 DEF Post, PostFails
  <2>4. QED BY <1>0, <1>6, <2>3 DEF Post, PostFails
<1>7. ASSUME NEW w \in Workers, \/ MarkPosted(w) \/ MarkPostedUnannounced(w)
                                \/ MarkPostedThrows(w) \/ MarkFailed(w)
      PROVE  OthersOK'
  <2>1. Pair(w) \in Pairs
    BY <1>7, PairType DEF MarkPosted, MarkPostedUnannounced, MarkPostedThrows, MarkFailed
  <2>2. QED
    BY <1>0, <1>7, <2>1 DEF MarkPosted, MarkPostedUnannounced, MarkPostedThrows, MarkFailed
<1>8. CASE UNCHANGED vars BY <1>0, <1>8 DEF vars
<1>9. QED BY <1>1, <1>2, <1>3, <1>4, <1>5, <1>6, <1>7, <1>8 DEF Next, Step

\* Type correctness of the lane: every variable keeps its type, and a tick that
\* chose a finding has one, in the channel of its lane and within its time.
THEOREM TypeCorrect == Spec => [](TypeOK /\ TickShape)
<1>1. Init => TickShape BY DEF Init, TickShape, Running, Idle
<1>2. TypeOK /\ TickShape /\ [Next]_vars => TypeOK' /\ TickShape'
  BY TickTypes, RowTypes, OtherTypes DEF TypeOK, OthersOK
<1>3. QED BY InitType, <1>1, <1>2, PTL DEF Spec

-----------------------------------------------------------------------------
(***************************************************************************)
(* Receipts.                                                               *)
(***************************************************************************)

\* A claim takes a row, whether or not the tick learns of it.
Claims(w) ==
    /\ tick[w].pc = "claim"
    /\ Reclaimable(row[Pair(w)], tick[w].age)
    /\ row' = [row EXCEPT ![Pair(w)] = Claimed(@, tick[w].age)]

\* The steps that write a deliveries row, and what each leaves there.
LEMMA RowWrites ==
    ASSUME [Next]_vars
    PROVE  \/ UNCHANGED row
           \/ Advance
           \/ \E w \in Workers : Claims(w)
           \/ \E w \in Workers : /\ tick[w].pc = "record"
                                 /\ row' = [row EXCEPT ![Pair(w)] = Receipted(@, tick[w].ref)]
           \/ \E w \in Workers : MarkFailed(w)
<1>1. ASSUME NEW w \in Workers, Step(w)
      PROVE  \/ UNCHANGED row
             \/ Claims(w)
             \/ /\ tick[w].pc = "record"
                /\ row' = [row EXCEPT ![Pair(w)] = Receipted(@, tick[w].ref)]
             \/ MarkFailed(w)
  BY <1>1 DEF Step, ListFindings, SkipFinding, ConsiderFinding, ScanUnreadable, EndScan,
              DecideNothing, DecideDeliver, Claim, NotClaimed, Post, PostFails,
              MarkPosted, MarkPostedUnannounced, MarkPostedThrows, LaneErrors, Claims
<1>2. ASSUME NEW w \in Workers, StartTick(w) \/ Crash(w) PROVE UNCHANGED row
  BY <1>2 DEF StartTick, Crash
<1>3. ASSUME NEW f \in Findings, Persist(f) \/ Dismiss(f) PROVE UNCHANGED row
  BY <1>3 DEF Persist, Dismiss
<1>4. ASSUME NEW c \in Channels, AttachChannel(c) \/ RepointChannel(c) PROVE UNCHANGED row
  BY <1>4 DEF AttachChannel, RepointChannel
<1>5. UNCHANGED vars => UNCHANGED row BY DEF vars
<1>6. QED BY <1>1, <1>2, <1>3, <1>4, <1>5 DEF Next

\* What one step does to one row, given that exactly the posted rows have a ref.
LEMMA RowStep ==
    ASSUME TypeOK, TickShape, ReceiptShape, [Next]_vars, NEW p \in Pairs
    PROVE  /\ Posted(p) => row'[p].status = "posted" /\ row'[p].ref = row[p].ref
           /\ row'[p].ref # NoRef <=> row'[p].status = "posted"
           /\ row'[p].status = "posted" =>
                 \/ Posted(p)
                 \/ \E w \in Workers : /\ tick[w].pc = "record"
                                       /\ Pair(w) = p
                                       /\ row'[p].ref = tick[w].ref
<1>1. row[p] \in Row BY DEF TypeOK
<1>2. row[p].ref # NoRef <=> Posted(p) BY DEF ReceiptShape
<1>3. CASE UNCHANGED row BY <1>2, <1>3 DEF Posted
<1>4. CASE Advance
  <2>1. row'[p].status = row[p].status /\ row'[p].ref = row[p].ref BY <1>1, <1>4 DEF Advance, Row
  <2>2. QED BY <1>2, <2>1 DEF Posted
<1>5. ASSUME NEW w \in Workers, Claims(w)
      PROVE  \/ row'[p] = row[p]
             \/ ~Posted(p) /\ row'[p].status = "pending" /\ row'[p].ref = row[p].ref
  <2>1. CASE Pair(w) = p
    <3>1. row'[p] = [row[p] EXCEPT !.status = "pending", !.claimAge = tick[w].age]
      BY <1>5, <2>1 DEF Claims, Claimed, TypeOK
    <3>2. row'[p].status = "pending" /\ row'[p].ref = row[p].ref BY <1>1, <3>1 DEF Row
    <3>3. ~Posted(p) BY <1>5, <2>1 DEF Claims, Reclaimable, Posted
    <3>4. QED BY <3>2, <3>3
  <2>2. CASE Pair(w) # p BY <1>5, <2>2 DEF Claims, TypeOK
  <2>3. QED BY <2>1, <2>2
<1>6. ASSUME NEW w \in Workers, tick[w].pc = "record",
             row' = [row EXCEPT ![Pair(w)] = Receipted(@, tick[w].ref)]
      PROVE  \/ row'[p] = row[p]
             \/ /\ Pair(w) = p
                /\ row'[p].status = "posted"
                /\ row'[p].ref = (IF row[p].ref # NoRef THEN row[p].ref ELSE tick[w].ref)
                /\ tick[w].ref # NoRef
  <2>1. CASE Pair(w) = p
    <3>1. row'[p] = Receipted(row[p], tick[w].ref) BY <1>6, <2>1 DEF TypeOK
    <3>2. tick[w].ref \in DOMAIN slack BY <1>6 DEF ReceiptShape
    <3>3. slack \in Seq(Pairs) BY DEF TypeOK
    <3>4. tick[w].ref # NoRef BY <3>2, <3>3 DEF NoRef
    <3>5. QED BY <2>1, <3>1, <3>4 DEF Receipted
  <2>2. CASE Pair(w) # p BY <1>6, <2>2 DEF TypeOK
  <2>3. QED BY <2>1, <2>2
<1>7. ASSUME NEW w \in Workers, MarkFailed(w)
      PROVE  \/ row'[p] = row[p]
             \/ ~Posted(p) /\ row'[p].status = "failed" /\ row'[p].ref = row[p].ref
  <2>1. CASE Pair(w) = p
    <3>1. row'[p] = Failed(row[p]) BY <1>7, <2>1 DEF MarkFailed, TypeOK
    <3>2. CASE row[p].status \in {"none", "posted"} BY <3>1, <3>2 DEF Failed
    <3>3. CASE row[p].status \notin {"none", "posted"}
      <4>1. row'[p] = [row[p] EXCEPT !.status = "failed", !.claimAge = Null]
        BY <3>1, <3>3 DEF Failed
      <4>2. row'[p].status = "failed" /\ row'[p].ref = row[p].ref BY <1>1, <4>1 DEF Row
      <4>3. QED BY <3>3, <4>2 DEF Posted
    <3>4. QED BY <3>2, <3>3
  <2>2. CASE Pair(w) # p BY <1>7, <2>2 DEF MarkFailed, TypeOK
  <2>3. QED BY <2>1, <2>2
<1>8. CASE \E w \in Workers : Claims(w) BY <1>2, <1>5, <1>8 DEF Posted
<1>9. CASE \E w \in Workers : /\ tick[w].pc = "record"
                              /\ row' = [row EXCEPT ![Pair(w)] = Receipted(@, tick[w].ref)]
  BY <1>2, <1>6, <1>9 DEF Posted
<1>10. CASE \E w \in Workers : MarkFailed(w) BY <1>2, <1>7, <1>10 DEF Posted
<1>11. QED BY <1>3, <1>4, <1>8, <1>9, <1>10, RowWrites

\* Slack only ever gains messages, at the end, and each is about the pair of a
\* tick that was posting.
LEMMA SlackGrows ==
    ASSUME [Next]_vars
    PROVE  \/ UNCHANGED slack
           \/ \E w \in Workers : tick[w].pc = "post" /\ slack' = Append(slack, Pair(w))
<1>1. ASSUME NEW w \in Workers, Step(w)
      PROVE  \/ UNCHANGED slack
             \/ tick[w].pc = "post" /\ slack' = Append(slack, Pair(w))
  BY <1>1 DEF Step, ListFindings, SkipFinding, ConsiderFinding, ScanUnreadable, EndScan,
              DecideNothing, DecideDeliver, Claim, NotClaimed, Post, PostFails,
              MarkPosted, MarkPostedUnannounced, MarkPostedThrows, MarkFailed, LaneErrors
<1>2. ASSUME NEW w \in Workers, StartTick(w) \/ Crash(w) PROVE UNCHANGED slack
  BY <1>2 DEF StartTick, Crash
<1>3. ASSUME NEW f \in Findings, Persist(f) \/ Dismiss(f) PROVE UNCHANGED slack
  BY <1>3 DEF Persist, Dismiss
<1>4. ASSUME NEW c \in Channels, AttachChannel(c) \/ RepointChannel(c) PROVE UNCHANGED slack
  BY <1>4 DEF AttachChannel, RepointChannel
<1>5. UNCHANGED vars \/ Advance => UNCHANGED slack BY DEF vars, Advance
<1>6. QED BY <1>1, <1>2, <1>3, <1>4, <1>5 DEF Next

LEMMA SlackKeeps ==
    ASSUME TypeOK, TickShape, [Next]_vars, NEW i \in DOMAIN slack
    PROVE  i \in DOMAIN slack' /\ slack'[i] = slack[i]
<1>1. slack \in Seq(Pairs) BY DEF TypeOK
<1>2. ASSUME NEW w \in Workers, tick[w].pc = "post", slack' = Append(slack, Pair(w))
      PROVE  i \in DOMAIN slack' /\ slack'[i] = slack[i]
  <2>1. Pair(w) \in Pairs BY <1>2, PairType DEF TypeOK, TickShape, Pair, Pairs, Running, Tick
  <2>2. QED BY <1>1, <1>2, <2>1
<1>3. QED BY <1>2, SlackGrows

\* How one tick moves in a step: it is the acting tick, only grows older, or
\* stays; the acting tick that is about to record has just posted.
LEMMA RecordingTicks ==
    ASSUME TypeOK, TickShape, [Next]_vars, NEW w \in Workers, tick'[w].pc = "record"
    PROVE  \/ tick[w].pc = "record" /\ tick'[w].ref = tick[w].ref /\ Pair(w)' = Pair(w)
           \/ Post(w) /\ Pair(w)' = Pair(w) /\ tick'[w].ref = Len(slack) + 1
<1>1. tick[w] \in Tick BY DEF TypeOK
<1>2. ASSUME NEW v \in Workers, Step(v) \/ Crash(v)
      PROVE  tick'[w] = tick[w] \/ Post(w)
  <2>1. CASE v = w
    <3>1. ~Post(w) => tick'[w].pc # "record"
      BY <1>1, <1>2, <2>1
         DEF Step, TypeOK, ListFindings, SkipFinding, ConsiderFinding, ScanUnreadable,
         EndScan, DecideNothing, DecideDeliver, Claim, NotClaimed, PostFails, MarkPosted,
         MarkPostedUnannounced, MarkPostedThrows, MarkFailed, LaneErrors, Crash, Idle, Tick, Scanning
    <3>2. QED BY <3>1
  <2>2. CASE v # w
    BY <1>2, <2>2 DEF Step, TypeOK, ListFindings, SkipFinding, ConsiderFinding, ScanUnreadable,
       EndScan, DecideNothing, DecideDeliver, Claim, NotClaimed, Post, PostFails, MarkPosted,
       MarkPostedUnannounced, MarkPostedThrows, MarkFailed, LaneErrors, Crash
  <2>3. QED BY <2>1, <2>2
<1>3. CASE Advance
  <2>1. tick'[w] = IF Running(w) THEN [tick[w] EXCEPT !.age = @ + 1] ELSE tick[w]
    BY <1>3 DEF Advance
  <2>2. tick'[w].pc = tick[w].pc /\ tick'[w].ref = tick[w].ref
        /\ tick'[w].chosen = tick[w].chosen /\ tick'[w].channel = tick[w].channel
    BY <1>1, <2>1 DEF Tick
  <2>3. QED BY <2>2 DEF Pair
<1>4. ASSUME NEW v \in Workers, StartTick(v) PROVE tick'[w] = tick[w]
  <2>1. CASE v = w
    <3>1. tick'[w].pc # "record" \/ tick' = tick
      BY <1>4, <2>1 DEF StartTick, Idle, TypeOK
    <3>2. QED BY <3>1
  <2>2. CASE v # w BY <1>4, <2>2 DEF StartTick, TypeOK
  <2>3. QED BY <2>1, <2>2
<1>5. ASSUME NEW f \in Findings, Persist(f) \/ Dismiss(f) PROVE UNCHANGED tick
  BY <1>5 DEF Persist, Dismiss
<1>6. ASSUME NEW c \in Channels, AttachChannel(c) \/ RepointChannel(c) PROVE UNCHANGED tick
  BY <1>6 DEF AttachChannel, RepointChannel
<1>7. UNCHANGED vars => UNCHANGED tick BY DEF vars
<1>8. CASE Post(w)
  <2>1. tick'[w] = [tick[w] EXCEPT !.pc = "record", !.ref = Len(slack) + 1]
    BY <1>8 DEF Post, TypeOK
  <2>2. tick'[w].ref = Len(slack) + 1 /\ tick'[w].chosen = tick[w].chosen
        /\ tick'[w].channel = tick[w].channel
    BY <1>1, <2>1 DEF Tick
  <2>3. QED BY <1>8, <2>2 DEF Pair
<1>9. tick'[w] = tick[w] \/ Post(w) \/ Advance
  BY <1>2, <1>4, <1>5, <1>6, <1>7 DEF Next
<1>10. QED BY <1>3, <1>8, <1>9 DEF Pair

\* The shape that makes receipts final is preserved by every step.
LEMMA ReceiptShapeStep ==
    ASSUME TypeOK, TickShape, ReceiptShape, [Next]_vars
    PROVE  ReceiptShape'
<1>1. \A p \in Pairs : row'[p].ref # NoRef <=> row'[p].status = "posted" BY RowStep
<1>2. ASSUME NEW w \in Workers, tick'[w].pc = "record"
      PROVE  tick'[w].ref \in DOMAIN slack' /\ slack'[tick'[w].ref] = Pair(w)'
  <2>1. CASE tick[w].pc = "record" /\ tick'[w].ref = tick[w].ref /\ Pair(w)' = Pair(w)
    <3>1. tick[w].ref \in DOMAIN slack /\ slack[tick[w].ref] = Pair(w)
      BY <2>1 DEF ReceiptShape
    <3>2. QED BY <2>1, <3>1, SlackKeeps
  <2>2. CASE Post(w) /\ Pair(w)' = Pair(w) /\ tick'[w].ref = Len(slack) + 1
    <3>1. slack \in Seq(Pairs) /\ Pair(w) \in Pairs
      BY <2>2, PairType DEF Post, TypeOK
    <3>2. slack' = Append(slack, Pair(w)) BY <2>2 DEF Post
    <3>3. QED BY <2>2, <3>1, <3>2
  <2>3. QED BY <1>2, <2>1, <2>2, RecordingTicks
<1>3. QED BY <1>1, <1>2 DEF ReceiptShape, Posted

LEMMA ReceiptNamesStep ==
    ASSUME TypeOK, TickShape, ReceiptShape, ReceiptNamesItsMessage, [Next]_vars
    PROVE  ReceiptNamesItsMessage'
<1> SUFFICES ASSUME NEW p \in Pairs, row'[p].status = "posted"
             PROVE  row'[p].ref \in DOMAIN slack' /\ slack'[row'[p].ref] = p
  BY DEF ReceiptNamesItsMessage, Posted
<1>1. CASE Posted(p)
  <2>1. row[p].ref \in DOMAIN slack /\ slack[row[p].ref] = p
    BY <1>1 DEF ReceiptNamesItsMessage
  <2>2. QED BY <1>1, <2>1, RowStep, SlackKeeps
<1>2. CASE \E w \in Workers : tick[w].pc = "record" /\ Pair(w) = p /\ row'[p].ref = tick[w].ref
  <2>1. row'[p].ref \in DOMAIN slack /\ slack[row'[p].ref] = p BY <1>2 DEF ReceiptShape
  <2>2. QED BY <2>1, SlackKeeps
<1>3. QED BY <1>1, <1>2, RowStep

\* The inductive invariant behind the receipt properties.
ReceiptInv == TypeOK /\ TickShape /\ ReceiptShape /\ ReceiptNamesItsMessage

LEMMA ReceiptInvariant == Spec => []ReceiptInv
<1>1. Init => ReceiptInv
  <2>1. Init => ReceiptShape /\ ReceiptNamesItsMessage /\ TickShape
    BY
       DEF Init, ReceiptShape, ReceiptNamesItsMessage, TickShape, Running, Idle, Posted, NoRow, NoRef
  <2>2. QED BY <2>1, InitType DEF ReceiptInv
<1>2. ReceiptInv /\ [Next]_vars => ReceiptInv'
  BY TickTypes, RowTypes, OtherTypes, ReceiptShapeStep, ReceiptNamesStep
     DEF ReceiptInv, TypeOK, OthersOK
<1>3. QED BY <1>1, <1>2, PTL DEF Spec

\* Whatever crashes, overlaps or loses its answer, the message a posted row
\* names was accepted by Slack and is about that finding in that channel.
THEOREM ReceiptsNameTheirMessages == Spec => []ReceiptNamesItsMessage
BY ReceiptInvariant, PTL DEF ReceiptInv

\* Whatever crashes, overlaps or loses its answer, and however long a tick runs
\* past its lease, a posted delivery stays posted and keeps its message.
THEOREM ReceiptsStayFinal == Spec => ReceiptsAreFinal
<1>1. ReceiptInv /\ [Next]_vars => [KeepsReceipts]_vars
  BY RowStep DEF ReceiptInv, KeepsReceipts
<1>2. QED BY ReceiptInvariant, <1>1, PTL DEF Spec, ReceiptsAreFinal

-----------------------------------------------------------------------------
(***************************************************************************)
(* The lease. From here on ticks end within the lifetime of their claims.  *)
(***************************************************************************)

LeaseInv == TypeOK /\ TickShape /\ ReceiptShape /\ LeaseShape

\* A step moves one tick, unless it is the passing of time.
LEMMA OtherTicks ==
    ASSUME TypeOK, NEW w \in Workers, Step(w) \/ StartTick(w) \/ Crash(w),
           NEW v \in Workers, v # w
    PROVE  tick'[v] = tick[v]
BY DEF Step, TypeOK, ListFindings, SkipFinding, ConsiderFinding, ScanUnreadable,
       EndScan, DecideNothing, DecideDeliver, Claim, NotClaimed, Post, PostFails, MarkPosted,
       MarkPostedUnannounced, MarkPostedThrows, MarkFailed, LaneErrors, Crash, StartTick

\* Steps that neither give a tick a claim nor touch the row of one that has it.
LEMMA LeaseFrame ==
    ASSUME LeaseShape,
           \A v \in Workers : Holding(v)' =>
               /\ Holding(v)
               /\ Pair(v)' = Pair(v)
               /\ tick'[v].age = tick[v].age
               /\ tick[v].pc = "fail" => tick'[v].pc = "fail"
               /\ row'[Pair(v)] = row[Pair(v)]
    PROVE  LeaseShape'
BY DEF LeaseShape, Posted

\* The parts of a tick that do not change while it holds a claim.
LEMMA HoldingSteps ==
    ASSUME TypeOK, TickShape, NEW w \in Workers,
           Post(w) \/ PostFails(w) \/ MarkPostedThrows(w)
    PROVE  /\ Holding(w) /\ Holding(w)' /\ Pair(w)' = Pair(w) /\ tick'[w].age = tick[w].age
           /\ tick[w].pc # "fail"
<1> DEFINE t == tick[w]
<1>1. t \in Tick BY DEF TypeOK
<1>2. CASE Post(w)
  <2>1. tick'[w] = [t EXCEPT !.pc = "record", !.ref = Len(slack) + 1] BY <1>2 DEF Post, TypeOK
  <2>2. tick'[w].pc = "record" /\ tick'[w].age = t.age /\ tick'[w].chosen = t.chosen
        /\ tick'[w].channel = t.channel
    BY <1>1, <2>1 DEF Tick
  <2>3. QED BY <1>2, <2>2 DEF Post, Holding, Pair
<1>3. CASE PostFails(w) \/ MarkPostedThrows(w)
  <2>1. tick'[w] = [t EXCEPT !.pc = "fail"] BY <1>3 DEF PostFails, MarkPostedThrows, TypeOK
  <2>2. tick'[w].pc = "fail" /\ tick'[w].age = t.age /\ tick'[w].chosen = t.chosen
        /\ tick'[w].channel = t.channel
    BY <1>1, <2>1 DEF Tick
  <2>3. QED BY <1>3, <2>2 DEF PostFails, MarkPostedThrows, Holding, Pair
<1>4. QED BY <1>2, <1>3

LEMMA QuietLease ==
    ASSUME LeaseInv, NEW w \in Workers,
           \/ ListFindings(w) \/ SkipFinding(w) \/ ConsiderFinding(w) \/ ScanUnreadable(w)
           \/ EndScan(w) \/ DecideNothing(w) \/ DecideDeliver(w) \/ NotClaimed(w)
           \/ StartTick(w) \/ Crash(w)
    PROVE  LeaseShape'
<1>1. TypeOK BY DEF LeaseInv
<1>2. row' = row
  BY DEF ListFindings, SkipFinding, ConsiderFinding, ScanUnreadable, EndScan,
         DecideNothing, DecideDeliver, NotClaimed, StartTick, Crash
<1>3. \A v \in Workers : v # w => tick'[v] = tick[v] BY <1>1, OtherTicks DEF Step
<1>4. tick'[w] = tick[w] \/ ~Holding(w)'
  <2>1. tick[w] \in Tick BY <1>1 DEF TypeOK
  <2>2. CASE ListFindings(w) \/ EndScan(w)
    BY <1>1, <2>1, <2>2 DEF TypeOK, Tick, ListFindings, EndScan, Holding
  <2>3. CASE SkipFinding(w) \/ ConsiderFinding(w) \/ ScanUnreadable(w)
    <3>1. tick'[w].pc = "scan"
      BY <1>1, <2>1, <2>3 DEF TypeOK, Tick, SkipFinding, ConsiderFinding, ScanUnreadable, Scanning
    <3>2. QED BY <3>1 DEF Holding
  <2>4. CASE DecideDeliver(w)
    <3>0. PICK f \in Choices(w) : tick' = [tick EXCEPT ![w].pc = "claim", ![w].chosen = f]
      BY <2>4 DEF DecideDeliver
    <3>1. tick'[w].pc = "claim" BY <1>1, <2>1, <3>0 DEF TypeOK, Tick
    <3>2. QED BY <3>1 DEF Holding
  <2>5. CASE DecideNothing(w) \/ NotClaimed(w) \/ Crash(w)
    BY <1>1, <2>5 DEF TypeOK, DecideNothing, NotClaimed, Crash, Holding, Idle
  <2>6. CASE StartTick(w) BY <1>1, <2>6 DEF TypeOK, StartTick, Holding, Idle
  <2>7. QED BY <2>2, <2>3, <2>4, <2>5, <2>6
<1>5. QED BY <1>2, <1>3, <1>4, LeaseFrame DEF LeaseInv, Holding, Pair

\* Two ticks that hold claims hold different ones, so what one of them does to
\* its row leaves the others alone.
LEMMA OutcomeLease ==
    ASSUME LeaseInv, NEW w \in Workers,
           MarkPosted(w) \/ MarkPostedUnannounced(w) \/ MarkFailed(w)
    PROVE  LeaseShape'
<1>1. TypeOK BY DEF LeaseInv
<1>2. Holding(w) BY DEF MarkPosted, MarkPostedUnannounced, MarkFailed, Holding
<1>3. ~Holding(w)'
  BY <1>1 DEF MarkPosted, MarkPostedUnannounced, MarkFailed, Holding, Idle, TypeOK
<1>4. ASSUME NEW v \in Workers, v # w, Holding(v)
      PROVE  tick'[v] = tick[v] /\ row'[Pair(v)] = row[Pair(v)]
  <2>1. tick'[v] = tick[v] BY <1>1, <1>4, OtherTicks DEF Step
  <2>2. Pair(v) # Pair(w) BY <1>2, <1>4 DEF LeaseInv, LeaseShape
  <2>3. Pair(v) \in Pairs BY <1>4, PairType DEF LeaseInv, Holding
  <2>4. QED
    BY <1>1, <2>1, <2>2, <2>3 DEF MarkPosted, MarkPostedUnannounced, MarkFailed, TypeOK
<1>5. \A v \in Workers : Holding(v)' /\ v # w => Holding(v)
  BY <1>1, OtherTicks DEF Step, Holding
<1>6. QED BY <1>3, <1>4, <1>5, LeaseFrame DEF LeaseInv, Holding, Pair

LEMMA PostLease ==
    ASSUME LeaseInv, NEW w \in Workers, Post(w) \/ PostFails(w) \/ MarkPostedThrows(w)
    PROVE  LeaseShape'
<1>1. TypeOK /\ TickShape BY DEF LeaseInv
<1>2. /\ Holding(w) /\ Holding(w)' /\ Pair(w)' = Pair(w) /\ tick'[w].age = tick[w].age
      /\ tick[w].pc # "fail"
  BY <1>1, HoldingSteps
<1>3. \A v \in Workers : v # w => tick'[v] = tick[v] BY <1>1, OtherTicks DEF Step
<1>4. CASE row' = row
  <2>1. \A v \in Workers : Holding(v)' =>
               /\ Holding(v)
               /\ Pair(v)' = Pair(v)
               /\ tick'[v].age = tick[v].age
               /\ tick[v].pc = "fail" => tick'[v].pc = "fail"
    BY <1>2, <1>3 DEF Holding, Pair
  <2>2. QED BY <1>4, <2>1, LeaseFrame DEF LeaseInv
<1>5. CASE MarkPostedThrows(w) /\ row' = [row EXCEPT ![Pair(w)] = Receipted(@, tick[w].ref)]
  <2>1. Pair(w) \in Pairs BY <1>1, <1>5, PairType DEF MarkPostedThrows
  <2>2. row'[Pair(w)].status = "posted" BY <1>1, <1>5, <2>1 DEF TypeOK, Receipted
  <2>3. tick'[w].pc = "fail" BY <1>1, <1>5 DEF MarkPostedThrows, TypeOK, Tick
  <2>4. ASSUME NEW v \in Workers, v # w, Holding(v)
        PROVE  Pair(v)' = Pair(v) /\ Pair(v) # Pair(w) /\ row'[Pair(v)] = row[Pair(v)]
    <3>1. Pair(v) # Pair(w) BY <1>2, <2>4 DEF LeaseInv, LeaseShape
    <3>2. Pair(v) \in Pairs BY <1>1, <2>4, PairType DEF Holding
    <3>3. QED BY <1>1, <1>3, <1>5, <2>4, <3>1, <3>2 DEF TypeOK, Pair
  <2>5. \A v \in Workers : Holding(v)' <=> Holding(v) BY <1>2, <1>3 DEF Holding
  <2>6. ASSUME NEW v \in Workers, Holding(v)'
        PROVE  \/ row'[Pair(v)'].status = "pending" /\ row'[Pair(v)'].claimAge = tick'[v].age
               \/ tick'[v].pc = "fail" /\ row'[Pair(v)'].status = "posted"
    <3>1. CASE v = w BY <1>2, <2>2, <2>3, <3>1
    <3>2. CASE v # w
      <4>1. Holding(v) /\ tick'[v] = tick[v] BY <1>3, <2>5, <2>6, <3>2
      <4>2. QED BY <2>4, <3>2, <4>1 DEF LeaseInv, LeaseShape, Posted
    <3>3. QED BY <3>1, <3>2
  <2>7. \A u, v \in Workers : u # v /\ Holding(u)' /\ Holding(v)' => Pair(u)' # Pair(v)'
    BY <1>2, <2>4, <2>5 DEF LeaseInv, LeaseShape
  <2>8. QED BY <2>6, <2>7 DEF LeaseShape, Posted
<1>6. QED BY <1>4, <1>5 DEF Post, PostFails, MarkPostedThrows

\* A claim that is held is never reclaimed: its lease outlives its tick.
LEMMA HeldIsNotReclaimable ==
    ASSUME LeaseInv, MaxSpan <= TTL, NEW v \in Workers, Holding(v), NEW a \in Nat
    PROVE  ~Reclaimable(row[Pair(v)], a)
<1> SUFFICES ASSUME Reclaimable(row[Pair(v)], a) PROVE FALSE OBVIOUS
<1>1. CASE row[Pair(v)].status = "pending" /\ row[Pair(v)].claimAge = tick[v].age
  <2>1. tick[v].age > a + TTL BY <1>1 DEF Reclaimable
  <2>2. tick[v].age <= MaxSpan BY DEF LeaseInv, TickShape, Running, Holding
  <2>3. tick[v].age \in Nat BY BoundAssumption DEF LeaseInv, TypeOK, Tick, Ages
  <2>4. TTL \in Nat /\ MaxSpan \in Nat BY BoundAssumption
  <2>5. QED BY <2>1, <2>2, <2>3, <2>4
<1>2. CASE Posted(Pair(v)) BY <1>2 DEF Reclaimable, Posted
<1>3. QED BY <1>1, <1>2 DEF LeaseInv, LeaseShape

LEMMA ClaimLease ==
    ASSUME LeaseInv, MaxSpan <= TTL, NEW w \in Workers, Claim(w)
    PROVE  LeaseShape'
<1> DEFINE t == tick[w]
<1>1. TypeOK /\ TickShape BY DEF LeaseInv
<1>2. t \in Tick /\ t.age \in Nat
  <2>1. t \in Tick BY <1>1 DEF TypeOK
  <2>2. t.age \in Ages BY <2>1 DEF Tick
  <2>3. QED BY <2>1, <2>2, BoundAssumption DEF Ages
<1>3. Pair(w) \in Pairs BY <1>1, PairType DEF Claim
<1>4. ~Holding(w) BY DEF Claim, Holding
<1>5. Pair(w)' = Pair(w) /\ tick'[w].age = t.age
  <2>1. PICK s : tick' = [tick EXCEPT ![w].pc = s] BY DEF Claim
  <2>2. tick'[w] = [t EXCEPT !.pc = s] BY <1>1, <2>1 DEF TypeOK
  <2>3. QED BY <1>2, <2>2 DEF Tick, Pair
<1>6. /\ row'[Pair(w)].status = "pending" /\ row'[Pair(w)].claimAge = t.age
  <2>1. row[Pair(w)] \in Row BY <1>1, <1>3 DEF TypeOK
  <2>2. row'[Pair(w)] = [row[Pair(w)] EXCEPT !.status = "pending", !.claimAge = t.age]
    BY <1>1, <1>3 DEF TypeOK, Claim, Claimed
  <2>3. QED BY <2>1, <2>2 DEF Row
<1>7. ASSUME NEW v \in Workers, v # w, Holding(v)
      PROVE  Pair(v) # Pair(w) /\ Pair(v)' = Pair(v) /\ row'[Pair(v)] = row[Pair(v)]
  <2>1. tick'[v] = tick[v] BY <1>1, <1>7, OtherTicks DEF Step
  <2>2. Pair(v) \in Pairs BY <1>1, <1>7, PairType DEF Holding
  <2>3. Pair(v) # Pair(w) BY <1>2, <1>7, HeldIsNotReclaimable DEF Claim
  <2>4. row'[Pair(v)] = row[Pair(v)] BY <1>1, <2>2, <2>3 DEF Claim, TypeOK
  <2>5. QED BY <2>1, <2>3, <2>4 DEF Pair
<1>8. \A v \in Workers : v # w => tick'[v] = tick[v] BY <1>1, OtherTicks DEF Step
<1>9. ASSUME NEW v \in Workers, Holding(v)'
      PROVE  \/ row'[Pair(v)'].status = "pending" /\ row'[Pair(v)'].claimAge = tick'[v].age
             \/ tick'[v].pc = "fail" /\ row'[Pair(v)'].status = "posted"
  <2>1. CASE v = w BY <1>5, <1>6, <2>1
  <2>2. CASE v # w
    <3>1. Holding(v) /\ tick'[v] = tick[v] BY <1>8, <1>9, <2>2 DEF Holding
    <3>2. QED BY <1>7, <2>2, <3>1 DEF LeaseInv, LeaseShape, Posted
  <2>3. QED BY <2>1, <2>2
<1>10. ASSUME NEW u \in Workers, NEW v \in Workers, u # v, Holding(u)', Holding(v)'
       PROVE  Pair(u)' # Pair(v)'
  <2>1. \A x \in Workers : x # w /\ Holding(x)' => Holding(x) BY <1>8 DEF Holding
  <2>2. QED BY <1>5, <1>7, <1>10, <2>1 DEF LeaseInv, LeaseShape
<1>11. QED BY <1>9, <1>10 DEF LeaseShape, Posted

\* A lane that errors may leave a claim behind, which no other tick held.
LEMMA ErrorLease ==
    ASSUME LeaseInv, MaxSpan <= TTL, NEW w \in Workers, LaneErrors(w)
    PROVE  LeaseShape'
<1>1. TypeOK /\ TickShape BY DEF LeaseInv
<1>2. ~Holding(w)' BY <1>1 DEF LaneErrors, Holding, Idle, TypeOK
<1>3. \A v \in Workers : v # w => tick'[v] = tick[v] BY <1>1, OtherTicks DEF Step
<1>4. ASSUME NEW v \in Workers, v # w, Holding(v)
      PROVE  row'[Pair(v)] = row[Pair(v)]
  <2>1. CASE row' = row BY <2>1
  <2>2. CASE Claims(w)
    <3>1. tick[w].age \in Nat BY <1>1, BoundAssumption DEF TypeOK, Tick, Ages
    <3>2. Pair(v) # Pair(w) BY <1>4, <2>2, <3>1, HeldIsNotReclaimable DEF Claims
    <3>3. Pair(v) \in Pairs BY <1>1, <1>4, PairType DEF Holding
    <3>4. QED BY <1>1, <2>2, <3>2, <3>3 DEF Claims, TypeOK
  <2>3. QED BY <2>1, <2>2 DEF LaneErrors, Claims
<1>5. QED BY <1>2, <1>3, <1>4, LeaseFrame DEF LeaseInv, Holding, Pair

\* Claims and the ticks that hold them grow old together.
LEMMA AdvanceLease ==
    ASSUME LeaseInv, Advance
    PROVE  LeaseShape'
<1>1. TypeOK /\ TickShape BY DEF LeaseInv
<1>2. ASSUME NEW v \in Workers
      PROVE  /\ tick'[v].pc = tick[v].pc /\ Pair(v)' = Pair(v)
             /\ Holding(v) => tick'[v].age = tick[v].age + 1
  <2>1. tick[v] \in Tick BY <1>1 DEF TypeOK
  <2>2. CASE Running(v)
    <3>1. tick'[v] = [tick[v] EXCEPT !.age = @ + 1] BY <2>2 DEF Advance
    <3>2. QED BY <2>1, <3>1 DEF Tick, Pair
  <2>3. CASE ~Running(v)
    <3>1. tick'[v] = tick[v] BY <2>3 DEF Advance
    <3>2. QED BY <2>3, <3>1 DEF Pair, Holding, Running
  <2>4. QED BY <2>2, <2>3
<1>3. ASSUME NEW p \in Pairs
      PROVE  row'[p].status = row[p].status /\ row'[p].claimAge = Older(row[p].claimAge)
  <2>1. row[p] \in Row BY <1>1 DEF TypeOK
  <2>2. row'[p] = [row[p] EXCEPT !.claimAge = Older(@), !.postAge = Older(@)] BY DEF Advance
  <2>3. QED BY <2>1, <2>2 DEF Row
<1>4. ASSUME NEW v \in Workers, Holding(v)
      PROVE  \/ /\ row'[Pair(v)].status = "pending"
                /\ row'[Pair(v)].claimAge = tick[v].age + 1
             \/ tick[v].pc = "fail" /\ row'[Pair(v)].status = "posted"
  <2>1. Pair(v) \in Pairs BY <1>1, <1>4, PairType DEF Holding
  <2>2. tick[v].age < MaxSpan BY <1>4 DEF Advance, Running, Holding
  <2>3. tick[v].age \in Nat BY <1>1, BoundAssumption DEF TypeOK, Tick, Ages
  <2>4. Horizon \in Nat /\ MaxSpan \in Nat /\ Horizon > MaxSpan BY BoundAssumption
  <2>5. Older(tick[v].age) = tick[v].age + 1 BY <2>2, <2>3, <2>4 DEF Older, Null
  <2>6. QED BY <1>3, <1>4, <2>1, <2>5 DEF LeaseInv, LeaseShape, Posted
<1>5. \A v \in Workers : Holding(v)' <=> Holding(v) BY <1>2 DEF Holding
<1>6. QED BY <1>2, <1>4, <1>5 DEF LeaseInv, LeaseShape, Posted

LEMMA LeaseStep ==
    ASSUME LeaseInv, MaxSpan <= TTL, [Next]_vars
    PROVE  LeaseShape'
<1>1. ASSUME NEW w \in Workers, StartTick(w) \/ Step(w) \/ Crash(w) PROVE LeaseShape'
  BY <1>1, QuietLease, OutcomeLease, PostLease, ClaimLease, ErrorLease DEF Step
<1>2. ASSUME UNCHANGED <<row, tick>> PROVE LeaseShape'
  BY <1>2 DEF LeaseInv, LeaseShape, Holding, Pair, Posted
<1>3. ASSUME NEW f \in Findings, Persist(f) \/ Dismiss(f) PROVE UNCHANGED <<row, tick>>
  BY <1>3 DEF Persist, Dismiss
<1>4. ASSUME NEW c \in Channels, AttachChannel(c) \/ RepointChannel(c)
      PROVE  UNCHANGED <<row, tick>>
  BY <1>4 DEF AttachChannel, RepointChannel
<1>5. UNCHANGED vars => UNCHANGED <<row, tick>> BY DEF vars
<1>6. QED BY <1>1, <1>2, <1>3, <1>4, <1>5, AdvanceLease DEF Next

LEMMA LeaseInvariant ==
    ASSUME MaxSpan <= TTL
    PROVE  Spec => []LeaseInv
<1>1. Init => LeaseInv
  <2>1. Init => ReceiptShape /\ TickShape /\ LeaseShape
    BY DEF Init, ReceiptShape, TickShape, Running, Idle, Posted, NoRow, NoRef, LeaseShape, Holding
  <2>2. QED BY <2>1, InitType DEF LeaseInv
<1>2. LeaseInv /\ [Next]_vars => LeaseInv'
  BY TickTypes, RowTypes, OtherTypes, ReceiptShapeStep, LeaseStep DEF LeaseInv, TypeOK, OthersOK
<1>3. QED BY <1>1, <1>2, PTL DEF Spec

\* The claim is a lock, for any number of overlapping ticks that crash and lose
\* answers, as long as every tick ends within the lifetime of its claim.
THEOREM ClaimIsALock ==
    ASSUME MaxSpan <= TTL
    PROVE  Spec => []ExclusivePosting
<1>1. LeaseInv => ExclusivePosting
  BY DEF LeaseInv, LeaseShape, ExclusivePosting, Speaking, Holding
<1>2. QED BY LeaseInvariant, <1>1, PTL

-----------------------------------------------------------------------------
(***************************************************************************)
(* What a message said again costs.                                        *)
(***************************************************************************)

Recording(w) == tick[w].pc = "record"

\* The deliveries whose message has an answer: a receipt, or a tick about to
\* record one.
Answered == {p \in Pairs : Posted(p) \/ \E w \in Workers : Recording(w) /\ Pair(w) = p}

\* Every message is the one of its delivery that was answered, or was paid for by
\* a fault. The answered deliveries are exact where the messages said are not: a
\* delivery whose answer was lost may be said again.
PriceInv == IsFiniteSet(Answered) /\ Len(slack) <= faults + Cardinality(Answered)

LEMMA AnswersArePairs ==
    ASSUME LeaseInv, NEW w \in Workers, Recording(w)
    PROVE  Pair(w) \in Pairs /\ Pair(w) \in Answered
BY PairType DEF LeaseInv, Recording, Answered

\* A tick stops being about to record when the receipt is there, or by a fault.
LEMMA StopsRecording ==
    ASSUME LeaseInv, [Next]_vars, NEW w \in Workers, Recording(w)
    PROVE  \/ Recording(w)' /\ Pair(w)' = Pair(w)
           \/ row'[Pair(w)].status = "posted"
           \/ Crash(w) \/ MarkPostedThrows(w)
<1>1. TypeOK /\ TickShape /\ tick[w] \in Tick /\ Pair(w) \in Pairs
  BY AnswersArePairs DEF LeaseInv, TypeOK
<1>2. CASE UNCHANGED tick BY <1>2 DEF Recording, Pair
<1>3. CASE Advance
  <2>1. tick'[w] = [tick[w] EXCEPT !.age = @ + 1] BY <1>3 DEF Advance, Running, Recording
  <2>2. QED BY <1>1, <2>1 DEF Tick, Recording, Pair
<1>4. ASSUME NEW v \in Workers, Step(v) \/ StartTick(v) \/ Crash(v)
      PROVE  \/ Recording(w)' /\ Pair(w)' = Pair(w)
             \/ row'[Pair(w)].status = "posted"
             \/ Crash(w) \/ MarkPostedThrows(w)
  <2>1. CASE v # w
    <3>1. tick'[w] = tick[w] BY <1>1, <1>4, <2>1, OtherTicks
    <3>2. QED BY <3>1 DEF Recording, Pair
  <2>2. CASE v = w
    <3>1. MarkPosted(w) \/ MarkPostedUnannounced(w) \/ MarkPostedThrows(w) \/ Crash(w)
      BY <1>4, <2>2 DEF Step, ListFindings, SkipFinding, ConsiderFinding, ScanUnreadable, EndScan,
         DecideNothing, DecideDeliver, Claim, NotClaimed, Post, PostFails, MarkFailed, LaneErrors,
         StartTick, Recording, Running, Scanning
    <3>2. MarkPosted(w) \/ MarkPostedUnannounced(w) => row'[Pair(w)].status = "posted"
      BY <1>1 DEF MarkPosted, MarkPostedUnannounced, Receipted, TypeOK
    <3>3. QED BY <3>1, <3>2
  <2>3. QED BY <2>1, <2>2
<1>5. ASSUME NEW f \in Findings, Persist(f) \/ Dismiss(f) PROVE UNCHANGED tick
  BY <1>5 DEF Persist, Dismiss
<1>6. ASSUME NEW c \in Channels, AttachChannel(c) \/ RepointChannel(c) PROVE UNCHANGED tick
  BY <1>6 DEF AttachChannel, RepointChannel
<1>7. UNCHANGED vars => UNCHANGED tick BY DEF vars
<1>8. QED BY <1>2, <1>3, <1>4, <1>5, <1>6, <1>7 DEF Next

\* Only a post adds to the answered, and only a fault that stops a tick takes one
\* away.
LEMMA AnsweredGrows ==
    ASSUME LeaseInv, [Next]_vars, NEW p \in Answered', p \notin Answered
    PROVE  \E w \in Workers : Post(w) /\ p = Pair(w)
<1>1. TypeOK /\ TickShape /\ ReceiptShape BY DEF LeaseInv
<1>2. p \in Pairs BY DEF Answered
<1>3. CASE row'[p].status = "posted"
  <2>1. Posted(p) \/ \E w \in Workers : Recording(w) /\ Pair(w) = p
    BY <1>1, <1>2, <1>3, RowStep DEF Recording
  <2>2. QED BY <1>2, <2>1 DEF Answered
<1>4. ASSUME NEW w \in Workers, tick'[w].pc = "record", Pair(w)' = p
      PROVE  Post(w) /\ p = Pair(w)
  <2>1. CASE tick[w].pc = "record" /\ Pair(w)' = Pair(w)
    BY <1>2, <1>4, <2>1 DEF Answered, Recording
  <2>2. CASE Post(w) /\ Pair(w)' = Pair(w) BY <1>4, <2>2
  <2>3. QED BY <1>1, <1>4, <2>1, <2>2, RecordingTicks
<1>5. QED BY <1>3, <1>4 DEF Answered, Posted, Recording

LEMMA AnsweredShrinks ==
    ASSUME LeaseInv, [Next]_vars, NEW p \in Answered, p \notin Answered'
    PROVE  \E w \in Workers : (Crash(w) \/ MarkPostedThrows(w)) /\ p = Pair(w)
<1>1. TypeOK /\ TickShape /\ ReceiptShape BY DEF LeaseInv
<1>2. p \in Pairs BY DEF Answered
<1>3. ~(row'[p].status = "posted") BY <1>2 DEF Answered, Posted
<1>4. ~Posted(p) BY <1>1, <1>2, <1>3, RowStep
<1>5. PICK w \in Workers : Recording(w) /\ Pair(w) = p BY <1>4 DEF Answered
<1>6. ~(Recording(w)' /\ Pair(w)' = Pair(w)) BY <1>2, <1>5 DEF Answered
<1>7. QED BY <1>3, <1>5, <1>6, StopsRecording

\* What is said, and what it cost.
LEMMA SayingCosts ==
    ASSUME LeaseInv, [Next]_vars
    PROVE  /\ faults' \in Nat /\ faults' >= faults
           /\ slack' # slack => \E w \in Workers : Post(w) \/ (PostFails(w) /\ faults' = faults + 1)
           /\ Len(slack') \in {Len(slack), Len(slack) + 1}
<1>1. TypeOK /\ TickShape BY DEF LeaseInv
<1>2. slack \in Seq(Pairs) /\ faults \in Nat BY <1>1 DEF TypeOK
<1>3. ASSUME NEW w \in Workers, Step(w) \/ StartTick(w) \/ Crash(w)
      PROVE  /\ faults' \in {faults, faults + 1}
             /\ slack' # slack => Post(w) \/ (PostFails(w) /\ faults' = faults + 1)
  BY <1>3 DEF Step, ListFindings, SkipFinding, ConsiderFinding, ScanUnreadable, EndScan,
     DecideNothing, DecideDeliver, Claim, NotClaimed, Post, PostFails, MarkPosted,
     MarkPostedUnannounced, MarkPostedThrows, MarkFailed, LaneErrors, StartTick, Crash
<1>4. ASSUME NEW f \in Findings, Persist(f) \/ Dismiss(f) PROVE UNCHANGED <<slack, faults>>
  BY <1>4 DEF Persist, Dismiss
<1>5. ASSUME NEW c \in Channels, AttachChannel(c) \/ RepointChannel(c)
      PROVE  UNCHANGED <<slack, faults>>
  BY <1>5 DEF AttachChannel, RepointChannel
<1>6. UNCHANGED vars \/ Advance => UNCHANGED <<slack, faults>> BY DEF vars, Advance
<1>7. Len(slack') \in {Len(slack), Len(slack) + 1}
  <2>1. ASSUME NEW w \in Workers, tick[w].pc = "post", slack' = Append(slack, Pair(w))
        PROVE  Len(slack') = Len(slack) + 1
    BY <1>1, <1>2, <2>1, PairType
  <2>2. QED BY <2>1, SlackGrows
<1>8. QED BY <1>2, <1>3, <1>4, <1>5, <1>6, <1>7 DEF Next

LEMMA PriceStep == ASSUME LeaseInv, PriceInv, [Next]_vars PROVE PriceInv'
<1>0. /\ faults \in Nat /\ Len(slack) \in Nat /\ Cardinality(Answered) \in Nat
      /\ IsFiniteSet(Answered) /\ faults' \in Nat
  BY SayingCosts, FS_CardinalityType DEF LeaseInv, TypeOK, PriceInv
<1>1. ASSUME NEW w \in Workers, Post(w) PROVE PriceInv'
  <2>1. TypeOK /\ TickShape /\ tick[w].pc = "post" /\ faults' = faults
    BY <1>1 DEF LeaseInv, Post
  <2>2. Pair(w) \in Pairs /\ Pair(w) \notin Answered
    BY <2>1, PairType DEF LeaseInv, LeaseShape, Holding, Answered, Posted, Recording
  <2>3. Recording(w)' /\ Pair(w)' = Pair(w)
    <3>1. tick[w] \in Tick BY <2>1 DEF TypeOK
    <3>2. tick'[w] = [tick[w] EXCEPT !.pc = "record", !.ref = Len(slack) + 1]
      BY <1>1, <2>1 DEF Post, TypeOK
    <3>3. QED BY <3>1, <3>2 DEF Tick, Recording, Pair
  <2>4. Answered' = Answered \cup {Pair(w)}
    <3>1. ASSUME NEW p \in Answered', p \notin Answered PROVE p = Pair(w)
      <4>1. PICK v \in Workers : Post(v) /\ p = Pair(v) BY <3>1, AnsweredGrows
      <4>2. v = w
        <5>1. v # w => tick'[v] = tick[v] BY <1>1, <2>1, OtherTicks DEF Step
        <5>2. tick'[v].pc = "record" BY <2>1, <4>1 DEF Post, TypeOK, Tick
        <5>3. QED BY <4>1, <5>1, <5>2 DEF Post
      <4>3. QED BY <4>1, <4>2
    <3>2. ASSUME NEW p \in Answered PROVE p \in Answered'
      <4>1. \A v \in Workers : ~Crash(v) /\ ~MarkPostedThrows(v)
        BY <1>0, <2>1 DEF Crash, MarkPostedThrows
      <4>2. QED BY <3>2, <4>1, AnsweredShrinks
    <3>3. Pair(w) \in Answered' BY <2>2, <2>3 DEF Answered
    <3>4. QED BY <3>1, <3>2, <3>3
  <2>5. IsFiniteSet(Answered') /\ Cardinality(Answered') = Cardinality(Answered) + 1
    BY <1>0, <2>2, <2>4, FS_AddElement
  <2>6. Len(slack') <= Len(slack) + 1 BY <1>0, SayingCosts
  <2>7. Len(slack') \in Nat BY <1>0, SayingCosts
  <2>8. Len(slack) <= faults + Cardinality(Answered) BY DEF PriceInv
  <2>9. Len(slack') <= faults' + Cardinality(Answered') BY <1>0, <2>1, <2>5, <2>6, <2>7, <2>8
  <2>10. QED BY <2>5, <2>9 DEF PriceInv
<1>2. ASSUME \A w \in Workers : ~Post(w) PROVE PriceInv'
  <2>1. Answered' \subseteq Answered BY <1>2, AnsweredGrows
  <2>2. IsFiniteSet(Answered') /\ Cardinality(Answered') \in Nat
    BY <1>0, <2>1, FS_Subset, FS_CardinalityType
  <2>3. Len(slack) <= faults + Cardinality(Answered) BY DEF PriceInv
  <2>4. CASE Answered \subseteq Answered'
    <3>1. Answered' = Answered BY <2>1, <2>4
    <3>2. slack' = slack \/ faults' = faults + 1 BY <1>2, SayingCosts
    <3>3. Len(slack') <= faults' + Cardinality(Answered)
      <4>1. CASE slack' = slack BY <1>0, <2>3, <4>1, SayingCosts
      <4>2. CASE faults' = faults + 1 BY <1>0, <2>3, <4>2, SayingCosts
      <4>3. QED BY <3>2, <4>1, <4>2
    <3>4. QED BY <2>2, <3>1, <3>3 DEF PriceInv
  <2>5. CASE ~(Answered \subseteq Answered')
    <3>1. PICK p \in Answered : p \notin Answered' BY <2>5
    <3>2. PICK w \in Workers : (Crash(w) \/ MarkPostedThrows(w)) /\ p = Pair(w)
      BY <3>1, AnsweredShrinks
    <3>3. faults' = faults + 1 /\ slack' = slack BY <3>2 DEF Crash, MarkPostedThrows
    <3>4. ASSUME NEW q \in Answered, q # p PROVE q \in Answered'
      <4>1. SUFFICES ASSUME q \notin Answered' PROVE FALSE OBVIOUS
      <4>2. PICK v \in Workers : (Crash(v) \/ MarkPostedThrows(v)) /\ q = Pair(v)
        BY <3>4, <4>1, AnsweredShrinks
      <4>3. v # w BY <3>2, <3>4, <4>2
      <4>4. tick'[v] = tick[v] BY <3>2, <4>3, OtherTicks DEF LeaseInv, Step
      <4>5. tick'[v].pc # tick[v].pc
        BY <4>2 DEF LeaseInv, TypeOK, Tick, Crash, MarkPostedThrows, Running, Idle
      <4>6. QED BY <4>4, <4>5
    <3>5. Answered' = Answered \ {p} BY <2>1, <3>1, <3>4
    <3>6. Cardinality(Answered') = Cardinality(Answered) - 1
      BY <1>0, <3>1, <3>5, FS_RemoveElement
    <3>7. Len(slack') <= faults' + Cardinality(Answered') BY <1>0, <2>2, <2>3, <3>3, <3>6
    <3>8. QED BY <2>2, <3>7 DEF PriceInv
  <2>6. QED BY <2>4, <2>5
<1>3. QED BY <1>1, <1>2

\* Overlapping ticks speak with one voice: one posts a delivery at a time, its
\* receipt names the message it posted, and nothing is said again but for a crash or
\* a lost answer.
THEOREM TicksSpeakWithOneVoice ==
    ASSUME MaxSpan <= TTL
    PROVE  Spec => []OneVoice
<1>1. Init => PriceInv
  <2>1. Init => Answered = {} /\ Len(slack) = 0 /\ faults = 0
    BY DEF Init, Answered, Posted, Recording, NoRow, Idle
  <2>2. QED BY <2>1, FS_EmptySet DEF PriceInv
<1>2. LeaseInv /\ PriceInv /\ [Next]_vars => PriceInv' BY PriceStep
<1>3. LeaseInv /\ ReceiptInv /\ PriceInv => RepeatsNeedFaults
  <2>1. SUFFICES ASSUME LeaseInv, ReceiptInv, PriceInv PROVE RepeatsNeedFaults OBVIOUS
  <2> DEFINE Said == {slack[i] : i \in DOMAIN slack}
  <2>2. slack \in Seq(Pairs) /\ faults \in Nat /\ Len(slack) \in Nat BY <2>1 DEF LeaseInv, TypeOK
  <2>3. IsFiniteSet(DOMAIN slack) BY <2>2, FS_Interval
  <2>4. slack \in Surjection(DOMAIN slack, Said) BY <2>2 DEF Surjection
  <2>5. IsFiniteSet(Said) BY <2>3, <2>4, FS_Surjection
  <2>6. Answered \subseteq Said
    BY <2>1 DEF LeaseInv, ReceiptInv, ReceiptShape, ReceiptNamesItsMessage, Answered, Recording
  <2> HIDE DEF Said
  <2>7. /\ Cardinality(Said) \in Nat /\ Cardinality(Answered) \in Nat
        /\ Cardinality(Answered) <= Cardinality(Said)
    BY <2>1, <2>5, <2>6, FS_Subset, FS_CardinalityType DEF PriceInv
  <2>8. Len(slack) - Cardinality(Said) <= faults BY <2>1, <2>2, <2>7 DEF PriceInv
  <2>9. QED BY <2>8 DEF RepeatsNeedFaults, Said
<1>4. QED BY <1>1, <1>2, <1>3, LeaseInvariant, ReceiptInvariant, ClaimIsALock,
             ReceiptsNameTheirMessages, PTL DEF Spec, OneVoice

-----------------------------------------------------------------------------
(***************************************************************************)
(* The bell.                                                               *)
(***************************************************************************)

\* The deliveries posted and not announced.
Unheard == {p \in Pairs : Posted(p)} \ bell

BellInv ==
    /\ \A p \in bell : Posted(p)
    /\ IsFiniteSet(Unheard) /\ Cardinality(Unheard) <= faults

\* A row is posted together with its notification, or by a fault of the savepoint.
LEMMA BellWrites ==
    ASSUME [Next]_vars, UNCHANGED vars \/ Next
    PROVE  \/ UNCHANGED bell
           \/ \E w \in Workers : /\ tick[w].pc = "record"
                                 /\ row' = [row EXCEPT ![Pair(w)] = Receipted(@, tick[w].ref)]
                                 /\ bell' = bell \cup {Pair(w)}
<1>1. ASSUME NEW w \in Workers, Step(w) \/ StartTick(w) \/ Crash(w)
      PROVE  \/ UNCHANGED bell
             \/ /\ tick[w].pc = "record"
                /\ row' = [row EXCEPT ![Pair(w)] = Receipted(@, tick[w].ref)]
                /\ bell' = bell \cup {Pair(w)}
  BY <1>1 DEF Step, ListFindings, SkipFinding, ConsiderFinding, ScanUnreadable, EndScan,
     DecideNothing, DecideDeliver, Claim, NotClaimed, Post, PostFails, MarkPosted,
     MarkPostedUnannounced, MarkPostedThrows, MarkFailed, LaneErrors, StartTick, Crash
<1>2. ASSUME NEW f \in Findings, Persist(f) \/ Dismiss(f) PROVE UNCHANGED bell
  BY <1>2 DEF Persist, Dismiss
<1>3. ASSUME NEW c \in Channels, AttachChannel(c) \/ RepointChannel(c) PROVE UNCHANGED bell
  BY <1>3 DEF AttachChannel, RepointChannel
<1>4. UNCHANGED vars \/ Advance => UNCHANGED bell BY DEF vars, Advance
<1>5. QED BY <1>1, <1>2, <1>3, <1>4 DEF Next

\* A delivery newly posted is announced, or its announcement was lost to a fault.
LEMMA NewlyPosted ==
    ASSUME ReceiptInv, [Next]_vars, NEW p \in Pairs, row'[p].status = "posted", ~Posted(p)
    PROVE  \/ p \in bell'
           \/ \E w \in Workers : MarkPostedUnannounced(w) /\ Pair(w) = p
<1>1. row[p] \in Row BY DEF ReceiptInv, TypeOK
<1>2. ~UNCHANGED row BY DEF Posted
<1>3. ~Advance
  <2>1. Advance => row'[p].status = row[p].status BY <1>1 DEF Advance, Row
  <2>2. QED BY <2>1 DEF Posted
<1>4. ASSUME NEW w \in Workers, Claims(w) \/ MarkFailed(w) PROVE FALSE
  <2>1. row'[p] \in {row[p], Claimed(row[p], tick[w].age), Failed(row[p])}
    BY <1>4 DEF ReceiptInv, TypeOK, Claims, MarkFailed
  <2>2. QED BY <1>1, <2>1 DEF Row, Claimed, Failed, Posted
<1>5. ASSUME NEW w \in Workers, Step(w)
      PROVE  \/ UNCHANGED row \/ Claims(w) \/ MarkFailed(w)
             \/ MarkPosted(w) \/ MarkPostedUnannounced(w) \/ MarkPostedThrows(w)
  BY <1>5 DEF Step, ListFindings, SkipFinding, ConsiderFinding, ScanUnreadable, EndScan,
     DecideNothing, DecideDeliver, Claim, NotClaimed, Post, PostFails, LaneErrors, Claims
<1>6. ASSUME NEW w \in Workers, StartTick(w) \/ Crash(w) PROVE UNCHANGED row
  BY <1>6 DEF StartTick, Crash
<1>7. ASSUME NEW f \in Findings, Persist(f) \/ Dismiss(f) PROVE UNCHANGED row
  BY <1>7 DEF Persist, Dismiss
<1>8. ASSUME NEW c \in Channels, AttachChannel(c) \/ RepointChannel(c) PROVE UNCHANGED row
  BY <1>8 DEF AttachChannel, RepointChannel
<1>9. UNCHANGED vars => UNCHANGED row BY DEF vars
<1>10. PICK w \in Workers : MarkPosted(w) \/ MarkPostedUnannounced(w) \/ MarkPostedThrows(w)
  BY <1>2, <1>3, <1>4, <1>5, <1>6, <1>7, <1>8, <1>9 DEF Next
<1>11. Pair(w) = p
  <2>1. row' = row \/ row' = [row EXCEPT ![Pair(w)] = Receipted(@, tick[w].ref)]
    BY <1>10 DEF MarkPosted, MarkPostedUnannounced, MarkPostedThrows
  <2>2. Pair(w) # p => row'[p] = row[p] BY <2>1 DEF ReceiptInv, TypeOK
  <2>3. QED BY <2>2 DEF Posted
<1>12. QED BY <1>2, <1>10, <1>11 DEF MarkPosted, MarkPostedThrows

LEMMA BellStep == ASSUME ReceiptInv, BellInv, [Next]_vars PROVE BellInv'
<1>0. /\ faults \in Nat /\ faults' \in {faults, faults + 1}
      /\ IsFiniteSet(Unheard) /\ Cardinality(Unheard) \in Nat /\ Cardinality(Unheard) <= faults
  <2>1. ASSUME NEW w \in Workers, Step(w) \/ StartTick(w) \/ Crash(w)
        PROVE  faults' \in {faults, faults + 1}
    BY <2>1 DEF Step, ListFindings, SkipFinding, ConsiderFinding, ScanUnreadable, EndScan,
       DecideNothing, DecideDeliver, Claim, NotClaimed, Post, PostFails, MarkPosted,
       MarkPostedUnannounced, MarkPostedThrows, MarkFailed, LaneErrors, StartTick, Crash
  <2>2. ASSUME NEW f \in Findings, Persist(f) \/ Dismiss(f) PROVE faults' = faults
    BY <2>2 DEF Persist, Dismiss
  <2>3. ASSUME NEW c \in Channels, AttachChannel(c) \/ RepointChannel(c) PROVE faults' = faults
    BY <2>3 DEF AttachChannel, RepointChannel
  <2>4. UNCHANGED vars \/ Advance => faults' = faults BY DEF vars, Advance
  <2>5. QED BY <2>1, <2>2, <2>3, <2>4, FS_CardinalityType DEF Next, BellInv, ReceiptInv, TypeOK
<1>1. TypeOK /\ TickShape /\ ReceiptShape /\ bell \subseteq Pairs BY DEF ReceiptInv, TypeOK
<1>2. \A p \in Pairs : Posted(p) => row'[p].status = "posted" BY <1>1, RowStep
<1>3. ASSUME NEW p \in bell' PROVE row'[p].status = "posted"
  <2>1. CASE p \in bell BY <1>1, <1>2, <2>1 DEF BellInv
  <2>2. CASE p \notin bell
    <3>1. PICK w \in Workers : /\ tick[w].pc = "record"
                               /\ row' = [row EXCEPT ![Pair(w)] = Receipted(@, tick[w].ref)]
                               /\ bell' = bell \cup {Pair(w)}
      BY <1>3, <2>2, BellWrites
    <3>2. p = Pair(w) /\ Pair(w) \in Pairs BY <1>1, <1>3, <2>2, <3>1, PairType
    <3>3. QED BY <1>1, <3>1, <3>2 DEF TypeOK, Receipted
  <2>3. QED BY <2>1, <2>2
<1>4. bell \subseteq bell' BY BellWrites
<1>5. ASSUME NEW p \in Unheard', p \notin Unheard
      PROVE  \E w \in Workers : MarkPostedUnannounced(w) /\ Pair(w) = p
  BY <1>4, <1>5, NewlyPosted DEF Unheard, Posted
<1>6. CASE \A w \in Workers : ~MarkPostedUnannounced(w)
  <2>1. Unheard' \subseteq Unheard BY <1>5, <1>6
  <2>2. IsFiniteSet(Unheard') /\ Cardinality(Unheard') <= Cardinality(Unheard)
    BY <1>0, <2>1, FS_Subset
  <2>3. Cardinality(Unheard') \in Nat BY <2>2, FS_CardinalityType
  <2>4. QED BY <1>0, <1>3, <2>2, <2>3 DEF BellInv, Posted
<1>7. ASSUME NEW w \in Workers, MarkPostedUnannounced(w) PROVE BellInv'
  <2>1. faults' = faults + 1 /\ tick[w].pc = "record" BY <1>7 DEF MarkPostedUnannounced
  <2>2. Unheard' \subseteq Unheard \cup {Pair(w)}
    <3>1. ASSUME NEW v \in Workers, MarkPostedUnannounced(v) PROVE v = w
      <4>1. v # w => tick'[v] = tick[v] BY <1>1, <1>7, OtherTicks DEF Step
      <4>2. tick'[v].pc # tick[v].pc BY <1>1, <3>1 DEF MarkPostedUnannounced, TypeOK, Idle
      <4>3. QED BY <4>1, <4>2
    <3>2. QED BY <1>5, <3>1
  <2>3. /\ IsFiniteSet(Unheard \cup {Pair(w)})
        /\ Cardinality(Unheard \cup {Pair(w)}) = IF Pair(w) \in Unheard THEN Cardinality(Unheard)
                                                 ELSE Cardinality(Unheard) + 1
    BY <1>0, FS_AddElement
  <2>4. /\ IsFiniteSet(Unheard')
        /\ Cardinality(Unheard') <= Cardinality(Unheard \cup {Pair(w)})
    BY <2>2, <2>3, FS_Subset
  <2>5. Cardinality(Unheard') \in Nat BY <2>4, FS_CardinalityType
  <2>6. Cardinality(Unheard') <= faults' BY <1>0, <2>1, <2>3, <2>4, <2>5
  <2>7. QED BY <1>3, <2>4, <2>6 DEF BellInv, Posted
<1>8. QED BY <1>6, <1>7

\* The bell announces only deliveries recorded as posted, and misses one only by a
\* fault.
THEOREM BellsFollowReceipts == Spec => []BellFollowsReceipts
<1>1. Init => BellInv
  <2>1. Init => bell = {} /\ Unheard = {} /\ faults = 0 BY DEF Init, Unheard, Posted, NoRow
  <2>2. QED BY <2>1, FS_EmptySet DEF BellInv
<1>2. ReceiptInv /\ BellInv /\ [Next]_vars => BellInv' BY BellStep
<1>3. BellInv => BellFollowsReceipts BY DEF BellInv, Unheard, BellFollowsReceipts
<1>4. QED BY <1>1, <1>2, <1>3, ReceiptInvariant, PTL DEF Spec

-----------------------------------------------------------------------------
(***************************************************************************)
(* Dismissals and moves: what a tick may take up.                          *)
(***************************************************************************)

\* What a tick carries after a step it carried before, unless it is the finding the scan
\* considers.
LEMMA TakesUp ==
    ASSUME TypeOK, [Next]_vars, NEW w \in Workers, NEW f \in Findings, Carries(w, f)'
    PROVE  Carries(w, f) \/ (ConsiderFinding(w) /\ f = Head(tick[w].todo))
<1>1. tick \in [Workers -> Tick] /\ tick[w] \in Tick BY DEF TypeOK
<1>2. CASE tick'[w] = tick[w] BY <1>2 DEF Carries
<1>3. CASE tick'[w].ready \subseteq tick[w].ready /\ tick'[w].chosen \in {tick[w].chosen, NoFinding}
  BY <1>3, DomainAssumption DEF Carries
<1>4. CASE Advance
  <2>1. tick'[w] = tick[w] \/ tick'[w] = [tick[w] EXCEPT !.age = @ + 1] BY <1>4 DEF Advance
  <2>2. QED BY <1>1, <1>3, <2>1 DEF Tick
<1>5. ASSUME tick'[w] = Idle PROVE Carries(w, f)
  BY <1>5, DomainAssumption DEF Carries, Idle
<1>6. CASE ConsiderFinding(w)
  <2> DEFINE g == Head(tick[w].todo)
  <2>2. PICK todo, n, m, S : /\ tick' = [tick EXCEPT ![w].todo = todo, ![w].considered = n,
                                                     ![w].delivered = m, ![w].ready = S]
                             /\ S = tick[w].ready \/ S = tick[w].ready \cup {g}
    BY <1>6, Zenon DEF ConsiderFinding
  <2>3. tick'[w].ready = S /\ tick'[w].chosen = tick[w].chosen BY <1>1, <2>2 DEF Tick
  <2>4. QED BY <1>6, <2>2, <2>3 DEF Carries
<1>7. CASE DecideDeliver(w)
  <2>1. PICK g \in Choices(w) : tick' = [tick EXCEPT ![w].pc = "claim", ![w].chosen = g]
    BY <1>7 DEF DecideDeliver
  <2>2. g \in tick[w].ready BY <2>1 DEF Choices, BestOf
  <2>3. tick'[w].ready = tick[w].ready /\ tick'[w].chosen = g BY <1>1, <2>1 DEF Tick
  <2>4. QED BY <2>2, <2>3 DEF Carries
<1>8. ASSUME \/ ListFindings(w) \/ SkipFinding(w) \/ ScanUnreadable(w) \/ EndScan(w)
             \/ Claim(w) \/ Post(w) \/ PostFails(w) \/ MarkPostedThrows(w)
      PROVE  tick'[w].ready = tick[w].ready /\ tick'[w].chosen = tick[w].chosen
  BY <1>1, <1>8 DEF ListFindings, SkipFinding, ScanUnreadable, EndScan, Claim, Post, PostFails,
     MarkPostedThrows, Tick
<1>9. ASSUME \/ DecideNothing(w) \/ NotClaimed(w) \/ MarkPosted(w) \/ MarkPostedUnannounced(w)
             \/ MarkFailed(w) \/ LaneErrors(w) \/ Crash(w)
      PROVE  tick'[w] = Idle
  BY <1>1, <1>9 DEF DecideNothing, NotClaimed, MarkPosted, MarkPostedUnannounced, MarkFailed,
     LaneErrors, Crash
<1>10. CASE StartTick(w)
  <2>1. CASE tick' = tick BY <1>2, <2>1
  <2>2. CASE tick' # tick
    <3>1. tick'[w] = [Idle EXCEPT !.pc = "list", !.channel = connection.channel,
                                  !.cutover = connection.cutover]
      BY <1>1, <1>10, <2>2 DEF StartTick
    <3>2. QED BY <3>1, DomainAssumption DEF Carries, Idle
  <2>3. QED BY <2>1, <2>2
<1>11. ASSUME NEW v \in Workers, v # w, Step(v) \/ StartTick(v) \/ Crash(v)
       PROVE  tick'[w] = tick[w]
  BY <1>11, OtherTicks
<1>12. ASSUME NEW g \in Findings, Persist(g) \/ Dismiss(g) PROVE tick'[w] = tick[w]
  BY <1>12 DEF Persist, Dismiss
<1>13. ASSUME NEW c \in Channels, AttachChannel(c) \/ RepointChannel(c) PROVE tick'[w] = tick[w]
  BY <1>13 DEF AttachChannel, RepointChannel
<1>14. UNCHANGED vars => tick'[w] = tick[w] BY DEF vars
<1>15. CASE Step(w) \/ StartTick(w) \/ Crash(w)
  BY <1>3, <1>5, <1>6, <1>7, <1>8, <1>9, <1>10, <1>15 DEF Step
<1>16. QED BY <1>2, <1>4, <1>11, <1>12, <1>13, <1>14, <1>15 DEF Next

\* What a tick takes up passed the consult and the cutover.
LEMMA NewlyCarried ==
    ASSUME TypeOK, [Next]_vars, NEW w \in Workers, NEW f \in Findings, Carries(w, f)'
    PROVE  Carries(w, f) \/ (Running(w) /\ f \notin dismissed \cup tick[w].cutover)
BY TakesUp DEF ConsiderFinding, Scanning, Running, Skipped, IsSuppressed, IsBeforeCutover

\* What no tick of a channel carries is not said there.
LEMMA NothingElseIsSaid ==
    ASSUME TypeOK, TickShape, [Next]_vars, NEW f \in Findings, NEW c \in Channels,
           \A w \in Workers : Running(w) /\ tick[w].channel = c => ~Carries(w, f)
    PROVE  slack' # Append(slack, <<f, c>>)
<1>1. slack \in Seq(Pairs) BY DEF TypeOK
<1>2. SUFFICES ASSUME slack' = Append(slack, <<f, c>>) PROVE FALSE OBVIOUS
<1>3. <<f, c>> \in Pairs BY DEF Pairs
<1>4. slack' # slack BY <1>1, <1>2, <1>3
<1>5. PICK w \in Workers : tick[w].pc = "post" /\ slack' = Append(slack, Pair(w))
  BY <1>4, SlackGrows
<1>6. Pair(w) \in Pairs BY <1>5, PairType
<1>7. Pair(w) = <<f, c>>
  <2>1. /\ Append(slack, Pair(w))[Len(slack) + 1] = Pair(w)
        /\ Append(slack, <<f, c>>)[Len(slack) + 1] = <<f, c>>
    BY <1>1, <1>3, <1>6
  <2>2. QED BY <1>2, <1>5, <2>1
<1>8. tick[w].chosen = f /\ tick[w].channel = c BY <1>7 DEF Pair
<1>9. QED BY <1>5, <1>8 DEF Carries, Running

\* A dismissal is remembered: a finding no running tick carries when it is dismissed
\* is never picked up, and so never posted, again.
THEOREM DismissalsAreRemembered == Spec => QuietAfterDismissal
<1>1. ASSUME TypeOK, TickShape, [Next]_vars, NEW f \in dismissed,
             \A w \in Workers : ~Carries(w, f)
      PROVE  /\ \A w \in Workers : ~Carries(w, f)'
             /\ \A c \in Channels : slack' # Append(slack, <<f, c>>)
  <2>1. f \in Findings BY <1>1 DEF TypeOK
  <2>2. QED BY <1>1, <2>1, NewlyCarried, NothingElseIsSaid
<1>2. TypeOK /\ TickShape /\ [Next]_vars =>
        [\A f \in dismissed : (\A w \in Workers : ~Carries(w, f)) =>
            /\ \A w \in Workers : ~Carries(w, f)'
            /\ \A c \in Channels : slack' # Append(slack, <<f, c>>)]_vars
  BY <1>1
<1>3. QED BY <1>2, TypeCorrect, PTL DEF Spec, QuietAfterDismissal

SameAddress(w) == tick'[w].cutover = tick[w].cutover /\ tick'[w].channel = tick[w].channel

\* A tick that runs goes on with the address and cutover it has, or has just read those
\* of the connection and has nothing in hand.
LEMMA CutoversRead ==
    ASSUME TypeOK, [Next]_vars, NEW w \in Workers, Running(w)'
    PROVE  \/ Running(w) /\ SameAddress(w)
           \/ /\ tick'[w].cutover = connection.cutover
              /\ tick'[w].ready = {} /\ tick'[w].chosen = NoFinding
<1>1. tick \in [Workers -> Tick] /\ tick[w] \in Tick BY DEF TypeOK
<1>2. CASE tick'[w] = tick[w] BY <1>2 DEF Running, SameAddress
<1>3. CASE Advance
  <2>1. tick'[w] = tick[w] \/ tick'[w] = [tick[w] EXCEPT !.age = @ + 1] BY <1>3 DEF Advance
  <2>2. QED BY <1>1, <2>1 DEF Tick, Running, SameAddress
<1>4. ASSUME Step(w) PROVE tick'[w] = Idle \/ (Running(w) /\ SameAddress(w))
  <2>1. CASE \/ DecideNothing(w) \/ NotClaimed(w) \/ MarkPosted(w) \/ MarkPostedUnannounced(w)
             \/ MarkFailed(w) \/ LaneErrors(w)
    BY <1>1, <2>1 DEF DecideNothing, NotClaimed, MarkPosted, MarkPostedUnannounced, MarkFailed,
       LaneErrors
  <2>2. CASE \/ ListFindings(w) \/ SkipFinding(w) \/ ConsiderFinding(w) \/ ScanUnreadable(w)
             \/ EndScan(w) \/ DecideDeliver(w) \/ Claim(w) \/ Post(w) \/ PostFails(w)
             \/ MarkPostedThrows(w)
    BY <1>1, <2>2 DEF ListFindings, SkipFinding, ConsiderFinding, ScanUnreadable, EndScan,
       DecideDeliver, Claim, Post, PostFails, MarkPostedThrows, Tick, Running, Scanning, SameAddress
  <2>3. QED BY <1>4, <2>1, <2>2 DEF Step
<1>5. CASE Step(w) BY <1>4, <1>5 DEF Running, Idle
<1>6. CASE Crash(w) BY <1>1, <1>6 DEF Crash, Running, Idle
<1>7. CASE StartTick(w)
  <2>1. CASE tick' = tick BY <1>2, <2>1
  <2>2. CASE tick' # tick
    <3>1. tick'[w] = [Idle EXCEPT !.pc = "list", !.channel = connection.channel,
                                  !.cutover = connection.cutover]
      BY <1>1, <1>7, <2>2 DEF StartTick
    <3>2. QED BY <3>1 DEF Idle
  <2>3. QED BY <2>1, <2>2
<1>8. ASSUME NEW v \in Workers, v # w, Step(v) \/ StartTick(v) \/ Crash(v)
      PROVE  tick'[w] = tick[w]
  BY <1>8, OtherTicks
<1>9. ASSUME NEW g \in Findings, Persist(g) \/ Dismiss(g) PROVE tick'[w] = tick[w]
  BY <1>9 DEF Persist, Dismiss
<1>10. ASSUME NEW c \in Channels, AttachChannel(c) \/ RepointChannel(c) PROVE tick'[w] = tick[w]
  BY <1>10 DEF AttachChannel, RepointChannel
<1>11. UNCHANGED vars => tick'[w] = tick[w] BY DEF vars
<1>12. QED BY <1>2, <1>3, <1>5, <1>6, <1>7, <1>8, <1>9, <1>10, <1>11 DEF Next

\* What was cut over was in the backlog, and so is cut over again by the next move.
CutoverInv == \A f \in connection.cutover : InBacklog(f)

LEMMA CutoverGrows ==
    ASSUME TypeOK, CutoverInv, [Next]_vars
    PROVE  CutoverInv' /\ connection.cutover \subseteq connection'.cutover
<1>1. /\ backlog \in Seq(Findings)
      /\ connection \in [channel : Channels \cup {NoChannel}, cutover : SUBSET Findings]
  BY DEF TypeOK
<1>2. ASSUME NEW f \in Findings, Persist(f)
      PROVE  connection' = connection /\ \A g \in Findings : InBacklog(g) => InBacklog(g)'
  <2>1. backlog' = <<f>> \o backlog /\ connection' = connection BY <1>2 DEF Persist
  <2>2. ASSUME NEW i \in DOMAIN backlog
        PROVE  i + 1 \in DOMAIN backlog' /\ backlog'[i + 1] = backlog[i]
    BY <1>1, <2>1, <2>2
  <2>3. QED BY <2>1, <2>2 DEF InBacklog
<1>3. ASSUME NEW c \in Channels, AttachChannel(c) \/ RepointChannel(c)
      PROVE  /\ backlog' = backlog
             /\ \/ connection'.cutover = connection.cutover
                \/ connection'.cutover = {f \in Findings : InBacklog(f)}
  BY <1>1, <1>3 DEF AttachChannel, RepointChannel
<1>4. ASSUME NEW w \in Workers, StartTick(w) \/ Step(w) \/ Crash(w)
      PROVE  UNCHANGED <<backlog, connection>>
  BY <1>4 DEF Step, ListFindings, SkipFinding, ConsiderFinding, ScanUnreadable, EndScan,
     DecideNothing, DecideDeliver, Claim, NotClaimed, Post, PostFails, MarkPosted,
     MarkPostedUnannounced, MarkPostedThrows, MarkFailed, LaneErrors, StartTick, Crash
<1>5. ASSUME NEW f \in Findings, Dismiss(f) PROVE UNCHANGED <<backlog, connection>>
  BY <1>5 DEF Dismiss
<1>6. UNCHANGED vars \/ Advance => UNCHANGED <<backlog, connection>> BY DEF vars, Advance
<1>7. ASSUME UNCHANGED <<backlog, connection>>
      PROVE  CutoverInv' /\ connection.cutover \subseteq connection'.cutover
  BY <1>7 DEF CutoverInv, InBacklog
<1>8. ASSUME NEW f \in Findings, Persist(f)
      PROVE  CutoverInv' /\ connection.cutover \subseteq connection'.cutover
  BY <1>1, <1>2, <1>8 DEF CutoverInv
<1>9. ASSUME NEW c \in Channels, AttachChannel(c) \/ RepointChannel(c)
      PROVE  CutoverInv' /\ connection.cutover \subseteq connection'.cutover
  BY <1>1, <1>3, <1>9 DEF CutoverInv, InBacklog
<1>10. QED BY <1>4, <1>5, <1>6, <1>7, <1>8, <1>9 DEF Next

\* Moving the channel does not replay the backlog: a finding left behind by a move is
\* not said in the new channel, for any number of moves and overlapping ticks.
THEOREM MovesReplayNothing == Spec => MovedBacklogStaysPut
<1>1. ASSUME TypeOK, TickShape, CutoverInv, [Next]_vars, NEW f \in Findings, NEW c \in Channels,
             LeftBehind(f, c)
      PROVE  LeftBehind(f, c)' /\ slack' # Append(slack, <<f, c>>)
  <2>1. \A w \in Workers : Running(w) /\ tick[w].channel = c =>
                               ~Carries(w, f) /\ f \in tick[w].cutover
    BY <1>1 DEF LeftBehind
  <2>2. f \in connection.cutover /\ f \in connection'.cutover BY <1>1, CutoverGrows DEF LeftBehind
  <2>3. ASSUME NEW w \in Workers, Running(w)', tick'[w].channel = c
        PROVE  ~Carries(w, f)' /\ f \in tick'[w].cutover
    <3>1. CASE Running(w) /\ SameAddress(w)
      BY <1>1, <2>1, <2>3, <3>1, NewlyCarried DEF SameAddress
    <3>2. CASE /\ tick'[w].cutover = connection.cutover
               /\ tick'[w].ready = {} /\ tick'[w].chosen = NoFinding
      BY <1>1, <2>2, <3>2, DomainAssumption DEF Carries
    <3>3. QED BY <1>1, <2>3, <3>1, <3>2, CutoversRead
  <2>4. slack' # Append(slack, <<f, c>>) BY <1>1, <2>1, NothingElseIsSaid
  <2>5. QED BY <2>2, <2>3, <2>4 DEF LeftBehind, Running
<1>2. Init => CutoverInv BY DEF Init, CutoverInv
<1>3. TypeOK /\ CutoverInv /\ [Next]_vars => CutoverInv' BY CutoverGrows
<1>4. TypeOK /\ TickShape /\ CutoverInv /\ [Next]_vars =>
        [\A f \in Findings, c \in Channels : LeftBehind(f, c) =>
            LeftBehind(f, c)' /\ slack' # Append(slack, <<f, c>>)]_vars
  BY <1>1
<1>5. QED BY <1>2, <1>3, <1>4, TypeCorrect, PTL DEF Spec, MovedBacklogStaysPut

-----------------------------------------------------------------------------
(***************************************************************************)
(* The cadence. Ticks are now taken to follow one another: the open        *)
(* findings and the week's count are read before the claim, and two ticks  *)
(* that overlap may both find nothing open.                                *)
(***************************************************************************)

OneTickAtATime == \A v, w \in Workers : Running(v) /\ Running(w) => v = w

\* What lies beyond the lane's limits is not counted either.
AllAreConsidered == Len(backlog) <= Considered /\ Len(backlog) <= ReadLimit

\* At most one finding is open, and none is when a tick is about to claim.
OpenInv ==
    /\ \A f, g \in OpenFindings(0) : f = g
    /\ \A w \in Workers : tick[w].pc = "claim" => OpenFindings(tick[w].age) = {}

InList(f, s) == \E i \in DOMAIN s : s[i] = f

\* What a tick has in hand, and what was posted, is a finding of the backlog that may be
\* shown; what a tick has in hand was not cut over.
KnownInv ==
    /\ \A p \in Pairs :
          Posted(p) => InBacklog(p[1]) /\ p[1] \notin Held /\ row[p].postAge # Null
    /\ \A w \in Workers, f \in Findings :
          /\ Carries(w, f) => InBacklog(f) /\ f \notin Held \cup tick[w].cutover /\ Running(w)
          /\ InList(f, tick[w].todo) => InBacklog(f)

\* What was posted was posted before a scan that goes on, which has read and has yet to read
\* no more than the backlog.
ScanInv ==
    \A w \in Workers :
        /\ tick[w].pc \in {"list", "scan"} =>
              \A p \in Pairs : Posted(p) => row[p].postAge >= tick[w].age
        /\ tick[w].pc = "scan" => tick[w].considered + Len(tick[w].todo) <= Len(backlog)
        /\ tick[w].pc = "list" => tick[w].delivered = 0 /\ tick[w].considered = 0
        /\ tick[w].pc = "decide" => tick[w].todo = <<>>
        /\ Running(w) => connection.channel # NoChannel

\* The deliveries the ceiling is about.
Counted == {p \in PostedThisWeek : p[1] \notin dismissed}

\* Those a tick has yet to count.
Ahead(w) == {p \in Counted : /\ p[2] = tick[w].channel /\ p[1] \notin tick[w].cutover
                             /\ tick[w].pc = "list" \/ InList(p[1], tick[w].todo)}

\* Those that a tick that starts now will count.
AtAddress == {p \in Counted : p[2] = connection.channel /\ p[1] \notin connection.cutover}

\* What earlier addresses may have used, and what a tick at the present one may add to it.
Weeks == Budget * moves
Fresh(w) == tick[w].channel = connection.channel /\ tick[w].cutover = connection.cutover
Room(w) == IF Fresh(w) THEN Budget ELSE 0

\* What a tick has passed is within its count, but for faults and earlier addresses; and
\* so, once it decides to go on, there is room for one more.
CeilingInv ==
    /\ IsFiniteSet({p \in Pairs : Posted(p)})
    /\ Cardinality(Counted \ AtAddress) <= Weeks + faults
    /\ Cardinality(Counted) <= Weeks + Budget + faults
    /\ \A w \in Workers :
          /\ tick[w].pc \in {"list", "scan", "decide"} =>
                Cardinality(Counted \ Ahead(w)) + Budget
                    <= Weeks + faults + tick[w].delivered + Room(w)
          /\ tick[w].pc \in {"claim", "post", "record"} =>
                Cardinality(Counted) + 1 <= Weeks + faults + Room(w)

\* While one tick is at work, the others are idle and stay so.
LEMMA OthersRest ==
    ASSUME TypeOK, OneTickAtATime, NEW w \in Workers, Step(w) \/ Crash(w),
           NEW v \in Workers, v # w
    PROVE  tick[v].pc = "idle" /\ tick'[v] = tick[v]
<1>1. Running(w)
  BY DEF Step, ListFindings, SkipFinding, ConsiderFinding, ScanUnreadable, EndScan, DecideNothing,
     DecideDeliver, Claim, NotClaimed, Post, PostFails, MarkPosted, MarkPostedUnannounced,
     MarkPostedThrows, MarkFailed, LaneErrors, Crash, Scanning, Running
<1>2. QED BY <1>1, OtherTicks DEF OneTickAtATime, Running

\* What the steps of a scan leave of the tick.
LEMMA ListMoves ==
    ASSUME TypeOK, NEW w \in Workers, ListFindings(w)
    PROVE  /\ tick'[w].pc = "scan" /\ tick'[w].age = tick[w].age /\ SameAddress(w)
           /\ tick'[w].delivered = tick[w].delivered /\ tick'[w].considered = tick[w].considered
           /\ AllAreConsidered => tick'[w].todo = backlog
           /\ \A f : InList(f, tick'[w].todo) => InBacklog(f)
<1> DEFINE t == tick[w]
           n == IF Len(backlog) < ReadLimit THEN Len(backlog) ELSE ReadLimit
           u == [t EXCEPT !.pc = "scan", !.todo = SubSeq(backlog, 1, n)]
<1>1. t \in Tick /\ backlog \in Seq(Findings) BY DEF TypeOK
<1>2. AllAreConsidered => n = Len(backlog) BY <1>1, BoundAssumption DEF AllAreConsidered
<1>3. AllAreConsidered => SubSeq(backlog, 1, n) = backlog BY <1>1, <1>2
<1>4. n \in Nat /\ n <= Len(backlog) BY <1>1, BoundAssumption
<1>5. tick'[w] = u BY DEF ListFindings, TypeOK
<1> HIDE DEF n
<1>6. \A f : InList(f, SubSeq(backlog, 1, n)) => InBacklog(f) BY <1>1, <1>4 DEF InList, InBacklog
<1>7. QED BY <1>1, <1>3, <1>5, <1>6 DEF Tick, SameAddress

LEMMA SkipMoves ==
    ASSUME TypeOK, NEW w \in Workers, SkipFinding(w) \/ ScanUnreadable(w)
    PROVE  /\ tick[w].pc = "scan" /\ tick'[w].pc = "scan"
           /\ tick'[w].age = tick[w].age /\ SameAddress(w)
           /\ tick'[w].delivered = tick[w].delivered /\ tick'[w].considered = tick[w].considered
           /\ tick[w].todo \in Seq(Findings) /\ tick[w].todo # <<>>
           /\ tick'[w].todo = Tail(tick[w].todo)
<1> DEFINE t == tick[w]
           u == [t EXCEPT !.todo = Tail(@)]
<1>1. t \in Tick BY DEF TypeOK
<1>2. t.pc = "scan" /\ t.todo # <<>> BY DEF SkipFinding, ScanUnreadable, Scanning
<1>3. tick'[w] = u BY DEF SkipFinding, ScanUnreadable, TypeOK
<1>4. QED BY <1>1, <1>2, <1>3 DEF Tick, SameAddress

LEMMA ConsiderMoves ==
    ASSUME TypeOK, NEW w \in Workers, ConsiderFinding(w)
    PROVE  /\ tick[w].pc = "scan" /\ tick'[w].pc = "scan"
           /\ tick'[w].age = tick[w].age /\ SameAddress(w)
           /\ tick'[w].delivered = tick[w].delivered +
                (IF WasPostedInWindow(row[<<Head(tick[w].todo), tick[w].channel>>], tick[w].age)
                 THEN 1 ELSE 0)
           /\ tick'[w].considered = tick[w].considered + 1
           /\ tick[w].todo \in Seq(Findings) /\ tick[w].todo # <<>>
           /\ tick'[w].todo = Tail(tick[w].todo)
<1> DEFINE t == tick[w]
           d == row[<<Head(t.todo), t.channel>>]
           n == t.delivered + (IF WasPostedInWindow(d, t.age) THEN 1 ELSE 0)
           S == IF IsSpokenFor(d, t.age) \/ Head(t.todo) \in Unreadable
                THEN t.ready ELSE t.ready \cup {Head(t.todo)}
           u == [t EXCEPT !.todo = Tail(t.todo), !.considered = t.considered + 1,
                          !.delivered = n, !.ready = S]
<1>1. t \in Tick BY DEF TypeOK
<1>2. t.pc = "scan" /\ t.todo # <<>> BY DEF ConsiderFinding, Scanning
<1>3. tick'[w] = u BY DEF ConsiderFinding, TypeOK
<1> HIDE DEF n, S
<1>4. /\ u.pc = t.pc /\ u.age = t.age /\ u.channel = t.channel /\ u.cutover = t.cutover
      /\ u.delivered = n /\ u.considered = t.considered + 1 /\ u.todo = Tail(t.todo)
      /\ t.todo \in Seq(Findings)
  BY <1>1 DEF Tick
<1> HIDE DEF u
<1>5. QED BY <1>2, <1>3, <1>4 DEF SameAddress, n

LEMMA EndScanMoves ==
    ASSUME TypeOK, NEW w \in Workers, EndScan(w)
    PROVE  /\ tick[w].pc = "scan" /\ tick'[w].pc = "decide" /\ SameAddress(w)
           /\ tick'[w].delivered = tick[w].delivered /\ tick'[w].todo = <<>>
<1>1. tick[w] \in Tick BY DEF TypeOK
<1> DEFINE none == <<>>
<1>2. tick'[w] = [tick[w] EXCEPT !.pc = "decide", !.todo = none] BY DEF EndScan, TypeOK
<1>3. none = <<>> OBVIOUS
<1> HIDE DEF none
<1>4. /\ tick'[w].pc = "decide" /\ tick'[w].todo = none /\ tick'[w].delivered = tick[w].delivered
      /\ tick'[w].channel = tick[w].channel /\ tick'[w].cutover = tick[w].cutover
  BY <1>1, <1>2 DEF Tick
<1>5. QED BY <1>3, <1>4 DEF EndScan, SameAddress

LEMMA DecideMoves ==
    ASSUME TypeOK, NEW w \in Workers, DecideDeliver(w)
    PROVE  /\ tick[w].pc = "decide" /\ tick'[w].pc = "claim" /\ SameAddress(w)
           /\ tick'[w].age = tick[w].age /\ tick'[w].todo = tick[w].todo
           /\ OpenFindings(tick[w].age) = {} /\ BudgetRemains(tick[w].delivered)
<1>1. tick[w] \in Tick BY DEF TypeOK
<1>2. PICK f \in Choices(w) : tick' = [tick EXCEPT ![w].pc = "claim", ![w].chosen = f]
  BY DEF DecideDeliver
<1>3. tick'[w] = [tick[w] EXCEPT !.pc = "claim", !.chosen = f] BY <1>2 DEF TypeOK
<1>4. OpenFindings(tick[w].age) = {} /\ BudgetRemains(tick[w].delivered) BY <1>2 DEF Choices
<1>5. QED BY <1>1, <1>3, <1>4 DEF DecideDeliver, Tick, SameAddress

\* A tick past its decision keeps its address and what it chose, or ends.
LEMMA DeliverMoves ==
    ASSUME TypeOK, NEW w \in Workers,
           Claim(w) \/ Post(w) \/ PostFails(w) \/ MarkPostedThrows(w)
    PROVE  /\ SameAddress(w) /\ tick'[w].todo = tick[w].todo
           /\ tick[w].pc \in {"claim", "post", "record"}
           /\ tick'[w].pc \in {"post", "record", "fail"}
           /\ tick'[w].pc # "fail" => tick[w].pc \in {"claim", "post"}
<1> DEFINE t == tick[w]
<1>1. t \in Tick BY DEF TypeOK
<1>2. CASE Post(w)
  <2> DEFINE n == Len(slack) + 1
  <2>1. tick'[w] = [t EXCEPT !.pc = "record", !.ref = n] BY <1>2 DEF Post, TypeOK
  <2> HIDE DEF n
  <2>2. /\ tick'[w].pc = "record" /\ tick'[w].todo = t.todo
        /\ tick'[w].channel = t.channel /\ tick'[w].cutover = t.cutover
    BY <1>1, <2>1 DEF Tick
  <2>3. QED BY <1>2, <2>2 DEF Post, SameAddress
<1>3. CASE PostFails(w) \/ MarkPostedThrows(w)
  <2>1. tick'[w] = [t EXCEPT !.pc = "fail"] BY <1>3 DEF PostFails, MarkPostedThrows, TypeOK
  <2>2. QED BY <1>1, <1>3, <2>1 DEF PostFails, MarkPostedThrows, Tick, SameAddress
<1>4. CASE Claim(w)
  <2> DEFINE s == IF t.chosen \in Poison THEN "fail" ELSE "post"
  <2>1. tick'[w] = [t EXCEPT !.pc = s] BY <1>4 DEF Claim, TypeOK
  <2>2. s \in {"fail", "post"} OBVIOUS
  <2> HIDE DEF s
  <2>3. QED BY <1>1, <1>4, <2>1, <2>2 DEF Claim, Tick, SameAddress
<1>5. QED BY <1>2, <1>3, <1>4

LEMMA EndMoves ==
    ASSUME TypeOK, NEW w \in Workers,
           \/ DecideNothing(w) \/ NotClaimed(w) \/ MarkPosted(w) \/ MarkPostedUnannounced(w)
           \/ MarkFailed(w) \/ LaneErrors(w) \/ Crash(w)
    PROVE  tick'[w] = Idle
BY DEF TypeOK, DecideNothing, NotClaimed, MarkPosted, MarkPostedUnannounced, MarkFailed,
   LaneErrors, Crash

LEMMA StartMoves ==
    ASSUME TypeOK, NEW w \in Workers, StartTick(w)
    PROVE  \/ tick' = tick
           \/ /\ connection.channel # NoChannel
              /\ tick'[w].pc = "list" /\ tick'[w].age = 0 /\ tick'[w].channel = connection.channel
              /\ tick'[w].cutover = connection.cutover
              /\ tick'[w].delivered = 0 /\ tick'[w].considered = 0
              /\ tick'[w].todo = <<>> /\ tick'[w].ready = {} /\ tick'[w].chosen = NoFinding
<1>1. CASE connection.channel # NoChannel
  <2>1. tick'[w] = [Idle EXCEPT !.pc = "list", !.channel = connection.channel,
                                !.cutover = connection.cutover]
    BY <1>1 DEF StartTick, TypeOK
  <2>2. QED BY <1>1, <2>1 DEF Idle
<1>2. CASE connection.channel = NoChannel BY <1>2 DEF StartTick
<1>3. QED BY <1>1, <1>2

LEMMA AdvanceMoves ==
    ASSUME TypeOK, Advance, NEW w \in Workers
    PROVE  /\ tick'[w].pc = tick[w].pc /\ SameAddress(w)
           /\ tick'[w].todo = tick[w].todo /\ tick'[w].delivered = tick[w].delivered
           /\ tick'[w].considered = tick[w].considered
           /\ Running(w) => tick'[w].age = tick[w].age + 1 /\ tick[w].age < MaxSpan
<1>1. tick[w] \in Tick BY DEF TypeOK
<1>2. tick'[w] = (IF Running(w) THEN [tick[w] EXCEPT !.age = @ + 1] ELSE tick[w]) BY DEF Advance
<1>3. QED BY <1>1, <1>2 DEF Advance, Tick, SameAddress

\* What moves no tick and no row.
LEMMA WorldSteps ==
    ASSUME [Next]_vars,
           ~Advance, \A w \in Workers : ~(StartTick(w) \/ Step(w) \/ Crash(w))
    PROVE  UNCHANGED <<tick, row>>
BY DEF Next, vars, Persist, Dismiss, AttachChannel, RepointChannel

\* What happens to one row.
LEMMA RowMoves ==
    ASSUME TypeOK, [Next]_vars, NEW p \in Pairs
    PROVE  \/ row'[p] = row[p]
           \/ /\ Advance /\ row'[p].status = row[p].status
              /\ row'[p].claimAge = Older(row[p].claimAge)
              /\ row'[p].postAge = Older(row[p].postAge)
           \/ \E w \in Workers : /\ Claim(w) \/ LaneErrors(w)
                                 /\ tick[w].pc = "claim" /\ Reclaimable(row[p], tick[w].age)
                                 /\ Pair(w) = p /\ row'[p] = Claimed(row[p], tick[w].age)
           \/ \E w \in Workers : /\ MarkPosted(w) \/ MarkPostedUnannounced(w) \/ MarkPostedThrows(w)
                                 /\ Pair(w) = p /\ row'[p] = Receipted(row[p], tick[w].ref)
           \/ \E w \in Workers : /\ MarkFailed(w)
                                 /\ Pair(w) = p /\ row'[p] = Failed(row[p])
<1>1. row \in [Pairs -> Row] BY DEF TypeOK
<1>2. CASE Advance
  <2>1. row'[p] = [row[p] EXCEPT !.claimAge = Older(@), !.postAge = Older(@)] BY <1>2 DEF Advance
  <2>2. QED BY <1>1, <1>2, <2>1 DEF Row
<1>3. ASSUME NEW w \in Workers, Claim(w) \/ LaneErrors(w)
      PROVE  \/ row'[p] = row[p]
             \/ /\ tick[w].pc = "claim" /\ Reclaimable(row[p], tick[w].age)
                /\ Pair(w) = p /\ row'[p] = Claimed(row[p], tick[w].age)
  BY <1>1, <1>3 DEF Claim, LaneErrors
<1>4. ASSUME NEW w \in Workers, MarkPosted(w) \/ MarkPostedUnannounced(w) \/ MarkPostedThrows(w)
      PROVE  row'[p] = row[p] \/ (Pair(w) = p /\ row'[p] = Receipted(row[p], tick[w].ref))
  BY <1>1, <1>4 DEF MarkPosted, MarkPostedUnannounced, MarkPostedThrows
<1>5. ASSUME NEW w \in Workers, MarkFailed(w)
      PROVE  row'[p] = row[p] \/ (Pair(w) = p /\ row'[p] = Failed(row[p]))
  BY <1>1, <1>5 DEF MarkFailed
<1>6. ASSUME NEW w \in Workers,
             \/ ListFindings(w) \/ SkipFinding(w) \/ ConsiderFinding(w) \/ ScanUnreadable(w)
             \/ EndScan(w) \/ DecideNothing(w) \/ DecideDeliver(w) \/ NotClaimed(w)
             \/ Post(w) \/ PostFails(w) \/ StartTick(w) \/ Crash(w)
      PROVE  row'[p] = row[p]
  BY <1>6 DEF ListFindings, SkipFinding, ConsiderFinding, ScanUnreadable, EndScan,
              DecideNothing, DecideDeliver, NotClaimed, Post, PostFails, StartTick, Crash
<1>7. QED BY <1>2, <1>3, <1>4, <1>5, <1>6, WorldSteps DEF Step

\* A claim in flight was so before, unless it has just been made.
LEMMA OpenShrinks ==
    ASSUME TypeOK, [Next]_vars, NEW p \in Pairs, NEW a \in Nat, InFlight(row'[p], a)
    PROVE  \/ ~Advance /\ InFlight(row[p], a)
           \/ Advance /\ row[p].status = "pending" /\ Older(row[p].claimAge) <= a + TTL
           \/ \E w \in Workers : /\ Claim(w) \/ LaneErrors(w)
                                 /\ tick[w].pc = "claim" /\ Pair(w) = p
<1>1. row[p] \in Row BY DEF TypeOK
<1>2. CASE row'[p] = row[p]
  <2>1. CASE ~Advance BY <1>2, <2>1
  <2>2. CASE Advance
    <3>1. row'[p].claimAge = Older(row[p].claimAge)
      BY <1>1, <2>2 DEF Advance, Row
    <3>2. QED BY <1>2, <2>2, <3>1 DEF InFlight
  <2>3. QED BY <2>1, <2>2
<1>3. ASSUME NEW n, row'[p] = Receipted(row[p], n) PROVE FALSE
  BY <1>3 DEF InFlight, Receipted
<1>4. ASSUME row'[p] = Failed(row[p]), row'[p] # row[p] PROVE FALSE
  <2>1. row'[p].status = "failed" BY <1>1, <1>4 DEF Failed, Row
  <2>2. QED BY <2>1 DEF InFlight
<1>5. QED BY <1>2, <1>3, <1>4, RowMoves DEF InFlight

\* An age that is within a bound has been so before.
LEMMA OlderIsNoLess ==
    ASSUME NEW a \in Ages \cup {Null}
    PROVE  /\ a <= Older(a)
           /\ a # Null => Older(a) # Null
           /\ \A n \in Nat : n < Horizon /\ Older(a) <= n => a <= n - 1 \/ a = Null
           /\ \A n \in Nat : n < Horizon /\ a >= n /\ a # Null => Older(a) >= n + 1
BY BoundAssumption DEF Older, Ages, Null

\* Claims that are in flight come from one tick, which found none.
LEMMA OpenStep ==
    ASSUME TypeOK, TickShape, OneTickAtATime, OpenInv, [Next]_vars
    PROVE  OpenInv'
<1> USE DEF Pairs
<1>1. ASSUME NEW w \in Workers PROVE tick[w].age \in Nat BY BoundAssumption DEF TypeOK, Tick, Ages
<1>2. ASSUME NEW w \in Workers, tick[w].pc = "claim", Claim(w) \/ LaneErrors(w)
      PROVE  OpenInv'
  <2>1. OpenFindings(tick[w].age) = {} BY <1>2 DEF OpenInv
  <2>2. \A f \in Findings, c \in Channels : ~InFlight(row[<<f, c>>], 0)
    <3>1. \A r \in Row : InFlight(r, 0) => InFlight(r, tick[w].age)
      BY <1>1, BoundAssumption DEF InFlight, Row, Ages, Null
    <3>2. QED BY <2>1, <3>1 DEF OpenFindings, TypeOK
  <2>3. ~Advance
    <3>1. Advance => tick'[w].pc = "claim" BY <1>2, AdvanceMoves
    <3>2. tick'[w].pc # "claim" BY <1>2, DeliverMoves, EndMoves DEF Idle
    <3>3. QED BY <3>1, <3>2
  <2>4. ASSUME NEW f \in Findings, NEW c \in Channels, InFlight(row'[<<f, c>>], 0)
        PROVE  f = tick[w].chosen
    <3>1. PICK v \in Workers : tick[v].pc = "claim" /\ Pair(v) = <<f, c>>
      BY <2>2, <2>3, <2>4, OpenShrinks
    <3>2. v = w BY <1>2, <3>1 DEF OneTickAtATime, Running
    <3>3. QED BY <3>1, <3>2 DEF Pair
  <2>5. ASSUME NEW v \in Workers, tick'[v].pc = "claim" PROVE FALSE
    <3>1. v # w BY <1>2, <2>5, DeliverMoves, EndMoves DEF Idle
    <3>2. QED BY <1>2, <2>5, <3>1, OthersRest DEF Step
  <2>6. QED BY <2>4, <2>5 DEF OpenInv, OpenFindings
<1>3. CASE Advance
  <2>2. ASSUME NEW f \in Findings, NEW c \in Channels, NEW a \in Nat, InFlight(row'[<<f, c>>], a),
               a + TTL < Horizon
        PROVE  InFlight(row[<<f, c>>], IF a = 0 THEN 0 ELSE a - 1)
    <3> DEFINE r == row[<<f, c>>]
    <3>1. r \in Row BY DEF TypeOK
    <3>2. row'[<<f, c>>] = [r EXCEPT !.claimAge = Older(@), !.postAge = Older(@)]
      BY <1>3 DEF Advance
    <3>3. r.status = "pending" /\ Older(r.claimAge) <= a + TTL
      BY <2>2, <3>1, <3>2 DEF Row, InFlight
    <3>4. r.claimAge <= a + TTL - 1 \/ r.claimAge = Null
      BY <2>2, <3>1, <3>3, OlderIsNoLess, BoundAssumption DEF Row
    <3>5. QED BY <3>1, <3>3, <3>4, BoundAssumption DEF InFlight, Null, Row, Ages
  <2>3. 0 + TTL < Horizon BY BoundAssumption
  <2>4. ASSUME NEW f \in OpenFindings(0)' PROVE f \in OpenFindings(0)
    BY <2>2, <2>3, <2>4 DEF OpenFindings
  <2>5. ASSUME NEW w \in Workers, tick'[w].pc = "claim" PROVE OpenFindings(tick[w].age)' = {}
    <3>1. tick[w].pc = "claim" /\ tick[w].age + 1 <= MaxSpan
      BY <1>1, <1>3, <2>5, AdvanceMoves, BoundAssumption DEF Running
    <3>2. tick[w].age + 1 \in Nat /\ tick[w].age + 1 + TTL < Horizon BY <1>1, <3>1, BoundAssumption
    <3>3. ASSUME NEW f \in Findings, NEW c \in Channels, InFlight(row'[<<f, c>>], tick[w].age + 1)
          PROVE  FALSE
      <4>1. InFlight(row[<<f, c>>], tick[w].age) BY <1>1, <2>2, <3>2, <3>3
      <4>2. QED BY <3>1, <4>1 DEF OpenInv, OpenFindings
    <3>4. tick'[w].age = tick[w].age + 1 BY <1>3, <3>1, AdvanceMoves DEF Running
    <3>5. QED BY <3>3, <3>4 DEF OpenFindings
  <2>6. QED BY <2>4, <2>5 DEF OpenInv
<1>4. CASE /\ ~Advance
           /\ \A w \in Workers : ~(tick[w].pc = "claim" /\ (Claim(w) \/ LaneErrors(w)))
  <2>1. ASSUME NEW a \in Nat, NEW f \in OpenFindings(a)' PROVE f \in OpenFindings(a)
    BY <1>4, <2>1, OpenShrinks DEF OpenFindings
  <2>2. ASSUME NEW w \in Workers, tick'[w].pc = "claim"
        PROVE  tick'[w].age \in Nat /\ OpenFindings(tick'[w].age) = {}
    <3>1. CASE tick'[w] = tick[w] BY <1>1, <2>2, <3>1 DEF OpenInv
    <3>2. CASE DecideDeliver(w) BY <1>1, <3>2, DecideMoves
    <3>3. CASE Step(w) \/ Crash(w)
      <4>1. ASSUME \/ ListFindings(w) \/ SkipFinding(w) \/ ScanUnreadable(w)
                   \/ ConsiderFinding(w) \/ EndScan(w)
            PROVE  FALSE
        BY <2>2, <4>1, ListMoves, SkipMoves, ConsiderMoves, EndScanMoves
      <4>2. ASSUME Claim(w) \/ Post(w) \/ PostFails(w) \/ MarkPostedThrows(w) PROVE FALSE
        BY <2>2, <4>2, DeliverMoves
      <4>3. ASSUME \/ DecideNothing(w) \/ NotClaimed(w) \/ MarkPosted(w) \/ MarkPostedUnannounced(w)
                   \/ MarkFailed(w) \/ LaneErrors(w) \/ Crash(w)
            PROVE  FALSE
        BY <2>2, <4>3, EndMoves DEF Idle
      <4>4. QED BY <3>2, <3>3, <4>1, <4>2, <4>3 DEF Step
    <3>4. CASE StartTick(w) BY <2>2, <3>1, <3>4, StartMoves
    <3>5. ASSUME NEW v \in Workers, v # w, Step(v) \/ StartTick(v) \/ Crash(v)
          PROVE  tick'[w] = tick[w]
      BY <3>5, OtherTicks
    <3>6. QED BY <1>4, <3>1, <3>3, <3>4, <3>5, WorldSteps
  <2>3. QED BY <2>1, <2>2 DEF OpenInv
<1>5. QED BY <1>2, <1>3, <1>4

\* Ticks that follow one another have one thing open at a time.
THEOREM OneThingAtATime == Spec /\ []OneTickAtATime => []OneOpenFinding
<1>1. Init => OpenInv
  <2>1. Init => \A p \in Pairs, a \in Nat : ~InFlight(row[p], a) BY DEF Init, InFlight, NoRow
  <2>2. Init => \A w \in Workers : tick[w].pc # "claim" BY DEF Init, Idle
  <2>3. QED BY <2>1, <2>2 DEF OpenInv, OpenFindings, Pairs
<1>2. TypeOK /\ TickShape /\ OneTickAtATime /\ OpenInv /\ [Next]_vars => OpenInv' BY OpenStep
<1>3. OpenInv => OneOpenFinding
  <2> SUFFICES ASSUME OpenInv PROVE OneOpenFinding OBVIOUS
  <2> DEFINE S == {f \in Findings : \E c \in Channels : InFlight(row[<<f, c>>], 0)}
  <2>1. \A f, g \in S : f = g BY DEF OpenInv, OpenFindings
  <2>2. CASE S = {}
    <3>1. Cardinality(S) = 0 BY <2>2, FS_EmptySet
    <3>2. QED BY <3>1 DEF OneOpenFinding
  <2>3. CASE S # {}
    <3>1. PICK f \in S : TRUE BY <2>3
    <3>2. S = {f} BY <2>1, <3>1
    <3>3. Cardinality(S) = 1 BY <3>2, FS_Singleton
    <3>4. QED BY <3>3 DEF OneOpenFinding
  <2>4. QED BY <2>2, <2>3
<1>4. QED BY <1>1, <1>2, <1>3, TypeCorrect, PTL DEF Spec

\* The backlog only grows.
LEMMA BacklogGrows ==
    ASSUME TypeOK, [Next]_vars
    PROVE  Len(backlog) <= Len(backlog') /\ \A f \in Findings : InBacklog(f) => InBacklog(f)'
<1>1. backlog \in Seq(Findings) BY DEF TypeOK
<1>2. ASSUME NEW f \in Findings, Persist(f)
      PROVE  Len(backlog) <= Len(backlog') /\ \A g \in Findings : InBacklog(g) => InBacklog(g)'
  <2>1. backlog' = <<f>> \o backlog BY <1>2 DEF Persist
  <2>2. Len(backlog') = Len(backlog) + 1 BY <1>1, <2>1
  <2>3. ASSUME NEW i \in DOMAIN backlog
        PROVE  i + 1 \in DOMAIN backlog' /\ backlog'[i + 1] = backlog[i]
    BY <1>1, <2>1, <2>3
  <2>4. QED BY <1>1, <2>2, <2>3 DEF InBacklog
<1>3. ASSUME NEW w \in Workers, StartTick(w) \/ Step(w) \/ Crash(w) PROVE UNCHANGED backlog
  BY <1>3 DEF Step, ListFindings, SkipFinding, ConsiderFinding, ScanUnreadable, EndScan,
     DecideNothing, DecideDeliver, Claim, NotClaimed, Post, PostFails, MarkPosted,
     MarkPostedUnannounced, MarkPostedThrows, MarkFailed, LaneErrors, StartTick, Crash
<1>4. ASSUME NEW c \in Channels, AttachChannel(c) \/ RepointChannel(c) PROVE UNCHANGED backlog
  BY <1>4 DEF AttachChannel, RepointChannel
<1>5. ASSUME NEW f \in Findings, Dismiss(f) PROVE UNCHANGED backlog BY <1>5 DEF Dismiss
<1>6. UNCHANGED vars \/ Advance => UNCHANGED backlog BY DEF vars, Advance
<1>7. UNCHANGED backlog =>
        Len(backlog) <= Len(backlog') /\ \A f \in Findings : InBacklog(f) => InBacklog(f)'
  BY <1>1 DEF InBacklog
<1>8. QED BY <1>2, <1>3, <1>4, <1>5, <1>6, <1>7 DEF Next

\* What is ahead of a tick was ahead of it, or was read from the backlog.
LEMMA ListsComeFromTheBacklog ==
    ASSUME TypeOK, [Next]_vars, NEW w \in Workers, NEW f \in Findings, InList(f, tick'[w].todo)
    PROVE  InList(f, tick[w].todo) \/ InBacklog(f)
<1>1. CASE ListFindings(w) BY <1>1, ListMoves
<1>2. CASE SkipFinding(w) \/ ScanUnreadable(w) \/ ConsiderFinding(w)
  <2>1. tick'[w].todo = Tail(tick[w].todo) /\ tick[w].todo \in Seq(Findings) /\ tick[w].todo # <<>>
    BY <1>2, SkipMoves, ConsiderMoves
  <2>2. QED BY <2>1 DEF InList
<1>3. CASE EndScan(w)
  <2>1. tick'[w].todo = <<>> BY <1>3, EndScanMoves
  <2>2. QED BY <2>1 DEF InList
<1>4. CASE DecideDeliver(w) \/ Claim(w) \/ Post(w) \/ PostFails(w) \/ MarkPostedThrows(w)
  BY <1>4, DecideMoves, DeliverMoves
<1>5. CASE \/ DecideNothing(w) \/ NotClaimed(w) \/ MarkPosted(w) \/ MarkPostedUnannounced(w)
           \/ MarkFailed(w) \/ LaneErrors(w) \/ Crash(w)
  <2>1. tick'[w].todo = <<>> BY <1>5, EndMoves DEF Idle
  <2>2. QED BY <2>1 DEF InList
<1>6. CASE StartTick(w)
  <2>1. tick'[w].todo = <<>> \/ tick' = tick BY <1>6, StartMoves
  <2>2. QED BY <2>1 DEF InList
<1>7. CASE Advance BY <1>7, AdvanceMoves
<1>8. ASSUME NEW v \in Workers, v # w, StartTick(v) \/ Step(v) \/ Crash(v) PROVE tick'[w] = tick[w]
  BY <1>8, OtherTicks
<1>9. QED BY <1>1, <1>2, <1>3, <1>4, <1>5, <1>6, <1>7, <1>8, WorldSteps DEF Step

Marks(w) == MarkPosted(w) \/ MarkPostedUnannounced(w) \/ MarkPostedThrows(w)

\* A delivery is posted by the tick that records it, and its age is then known.
LEMMA PostedSteps ==
    ASSUME TypeOK, TickShape, KnownInv, [Next]_vars, NEW p \in Pairs, Posted(p)'
    PROVE  /\ row'[p].postAge # Null
           /\ \/ Posted(p) /\ row'[p].postAge \in {row[p].postAge, Older(row[p].postAge)}
              \/ \E w \in Workers : Marks(w) /\ Pair(w) = p
<1>1. row[p] \in Row BY DEF TypeOK
<1>2. Posted(p) => row[p].postAge # Null /\ Older(row[p].postAge) # Null
  BY <1>1, OlderIsNoLess DEF KnownInv, Row
<1>3. CASE row'[p] = row[p] BY <1>2, <1>3 DEF Posted
<1>4. CASE row'[p].status = row[p].status /\ row'[p].postAge = Older(row[p].postAge)
  BY <1>2, <1>4 DEF Posted
<1>5. ASSUME NEW a, row'[p] = Claimed(row[p], a) PROVE FALSE
  <2>1. row'[p].status = "pending" BY <1>1, <1>5 DEF Claimed, Row
  <2>2. QED BY <2>1 DEF Posted
<1>6. ASSUME NEW w \in Workers, row'[p] = Receipted(row[p], tick[w].ref)
      PROVE  row'[p].postAge # Null
  BY <1>6 DEF Receipted, Null
<1>7. ASSUME row'[p] = Failed(row[p]), row'[p] # row[p] PROVE FALSE
  <2>1. row'[p].status = "failed" BY <1>1, <1>7 DEF Failed, Row
  <2>2. QED BY <2>1 DEF Posted
<1>8. QED BY <1>3, <1>4, <1>5, <1>6, <1>7, RowMoves DEF Marks

\* A tick that has something in hand is at work.
LEMMA CarryingTicksRun ==
    ASSUME TypeOK, KnownInv, [Next]_vars, NEW w \in Workers, NEW f \in Findings, Carries(w, f)'
    PROVE  Running(w)'
<1>1. CASE Step(w) \/ Crash(w)
  <2>1. CASE \/ ListFindings(w) \/ SkipFinding(w) \/ ScanUnreadable(w)
             \/ ConsiderFinding(w) \/ EndScan(w)
    BY <2>1, ListMoves, SkipMoves, ConsiderMoves, EndScanMoves DEF Running
  <2>2. CASE DecideDeliver(w) \/ Claim(w) \/ Post(w) \/ PostFails(w) \/ MarkPostedThrows(w)
    BY <2>2, DecideMoves, DeliverMoves DEF Running
  <2>3. CASE tick'[w] = Idle BY <2>3, DomainAssumption DEF Carries, Idle
  <2>4. QED BY <1>1, <2>1, <2>2, <2>3, EndMoves DEF Step
<1>2. CASE StartTick(w) BY <1>2, StartMoves, DomainAssumption DEF Carries, Running, KnownInv
<1>3. CASE Advance
  <2>1. tick'[w].pc = tick[w].pc BY <1>3, AdvanceMoves
  <2>2. ~ConsiderFinding(w)
    <3>1. ConsiderFinding(w) => tick'[w].considered = tick[w].considered + 1 BY ConsiderMoves
    <3>2. tick'[w].considered = tick[w].considered /\ tick[w].considered \in Nat
      BY <1>3, AdvanceMoves DEF TypeOK, Tick
    <3>3. QED BY <3>1, <3>2
  <2>3. QED BY <2>1, <2>2, TakesUp DEF KnownInv, Running
<1>4. ASSUME tick'[w] = tick[w] PROVE Running(w)'
  BY <1>4 DEF Carries, KnownInv, Running
<1>5. ASSUME NEW v \in Workers, v # w, StartTick(v) \/ Step(v) \/ Crash(v) PROVE tick'[w] = tick[w]
  BY <1>5, OtherTicks
<1>6. QED BY <1>1, <1>2, <1>3, <1>4, <1>5, WorldSteps

LEMMA KnownStep ==
    ASSUME TypeOK, TickShape, KnownInv, CutoverInv, [Next]_vars
    PROVE  KnownInv'
<1>1. ASSUME NEW p \in Pairs, Posted(p)'
      PROVE  InBacklog(p[1])' /\ p[1] \notin Held /\ row'[p].postAge # Null
  <2>1. p[1] \in Findings BY DEF Pairs
  <2>2. CASE Posted(p) BY <1>1, <2>1, <2>2, PostedSteps, BacklogGrows DEF KnownInv
  <2>3. ASSUME NEW w \in Workers, Marks(w),
               Pair(w) = p
        PROVE  InBacklog(p[1])' /\ p[1] \notin Held
    <3>1. tick[w].chosen = p[1] BY <2>3 DEF Pair
    <3>2. InBacklog(p[1]) /\ p[1] \notin Held BY <2>1, <3>1 DEF KnownInv, Carries
    <3>3. QED BY <2>1, <3>2, BacklogGrows
  <2>4. QED BY <1>1, <2>2, <2>3, PostedSteps
<1>2. ASSUME NEW w \in Workers, NEW f \in Findings, InList(f, tick'[w].todo) PROVE InBacklog(f)'
  BY <1>2, ListsComeFromTheBacklog, BacklogGrows DEF KnownInv
<1>3. ASSUME NEW w \in Workers, NEW f \in Findings, Carries(w, f)'
      PROVE  InBacklog(f)' /\ f \notin Held \cup tick'[w].cutover /\ Running(w)'
  <2>0. Running(w)' BY <1>3, CarryingTicksRun
  <2>1. CASE Carries(w, f)
    <3>1. InBacklog(f)' /\ f \notin Held \cup tick[w].cutover BY <2>1, BacklogGrows DEF KnownInv
    <3>2. QED BY <1>3, <2>0, <3>1, CutoversRead, DomainAssumption DEF SameAddress, Carries
  <2>2. CASE ConsiderFinding(w) /\ f = Head(tick[w].todo)
    <3>1. SameAddress(w) /\ tick[w].todo \in Seq(Findings) /\ tick[w].todo # <<>>
      BY <2>2, ConsiderMoves
    <3>2. InList(f, tick[w].todo) BY <2>2, <3>1 DEF InList
    <3>3. f \notin Held \cup tick[w].cutover BY <2>2 DEF ConsiderFinding, Skipped, IsBeforeCutover
    <3>4. QED BY <2>0, <3>1, <3>2, <3>3, BacklogGrows DEF KnownInv, SameAddress
  <2>3. QED BY <1>3, <2>1, <2>2, TakesUp
<1>4. QED BY <1>1, <1>2, <1>3 DEF KnownInv

\* An address, once chosen, is never taken away; only a move, or
\* the choice of a first address, changes the connection.
LEMMA AddressSteps ==
    ASSUME TypeOK, [Next]_vars
    PROVE  /\ connection.channel # NoChannel => connection'.channel # NoChannel
           /\ \/ UNCHANGED <<connection, moves>>
              \/ /\ (moves' = moves /\ connection.channel = NoChannel) \/ moves' = moves + 1
                 /\ UNCHANGED <<dismissed, row, tick, faults>>
<1>1. connection \in [channel : Channels \cup {NoChannel}, cutover : SUBSET Findings] BY DEF TypeOK
<1>2. ASSUME NEW c \in Channels, AttachChannel(c) \/ RepointChannel(c)
      PROVE  /\ connection'.channel = c
             /\ (moves' = moves /\ connection.channel = NoChannel) \/ moves' = moves + 1
             /\ UNCHANGED <<dismissed, row, tick, faults>>
  BY <1>1, <1>2 DEF AttachChannel, RepointChannel
<1>3. ASSUME NEW w \in Workers, StartTick(w) \/ Step(w) \/ Crash(w)
      PROVE  UNCHANGED <<connection, moves>>
  BY <1>3 DEF Step, ListFindings, SkipFinding, ConsiderFinding, ScanUnreadable, EndScan,
     DecideNothing, DecideDeliver, Claim, NotClaimed, Post, PostFails, MarkPosted,
     MarkPostedUnannounced, MarkPostedThrows, MarkFailed, LaneErrors, StartTick, Crash
<1>4. ASSUME NEW f \in Findings, Persist(f) \/ Dismiss(f) PROVE UNCHANGED <<connection, moves>>
  BY <1>4 DEF Persist, Dismiss
<1>5. UNCHANGED vars \/ Advance => UNCHANGED <<connection, moves>> BY DEF vars, Advance
<1>6. QED BY <1>2, <1>3, <1>4, <1>5, DomainAssumption DEF Next

LEMMA ScanStep ==
    ASSUME TypeOK, TickShape, OneTickAtATime, AllAreConsidered, KnownInv, ScanInv, [Next]_vars
    PROVE  ScanInv'
<1> DEFINE Precede(w) == \A p \in Pairs : Posted(p) => row[p].postAge >= tick[w].age
           Good(w) == /\ tick[w].pc \in {"list", "scan"} => Precede(w)
                      /\ tick[w].pc = "scan" =>
                            tick[w].considered + Len(tick[w].todo) <= Len(backlog)
                      /\ tick[w].pc = "list" => tick[w].delivered = 0 /\ tick[w].considered = 0
                      /\ tick[w].pc = "decide" => tick[w].todo = <<>>
                      /\ Running(w) => connection.channel # NoChannel
<1> SUFFICES ASSUME NEW w \in Workers PROVE Good(w)' BY DEF ScanInv
<1>1. Good(w) BY DEF ScanInv
<1>2. tick[w] \in Tick /\ backlog \in Seq(Findings) BY DEF TypeOK
<1>3. connection.channel # NoChannel => connection'.channel # NoChannel BY AddressSteps
<1>4. Len(backlog) <= Len(backlog') BY BacklogGrows
<1>5. ASSUME Advance PROVE Good(w)'
  <2>1. /\ tick'[w].pc = tick[w].pc /\ tick'[w].todo = tick[w].todo
        /\ tick'[w].delivered = tick[w].delivered /\ tick'[w].considered = tick[w].considered
        /\ Running(w) => tick'[w].age = tick[w].age + 1 /\ tick[w].age < MaxSpan
    BY <1>5, AdvanceMoves
  <2>2. UNCHANGED backlog BY <1>5 DEF Advance
  <2>3. ASSUME tick[w].pc \in {"list", "scan"}, NEW p \in Pairs, Posted(p)'
        PROVE  row'[p].postAge >= tick'[w].age
    <3>1. row[p] \in Row /\ tick[w].age \in Ages BY <1>2 DEF TypeOK, Tick
    <3>2. row'[p] = [row[p] EXCEPT !.claimAge = Older(@), !.postAge = Older(@)] BY <1>5 DEF Advance
    <3>3. row'[p].status = row[p].status /\ row'[p].postAge = Older(row[p].postAge)
      BY <3>1, <3>2 DEF Row
    <3>4. Posted(p) BY <2>3, <3>3 DEF Posted
    <3>5. row[p].postAge >= tick[w].age /\ row[p].postAge # Null BY <1>1, <2>3, <3>4 DEF KnownInv
    <3>6. tick'[w].age = tick[w].age + 1 /\ tick[w].age < Horizon
      BY <2>1, <2>3, <3>1, BoundAssumption DEF Running, Ages
    <3>7. row[p].postAge \in Ages \cup {Null} /\ tick[w].age \in Nat BY <3>1 DEF Row, Ages
    <3>8. Older(row[p].postAge) >= tick[w].age + 1 BY <3>5, <3>6, <3>7, OlderIsNoLess
    <3>9. QED BY <3>3, <3>6, <3>8
  <2>4. QED BY <1>1, <1>3, <2>1, <2>2, <2>3 DEF Running
<1>6. ASSUME tick'[w] = tick[w] PROVE Good(w)'
  <2>1. ASSUME tick[w].pc \in {"list", "scan"}, NEW p \in Pairs, Posted(p)'
        PROVE  row'[p].postAge >= tick'[w].age
    <3>1. Posted(p)
      <4>1. ASSUME NEW v \in Workers, Marks(v)
            PROVE  FALSE
        <5>1. tick[v].pc = "record"
          BY <4>1 DEF Marks, MarkPosted, MarkPostedUnannounced, MarkPostedThrows
        <5>2. QED BY <2>1, <5>1 DEF OneTickAtATime, Running
      <4>2. QED BY <2>1, <4>1, PostedSteps
    <3>2. row[p] \in Row /\ tick[w].age \in Ages /\ row[p].postAge \in Ages \cup {Null}
      BY <1>2 DEF TypeOK, Tick, Row
    <3>3. row[p].postAge >= tick[w].age /\ row[p].postAge # Null BY <1>1, <2>1, <3>1 DEF KnownInv
    <3>4. ASSUME NEW v \in Workers, Marks(v)
          PROVE  FALSE
      <4>1. tick[v].pc = "record"
        BY <3>4 DEF Marks, MarkPosted, MarkPostedUnannounced, MarkPostedThrows
      <4>2. QED BY <2>1, <4>1 DEF OneTickAtATime, Running
    <3>5. row'[p].postAge \in {row[p].postAge, Older(row[p].postAge)} BY <2>1, <3>4, PostedSteps
    <3>6. row[p].postAge <= Older(row[p].postAge) /\ Older(row[p].postAge) \in Ages \cup {Null}
      BY <3>2, OlderIsNoLess, OlderType
    <3>7. QED BY <1>6, <3>2, <3>3, <3>5, <3>6, BoundAssumption DEF Ages, Null
  <2>2. tick[w].todo \in Seq(Findings) /\ tick[w].considered \in Nat BY <1>2 DEF Tick
  <2>3. Len(tick[w].todo) \in Nat /\ Len(backlog) \in Nat BY <1>2, <2>2
  <2>4. backlog' \in Seq(Findings) BY OtherTypes DEF OthersOK
  <2>5. Len(backlog') \in Nat BY <2>4
  <2>6. QED BY <1>1, <1>3, <1>4, <1>6, <2>1, <2>2, <2>3, <2>5 DEF Running
<1>7. ASSUME StartTick(w) PROVE Good(w)'
  <2>1. CASE tick' = tick BY <1>6, <2>1
  <2>2. CASE tick' # tick
    <3>1. /\ tick'[w].pc = "list" /\ tick'[w].age = 0
          /\ tick'[w].delivered = 0 /\ tick'[w].considered = 0 /\ connection.channel # NoChannel
      BY <1>7, <2>2, StartMoves
    <3>2. row' = row BY <1>7 DEF StartTick
    <3>3. \A p \in Pairs : Posted(p) => row[p].postAge >= 0
      BY BoundAssumption DEF KnownInv, TypeOK, Row, Ages, Null
    <3>4. QED BY <1>3, <3>1, <3>2, <3>3 DEF Posted, Running
  <2>3. QED BY <2>1, <2>2
<1>8. ASSUME \/ ListFindings(w) \/ SkipFinding(w) \/ ScanUnreadable(w) \/ ConsiderFinding(w)
      PROVE  Good(w)'
  <2>1. tick'[w].pc = "scan" /\ tick'[w].age = tick[w].age /\ tick[w].pc \in {"list", "scan"}
    BY <1>8, ListMoves, SkipMoves, ConsiderMoves DEF ListFindings
  <2>2. row' = row BY <1>8 DEF ListFindings, SkipFinding, ScanUnreadable, ConsiderFinding
  <2>3. backlog' = backlog BY <1>8 DEF ListFindings, SkipFinding, ScanUnreadable, ConsiderFinding
  <2>4. tick'[w].considered + Len(tick'[w].todo) <= Len(backlog)
    <3>1. CASE ListFindings(w)
      <4>1. tick'[w].considered = 0 /\ tick'[w].todo = backlog
        BY <1>1, <3>1, ListMoves DEF ListFindings
      <4>2. QED BY <1>2, <4>1
    <3>2. CASE ~ListFindings(w)
      <4>1. /\ tick'[w].considered \in {tick[w].considered, tick[w].considered + 1}
            /\ tick[w].pc = "scan" /\ tick[w].todo \in Seq(Findings) /\ tick[w].todo # <<>>
            /\ tick'[w].todo = Tail(tick[w].todo)
        BY <1>8, <3>2, SkipMoves, ConsiderMoves
      <4>2. Len(tick'[w].todo) = Len(tick[w].todo) - 1 BY <4>1
      <4>3. tick[w].considered \in Nat /\ Len(tick[w].todo) \in Nat /\ Len(backlog) \in Nat
        BY <1>2, <4>1 DEF Tick
      <4>4. tick[w].considered + Len(tick[w].todo) <= Len(backlog) BY <1>1, <4>1
      <4>5. QED BY <4>1, <4>2, <4>3, <4>4
    <3>3. QED BY <3>1, <3>2
  <2>5. Running(w) BY <2>1 DEF Running
  <2>6. QED BY <1>1, <1>3, <2>1, <2>2, <2>3, <2>4, <2>5 DEF Posted
<1>9. ASSUME EndScan(w) PROVE Good(w)'
  BY <1>1, <1>3, <1>9, EndScanMoves DEF Running
<1>10. ASSUME DecideDeliver(w) \/ Claim(w) \/ Post(w) \/ PostFails(w) \/ MarkPostedThrows(w)
      PROVE  Good(w)'
  BY <1>1, <1>3, <1>10, DecideMoves, DeliverMoves DEF Running
<1>11. ASSUME \/ DecideNothing(w) \/ NotClaimed(w) \/ MarkPosted(w) \/ MarkPostedUnannounced(w)
              \/ MarkFailed(w) \/ LaneErrors(w) \/ Crash(w)
       PROVE  Good(w)'
  BY <1>11, EndMoves DEF Idle, Running
<1>12. ASSUME NEW v \in Workers, v # w, StartTick(v) \/ Step(v) \/ Crash(v) PROVE tick'[w] = tick[w]
  BY <1>12, OtherTicks
<1>13. QED BY <1>5, <1>6, <1>7, <1>8, <1>9, <1>10, <1>11, <1>12, WorldSteps DEF Step

LEMMA NoMore ==
    ASSUME NEW S, IsFiniteSet(S), NEW T, T \subseteq S
    PROVE  /\ IsFiniteSet(T) /\ Cardinality(T) \in Nat /\ Cardinality(S) \in Nat
           /\ Cardinality(T) <= Cardinality(S)
BY FS_Subset, FS_CardinalityType

LEMMA OneMore ==
    ASSUME NEW S, IsFiniteSet(S), NEW x, NEW T, T \subseteq S \cup {x}
    PROVE  IsFiniteSet(T) /\ Cardinality(T) <= Cardinality(S) + 1
<1>1. /\ IsFiniteSet(S \cup {x})
      /\ Cardinality(S \cup {x}) = (IF x \in S THEN Cardinality(S) ELSE Cardinality(S) + 1)
  BY FS_AddElement
<1>2. Cardinality(S) \in Nat BY FS_CardinalityType
<1>3. IsFiniteSet(T) /\ Cardinality(T) <= Cardinality(S \cup {x}) /\ Cardinality(T) \in Nat
      /\ Cardinality(S \cup {x}) \in Nat
  BY <1>1, NoMore
<1>4. QED BY <1>1, <1>2, <1>3

AllPosted == {p \in Pairs : Posted(p)}

\* Dismissals are not taken back, and faults are counted one by one.
LEMMA CostsGrow ==
    ASSUME TypeOK, [Next]_vars
    PROVE  dismissed \subseteq dismissed' /\ faults' \in {faults, faults + 1}
<1>1. ASSUME NEW w \in Workers, Step(w) \/ StartTick(w) \/ Crash(w)
      PROVE  dismissed' = dismissed /\ faults' \in {faults, faults + 1}
  BY <1>1 DEF Step, ListFindings, SkipFinding, ConsiderFinding, ScanUnreadable, EndScan,
     DecideNothing, DecideDeliver, Claim, NotClaimed, Post, PostFails, MarkPosted,
     MarkPostedUnannounced, MarkPostedThrows, MarkFailed, LaneErrors, StartTick, Crash
<1>2. ASSUME NEW c \in Channels, AttachChannel(c) \/ RepointChannel(c)
      PROVE  UNCHANGED <<dismissed, faults>>
  BY <1>2 DEF AttachChannel, RepointChannel
<1>3. ASSUME NEW f \in Findings, Persist(f) \/ Dismiss(f)
      PROVE  dismissed \subseteq dismissed' /\ faults' = faults
  BY <1>3 DEF Persist, Dismiss
<1>4. UNCHANGED vars \/ Advance => UNCHANGED <<dismissed, faults>> BY DEF vars, Advance
<1>5. QED BY <1>1, <1>2, <1>3, <1>4 DEF Next

\* A step adds to the week's count the delivery it records, if any.
LEMMA CountedSteps ==
    ASSUME TypeOK, TickShape, KnownInv, [Next]_vars
    PROVE  \A p \in Pairs :
              /\ p \in AllPosted' => p \in AllPosted \/ \E w \in Workers : Marks(w) /\ Pair(w) = p
              /\ p \in Counted' => p \in Counted \/ \E w \in Workers : Marks(w) /\ Pair(w) = p
<1> SUFFICES ASSUME NEW p \in Pairs, Posted(p)',
                    ~ \E w \in Workers : Marks(w) /\ Pair(w) = p
             PROVE  Posted(p) /\ (p \in Counted' => p \in Counted)
  BY DEF AllPosted, Counted, PostedThisWeek
<1>1. Posted(p) /\ row'[p].postAge \in {row[p].postAge, Older(row[p].postAge)}
  BY PostedSteps
<1>2. row[p].postAge \in Ages \cup {Null} /\ Older(row[p].postAge) \in Ages \cup {Null}
  BY OlderType DEF TypeOK, Row
<1>3. row[p].postAge <= row'[p].postAge BY <1>1, <1>2, OlderIsNoLess, BoundAssumption DEF Ages, Null
<1>4. row'[p].postAge <= Week => row[p].postAge <= Week
  BY <1>1, <1>2, <1>3, BoundAssumption DEF Ages, Null
<1>5. QED BY <1>1, <1>4, CostsGrow DEF Counted, PostedThisWeek, Posted

LEMMA CountedIsFinite ==
    ASSUME CeilingInv
    PROVE  /\ IsFiniteSet(Counted) /\ Cardinality(Counted) \in Nat
           /\ \A S : IsFiniteSet(Counted \ S) /\ Cardinality(Counted \ S) \in Nat
                     /\ Cardinality(Counted \ S) <= Cardinality(Counted)
<1>1. Counted \subseteq AllPosted BY DEF Counted, PostedThisWeek, AllPosted
<1>2. IsFiniteSet(AllPosted) BY DEF CeilingInv, AllPosted
<1>3. IsFiniteSet(Counted) /\ Cardinality(Counted) \in Nat BY <1>1, <1>2, NoMore
<1>4. ASSUME NEW S PROVE Counted \ S \subseteq Counted OBVIOUS
<1>5. QED BY <1>3, <1>4, NoMore

LEMMA NumbersType ==
    ASSUME TypeOK
    PROVE  /\ faults \in Nat /\ Weeks \in Nat /\ Budget \in Nat
           /\ \A w \in Workers : tick[w].delivered \in Nat /\ Room(w) \in {0, Budget}
<1>1. moves \in Nat /\ faults \in Nat /\ Budget \in Nat BY BoundAssumption DEF TypeOK
<1>2. Weeks \in Nat BY <1>1 DEF Weeks
<1>3. QED BY <1>1, <1>2 DEF Room, TypeOK, Tick

TickCeiling(w) ==
    /\ tick[w].pc \in {"list", "scan", "decide"} =>
          Cardinality(Counted \ Ahead(w)) + Budget <= Weeks + faults + tick[w].delivered + Room(w)
    /\ tick[w].pc \in {"claim", "post", "record"} =>
          Cardinality(Counted) + 1 <= Weeks + faults + Room(w)

\* While nothing is recorded and the address stands, a tick that keeps its address, and has
\* not fewer deliveries ahead of it, keeps within its room.
LEMMA TickKeepsItsRoom ==
    ASSUME TypeOK, TickShape, CeilingInv, TypeOK', NEW w \in Workers, TickCeiling(w),
           Counted' \subseteq Counted, faults' \in {faults, faults + 1},
           UNCHANGED <<connection, moves>>, SameAddress(w),
           \/ /\ tick[w].pc \in {"list", "scan", "decide"}
              /\ tick'[w].pc \in {"list", "scan", "decide"}
              /\ tick'[w].delivered = tick[w].delivered
              /\ \A p \in Counted' : p \in Ahead(w) => p \in Ahead(w)'
           \/ /\ tick[w].pc \in {"claim", "post", "record"}
              /\ tick'[w].pc \in {"claim", "post", "record"}
           \/ tick'[w].pc \in {"idle", "fail"}
    PROVE  TickCeiling(w)'
<1>1. Weeks' = Weeks /\ Room(w)' = Room(w) BY DEF Weeks, Room, Fresh, SameAddress
<1>2. /\ faults \in Nat /\ faults' \in Nat /\ Weeks \in Nat /\ Budget \in Nat
      /\ tick[w].delivered \in Nat /\ Room(w) \in {0, Budget}
  BY NumbersType DEF TypeOK
<1>3. CASE tick[w].pc \in {"list", "scan", "decide"} /\ tick'[w].pc \in {"list", "scan", "decide"}
  <2>1. tick'[w].delivered = tick[w].delivered /\ (Counted \ Ahead(w))' \subseteq Counted \ Ahead(w)
    BY <1>3
  <2>2. /\ Cardinality(Counted \ Ahead(w))' \in Nat /\ Cardinality(Counted \ Ahead(w)) \in Nat
        /\ Cardinality(Counted \ Ahead(w))' <= Cardinality(Counted \ Ahead(w))
    BY <2>1, CountedIsFinite, NoMore
  <2>3. Cardinality(Counted \ Ahead(w)) + Budget <= Weeks + faults + tick[w].delivered + Room(w)
    BY <1>3 DEF TickCeiling
  <2>4. Cardinality(Counted \ Ahead(w))' + Budget <= Weeks + faults' + tick[w].delivered + Room(w)
    BY <1>2, <2>2, <2>3
  <2>5. QED BY <1>1, <1>3, <2>1, <2>4 DEF TickCeiling
<1>4. CASE tick[w].pc \in {"claim", "post", "record"} /\ tick'[w].pc \in {"claim", "post", "record"}
  <2>1. /\ Cardinality(Counted)' \in Nat /\ Cardinality(Counted) \in Nat
        /\ Cardinality(Counted)' <= Cardinality(Counted)
    BY CountedIsFinite, NoMore
  <2>2. Cardinality(Counted)' + 1 <= Weeks + faults' + Room(w) BY <1>2, <1>4, <2>1 DEF TickCeiling
  <2>3. QED BY <1>1, <1>4, <2>2 DEF TickCeiling
<1>5. CASE tick'[w].pc \in {"idle", "fail"} BY <1>5 DEF TickCeiling
<1>6. QED BY <1>3, <1>4, <1>5

\* A finding ahead in a list is the first or is ahead in the rest.
LEMMA HeadOrTail ==
    ASSUME NEW s \in Seq(Findings), s # <<>>, NEW f, InList(f, s)
    PROVE  f = Head(s) \/ InList(f, Tail(s))
<1>1. PICK i \in DOMAIN s : s[i] = f BY DEF InList
<1>2. CASE i = 1 BY <1>1, <1>2
<1>3. CASE i # 1
  <2>1. i - 1 \in DOMAIN Tail(s) /\ Tail(s)[i - 1] = s[i] BY <1>1, <1>3
  <2>2. QED BY <1>1, <2>1 DEF InList
<1>4. QED BY <1>2, <1>3

\* A skipped finding is none of those the ceiling counts for this tick.
LEMMA SkippedIsNotCounted ==
    ASSUME TypeOK, KnownInv, NEW w \in Workers, NEW f, Skipped(f, w), <<f,
           tick[w].channel>> \in Ahead(w)
    PROVE  FALSE
BY DEF Ahead, Counted, PostedThisWeek, KnownInv, Skipped, IsBeforeCutover, IsSuppressed

\* One that is counted, and read by a scan, is within the scan's own week.
LEMMA CountedIsInWindow ==
    ASSUME TypeOK, ScanInv, NEW w \in Workers, tick[w].pc = "scan",
           NEW f, <<f, tick[w].channel>> \in Ahead(w)
    PROVE  WasPostedInWindow(row[<<f, tick[w].channel>>], tick[w].age)
<1> DEFINE p == <<f, tick[w].channel>>
<1>1. p \in Pairs /\ Posted(p) /\ row[p].postAge <= Week BY DEF Ahead, Counted, PostedThisWeek
<1>2. row[p].postAge >= tick[w].age BY <1>1 DEF ScanInv
<1>3. row[p].postAge \in Ages \cup {Null} /\ tick[w].age \in Ages BY <1>1 DEF TypeOK, Row, Tick
<1>4. row[p].postAge <= tick[w].age + Week BY <1>1, <1>3, BoundAssumption DEF Ages, Null
<1>5. QED BY <1>1, <1>2, <1>4 DEF WasPostedInWindow, Posted

\* One step of a scan: whatever leaves the list is counted, was not to be counted, or is
\* missed by a fault.
LEMMA ScanKeepsItsRoom ==
    ASSUME TypeOK, TickShape, KnownInv, ScanInv, CeilingInv, TypeOK', NEW w \in Workers,
           TickCeiling(w),
           Counted' \subseteq Counted, faults' \in {faults, faults + 1},
           UNCHANGED <<connection, moves>>,
           SkipFinding(w) \/ ConsiderFinding(w) \/ ScanUnreadable(w)
    PROVE  TickCeiling(w)'
<1> DEFINE f == Head(tick[w].todo)
           q == <<f, tick[w].channel>>
<1>1. /\ tick[w].pc = "scan" /\ tick'[w].pc = "scan" /\ SameAddress(w)
      /\ tick[w].todo \in Seq(Findings) /\ tick[w].todo # <<>>
      /\ tick'[w].todo = Tail(tick[w].todo)
  BY SkipMoves, ConsiderMoves
<1>2. ASSUME NEW p \in Counted', p \in Ahead(w) PROVE p \in Ahead(w)' \/ p = q
  <2>1. /\ p \in Counted /\ p[2] = tick[w].channel /\ p[1] \notin tick[w].cutover
        /\ InList(p[1], tick[w].todo)
    BY <1>1, <1>2 DEF Ahead
  <2>2. p = <<p[1], p[2]>> BY <2>1 DEF Counted, PostedThisWeek, Pairs
  <2>3. p[1] = f \/ InList(p[1], tick'[w].todo) BY <1>1, <2>1, HeadOrTail
  <2>4. QED BY <1>1, <1>2, <2>1, <2>2, <2>3 DEF Ahead, SameAddress
<1>3. CASE \/ SkipFinding(w)
           \/ ConsiderFinding(w) /\ q \notin Ahead(w) /\ tick'[w].delivered = tick[w].delivered
  <2>1. tick'[w].delivered = tick[w].delivered BY <1>3, SkipMoves
  <2>2. q \notin Ahead(w) BY <1>3, SkippedIsNotCounted DEF SkipFinding
  <2>3. \A p \in Counted' : p \in Ahead(w) => p \in Ahead(w)' BY <1>2, <2>2
  <2>4. QED BY <1>1, <2>1, <2>3, TickKeepsItsRoom
<1>4. CASE \/ ConsiderFinding(w) /\ tick'[w].delivered = tick[w].delivered + 1
           \/ ScanUnreadable(w)
  <2>1. /\ tick'[w].delivered \in Nat /\ faults' \in Nat
        /\ tick'[w].delivered + faults' >= tick[w].delivered + faults + 1
    <3>1. tick[w].delivered \in Nat /\ faults \in Nat BY NumbersType
    <3>2. CASE ScanUnreadable(w)
      <4>1. faults' = faults + 1 /\ tick'[w].delivered = tick[w].delivered
        BY <3>2, SkipMoves DEF ScanUnreadable
      <4>2. QED BY <3>1, <4>1
    <3>3. CASE tick'[w].delivered = tick[w].delivered + 1 BY <3>1, <3>3
    <3>4. QED BY <1>4, <3>2, <3>3
  <2>2. /\ faults \in Nat /\ Weeks \in Nat /\ Budget \in Nat
        /\ tick[w].delivered \in Nat /\ Room(w) \in {0, Budget}
    BY NumbersType
  <2>3. (Counted \ Ahead(w))' \subseteq (Counted \ Ahead(w)) \cup {q} BY <1>2
  <2>4. Cardinality(Counted \ Ahead(w))' <= Cardinality(Counted \ Ahead(w)) + 1
        /\ IsFiniteSet(Counted \ Ahead(w))'
    BY <2>3, CountedIsFinite, OneMore
  <2>5. Cardinality(Counted \ Ahead(w)) \in Nat /\ Cardinality(Counted \ Ahead(w))' \in Nat
    BY <2>4, CountedIsFinite, FS_CardinalityType
  <2>6. Cardinality(Counted \ Ahead(w)) + Budget <= Weeks + faults + tick[w].delivered + Room(w)
    BY <1>1 DEF TickCeiling
  <2>7. Cardinality(Counted \ Ahead(w))' + Budget <= Weeks + faults' + tick'[w].delivered + Room(w)
    BY <2>1, <2>2, <2>4, <2>5, <2>6
  <2>8. Weeks' = Weeks /\ Room(w)' = Room(w) BY <1>1 DEF Weeks, Room, Fresh, SameAddress
  <2>9. QED BY <1>1, <2>7, <2>8 DEF TickCeiling
<1>5. ASSUME ConsiderFinding(w)
      PROVE  \/ tick'[w].delivered = tick[w].delivered + 1
             \/ q \notin Ahead(w) /\ tick'[w].delivered = tick[w].delivered
  <2>1. tick'[w].delivered =
            tick[w].delivered + (IF WasPostedInWindow(row[q], tick[w].age) THEN 1 ELSE 0)
    BY <1>5, ConsiderMoves
  <2>2. tick[w].delivered \in Nat BY NumbersType
  <2>3. CASE WasPostedInWindow(row[q], tick[w].age) BY <2>1, <2>3
  <2>4. CASE ~WasPostedInWindow(row[q], tick[w].age)
    BY <1>1, <2>1, <2>2, <2>4, CountedIsInWindow
  <2>5. QED BY <2>3, <2>4
<1>6. QED BY <1>3, <1>4, <1>5

\* While nothing is recorded and the address stands, every tick keeps within its room.
LEMMA TicksKeepTheirRoom ==
    ASSUME TypeOK, TickShape, OneTickAtATime, AllAreConsidered, KnownInv, ScanInv, CeilingInv,
           TypeOK', [Next]_vars,
           Counted' \subseteq Counted, UNCHANGED <<connection, moves>>, NEW w \in Workers
    PROVE  TickCeiling(w)'
<1>1. TickCeiling(w) BY DEF CeilingInv, TickCeiling
<1>2. faults' \in {faults, faults + 1} BY CostsGrow
<1>3. tick[w] \in Tick BY DEF TypeOK
<1> DEFINE pcs == {"idle", "list", "scan", "decide", "claim", "post", "record", "fail"}
<1>4. tick[w].pc \in pcs BY <1>3 DEF Tick
<1>5. CASE Advance \/ tick'[w] = tick[w]
  <2>1. /\ tick'[w].pc = tick[w].pc /\ SameAddress(w) /\ tick'[w].todo = tick[w].todo
        /\ tick'[w].delivered = tick[w].delivered
    BY <1>5, AdvanceMoves DEF SameAddress
  <2>2. \A p \in Counted' : p \in Ahead(w) => p \in Ahead(w)' BY <2>1 DEF Ahead, SameAddress
  <2>3. CASE tick[w].pc \in {"list", "scan", "decide"}
    BY <1>1, <1>2, <2>1, <2>2, <2>3, TickKeepsItsRoom
  <2>4. CASE tick[w].pc \in {"claim", "post", "record"} BY <1>1, <1>2, <2>1, <2>4, TickKeepsItsRoom
  <2>5. CASE tick[w].pc \in {"idle", "fail"} BY <2>1, <2>5 DEF TickCeiling
  <2>6. QED BY <1>4, <2>3, <2>4, <2>5
<1>6. ASSUME StartTick(w), tick' # tick PROVE TickCeiling(w)'
  <2>1. /\ tick'[w].pc = "list" /\ tick'[w].channel = connection.channel
        /\ tick'[w].cutover = connection.cutover /\ tick'[w].delivered = 0
    BY <1>6, StartMoves
  <2>2. Weeks' = Weeks /\ Room(w)' = Budget BY <2>1 DEF Weeks, Room, Fresh
  <2>3. (Counted \ Ahead(w))' \subseteq Counted \ AtAddress BY <2>1 DEF Ahead, AtAddress
  <2>4. /\ Cardinality(Counted \ Ahead(w))' \in Nat /\ Cardinality(Counted \ AtAddress) \in Nat
        /\ Cardinality(Counted \ Ahead(w))' <= Cardinality(Counted \ AtAddress)
    BY <2>3, CountedIsFinite, NoMore
  <2>5. Cardinality(Counted \ AtAddress) <= Weeks + faults BY DEF CeilingInv
  <2>6. Cardinality(Counted \ Ahead(w))' + Budget <= Weeks + faults' + 0 + Budget
    BY <1>2, <2>4, <2>5, NumbersType
  <2>7. QED BY <2>1, <2>2, <2>6 DEF TickCeiling
<1>7. CASE ListFindings(w)
  <2>1. /\ tick[w].pc = "list" /\ tick'[w].pc = "scan" /\ SameAddress(w)
        /\ tick'[w].delivered = tick[w].delivered /\ tick'[w].todo = backlog
    BY <1>7, ListMoves DEF ListFindings
  <2>2. ASSUME NEW p \in Counted', p \in Ahead(w) PROVE p \in Ahead(w)'
    <3>1. p \in Counted /\ p[2] = tick[w].channel /\ p[1] \notin tick[w].cutover BY <2>2 DEF Ahead
    <3>2. InBacklog(p[1]) BY <3>1 DEF Counted, PostedThisWeek, KnownInv
    <3>3. InList(p[1], tick'[w].todo) BY <2>1, <3>2 DEF InList, InBacklog
    <3>4. QED BY <2>1, <2>2, <3>1, <3>3 DEF Ahead, SameAddress
  <2>3. QED BY <1>1, <1>2, <2>1, <2>2, TickKeepsItsRoom
<1>8. CASE SkipFinding(w) \/ ConsiderFinding(w) \/ ScanUnreadable(w)
  BY <1>1, <1>2, <1>8, ScanKeepsItsRoom
<1>9. CASE EndScan(w)
  <2>1. /\ tick[w].pc = "scan" /\ tick'[w].pc = "decide" /\ SameAddress(w)
        /\ tick'[w].delivered = tick[w].delivered
    BY <1>9, EndScanMoves
  <2>2. tick[w].todo = <<>>
    <3>1. tick[w].todo \in Seq(Findings) /\ backlog \in Seq(Findings) /\ tick[w].considered \in Nat
      BY <1>3 DEF Tick, TypeOK
    <3>2. tick[w].considered + Len(tick[w].todo) <= Len(backlog) BY <2>1 DEF ScanInv
    <3>3. Len(backlog) <= Considered /\ Considered \in Nat BY BoundAssumption DEF AllAreConsidered
    <3>4. CASE tick[w].considered >= Considered
      <4>1. Len(tick[w].todo) = 0 BY <3>1, <3>2, <3>3, <3>4
      <4>2. QED BY <3>1, <4>1
    <3>5. QED BY <1>9, <3>4 DEF EndScan
  <2>3. \A p : p \notin Ahead(w) BY <2>1, <2>2 DEF Ahead, InList
  <2>4. QED BY <1>1, <1>2, <2>1, <2>3, TickKeepsItsRoom
<1>10. CASE DecideDeliver(w)
  <2>1. /\ tick[w].pc = "decide" /\ tick'[w].pc = "claim" /\ SameAddress(w)
        /\ BudgetRemains(tick[w].delivered)
    BY <1>10, DecideMoves
  <2>2. Weeks' = Weeks /\ Room(w)' = Room(w) BY <2>1 DEF Weeks, Room, Fresh, SameAddress
  <2>3. Ahead(w) = {} BY <2>1 DEF Ahead, ScanInv, InList
  <2>4. Counted \ Ahead(w) = Counted BY <2>3
  <2>5. Cardinality(Counted) + Budget <= Weeks + faults + tick[w].delivered + Room(w)
    BY <1>1, <2>1, <2>4 DEF TickCeiling
  <2>6. /\ Cardinality(Counted)' \in Nat /\ Cardinality(Counted) \in Nat
        /\ Cardinality(Counted)' <= Cardinality(Counted)
    BY CountedIsFinite, NoMore
  <2>7. Cardinality(Counted)' + 1 <= Weeks + faults' + Room(w)
    BY <1>2, <2>1, <2>5, <2>6, NumbersType DEF BudgetRemains
  <2>8. QED BY <2>1, <2>2, <2>7 DEF TickCeiling
<1>11. CASE Claim(w) \/ Post(w) \/ PostFails(w) \/ MarkPostedThrows(w)
  <2>1. /\ SameAddress(w) /\ tick[w].pc \in {"claim", "post", "record"}
        /\ tick'[w].pc \in {"post", "record", "fail"}
    BY <1>11, DeliverMoves
  <2>2. CASE tick'[w].pc = "fail" BY <2>2 DEF TickCeiling
  <2>3. CASE tick'[w].pc # "fail" BY <1>1, <1>2, <2>1, <2>3, TickKeepsItsRoom
  <2>4. QED BY <2>2, <2>3
<1>12. CASE \/ DecideNothing(w) \/ NotClaimed(w) \/ MarkPosted(w) \/ MarkPostedUnannounced(w)
            \/ MarkFailed(w) \/ LaneErrors(w) \/ Crash(w)
  <2>1. tick'[w].pc = "idle" BY <1>12, EndMoves DEF Idle
  <2>2. QED BY <2>1 DEF TickCeiling
<1>13. ASSUME NEW v \in Workers, v # w, StartTick(v) \/ Step(v) \/ Crash(v) PROVE tick'[w] = tick[w]
  BY <1>13, OtherTicks
<1>14. QED BY <1>5, <1>6, <1>7, <1>8, <1>9, <1>10, <1>11, <1>12, <1>13, WorldSteps DEF Step

\* A delivery is recorded: the tick that does had room for one more.
LEMMA RecordingCeiling ==
    ASSUME TypeOK, TickShape, OneTickAtATime, KnownInv, CeilingInv, TypeOK', [Next]_vars,
           NEW w \in Workers, Marks(w)
    PROVE  CeilingInv'
<1> DEFINE q == Pair(w)
<1>1. tick[w].pc = "record" /\ UNCHANGED <<connection, moves>> /\ Step(w)
  BY DEF Marks, MarkPosted, MarkPostedUnannounced, MarkPostedThrows, Step
<1>2. ASSUME NEW v \in Workers, Marks(v) PROVE v = w
  BY <1>1, <1>2
     DEF Marks, MarkPosted, MarkPostedUnannounced, MarkPostedThrows, OneTickAtATime, Running
<1>3. AllPosted' \subseteq AllPosted \cup {q} /\ Counted' \subseteq Counted \cup {q}
  BY <1>2, CountedSteps DEF AllPosted, Counted, PostedThisWeek
<1>4. IsFiniteSet(AllPosted)' BY <1>3, OneMore DEF CeilingInv, AllPosted
<1>5. /\ IsFiniteSet(Counted)' /\ Cardinality(Counted)' <= Cardinality(Counted) + 1
      /\ Cardinality(Counted) \in Nat /\ Cardinality(Counted)' \in Nat
  BY <1>3, CountedIsFinite, OneMore, FS_CardinalityType
<1>6. Cardinality(Counted) + 1 <= Weeks + faults + Room(w) BY <1>1 DEF CeilingInv
<1>7. /\ faults \in Nat /\ faults' \in {faults, faults + 1} /\ Weeks \in Nat /\ Weeks' = Weeks
      /\ Budget \in Nat /\ Room(w) \in {0, Budget}
  BY <1>1, NumbersType, CostsGrow DEF Weeks
<1>8. Cardinality(Counted)' <= Weeks' + Budget + faults' BY <1>5, <1>6, <1>7
<1>9. Cardinality(Counted \ AtAddress)' <= Weeks' + faults'
  <2>1. CASE Fresh(w)
    <3>1. tick[w].chosen \in Findings /\ tick[w].channel \in Channels BY <1>1 DEF TickShape, Running
    <3>2. tick[w].chosen \notin tick[w].cutover BY <3>1 DEF KnownInv, Carries
    <3>3. q[1] = tick[w].chosen /\ q[2] = tick[w].channel BY DEF Pair
    <3>4. q \in Counted' => q \in AtAddress' BY <1>1, <2>1, <3>2, <3>3 DEF AtAddress, Fresh
    <3>5. \A p \in Counted' : p \in AtAddress => p \in AtAddress' BY <1>1 DEF AtAddress
    <3>6. (Counted \ AtAddress)' \subseteq Counted \ AtAddress BY <1>3, <3>4, <3>5
    <3>7. /\ Cardinality(Counted \ AtAddress)' <= Cardinality(Counted \ AtAddress)
          /\ Cardinality(Counted \ AtAddress)' \in Nat /\ Cardinality(Counted \ AtAddress) \in Nat
      BY <3>6, CountedIsFinite, NoMore
    <3>8. QED BY <1>7, <3>7 DEF CeilingInv
  <2>2. CASE ~Fresh(w)
    <3>1. Room(w) = 0 BY <2>2 DEF Room
    <3>2. Counted' \ AtAddress' \subseteq Counted' OBVIOUS
    <3>3. /\ Cardinality(Counted \ AtAddress)' <= Cardinality(Counted)'
          /\ Cardinality(Counted \ AtAddress)' \in Nat
      BY <1>5, <3>2, NoMore
    <3>4. QED BY <1>5, <1>6, <1>7, <3>1, <3>3
  <2>3. QED BY <2>1, <2>2
<1>10. ASSUME NEW v \in Workers PROVE tick'[v].pc \in {"idle", "fail"}
  <2>1. tick'[w].pc \in {"idle", "fail"}
    <3>1. CASE MarkPostedThrows(w) BY <1>1, <3>1, DeliverMoves
    <3>2. CASE MarkPosted(w) \/ MarkPostedUnannounced(w) BY <3>2, EndMoves DEF Idle
    <3>3. QED BY <3>1, <3>2 DEF Marks
  <2>2. CASE v # w BY <1>1, <2>2, OthersRest
  <2>3. QED BY <2>1, <2>2
<1>11. QED BY <1>4, <1>8, <1>9, <1>10 DEF CeilingInv, AllPosted

LEMMA CeilingStep ==
    ASSUME TypeOK, TickShape, OneTickAtATime, AllAreConsidered, KnownInv, ScanInv, CeilingInv,
           TypeOK', [Next]_vars
    PROVE  CeilingInv'
<1>1. CASE \E w \in Workers : Marks(w) BY <1>1, RecordingCeiling
<1>2. CASE ~ \E w \in Workers : Marks(w)
  <2>1. AllPosted' \subseteq AllPosted /\ Counted' \subseteq Counted
    BY <1>2, CountedSteps DEF AllPosted, Counted, PostedThisWeek
  <2>2. IsFiniteSet(AllPosted)' BY <2>1, NoMore DEF CeilingInv, AllPosted
  <2>3. /\ Cardinality(Counted)' <= Cardinality(Counted)
        /\ IsFiniteSet(Counted)' /\ Cardinality(Counted) \in Nat /\ Cardinality(Counted)' \in Nat
    BY <2>1, CountedIsFinite, NoMore
  <2>4. faults \in Nat /\ faults' \in {faults, faults + 1} /\ Weeks \in Nat /\ Budget \in Nat
    BY NumbersType, CostsGrow
  <2>5. CASE UNCHANGED <<connection, moves>>
    <3>1. Weeks' = Weeks BY <2>5 DEF Weeks
    <3>2. (Counted \ AtAddress)' \subseteq Counted \ AtAddress BY <2>1, <2>5 DEF AtAddress
    <3>3. /\ Cardinality(Counted \ AtAddress)' <= Cardinality(Counted \ AtAddress)
          /\ Cardinality(Counted \ AtAddress)' \in Nat /\ Cardinality(Counted \ AtAddress) \in Nat
      BY <3>2, CountedIsFinite, NoMore
    <3>4. Cardinality(Counted)' <= Weeks' + Budget + faults' BY <2>3, <2>4, <3>1 DEF CeilingInv
    <3>5. Cardinality(Counted \ AtAddress)' <= Weeks' + faults' BY <2>4, <3>1, <3>3 DEF CeilingInv
    <3>6. \A w \in Workers : TickCeiling(w)' BY <2>1, <2>5, TicksKeepTheirRoom
    <3>7. QED BY <2>2, <3>4, <3>5, <3>6 DEF CeilingInv, TickCeiling, AllPosted
  <2>6. CASE /\ (moves' = moves /\ connection.channel = NoChannel) \/ moves' = moves + 1
             /\ UNCHANGED <<dismissed, row, tick, faults>>
    <3>1. Counted' = Counted BY <2>6 DEF Counted, PostedThisWeek, Posted
    <3>2. \A w \in Workers : Ahead(w)' = Ahead(w) BY <2>6, <3>1 DEF Ahead
    <3>3. Counted' \ AtAddress' \subseteq Counted' OBVIOUS
    <3>4. /\ Cardinality(Counted \ AtAddress)' <= Cardinality(Counted)
          /\ Cardinality(Counted \ AtAddress)' \in Nat
      BY <2>3, <3>1, <3>3, NoMore
    <3>5. CASE moves' = moves /\ connection.channel = NoChannel
      <4>1. Weeks' = Weeks BY <3>5 DEF Weeks
      <4>2. AtAddress = {} BY <3>5, DomainAssumption DEF AtAddress, Counted, PostedThisWeek, Pairs
      <4>3. Counted \ AtAddress = Counted BY <4>2
      <4>4. Cardinality(Counted) <= Weeks + faults BY <4>3 DEF CeilingInv
      <4>5. \A w \in Workers : tick'[w].pc = "idle" BY <2>6, <3>5 DEF ScanInv, Running
      <4>6. Cardinality(Counted \ AtAddress)' <= Weeks' + faults'
        BY <2>3, <2>4, <2>6, <3>4, <4>1, <4>4
      <4>7. Cardinality(Counted)' <= Weeks' + Budget + faults' BY <2>3, <2>4, <2>6, <4>1, <4>4
      <4>8. QED BY <2>2, <4>5, <4>6, <4>7 DEF CeilingInv, AllPosted
    <3>6. CASE moves' = moves + 1
      <4>1. Weeks' = Weeks + Budget
        <5>1. moves \in Nat /\ Budget \in Nat BY BoundAssumption DEF TypeOK
        <5>2. Budget * (moves + 1) = Budget * moves + Budget BY <5>1
        <5>3. QED BY <3>6, <5>2 DEF Weeks
      <4>2. Cardinality(Counted) <= Weeks + Budget + faults BY DEF CeilingInv
      <4>3. Cardinality(Counted \ AtAddress)' <= Weeks' + faults'
        BY <2>3, <2>4, <2>6, <3>4, <4>1, <4>2
      <4>4. Cardinality(Counted)' <= Weeks' + Budget + faults' BY <2>3, <2>4, <2>6, <4>1, <4>2
      <4>5. ASSUME NEW w \in Workers PROVE TickCeiling(w)'
        <5>1. TickCeiling(w) BY DEF CeilingInv, TickCeiling
        <5>2. Room(w) \in {0, Budget} /\ Room(w)' \in {0, Budget} /\ tick[w].delivered \in Nat
          BY NumbersType DEF Room
        <5>3. Weeks + Room(w) <= Weeks' + Room(w)' BY <2>4, <4>1, <5>2
        <5>4. /\ Cardinality(Counted \ Ahead(w)) \in Nat /\ Weeks' \in Nat
          BY <2>4, <4>1, CountedIsFinite
        <5>5. tick[w].pc \in {"list", "scan", "decide"} =>
                Cardinality(Counted \ Ahead(w)) + Budget
                    <= Weeks' + faults + tick[w].delivered + Room(w)'
          BY <2>4, <5>1, <5>2, <5>3, <5>4 DEF TickCeiling
        <5>6. tick[w].pc \in {"claim", "post", "record"} =>
                Cardinality(Counted) + 1 <= Weeks' + faults + Room(w)'
          BY <2>3, <2>4, <5>1, <5>2, <5>3, <5>4 DEF TickCeiling
        <5>7. QED BY <2>6, <3>1, <3>2, <5>5, <5>6 DEF TickCeiling
      <4>6. QED BY <2>2, <4>3, <4>4, <4>5 DEF CeilingInv, TickCeiling, AllPosted
    <3>7. QED BY <2>6, <3>5, <3>6
  <2>7. QED BY <2>5, <2>6, AddressSteps
<1>3. QED BY <1>1, <1>2

CadenceInv == KnownInv /\ ScanInv /\ CutoverInv /\ CeilingInv

\* Ticks that follow one another keep the cadence: one thing open at a time, and the weekly
\* ceiling, as long as the project has no more findings than a lane considers.
THEOREM TicksInTurnKeepTheCadence ==
    Spec /\ [](OneTickAtATime /\ AllAreConsidered) => []KeepsTheCadence
<1>1. Init => CadenceInv
  <2> SUFFICES ASSUME Init PROVE CadenceInv OBVIOUS
  <2>1. /\ \A p \in Pairs : ~Posted(p)
        /\ \A w \in Workers : /\ tick[w].pc = "idle" /\ tick[w].todo = <<>>
                              /\ tick[w].ready = {} /\ tick[w].chosen = NoFinding
        /\ connection.cutover = {} /\ faults = 0 /\ moves = 0
    BY DEF Init, Posted, NoRow, Idle
  <2>2. KnownInv /\ ScanInv /\ CutoverInv
    BY <2>1, DomainAssumption DEF KnownInv, ScanInv, CutoverInv, Carries, InList, Running
  <2>3. AllPosted = {} /\ Counted = {} /\ Counted \ AtAddress = {}
    BY <2>1 DEF AllPosted, Counted, PostedThisWeek
  <2>4. IsFiniteSet(AllPosted) /\ Cardinality(Counted) = 0 /\ Cardinality(Counted \ AtAddress) = 0
    BY <2>3, FS_EmptySet
  <2>5. TypeOK BY InitType
  <2>6. Weeks \in Nat /\ Budget \in Nat /\ faults \in Nat BY <2>5, NumbersType
  <2>7. CeilingInv BY <2>1, <2>4, <2>6 DEF CeilingInv, AllPosted
  <2>8. QED BY <2>2, <2>7 DEF CadenceInv
<1>2. TypeOK /\ TickShape /\ TypeOK' /\ OneTickAtATime /\ AllAreConsidered /\ CadenceInv
        /\ [Next]_vars => CadenceInv'
  <2> SUFFICES ASSUME TypeOK, TickShape, TypeOK', OneTickAtATime, AllAreConsidered, CadenceInv,
                      [Next]_vars
               PROVE  CadenceInv'
    OBVIOUS
  <2>1. KnownInv /\ ScanInv /\ CutoverInv /\ CeilingInv BY DEF CadenceInv
  <2>2. KnownInv' BY <2>1, KnownStep
  <2>3. ScanInv' BY <2>1, ScanStep
  <2>4. CutoverInv' BY <2>1, CutoverGrows
  <2>5. CeilingInv' BY <2>1, CeilingStep
  <2>6. QED BY <2>2, <2>3, <2>4, <2>5 DEF CadenceInv
<1>3. TypeOK /\ CadenceInv => CountedCeiling
  <2> SUFFICES ASSUME TypeOK, CadenceInv PROVE CountedCeiling OBVIOUS
  <2>1. moves \in Nat /\ Budget \in Nat /\ faults \in Nat BY BoundAssumption DEF TypeOK
  <2>2. Budget * (moves + 1) = Weeks + Budget BY <2>1 DEF Weeks
  <2>3. Cardinality(Counted) <= Weeks + Budget + faults BY DEF CadenceInv, CeilingInv
  <2>4. QED BY <2>2, <2>3 DEF CountedCeiling, Counted
<1>4. KeepsTheCadence <=> OneOpenFinding /\ CountedCeiling BY DEF KeepsTheCadence
<1>5. QED BY <1>1, <1>2, <1>3, <1>4, TypeCorrect, OneThingAtATime, PTL DEF Spec

-----------------------------------------------------------------------------
(***************************************************************************)
(* The lane keeps the promise of its table: every step is one of the       *)
(* abstract steps, or changes nothing the promise speaks of.               *)
(***************************************************************************)

Receipt == [p \in Pairs |-> row[p].ref]

LEMMA RefWrites ==
    ASSUME TypeOK, NEW p \in Pairs, NEW r, row' = [row EXCEPT ![p] = r]
    PROVE  Receipt' = [Receipt EXCEPT ![p] = r.ref]
BY DEF Receipt, TypeOK

\* A message is posted only under a claim, and a claimed row has no receipt.
LEMMA Says ==
    ASSUME LeaseInv, NEW w \in Workers, Post(w) \/ PostFails(w)
    PROVE  [Promise!Next]_(Promise!vars)
<1>1. TypeOK /\ TickShape /\ tick[w].pc = "post" BY DEF LeaseInv, Post, PostFails
<1>2. Pair(w) \in Pairs BY <1>1, PairType
<1>3. Receipt[Pair(w)] = 0
  BY <1>1, <1>2 DEF LeaseInv, LeaseShape, Holding, ReceiptShape, Posted, Receipt, NoRef
<1>4. Receipt' = Receipt BY DEF Post, PostFails, Receipt
<1>5. slack' = slack \/ slack' = Append(slack, Pair(w)) BY DEF Post, PostFails
<1>6. QED BY <1>2, <1>3, <1>4, <1>5 DEF Promise!Next, Promise!Say, Promise!vars, Receipt

\* markPosted acknowledges the message its tick posted.
LEMMA Acknowledges ==
    ASSUME LeaseInv, NEW w \in Workers, tick[w].pc = "record", UNCHANGED slack,
           row' = [row EXCEPT ![Pair(w)] = Receipted(@, tick[w].ref)]
    PROVE  [Promise!Next]_(Promise!vars)
<1>1. TypeOK /\ TickShape BY DEF LeaseInv
<1>2. Pair(w) \in Pairs BY <1>1, PairType
<1>3. row[Pair(w)].ref = NoRef
  BY <1>2 DEF LeaseInv, LeaseShape, Holding, ReceiptShape, Posted
<1>4. row' = [row EXCEPT ![Pair(w)] = Receipted(row[Pair(w)], tick[w].ref)]
      /\ Receipted(row[Pair(w)], tick[w].ref).ref = tick[w].ref
  BY <1>1, <1>3 DEF Receipted
<1>5. Receipt' = [Receipt EXCEPT ![Pair(w)] = tick[w].ref] BY <1>1, <1>2, <1>4, RefWrites
<1>6. tick[w].ref \in DOMAIN slack /\ slack[tick[w].ref] = Pair(w)
  BY DEF LeaseInv, ReceiptShape
<1>7. Receipt[Pair(w)] = 0 BY <1>2, <1>3 DEF Receipt, NoRef
<1>8. QED BY <1>2, <1>5, <1>6, <1>7 DEF Promise!Next, Promise!Acknowledge, Receipt

\* Every other write of a row leaves its ref alone.
LEMMA Silent ==
    ASSUME LeaseInv, [Next]_vars,
           \/ Advance
           \/ \E w \in Workers : Claim(w) \/ MarkFailed(w) \/ LaneErrors(w)
    PROVE  Receipt' = Receipt /\ slack' = slack
<1>1. slack' = slack BY DEF Advance, Claim, MarkFailed, LaneErrors
<1>2. ASSUME NEW p \in Pairs PROVE row'[p].ref = row[p].ref
  <2>1. row[p] \in Row BY DEF LeaseInv, TypeOK
  <2>2. CASE Advance BY <2>1, <2>2 DEF Advance, Row
  <2>3. ASSUME NEW w \in Workers, Claim(w) \/ LaneErrors(w) PROVE row'[p].ref = row[p].ref
    <3>1. row'[p] = row[p] \/ row'[p] = Claimed(row[p], tick[w].age)
      BY <2>3 DEF Claim, LaneErrors, LeaseInv, TypeOK
    <3>2. QED BY <2>1, <3>1 DEF Claimed, Row
  <2>4. ASSUME NEW w \in Workers, MarkFailed(w) PROVE row'[p].ref = row[p].ref
    <3>1. row'[p] = row[p] \/ row'[p] = Failed(row[p]) BY <2>4 DEF MarkFailed, LeaseInv, TypeOK
    <3>2. QED BY <2>1, <3>1 DEF Failed, Row
  <2>5. QED BY <2>2, <2>3, <2>4
<1>3. QED BY <1>1, <1>2 DEF Receipt

LEMMA PromiseStep ==
    ASSUME LeaseInv, [Next]_vars
    PROVE  [Promise!Next]_(Promise!vars)
<1>1. ASSUME NEW w \in Workers, Post(w) \/ PostFails(w) PROVE [Promise!Next]_(Promise!vars)
  BY <1>1, Says
<1>2. ASSUME Receipt' = Receipt, slack' = slack PROVE [Promise!Next]_(Promise!vars)
  BY <1>2 DEF Receipt, Promise!vars
<1>3. ASSUME NEW w \in Workers, MarkPosted(w) \/ MarkPostedUnannounced(w) \/ MarkPostedThrows(w)
      PROVE  [Promise!Next]_(Promise!vars)
  <2>1. tick[w].pc = "record" /\ UNCHANGED slack
    BY <1>3 DEF MarkPosted, MarkPostedUnannounced, MarkPostedThrows
  <2>2. row' = row \/ row' = [row EXCEPT ![Pair(w)] = Receipted(@, tick[w].ref)]
    BY <1>3 DEF MarkPosted, MarkPostedUnannounced, MarkPostedThrows
  <2>3. QED BY <1>2, <2>1, <2>2, Acknowledges DEF Receipt
<1>4. ASSUME NEW w \in Workers,
             \/ ListFindings(w) \/ SkipFinding(w) \/ ConsiderFinding(w) \/ ScanUnreadable(w)
             \/ EndScan(w) \/ DecideNothing(w) \/ DecideDeliver(w) \/ NotClaimed(w)
             \/ StartTick(w) \/ Crash(w)
      PROVE  UNCHANGED <<row, slack>>
  BY <1>4 DEF ListFindings, SkipFinding, ConsiderFinding, ScanUnreadable, EndScan,
              DecideNothing, DecideDeliver, NotClaimed, StartTick, Crash
<1>5. ASSUME NEW f \in Findings, Persist(f) \/ Dismiss(f) PROVE UNCHANGED <<row, slack>>
  BY <1>5 DEF Persist, Dismiss
<1>6. ASSUME NEW c \in Channels, AttachChannel(c) \/ RepointChannel(c)
      PROVE  UNCHANGED <<row, slack>>
  BY <1>6 DEF AttachChannel, RepointChannel
<1>7. UNCHANGED vars => UNCHANGED <<row, slack>> BY DEF vars
<1>8. UNCHANGED <<row, slack>> => Receipt' = Receipt /\ slack' = slack BY DEF Receipt
<1>9. QED BY <1>1, <1>2, <1>3, <1>4, <1>5, <1>6, <1>7, <1>8, Silent DEF Next, Step

\* The lane implements the promise of its delivery record: a finding is said in
\* a channel only until it is acknowledged there, and the acknowledgement names
\* one of the times it was said.
THEOREM LaneKeepsItsPromise ==
    ASSUME MaxSpan <= TTL
    PROVE  Spec => Promised
<1>1. Init => Promise!Init BY DEF Init, Promise!Init, NoRow, NoRef
<1>2. LeaseInv /\ [Next]_vars => [Promise!Next]_(Promise!vars) BY PromiseStep
<1>3. QED BY LeaseInvariant, <1>1, <1>2, PTL DEF Spec, Promised, Promise!Spec
=============================================================================

---------------------------- MODULE OutboxProofs ----------------------------
(***************************************************************************)
(* For any runners, notices, channels, caps and number of faults: what a   *)
(* receipt says is true.  For dispatches that end within the lease: the    *)
(* claim is a lock, a receipt that is final stays, a channel sees a notice *)
(* again only after a fault, and the outbox implements Mailings.           *)
(***************************************************************************)
EXTENDS NotificationOutbox, TLAPS

\* What a dispatch has in hand where it is.
Sound(l) ==
    l # None =>
        /\ l.target \in Channels <=> l.at # "quiet"
        /\ l.at \in {"record", "badge"} => l.outcome # None

TypeInv == TypeOK /\ \A r \in Runners : Sound(lane[r])

Writes(n, t, y) == send' = [send EXCEPT ![n][t] = y]
Moves(r, x) == lane' = [lane EXCEPT ![r] = x]

(***************************************************************************)
(* Types.                                                                  *)
(***************************************************************************)

LEMMA BoundTypes ==
    /\ ClaimTtl \in Nat /\ MaxSpan \in Nat /\ MaxFaults \in Nat /\ Horizon \in Nat
    /\ MaxAttempts \in Nat /\ MaxAttempts > 0 /\ 1 \in Attempts /\ 0 \in Ages
    /\ 0 \in 0..MaxSpan /\ 0..MaxSpan \subseteq Ages
BY OutboxAssumption DEF Horizon, Ages, Attempts

LEMMA RowTypes ==
    /\ Quiet("no_channel") \in Row /\ Quiet("digest") \in Row /\ Sent \in Row
    /\ \A reason \in FailureReasons : Failed(reason) \in Row
    /\ \A k \in Attempts, a \in Ages : Pending(k, a) \in Row
BY BoundTypes DEF Quiet, Sent, Failed, Pending, Row

LEMMA QueueUnavailable == "queue_unavailable" \in FailureReasons
BY DEF FailureReasons, Curable, Retryable

\* One row is written and the others are left alone.
LEMMA RowWrite ==
  ASSUME TypeOK, NEW n \in Notices, NEW t \in Targets, NEW y \in Row,
         Writes(n, t, y)
  PROVE  /\ send' \in [Notices -> [Targets -> Row \cup {None}]]
         /\ send'[n][t] = y
         /\ \A m \in Notices : \A u \in Targets :
                m # n \/ u # t => send'[m][u] = send[m][u]
<1>1. send \in [Notices -> [Targets -> Row \cup {None}]] BY DEF TypeOK
<1>2. send[n] \in [Targets -> Row \cup {None}] BY <1>1
<1> DEFINE line == [send[n] EXCEPT ![t] = y]
<1>3. send' = [send EXCEPT ![n] = line] BY DEF Writes
<1>4. /\ line \in [Targets -> Row \cup {None}]
      /\ line[t] = y /\ \A u \in Targets : u # t => line[u] = send[n][u]
  BY <1>2
<1> HIDE DEF line
<1>5. QED BY <1>1, <1>3, <1>4

\* One dispatch moves and the others are left alone.
LEMMA LaneMove ==
  ASSUME TypeInv, NEW r \in Runners, NEW x \in Lane \cup {None}, Sound(x), Moves(r, x)
  PROVE  /\ lane' \in [Runners -> Lane \cup {None}]
         /\ \A q \in Runners : Sound(lane[q])'
         /\ lane'[r] = x
         /\ \A q \in Runners : q # r => lane'[q] = lane[q]
BY DEF TypeInv, TypeOK, Sound, Moves

LEMMA NoneIsSound == Sound(None) BY DEF Sound

\* What an owed leg writes.
Leg(n) ==
    \/ UNCHANGED send
    \/ \E t \in Targets : \E y \in Row :
          /\ Writes(n, t, y)
          /\ y.status \in {"quiet", "failed"}
          /\ y.reason \in {"no_channel", "queue_unavailable"}

LEMMA LegWrites ==
  ASSUME NEW n \in Notices, NEW c \in Channels \cup {None}, NEW queued \in BOOLEAN,
         send' = LegReceipts(n, c, queued)
  PROVE  Leg(n)
<1>1. CASE c = None
  <2> DEFINE y == Quiet("no_channel")
  <2>1. Writes(n, NoTarget, y) BY <1>1 DEF LegReceipts, Writes
  <2>2. y \in Row /\ y.status = "quiet" /\ y.reason = "no_channel"
    BY RowTypes DEF Quiet
  <2>3. NoTarget \in Targets BY DEF Targets
  <2> HIDE DEF y
  <2>4. QED BY <2>1, <2>2, <2>3 DEF Leg
<1>2. CASE c # None /\ queued BY <1>2 DEF LegReceipts, Leg
<1>3. CASE c # None /\ ~queued
  <2> DEFINE y == Failed("queue_unavailable")
  <2>1. Writes(n, c, y) BY <1>3 DEF LegReceipts, Writes
  <2>2. y \in Row /\ y.status = "failed" /\ y.reason = "queue_unavailable"
    BY RowTypes, QueueUnavailable DEF Failed
  <2>3. c \in Targets BY <1>3 DEF Targets
  <2> HIDE DEF y
  <2>4. QED BY <2>1, <2>2, <2>3 DEF Leg
<1>4. QED BY <1>1, <1>2, <1>3

LEMMA LegType ==
  ASSUME TypeOK, NEW n \in Notices, Leg(n)
  PROVE  send' \in [Notices -> [Targets -> Row \cup {None}]]
<1>1. CASE UNCHANGED send BY <1>1 DEF TypeOK
<1>2. CASE \E t \in Targets : \E y \in Row : Writes(n, t, y) BY <1>2, RowWrite
<1>3. QED BY <1>1, <1>2 DEF Leg

LEMMA RecordedType ==
  ASSUME NEW row \in Row \cup {None}, NEW status \in {"quiet", "failed", "sent"},
         NEW reason \in FailureReasons \cup {"no_channel", None}
  PROVE  Recorded(row, status, reason) \in Row
<1>1. CASE row # None /\ Rank(row.status) >= Rank(status) BY <1>1 DEF Recorded
<1>2. CASE ~(row # None /\ Rank(row.status) >= Rank(status))
  <2> DEFINE k == IF row = None THEN 1 ELSE row.attempts
  <2>1. k \in Attempts BY BoundTypes DEF Row
  <2>2. Recorded(row, status, reason) =
            [status |-> status, reason |-> reason, attempts |-> k, age |-> 0]
    BY <1>2 DEF Recorded
  <2> HIDE DEF k
  <2>3. QED BY <2>1, <2>2, BoundTypes DEF Row
<1>3. QED BY <1>1, <1>2

(***************************************************************************)
(* What a dispatch does in a step.                                         *)
(***************************************************************************)

\* It goes on with its notice, its target and its instant.
GoesOn(r, x) ==
    /\ lane[r] \in Lane /\ Sound(lane[r])
    /\ x \in Lane /\ Sound(x)
    /\ x.notice = lane[r].notice /\ x.target = lane[r].target /\ x.age = lane[r].age
    /\ Moves(r, x)

Ends(r) == Moves(r, None)

LEMMA ReadHealthMoves ==
  ASSUME TypeInv, NEW r \in Runners, ReadHealth(r)
  PROVE  \E x \in Lane : GoesOn(r, x) /\ x.at = "claim"
<1> DEFINE b == channel # None /\ health # "failing"
           x == [lane[r] EXCEPT !.at = "claim", !.repaired = b]
<1>1. lane[r] \in Lane /\ Sound(lane[r]) /\ lane[r].at = "health"
  BY DEF TypeInv, TypeOK, ReadHealth
<1>2. b \in BOOLEAN OBVIOUS
<1>3. Moves(r, x) BY DEF ReadHealth, Moves, TypeInv, TypeOK
<1> HIDE DEF b
<1>4. /\ x \in Lane /\ x.at = "claim" /\ x.target = lane[r].target
      /\ x.notice = lane[r].notice /\ x.age = lane[r].age
  BY <1>1, <1>2 DEF Lane
<1>5. Sound(x) BY <1>1, <1>4, OutboxAssumption DEF Sound
<1>6. QED BY <1>1, <1>3, <1>4, <1>5 DEF GoesOn

\* A claim writes a pending row as old as the dispatch, over no row or one that
\* may be reclaimed, or it ends the dispatch.
Claims(r, x) ==
    /\ GoesOn(r, x) /\ x.at = "post" /\ lane[r].at = "claim"
    /\ LET n == lane[r].notice
           t == lane[r].target
       IN  /\ send[n][t] # None =>
                  Reclaimable(send[n][t], lane[r].age, lane[r].repaired)
           /\ \E k \in Attempts : Writes(n, t, Pending(k, lane[r].age))

LEMMA ClaimMoves ==
  ASSUME TypeInv, NEW r \in Runners, Claim(r)
  PROVE  \/ \E x \in Lane : Claims(r, x)
         \/ Ends(r) /\ UNCHANGED send
<1> DEFINE n == lane[r].notice
           t == lane[r].target
           k == IF send[n][t] = None THEN 1
                ELSE IF send[n][t].attempts < MaxAttempts THEN send[n][t].attempts + 1
                ELSE MaxAttempts
           b == k < MaxAttempts
           x == [lane[r] EXCEPT !.at = "post", !.more = b]
<1>1. lane[r] \in Lane /\ Sound(lane[r]) /\ lane[r].at = "claim"
  BY DEF TypeInv, TypeOK, Claim
<1>2. n \in Notices /\ t \in Targets BY <1>1 DEF Lane
<1>3. send[n][t] \in Row \cup {None} BY <1>2 DEF TypeInv, TypeOK
<1>4. k \in Attempts
  <2>1. send[n][t] # None => send[n][t].attempts \in 1..MaxAttempts
    BY <1>3 DEF Row, Attempts
  <2>2. QED BY <2>1, BoundTypes DEF Attempts
<1>5. b \in BOOLEAN OBVIOUS
<1>6. CASE send[n][t] = None \/ Reclaimable(send[n][t], lane[r].age, lane[r].repaired)
  <2>1. Moves(r, x) /\ Writes(n, t, Pending(k, lane[r].age))
    BY <1>6 DEF Claim, Moves, Writes, TypeInv, TypeOK
  <2> HIDE DEF b
  <2>2. /\ x \in Lane /\ x.at = "post" /\ x.target = t
        /\ x.notice = n /\ x.age = lane[r].age
    BY <1>1, <1>5 DEF Lane
  <2>3. Sound(x) BY <1>1, <2>2, OutboxAssumption DEF Sound
  <2>4. GoesOn(r, x) BY <1>1, <2>1, <2>2, <2>3 DEF GoesOn
  <2> HIDE DEF k, x
  <2>5. Claims(r, x) BY <1>1, <1>4, <1>6, <2>1, <2>2, <2>4 DEF Claims
  <2>6. QED BY <2>2, <2>5
<1>7. CASE ~(send[n][t] = None
             \/ Reclaimable(send[n][t], lane[r].age, lane[r].repaired))
  BY <1>7 DEF Claim, Ends, Moves
<1>8. QED BY <1>6, <1>7

LEMMA AnsweredMoves ==
  ASSUME TypeInv, NEW r \in Runners, lane[r] # None, lane[r].at = "post",
         NEW outcome \in FailureReasons \cup {"sent"}, Answered(r, outcome)
  PROVE  \E x \in Lane : GoesOn(r, x) /\ x.at = "record" /\ x.outcome = outcome
<1> DEFINE x == [lane[r] EXCEPT !.at = "record", !.outcome = outcome]
<1>1. lane[r] \in Lane /\ Sound(lane[r]) BY DEF TypeInv, TypeOK
<1>2. Moves(r, x) BY DEF Answered, Moves, TypeInv, TypeOK
<1>3. /\ x \in Lane /\ x.at = "record" /\ x.outcome = outcome
      /\ x.target = lane[r].target /\ x.notice = lane[r].notice /\ x.age = lane[r].age
  BY <1>1 DEF Lane
<1>4. outcome # None BY OutboxAssumption
<1>5. Sound(x) BY <1>1, <1>3, <1>4 DEF Sound
<1>6. QED BY <1>1, <1>2, <1>3, <1>5 DEF GoesOn

LEMMA CallFailed == "call_failed" \in FailureReasons
BY DEF FailureReasons, Curable, Retryable

LEMMA AcceptedMoves ==
  ASSUME TypeInv, NEW r \in Runners, NEW lost \in BOOLEAN, PostAccepted(r, lost)
  PROVE  \E x \in Lane : /\ GoesOn(r, x) /\ x.at = "record"
                         /\ x.outcome = (IF lost THEN "call_failed" ELSE "sent")
<1> DEFINE outcome == IF lost THEN "call_failed" ELSE "sent"
<1>1. outcome \in FailureReasons \cup {"sent"} BY CallFailed
<1>2. lane[r] # None /\ lane[r].at = "post" /\ Answered(r, outcome)
  BY DEF PostAccepted
<1> HIDE DEF outcome
<1>3. \E x \in Lane : GoesOn(r, x) /\ x.at = "record" /\ x.outcome = outcome
  BY <1>1, <1>2, AnsweredMoves
<1>4. QED BY <1>3 DEF outcome

LEMMA FailsMoves ==
  ASSUME TypeInv, NEW r \in Runners, NEW reason \in FailureReasons,
         PostFails(r, reason)
  PROVE  \E x \in Lane : GoesOn(r, x) /\ x.at = "record" /\ x.outcome = reason
BY AnsweredMoves DEF PostFails

\* What Record writes over a row, for the outcome of the dispatch.
Outcome(row, outcome) ==
    IF outcome = "sent" THEN Recorded(row, "sent", None)
    ELSE Recorded(row, "failed", outcome)

LEMMA OutcomeType ==
  ASSUME NEW row \in Row \cup {None}, NEW outcome \in FailureReasons \cup {"sent"}
  PROVE  Outcome(row, outcome) \in Row
<1>1. CASE outcome = "sent"
  <2>1. Recorded(row, "sent", None) \in Row BY RecordedType
  <2>2. QED BY <1>1, <2>1 DEF Outcome
<1>2. CASE outcome # "sent"
  <2>1. Recorded(row, "failed", outcome) \in Row BY <1>2, RecordedType
  <2>2. QED BY <1>2, <2>1 DEF Outcome
<1>3. QED BY <1>1, <1>2

LEMMA RecordMoves ==
  ASSUME TypeInv, NEW r \in Runners, Record(r)
  PROVE  /\ lane[r] \in Lane /\ lane[r].at = "record"
         /\ lane[r].target \in Channels
         /\ lane[r].outcome \in FailureReasons \cup {"sent"}
         /\ Writes(lane[r].notice, lane[r].target,
                   Outcome(send[lane[r].notice][lane[r].target], lane[r].outcome))
         /\ \/ Ends(r)
            \/ \E x \in Lane : GoesOn(r, x) /\ x.at = "badge"
<1> DEFINE o == lane[r].outcome
           x == [lane[r] EXCEPT !.at = "badge"]
<1>1. lane[r] \in Lane /\ Sound(lane[r]) /\ lane[r].at = "record"
  BY DEF TypeInv, TypeOK, Record
<1>2. lane[r].target \in Channels /\ o # None /\ o \in FailureReasons \cup {"sent"}
  <2>1. o \in FailureReasons \cup {"sent", None} BY <1>1 DEF Lane
  <2>2. lane[r] # None BY DEF Record
  <2>3. QED BY <1>1, <2>1, <2>2 DEF Sound
<1>3. Writes(lane[r].notice, lane[r].target,
             Outcome(send[lane[r].notice][lane[r].target], o))
  <2>1. lane[r].notice \in Notices /\ lane[r].target \in Targets BY <1>1 DEF Lane
  <2>2. send[lane[r].notice] \in [Targets -> Row \cup {None}]
    BY <2>1 DEF TypeInv, TypeOK
  <2>3. QED BY <2>1, <2>2 DEF Record, Writes, Outcome, TypeInv, TypeOK
<1>4. CASE o = "rejected"
  <2>1. Ends(r) BY <1>4 DEF Record, Ends, Moves
  <2>2. QED BY <1>1, <1>2, <1>3, <2>1
<1>5. CASE o # "rejected"
  <2>0. lane' = [lane EXCEPT ![r] = [@ EXCEPT !.at = "badge"]] BY <1>5 DEF Record
  <2>1. Moves(r, x) BY <2>0 DEF Moves, TypeInv, TypeOK
  <2>2. /\ x \in Lane /\ x.at = "badge" /\ x.outcome = o
        /\ x.target = lane[r].target /\ x.notice = lane[r].notice /\ x.age = lane[r].age
    BY <1>1 DEF Lane
  <2>3. Sound(x) BY <1>2, <2>2 DEF Sound
  <2>4. GoesOn(r, x) BY <1>1, <2>1, <2>2, <2>3 DEF GoesOn
  <2> HIDE DEF x
  <2>5. \E y \in Lane : GoesOn(r, y) /\ y.at = "badge" BY <2>2, <2>4
  <2>6. QED BY <1>1, <1>2, <1>3, <2>5
<1>6. QED BY <1>4, <1>5

LEMMA QuietWrites ==
  ASSUME TypeInv, NEW r \in Runners, RecordQuiet(r)
  PROVE  /\ lane[r] \in Lane /\ lane[r].notice \in Notices
         /\ Writes(lane[r].notice, NoTarget,
                   Recorded(send[lane[r].notice][NoTarget], "quiet", "no_channel"))
         /\ Recorded(send[lane[r].notice][NoTarget], "quiet", "no_channel") \in Row
         /\ Ends(r)
<1>1. lane[r] \in Lane BY DEF TypeInv, TypeOK, RecordQuiet
<1>2. lane[r].notice \in Notices /\ NoTarget \in Targets BY <1>1 DEF Lane, Targets
<1>3. send[lane[r].notice] \in [Targets -> Row \cup {None}]
  BY <1>2 DEF TypeInv, TypeOK
<1>4. Recorded(send[lane[r].notice][NoTarget], "quiet", "no_channel") \in Row
  BY <1>2, <1>3, RecordedType
<1>5. QED BY <1>1, <1>2, <1>3, <1>4 DEF RecordQuiet, Writes, Ends, Moves, TypeInv, TypeOK

LEMMA DispatchingType ==
  ASSUME TypeInv, NEW n \in Notices
  PROVE  /\ Dispatching(n) \in Lane /\ Sound(Dispatching(n))
         /\ Dispatching(n).notice = n /\ Dispatching(n).age = 0
         /\ Dispatching(n).at \in {"quiet", "health"}
<1> DEFINE a == IF channel = None THEN "quiet" ELSE "health"
           t == IF channel = None THEN NoTarget ELSE channel
<1>1. /\ a \in {"quiet", "health"} /\ t \in Targets
      /\ t \in Channels <=> a # "quiet"
  BY OutboxAssumption DEF Targets, TypeInv, TypeOK
<1>2. Dispatching(n) = [at |-> a, notice |-> n, target |-> t, age |-> 0,
                        repaired |-> FALSE, more |-> FALSE, outcome |-> None]
  BY DEF Dispatching
<1> HIDE DEF a, t
<1>3. QED BY <1>1, <1>2, BoundTypes DEF Lane, Sound

LEMMA RetriedType ==
  ASSUME TypeInv, NEW r \in Runners, lane[r] # None
  PROVE  Retried(r) \subseteq {lane[r].notice} /\ lane[r].notice \in Notices
BY DEF Retried, TypeInv, TypeOK, Lane

LEMMA GoesOnType ==
  ASSUME TypeInv, NEW r \in Runners, Ends(r) \/ \E x \in Lane : GoesOn(r, x)
  PROVE  lane' \in [Runners -> Lane \cup {None}] /\ \A q \in Runners : Sound(lane[q])'
<1>1. CASE Ends(r) BY <1>1, LaneMove, NoneIsSound DEF Ends
<1>2. CASE \E x \in Lane : GoesOn(r, x) BY <1>2, LaneMove DEF GoesOn
<1>3. QED BY <1>1, <1>2

\* The passing of time.
LEMMA OlderType ==
  ASSUME NEW row \in Row \cup {None}
  PROVE  /\ Older(row) \in Row \cup {None}
         /\ row = None => Older(row) = None
         /\ row # None => /\ Older(row) # None /\ Older(row).status = row.status
                          /\ Older(row).reason = row.reason
         /\ row # None /\ row.status # "pending" => Older(row) = row
         /\ row # None /\ row.status = "pending" /\ row.age < Horizon =>
                Older(row).age = row.age + 1
<1>1. CASE row # None /\ row.status = "pending" /\ row.age < Horizon
  <2>1. row \in Row BY <1>1
  <2>2. row.age + 1 \in Ages BY <1>1, <2>1, BoundTypes DEF Row, Ages
  <2>3. Older(row) = [row EXCEPT !.age = row.age + 1] BY <1>1 DEF Older
  <2>4. /\ Older(row) \in Row /\ Older(row).status = row.status
        /\ Older(row).reason = row.reason /\ Older(row).age = row.age + 1
    BY <2>1, <2>2, <2>3 DEF Row
  <2>5. Older(row) # None BY <2>4, OutboxAssumption
  <2>6. QED BY <1>1, <2>4, <2>5
<1>2. CASE ~(row # None /\ row.status = "pending" /\ row.age < Horizon)
  <2>1. Older(row) = row BY <1>2 DEF Older
  <2>2. QED BY <1>2, <2>1
<1>3. QED BY <1>1, <1>2

\* A dispatch seen one instant later.
Aged(r) ==
    IF lane[r] = None THEN lane'[r] = None
    ELSE /\ lane'[r] \in Lane
         /\ lane'[r] = [lane[r] EXCEPT !.age = lane[r].age + 1]
         /\ lane'[r].age = lane[r].age + 1
         /\ lane'[r].at = lane[r].at /\ lane'[r].notice = lane[r].notice
         /\ lane'[r].target = lane[r].target /\ lane'[r].outcome = lane[r].outcome

LEMMA AdvanceMoves ==
  ASSUME TypeInv, Advance
  PROVE  /\ lane' \in [Runners -> Lane \cup {None}]
         /\ send' \in [Notices -> [Targets -> Row \cup {None}]]
         /\ \A r \in Runners : Aged(r) /\ Sound(lane[r])'
         /\ \A n \in Notices : \A t \in Targets : send'[n][t] = Older(send[n][t])
<1>1. ASSUME NEW r \in Runners PROVE Aged(r) /\ Sound(lane[r])'
  <2>1. CASE lane[r] = None BY <2>1 DEF Advance, Aged, Sound
  <2>2. CASE lane[r] # None
    <3> DEFINE l == lane[r]
               x == [lane[r] EXCEPT !.age = lane[r].age + 1]
    <3>1. l \in Lane /\ Sound(l) BY <2>2 DEF TypeInv, TypeOK
    <3>2. l.age + 1 \in 0..MaxSpan BY <2>2, <3>1, BoundTypes DEF Advance, Lane
    <3>3. lane'[r] = x BY <2>2 DEF Advance
    <3>4. /\ x \in Lane /\ x.age = l.age + 1 /\ x.at = l.at /\ x.notice = l.notice
          /\ x.target = l.target /\ x.outcome = l.outcome
      BY <3>1, <3>2 DEF Lane
    <3>5. Aged(r) BY <2>2, <3>3, <3>4 DEF Aged
    <3>6. QED BY <2>2, <3>1, <3>3, <3>4, <3>5 DEF Sound
  <2>3. QED BY <2>1, <2>2
<1>2. lane' \in [Runners -> Lane \cup {None}]
  <2>1. \A r \in Runners : lane'[r] \in Lane \cup {None} BY <1>1 DEF Aged
  <2>2. QED BY <2>1 DEF Advance
<1>3. \A n \in Notices : \A t \in Targets : send'[n][t] = Older(send[n][t])
  BY DEF Advance
<1>4. send' \in [Notices -> [Targets -> Row \cup {None}]]
  <2>1. \A n \in Notices : \A t \in Targets : Older(send[n][t]) \in Row \cup {None}
    BY OlderType DEF TypeInv, TypeOK
  <2>2. QED BY <2>1 DEF Advance
<1>5. QED BY <1>1, <1>2, <1>3, <1>4

(***************************************************************************)
(* TypeInv is inductive.                                                   *)
(***************************************************************************)

LEMMA StartMoves ==
  ASSUME TypeInv, NEW r \in Runners, NEW n \in Notices, Start(r, n)
  PROVE  \/ Ends(r)
         \/ Moves(r, Dispatching(n))
BY DEF Start, Ends, Moves

LEMMA StartType ==
  ASSUME TypeInv, NEW r \in Runners, NEW n \in Notices, Start(r, n)
  PROVE  lane' \in [Runners -> Lane \cup {None}] /\ \A q \in Runners : Sound(lane[q])'
<1>1. CASE Ends(r) BY <1>1, GoesOnType
<1>2. CASE Moves(r, Dispatching(n)) BY <1>2, DispatchingType, LaneMove
<1>3. QED BY <1>1, <1>2, StartMoves

LEMMA TypeInit == Init => TypeInv
<1> SUFFICES ASSUME Init PROVE TypeInv OBVIOUS
<1>1. /\ channel \in Channels \cup {None} /\ refused \subseteq Refusable
      /\ health \in {"validating", "healthy", "failing"} /\ reachable \in BOOLEAN
      /\ jobs \subseteq Notices /\ rescue \in BOOLEAN
  BY DEF Init
<1>2. /\ fact \in [Notices -> {"none", "emitting", "owed", "copied", "digest"}]
      /\ seen \in [Notices -> Channels \cup {None}]
      /\ accepted \in [Notices -> [Channels -> Nat]]
  BY DEF Init
<1>3. send \in [Notices -> [Targets -> Row \cup {None}]] BY DEF Init
<1>4. lane \in [Runners -> Lane \cup {None}] /\ \A r \in Runners : Sound(lane[r])
  BY DEF Init, Sound
<1>5. faults \in 0..MaxFaults /\ outages \in 0..MaxOutages /\ moves \in 0..MaxMoves
  BY OutboxAssumption DEF Init
<1>6. QED BY <1>1, <1>2, <1>3, <1>4, <1>5 DEF TypeInv, TypeOK

\* The steps that leave the dispatches alone.
LEMMA TypeEmit ==
  ASSUME TypeInv, NEW n \in Notices, Emit(n)
  PROVE  TypeInv'
<1>1. CASE BeginEmit(n) BY <1>1 DEF BeginEmit, TypeInv, TypeOK, Sound
<1>2. ASSUME NEW queued \in BOOLEAN, CommitOwed(n, queued) PROVE TypeInv'
  <2>1. seen[n] \in Channels \cup {None} BY DEF TypeInv, TypeOK
  <2>2. Leg(n) BY <1>2, <2>1, LegWrites DEF CommitOwed
  <2>3. send' \in [Notices -> [Targets -> Row \cup {None}]]
    BY <2>2, LegType DEF TypeInv
  <2>4. jobs' \subseteq Notices BY <1>2 DEF CommitOwed, LegJobs, TypeInv, TypeOK
  <2>5. QED BY <1>2, <2>3, <2>4 DEF CommitOwed, TypeInv, TypeOK, Sound
<1>3. ASSUME NEW c \in Channels, EmitCopied(n, c) PROVE TypeInv'
  <2>1. c \in Targets BY DEF Targets
  <2>2. send' \in [Notices -> [Targets -> Row \cup {None}]]
    BY <1>3, <2>1, RowTypes, RowWrite DEF EmitCopied, Writes, TypeInv
  <2>3. QED BY <1>3, <2>2 DEF EmitCopied, TypeInv, TypeOK, Sound
<1>4. CASE EmitDigest(n)
  <2>1. NoTarget \in Targets BY DEF Targets
  <2>2. send' \in [Notices -> [Targets -> Row \cup {None}]]
    BY <1>4, <2>1, RowTypes, RowWrite DEF EmitDigest, Writes, TypeInv
  <2>3. QED BY <1>4, <2>2 DEF EmitDigest, TypeInv, TypeOK, Sound
<1>5. QED BY <1>1, <1>2, <1>3, <1>4 DEF Emit

\* The steps that leave the notices, their receipts and the dispatches alone.
Around ==
    \/ \E c \in Channels, queued \in BOOLEAN : AttachChannel(c, queued)
    \/ \E c \in Channels, queued \in BOOLEAN : RepointChannel(c, queued)
    \/ OutageBegins \/ OutageEnds
    \/ RescueTick \/ RunRescue

LEMMA TypeAround == ASSUME TypeInv, Around PROVE TypeInv'
<1>1. ASSUME NEW c \in Channels, NEW queued \in BOOLEAN,
             AttachChannel(c, queued) \/ RepointChannel(c, queued)
      PROVE  TypeInv'
  <2>1. rescue' \in BOOLEAN BY <1>1 DEF AttachChannel, RepointChannel
  <2>2. moves' \in 0..MaxMoves
    BY <1>1, OutboxAssumption DEF AttachChannel, RepointChannel, TypeInv, TypeOK
  <2>3. channel' \in Channels \cup {None} BY <1>1 DEF AttachChannel, RepointChannel
  <2>4. QED
    BY <1>1, <2>1, <2>2, <2>3 DEF AttachChannel, RepointChannel, TypeInv, TypeOK, Sound
<1>2. CASE OutageBegins \/ OutageEnds
  <2>1. outages' \in 0..MaxOutages
    BY <1>2, OutboxAssumption DEF OutageBegins, OutageEnds, TypeInv, TypeOK
  <2>2. reachable' \in BOOLEAN BY <1>2 DEF OutageBegins, OutageEnds
  <2>3. QED BY <1>2, <2>1, <2>2 DEF OutageBegins, OutageEnds, TypeInv, TypeOK, Sound
<1>3. CASE RescueTick \/ RunRescue
  BY <1>3 DEF RescueTick, RunRescue, Unsettled, world, TypeInv, TypeOK, Sound
<1>4. QED BY <1>1, <1>2, <1>3 DEF Around

\* A post that Slack takes is counted.
LEMMA AcceptedCounts ==
  ASSUME TypeInv, NEW r \in Runners, NEW lost \in BOOLEAN, PostAccepted(r, lost)
  PROVE  /\ lane[r] \in Lane /\ lane[r].target \in Channels
         /\ accepted' \in [Notices -> [Channels -> Nat]]
         /\ accepted'[lane[r].notice][lane[r].target] =
                accepted[lane[r].notice][lane[r].target] + 1
         /\ \A n \in Notices : \A c \in Channels :
                n # lane[r].notice \/ c # lane[r].target =>
                    accepted'[n][c] = accepted[n][c]
<1> DEFINE m == lane[r].notice
           t == lane[r].target
           line == [accepted[m] EXCEPT ![t] = accepted[m][t] + 1]
<1>1. lane[r] \in Lane /\ lane[r].at = "post" /\ Sound(lane[r])
  BY DEF PostAccepted, TypeInv, TypeOK
<1>2. m \in Notices /\ t \in Channels
  <2>1. lane[r] # None BY DEF PostAccepted
  <2>2. QED BY <1>1, <2>1 DEF Lane, Sound
<1>3. accepted \in [Notices -> [Channels -> Nat]] BY DEF TypeInv, TypeOK
<1>4. accepted' = [accepted EXCEPT ![m] = line] BY DEF PostAccepted
<1>5. /\ line \in [Channels -> Nat] /\ line[t] = accepted[m][t] + 1
      /\ \A c \in Channels : c # t => line[c] = accepted[m][c]
  BY <1>2, <1>3
<1> HIDE DEF line
<1>6. QED BY <1>1, <1>2, <1>3, <1>4, <1>5

\* The steps of a dispatch.
Dispatch(r) ==
    \/ \E n \in Notices : Start(r, n)
    \/ Step(r)
    \/ BadgeLost(r)
    \/ \E again \in BOOLEAN : Die(r, again)

LEMMA TypeDispatch ==
  ASSUME TypeInv, NEW r \in Runners, Dispatch(r)
  PROVE  TypeInv'
<1> USE DEF world
<1>1. ASSUME NEW n \in Notices, Start(r, n) PROVE TypeInv'
  <2>1. lane' \in [Runners -> Lane \cup {None}] /\ \A q \in Runners : Sound(lane[q])'
    BY <1>1, StartType
  <2>2. jobs' \subseteq Notices BY <1>1 DEF Start, TypeInv, TypeOK
  <2>3. QED BY <1>1, <2>1, <2>2 DEF Start, TypeInv, TypeOK
<1>2. CASE ReadHealth(r)
  BY <1>2, ReadHealthMoves, GoesOnType DEF ReadHealth, TypeInv, TypeOK
<1>3. CASE Claim(r)
  <2>1. ASSUME NEW x \in Lane, Claims(r, x) PROVE TypeInv'
    <3>1. lane' \in [Runners -> Lane \cup {None}] /\ \A q \in Runners : Sound(lane[q])'
      BY <2>1, GoesOnType DEF Claims
    <3>2. PICK k \in Attempts :
              Writes(lane[r].notice, lane[r].target, Pending(k, lane[r].age))
      BY <2>1 DEF Claims
    <3>3. lane[r].notice \in Notices /\ lane[r].target \in Targets
          /\ lane[r].age \in Ages
      BY <2>1, BoundTypes DEF Claims, GoesOn, Lane
    <3>4. send' \in [Notices -> [Targets -> Row \cup {None}]]
      BY <3>2, <3>3, RowTypes, RowWrite DEF TypeInv
    <3>5. QED BY <1>3, <3>1, <3>4 DEF Claim, TypeInv, TypeOK
  <2>2. CASE Ends(r) /\ UNCHANGED send
    BY <1>3, <2>2, GoesOnType DEF Claim, TypeInv, TypeOK
  <2>3. QED BY <1>3, <2>1, <2>2, ClaimMoves
<1>4. ASSUME NEW lost \in BOOLEAN, PostAccepted(r, lost) PROVE TypeInv'
  <2>1. lane' \in [Runners -> Lane \cup {None}] /\ \A q \in Runners : Sound(lane[q])'
    BY <1>4, AcceptedMoves, GoesOnType
  <2>2. accepted' \in [Notices -> [Channels -> Nat]]
    BY <1>4, AcceptedCounts DEF TypeInv
  <2>3. faults' \in 0..MaxFaults BY <1>4, BoundTypes DEF PostAccepted, TypeInv, TypeOK
  <2>4. QED BY <1>4, <2>1, <2>2, <2>3 DEF PostAccepted, TypeInv, TypeOK
<1>5. ASSUME NEW reason \in FailureReasons, PostFails(r, reason) PROVE TypeInv'
  BY <1>5, FailsMoves, GoesOnType DEF PostFails, TypeInv, TypeOK
<1>6. CASE RecordQuiet(r)
  <2>1. NoTarget \in Targets BY DEF Targets
  <2>2. send' \in [Notices -> [Targets -> Row \cup {None}]]
    BY <1>6, <2>1, QuietWrites, RowWrite DEF TypeInv
  <2>3. QED BY <1>6, <2>2, QuietWrites, GoesOnType DEF RecordQuiet, TypeInv, TypeOK
<1>7. CASE Record(r)
  <2> DEFINE n == lane[r].notice
             t == lane[r].target
  <2>1. n \in Notices /\ t \in Targets BY <1>7, RecordMoves DEF Lane
  <2>2. Outcome(send[n][t], lane[r].outcome) \in Row
    BY <1>7, <2>1, RecordMoves, OutcomeType DEF TypeInv, TypeOK
  <2>3. send' \in [Notices -> [Targets -> Row \cup {None}]]
    BY <1>7, <2>1, <2>2, RecordMoves, RowWrite DEF TypeInv
  <2>4. lane' \in [Runners -> Lane \cup {None}] /\ \A q \in Runners : Sound(lane[q])'
    BY <1>7, RecordMoves, GoesOnType
  <2>5. QED BY <1>7, <2>3, <2>4 DEF Record, TypeInv, TypeOK
<1>8. ASSUME Badge(r)
      PROVE  /\ lane' \in [Runners -> Lane \cup {None}]
             /\ \A q \in Runners : Sound(lane[q])'
             /\ Retried(r) \subseteq Notices
  BY <1>8, GoesOnType, RetriedType DEF Badge, Ends, Moves
<1>9. ASSUME NEW a \in Alarms, NEW queued \in BOOLEAN, Announce(r, a, queued)
      PROVE  TypeInv'
  <2>1. a \in Notices BY OutboxAssumption
  <2>2. Leg(a) BY <1>9, <2>1, LegWrites DEF Announce, TypeInv, TypeOK
  <2>3. send' \in [Notices -> [Targets -> Row \cup {None}]]
    BY <2>1, <2>2, LegType DEF TypeInv
  <2>4. jobs' \subseteq Notices
    BY <1>8, <1>9, <2>1 DEF Announce, EntersFailing, LegJobs, TypeInv, TypeOK
  <2>5. QED BY <1>8, <1>9, <2>1, <2>3, <2>4 DEF Announce, EntersFailing, TypeInv, TypeOK
<1>10. CASE EnterFailing(r)
  BY <1>8, <1>10 DEF EnterFailing, EntersFailing, TypeInv, TypeOK
<1>11. CASE StayFailing(r) BY <1>8, <1>11 DEF StayFailing, TypeInv, TypeOK
<1>12. ASSUME NEW queued \in BOOLEAN, TurnHealthy(r, queued) PROVE TypeInv'
  <2>1. rescue' \in BOOLEAN BY <1>12 DEF TurnHealthy, TypeInv, TypeOK
  <2>2. QED BY <1>8, <1>12, <2>1 DEF TurnHealthy, TypeInv, TypeOK
<1>13. CASE BadgeLost(r)
  <2>1. faults' \in 0..MaxFaults BY <1>13, BoundTypes DEF BadgeLost, TypeInv, TypeOK
  <2>2. QED BY <1>8, <1>13, <2>1 DEF BadgeLost, TypeInv, TypeOK
<1>14. ASSUME NEW again \in BOOLEAN, Die(r, again) PROVE TypeInv'
  <2>1. faults' \in 0..MaxFaults BY <1>14, BoundTypes DEF Die, TypeInv, TypeOK
  <2>2. lane' \in [Runners -> Lane \cup {None}] /\ \A q \in Runners : Sound(lane[q])'
    BY <1>14, GoesOnType DEF Die, Ends, Moves
  <2>3. jobs' \subseteq Notices BY <1>14, RetriedType DEF Die, TypeInv, TypeOK
  <2>4. QED BY <1>14, <2>1, <2>2, <2>3 DEF Die, TypeInv, TypeOK
<1>15. QED
  BY <1>1, <1>2, <1>3, <1>4, <1>5, <1>6, <1>7, <1>9, <1>10, <1>11, <1>12, <1>13, <1>14
  DEF Dispatch, Step

LEMMA TypeAdvance == ASSUME TypeInv, Advance PROVE TypeInv'
BY AdvanceMoves DEF Advance, world, TypeInv, TypeOK

\* Every step is one of these.
LEMMA NextCases ==
  ASSUME Next
  PROVE  \/ \E n \in Notices : Emit(n)
         \/ Around
         \/ \E r \in Runners : Dispatch(r)
         \/ Advance
BY DEF Next, Around, Dispatch

LEMMA TypeStutter == ASSUME TypeInv, UNCHANGED vars PROVE TypeInv'
BY DEF vars, TypeInv, TypeOK, Sound

LEMMA TypeStep == TypeInv /\ [Next]_vars => TypeInv'
BY NextCases, TypeEmit, TypeAround, TypeDispatch, TypeAdvance, TypeStutter

LEMMA AlwaysTyped == Spec => []TypeInv
BY TypeInit, TypeStep, PTL DEF Spec

\* Every variable keeps its type, for all values of the constants.
THEOREM TypeCorrect == Spec => []TypeOK
<1>1. TypeInv => TypeOK BY DEF TypeInv
<1>2. QED BY <1>1, AlwaysTyped, PTL

(***************************************************************************)
(* What each notice owes.  Only an owed notice has jobs, dispatches and    *)
(* posts, and a receipt says "sent" after a post.                          *)
(***************************************************************************)

Fresh(n) == fact[n] \in {"none", "emitting"}

\* Before its transaction commits, a notice has no receipt.
Unwritten == \A n \in Notices : Fresh(n) => \A t \in Targets : send[n][t] = None

\* What is copied or left to the summary is settled from the start.
SettledAtOnce == \A n \in Notices : fact[n] \in {"copied", "digest"} => Settled(n)

OwedJobs == \A n \in jobs : fact[n] = "owed"
OwedLanes == \A r \in Runners : lane[r] # None => fact[lane[r].notice] = "owed"
OwedPosts == \A n \in Notices : \A c \in Channels : accepted[n][c] > 0 => fact[n] = "owed"

TrueRows ==
    \A n \in Notices : \A c \in Channels :
        send[n][c] # None /\ send[n][c].status = "sent" =>
            accepted[n][c] > 0 \/ fact[n] = "copied"

\* A dispatch about to record "sent" has posted.
Sending(l) == l # None /\ l.at = "record" /\ l.outcome = "sent"
TrueOutcomes ==
    \A r \in Runners :
        Sending(lane[r]) => accepted[lane[r].notice][lane[r].target] > 0

FactInv == /\ Unwritten /\ SettledAtOnce
           /\ OwedJobs /\ OwedLanes /\ OwedPosts
           /\ TrueRows /\ TrueOutcomes

\* No post is taken back.
Kept == \A n \in Notices : \A c \in Channels : accepted[n][c] > 0 => accepted'[n][c] > 0

LEMMA SameRows ==
  ASSUME FactInv, UNCHANGED <<fact, send>>, Kept
  PROVE  Unwritten' /\ SettledAtOnce' /\ TrueRows'
BY DEF FactInv, Unwritten, Fresh, SettledAtOnce, Settled, TrueRows, Kept

LEMMA OwedRow ==
  ASSUME TypeInv, FactInv, NEW n \in Notices, NEW t \in Targets, NEW y \in Row,
         Writes(n, t, y), fact[n] = "owed", UNCHANGED <<fact, accepted>>,
         y.status = "sent" /\ t \in Channels => accepted[n][t] > 0
  PROVE  Unwritten' /\ SettledAtOnce' /\ TrueRows'
<1>1. \A m \in Notices : \A u \in Targets :
          m # n \/ u # t => send'[m][u] = send[m][u]
  BY RowWrite DEF TypeInv
<1>2. send'[n][t] = y BY RowWrite DEF TypeInv
<1>3. Unwritten' BY <1>1 DEF FactInv, Unwritten, Fresh
<1>4. SettledAtOnce' BY <1>1 DEF FactInv, SettledAtOnce, Settled
<1>5. TrueRows'
  <2>1. \A m \in Notices : \A c \in Channels :
            m # n \/ c # t => send'[m][c] = send[m][c]
    BY <1>1 DEF Targets
  <2>2. QED BY <1>2, <2>1 DEF FactInv, TrueRows
<1>6. QED BY <1>3, <1>4, <1>5

LEMMA OneLane ==
  ASSUME TypeInv, FactInv, NEW r \in Runners, NEW x \in Lane \cup {None},
         Sound(x), Moves(r, x), UNCHANGED fact, Kept,
         x # None => fact[x.notice] = "owed",
         Sending(x) => accepted'[x.notice][x.target] > 0
  PROVE  OwedLanes' /\ TrueOutcomes'
<1>1. lane'[r] = x /\ \A q \in Runners : q # r => lane'[q] = lane[q] BY LaneMove
<1>2. OwedLanes' BY <1>1 DEF FactInv, OwedLanes
<1>3. ASSUME NEW q \in Runners, Sending(lane'[q])
      PROVE  accepted'[lane'[q].notice][lane'[q].target] > 0
  <2>1. CASE q = r BY <1>1, <1>3, <2>1
  <2>2. CASE q # r
    <3>1. lane'[q] = lane[q] BY <1>1, <2>2
    <3>2. lane[q] \in Lane /\ lane[q].target \in Channels
      <4>1. lane[q] \in Lane /\ lane[q].at = "record" /\ Sound(lane[q])
        BY <1>3, <3>1 DEF Sending, TypeInv, TypeOK
      <4>2. lane[q] # None BY <1>3, <3>1 DEF Sending
      <4>3. QED BY <4>1, <4>2 DEF Sound
    <3>3. lane[q].notice \in Notices BY <3>2 DEF Lane
    <3>4. accepted[lane[q].notice][lane[q].target] > 0
      BY <1>3, <3>1 DEF FactInv, TrueOutcomes
    <3>5. QED BY <3>1, <3>2, <3>3, <3>4 DEF Kept
  <2>3. QED BY <2>1, <2>2
<1>4. QED BY <1>2, <1>3 DEF TrueOutcomes

\* An owed leg is written where there was nothing.
LEMMA FreshLeg ==
  ASSUME TypeInv, FactInv, NEW n \in Notices, Fresh(n), Leg(n),
         fact' = [fact EXCEPT ![n] = "owed"], UNCHANGED accepted
  PROVE  Unwritten' /\ SettledAtOnce' /\ TrueRows' /\ OwedPosts'
<1>1. /\ fact'[n] = "owed"
      /\ \A m \in Notices : m # n => fact'[m] = fact[m]
  BY DEF TypeInv, TypeOK
<1>2. \A t \in Targets :
          send'[n][t] # None => send'[n][t].status # "sent"
  <2>1. \A t \in Targets : send[n][t] = None BY DEF FactInv, Unwritten
  <2>2. CASE UNCHANGED send BY <2>1, <2>2
  <2>3. ASSUME NEW t \in Targets, NEW y \in Row, Writes(n, t, y),
               y.status \in {"quiet", "failed"}
        PROVE  \A u \in Targets : send'[n][u] # None => send'[n][u].status # "sent"
    <3>1. send'[n][t] = y /\ \A u \in Targets : u # t => send'[n][u] = send[n][u]
      BY <2>3, RowWrite DEF TypeInv
    <3>2. QED BY <2>1, <2>3, <3>1
  <2>4. QED BY <2>2, <2>3 DEF Leg
<1>3. \A m \in Notices : \A t \in Targets : m # n => send'[m][t] = send[m][t]
  <2>1. CASE UNCHANGED send BY <2>1
  <2>2. CASE \E t \in Targets : \E y \in Row : Writes(n, t, y)
    BY <2>2, RowWrite DEF TypeInv
  <2>3. QED BY <2>1, <2>2 DEF Leg
<1>4. Unwritten' BY <1>1, <1>3 DEF FactInv, Unwritten, Fresh
<1>5. SettledAtOnce' BY <1>1, <1>3 DEF FactInv, SettledAtOnce, Settled
<1>6. TrueRows'
  <2>1. \A c \in Channels : c \in Targets BY DEF Targets
  <2>2. QED BY <1>1, <1>2, <1>3, <2>1 DEF FactInv, TrueRows
<1>7. OwedPosts' BY <1>1 DEF FactInv, OwedPosts
<1>8. QED BY <1>4, <1>5, <1>6, <1>7

LEMMA FactInit == Init => FactInv
<1> SUFFICES ASSUME Init PROVE FactInv OBVIOUS
<1>1. /\ \A n \in Notices : fact[n] = "none"
      /\ \A n \in Notices : \A t \in Targets : send[n][t] = None
      /\ jobs = {} /\ \A r \in Runners : lane[r] = None
      /\ \A n \in Notices : \A c \in Channels : accepted[n][c] = 0
  BY DEF Init
<1>2. Unwritten /\ SettledAtOnce BY <1>1 DEF Unwritten, SettledAtOnce
<1>3. OwedJobs /\ OwedLanes /\ OwedPosts BY <1>1 DEF OwedJobs, OwedLanes, OwedPosts
<1>4. TrueRows
  <2>1. \A c \in Channels : c \in Targets BY DEF Targets
  <2>2. QED BY <1>1, <2>1 DEF TrueRows
<1>5. TrueOutcomes BY <1>1 DEF TrueOutcomes, Sending
<1>6. QED BY <1>2, <1>3, <1>4, <1>5 DEF FactInv

LEMMA FactEmit ==
  ASSUME TypeInv, FactInv, NEW n \in Notices, Emit(n)
  PROVE  FactInv'
<1>1. CASE BeginEmit(n)
  <2>1. /\ fact'[n] = "emitting" /\ Fresh(n)
        /\ \A m \in Notices : m # n => fact'[m] = fact[m]
        /\ UNCHANGED <<send, jobs, lane, accepted>>
    BY <1>1 DEF BeginEmit, Fresh, TypeInv, TypeOK
  <2>2. Unwritten' /\ SettledAtOnce'
    BY <2>1 DEF FactInv, Unwritten, Fresh, SettledAtOnce, Settled
  <2>3. OwedJobs' /\ OwedPosts'
    BY <2>1 DEF FactInv, OwedJobs, OwedPosts, Fresh, TypeInv, TypeOK
  <2>4. OwedLanes' /\ TrueOutcomes'
    BY <2>1 DEF FactInv, OwedLanes, TrueOutcomes, Fresh, TypeInv, TypeOK, Lane
  <2>5. TrueRows'
    <3>1. \A c \in Channels : c \in Targets BY DEF Targets
    <3>2. QED BY <2>1, <3>1 DEF FactInv, TrueRows, Unwritten
  <2>6. QED BY <2>2, <2>3, <2>4, <2>5 DEF FactInv
<1>2. ASSUME NEW queued \in BOOLEAN, CommitOwed(n, queued) PROVE FactInv'
  <2>1. seen[n] \in Channels \cup {None} BY DEF TypeInv, TypeOK
  <2>2. Leg(n) BY <1>2, <2>1, LegWrites DEF CommitOwed
  <2>3. Fresh(n) /\ UNCHANGED <<lane, accepted>> BY <1>2 DEF CommitOwed, Fresh
  <2>4. fact' = [fact EXCEPT ![n] = "owed"] BY <1>2 DEF CommitOwed
  <2>5. Unwritten' /\ SettledAtOnce' /\ TrueRows' /\ OwedPosts'
    BY <2>2, <2>3, <2>4, FreshLeg
  <2>6. \A m \in Notices : fact[m] = "owed" \/ m = n => fact'[m] = "owed"
    BY <2>4 DEF TypeInv, TypeOK
  <2>7. OwedJobs'
    <3>1. jobs' \subseteq jobs \cup {n} BY <1>2 DEF CommitOwed, LegJobs
    <3>2. QED BY <2>6, <3>1 DEF FactInv, OwedJobs, TypeInv, TypeOK
  <2>8. OwedLanes' /\ TrueOutcomes'
    BY <2>3, <2>6 DEF FactInv, OwedLanes, TrueOutcomes, TypeInv, TypeOK, Lane
  <2>9. QED BY <2>5, <2>7, <2>8 DEF FactInv
<1>3. ASSUME NEW t \in Targets, NEW y \in Row, Writes(n, t, y), Settles(y),
             NEW f \in {"copied", "digest"}, fact' = [fact EXCEPT ![n] = f],
             y.status = "sent" => f = "copied",
             fact[n] = "none", UNCHANGED <<jobs, lane, accepted>>
      PROVE  FactInv'
  <2>1. /\ fact'[n] = f /\ Fresh(n)
        /\ \A m \in Notices : m # n => fact'[m] = fact[m]
    BY <1>3 DEF Fresh, TypeInv, TypeOK
  <2>2. /\ send'[n][t] = y
        /\ \A m \in Notices : \A u \in Targets :
               m # n \/ u # t => send'[m][u] = send[m][u]
    BY <1>3, RowWrite DEF TypeInv
  <2>3. Unwritten' BY <2>1, <2>2 DEF FactInv, Unwritten, Fresh
  <2>4. SettledAtOnce'
    BY <1>3, <2>1, <2>2 DEF FactInv, SettledAtOnce, Settled
  <2>5. OwedJobs' /\ OwedPosts'
    BY <1>3, <2>1 DEF FactInv, OwedJobs, OwedPosts, TypeInv, TypeOK
  <2>6. OwedLanes' /\ TrueOutcomes'
    BY <1>3, <2>1 DEF FactInv, OwedLanes, TrueOutcomes, TypeInv, TypeOK, Lane
  <2>7. TrueRows'
    <3>1. \A c \in Channels : c \in Targets BY DEF Targets
    <3>2. \A u \in Targets : send[n][u] = None BY <2>1 DEF FactInv, Unwritten
    <3>3. QED BY <1>3, <2>1, <2>2, <3>1, <3>2 DEF FactInv, TrueRows
  <2>8. QED BY <2>3, <2>4, <2>5, <2>6, <2>7 DEF FactInv
<1>4. ASSUME NEW c \in Channels, EmitCopied(n, c) PROVE FactInv'
  <2>1. c \in Targets BY DEF Targets
  <2>2. Settles(Sent) /\ Sent \in Row
    BY RowTypes, OutboxAssumption DEF Settles, Sent
  <2>3. Writes(n, c, Sent) /\ fact' = [fact EXCEPT ![n] = "copied"]
        /\ fact[n] = "none" /\ UNCHANGED <<jobs, lane, accepted>>
    BY <1>4 DEF EmitCopied, Writes
  <2>4. QED BY <1>3, <2>1, <2>2, <2>3
<1>5. CASE EmitDigest(n)
  <2>1. NoTarget \in Targets BY DEF Targets
  <2>2. /\ Settles(Quiet("digest")) /\ Quiet("digest") \in Row
        /\ Quiet("digest").status # "sent"
    BY RowTypes, OutboxAssumption DEF Settles, Quiet
  <2>3. Writes(n, NoTarget, Quiet("digest")) /\ fact' = [fact EXCEPT ![n] = "digest"]
        /\ fact[n] = "none" /\ UNCHANGED <<jobs, lane, accepted>>
    BY <1>5 DEF EmitDigest, Writes
  <2>4. QED BY <1>3, <2>1, <2>2, <2>3
<1>6. QED BY <1>1, <1>2, <1>4, <1>5 DEF Emit

LEMMA AlwaysKept == ASSUME UNCHANGED accepted PROVE Kept BY DEF Kept

LEMMA FactAround == ASSUME TypeInv, FactInv, Around PROVE FactInv'
<1>1. UNCHANGED <<fact, send, lane, accepted>>
  BY DEF Around, AttachChannel, RepointChannel, OutageBegins, OutageEnds, RescueTick,
         RunRescue, world
<1>2. jobs' \subseteq jobs \cup Unsettled
  BY DEF Around, AttachChannel, RepointChannel, OutageBegins, OutageEnds, RescueTick,
         RunRescue
<1>3. \A n \in Unsettled : fact[n] = "owed"
  BY DEF Unsettled, FactInv, SettledAtOnce, TypeInv, TypeOK
<1>4. OwedJobs' BY <1>1, <1>2, <1>3 DEF FactInv, OwedJobs
<1>5. Unwritten' /\ SettledAtOnce' /\ TrueRows' BY <1>1, SameRows, AlwaysKept
<1>6. OwedLanes' /\ OwedPosts' /\ TrueOutcomes'
  BY <1>1 DEF FactInv, OwedLanes, OwedPosts, TrueOutcomes
<1>7. QED BY <1>4, <1>5, <1>6 DEF FactInv

LEMMA FactAdvance == ASSUME TypeInv, FactInv, Advance PROVE FactInv'
<1>1. UNCHANGED <<fact, jobs, accepted>> BY DEF Advance, world
<1>2. ASSUME NEW n \in Notices, NEW t \in Targets
      PROVE  /\ send[n][t] = None <=> send'[n][t] = None
             /\ send[n][t] # None => /\ send'[n][t].status = send[n][t].status
                                     /\ send'[n][t].reason = send[n][t].reason
  <2>1. send[n][t] \in Row \cup {None} BY DEF TypeInv, TypeOK
  <2>2. send'[n][t] = Older(send[n][t]) BY AdvanceMoves
  <2>3. QED BY <2>1, <2>2, OlderType
<1>3. Unwritten' BY <1>1, <1>2 DEF FactInv, Unwritten, Fresh
<1>4. SettledAtOnce' BY <1>1, <1>2 DEF FactInv, SettledAtOnce, Settled, Settles
<1>5. TrueRows'
  <2>1. \A c \in Channels : c \in Targets BY DEF Targets
  <2>2. QED BY <1>1, <1>2, <2>1 DEF FactInv, TrueRows
<1>6. OwedJobs' /\ OwedPosts' BY <1>1 DEF FactInv, OwedJobs, OwedPosts
<1>7. ASSUME NEW r \in Runners, lane'[r] # None
      PROVE  /\ lane[r] # None /\ lane'[r].notice = lane[r].notice
             /\ lane'[r].target = lane[r].target
             /\ Sending(lane'[r]) => Sending(lane[r])
  <2>1. Aged(r) BY AdvanceMoves
  <2>2. QED BY <1>7, <2>1 DEF Aged, Sending
<1>8. OwedLanes' BY <1>1, <1>7 DEF FactInv, OwedLanes
<1>9. TrueOutcomes'
  <2>1. \A r \in Runners : Sending(lane'[r]) => lane'[r] # None BY DEF Sending
  <2>2. QED BY <1>1, <1>7, <2>1 DEF FactInv, TrueOutcomes
<1>10. QED BY <1>3, <1>4, <1>5, <1>6, <1>8, <1>9 DEF FactInv

\* A dispatch that goes on or ends keeps the facts if what it writes is sound.
LEMMA NextLane ==
  ASSUME TypeInv, FactInv, NEW r \in Runners, lane[r] # None, UNCHANGED fact, Kept,
         \/ Ends(r)
         \/ \E x \in Lane :
               /\ GoesOn(r, x)
               /\ Sending(x) => accepted'[x.notice][x.target] > 0
  PROVE  OwedLanes' /\ TrueOutcomes'
<1>1. CASE Ends(r)
  <2>1. ~Sending(None) BY DEF Sending
  <2>2. QED BY <1>1, <2>1, OneLane, NoneIsSound DEF Ends
<1>2. ASSUME NEW x \in Lane, GoesOn(r, x),
             Sending(x) => accepted'[x.notice][x.target] > 0
      PROVE  OwedLanes' /\ TrueOutcomes'
  <2>1. fact[x.notice] = "owed" BY <1>2 DEF GoesOn, FactInv, OwedLanes
  <2>2. QED BY <1>2, <2>1, OneLane DEF GoesOn
<1>3. QED BY <1>1, <1>2

LEMMA FactDispatch ==
  ASSUME TypeInv, FactInv, NEW r \in Runners, Dispatch(r)
  PROVE  FactInv'
<1> USE DEF world
<1>1. ASSUME NEW n \in Notices, Start(r, n) PROVE FactInv'
  <2>1. UNCHANGED <<fact, send, accepted>> /\ Kept BY <1>1, AlwaysKept DEF Start
  <2>2. fact[n] = "owed" BY <1>1 DEF Start, FactInv, OwedJobs
  <2>3. OwedLanes' /\ TrueOutcomes'
    <3>1. CASE Ends(r)
      <4>1. ~Sending(None) BY DEF Sending
      <4>2. QED BY <2>1, <3>1, <4>1, OneLane, NoneIsSound DEF Ends
    <3>2. CASE Moves(r, Dispatching(n))
      <4>1. ~Sending(Dispatching(n)) BY DispatchingType DEF Sending
      <4>2. QED BY <2>1, <2>2, <3>2, <4>1, OneLane, DispatchingType
    <3>3. QED BY <1>1, <3>1, <3>2, StartMoves
  <2>4. Unwritten' /\ SettledAtOnce' /\ TrueRows' BY <2>1, SameRows
  <2>5. OwedJobs' /\ OwedPosts' BY <1>1, <2>1 DEF Start, FactInv, OwedJobs, OwedPosts
  <2>6. QED BY <2>3, <2>4, <2>5 DEF FactInv
<1>2. ASSUME lane[r] # None, UNCHANGED <<fact, send, accepted>>,
             jobs' \subseteq jobs \cup {lane[r].notice},
             \/ Ends(r)
             \/ \E x \in Lane : GoesOn(r, x) /\ ~Sending(x)
      PROVE  FactInv'
  <2>1. Kept BY <1>2, AlwaysKept
  <2>2. OwedLanes' /\ TrueOutcomes' BY <1>2, <2>1, NextLane
  <2>3. Unwritten' /\ SettledAtOnce' /\ TrueRows' BY <1>2, <2>1, SameRows
  <2>4. OwedJobs' BY <1>2 DEF FactInv, OwedJobs, OwedLanes
  <2>5. OwedPosts' BY <1>2 DEF FactInv, OwedPosts
  <2>6. QED BY <2>2, <2>3, <2>4, <2>5 DEF FactInv
<1>3. ASSUME lane[r] # None, UNCHANGED <<fact, accepted, jobs>>,
             NEW n \in Notices, NEW t \in Targets, NEW y \in Row,
             Writes(n, t, y), n = lane[r].notice,
             y.status = "sent" /\ t \in Channels => accepted[n][t] > 0,
             \/ Ends(r)
             \/ \E x \in Lane : GoesOn(r, x) /\ ~Sending(x)
      PROVE  FactInv'
  <2>1. Kept BY <1>3, AlwaysKept
  <2>2. OwedLanes' /\ TrueOutcomes' BY <1>3, <2>1, NextLane
  <2>3. fact[n] = "owed" BY <1>3 DEF FactInv, OwedLanes
  <2>4. Unwritten' /\ SettledAtOnce' /\ TrueRows' BY <1>3, <2>3, OwedRow
  <2>5. OwedJobs' /\ OwedPosts' BY <1>3 DEF FactInv, OwedJobs, OwedPosts
  <2>6. QED BY <2>2, <2>4, <2>5 DEF FactInv
<1>4. CASE ReadHealth(r)
  <2>1. \E x \in Lane : GoesOn(r, x) /\ ~Sending(x)
    BY <1>4, ReadHealthMoves DEF Sending
  <2>2. QED BY <1>2, <1>4, <2>1 DEF ReadHealth
<1>5. CASE Claim(r)
  <2>1. ASSUME NEW x \in Lane, Claims(r, x) PROVE FactInv'
    <3>1. GoesOn(r, x) /\ ~Sending(x) BY <2>1 DEF Claims, Sending
    <3>2. PICK k \in Attempts :
              Writes(lane[r].notice, lane[r].target, Pending(k, lane[r].age))
      BY <2>1 DEF Claims
    <3>3. lane[r].notice \in Notices /\ lane[r].target \in Targets
          /\ lane[r].age \in Ages
      BY <2>1, BoundTypes DEF Claims, GoesOn, Lane
    <3>4. Pending(k, lane[r].age) \in Row /\ Pending(k, lane[r].age).status # "sent"
      BY <3>3, RowTypes DEF Pending
    <3>5. lane[r] # None /\ UNCHANGED <<fact, accepted, jobs>> BY <1>5 DEF Claim
    <3>6. QED BY <1>3, <3>1, <3>2, <3>3, <3>4, <3>5
  <2>2. CASE Ends(r) /\ UNCHANGED send BY <1>2, <1>5, <2>2 DEF Claim
  <2>3. QED BY <1>5, <2>1, <2>2, ClaimMoves
<1>6. ASSUME NEW lost \in BOOLEAN, PostAccepted(r, lost) PROVE FactInv'
  <2>1. lane[r] # None /\ UNCHANGED <<fact, send, jobs>> BY <1>6 DEF PostAccepted
  <2>2. lane[r].notice \in Notices /\ lane[r].target \in Channels
    BY <1>6, AcceptedCounts DEF Lane
  <2>3. Kept /\ accepted'[lane[r].notice][lane[r].target] > 0
    <3>1. accepted[lane[r].notice][lane[r].target] \in Nat BY <2>2 DEF TypeInv, TypeOK
    <3>2. QED BY <1>6, <2>2, <3>1, AcceptedCounts DEF Kept
  <2>4. PICK x \in Lane : GoesOn(r, x) BY <1>6, AcceptedMoves
  <2>5. OwedLanes' /\ TrueOutcomes' BY <2>1, <2>3, <2>4, NextLane DEF GoesOn
  <2>6. Unwritten' /\ SettledAtOnce' /\ TrueRows' BY <2>1, <2>3, SameRows
  <2>7. OwedPosts'
    <3>1. fact[lane[r].notice] = "owed" BY <2>1 DEF FactInv, OwedLanes
    <3>2. QED BY <1>6, <2>1, <3>1, AcceptedCounts DEF FactInv, OwedPosts
  <2>8. OwedJobs' BY <2>1 DEF FactInv, OwedJobs
  <2>9. QED BY <2>5, <2>6, <2>7, <2>8 DEF FactInv
<1>7. ASSUME NEW reason \in FailureReasons, PostFails(r, reason) PROVE FactInv'
  <2>1. reason # "sent" BY DEF FailureReasons, Curable, Retryable
  <2>2. \E x \in Lane : GoesOn(r, x) /\ ~Sending(x)
    BY <1>7, <2>1, FailsMoves DEF Sending
  <2>3. QED BY <1>2, <1>7, <2>2 DEF PostFails
<1>8. CASE RecordQuiet(r)
  <2>1. NoTarget \in Targets /\ NoTarget \notin Channels
    BY OutboxAssumption DEF Targets
  <2>2. lane[r] # None /\ UNCHANGED <<fact, accepted, jobs>> BY <1>8 DEF RecordQuiet
  <2>3. QED BY <1>3, <1>8, <2>1, <2>2, QuietWrites
<1>9. CASE Record(r)
  <2> DEFINE n == lane[r].notice
             t == lane[r].target
             y == Outcome(send[n][t], lane[r].outcome)
  <2>1. n \in Notices /\ t \in Targets /\ t \in Channels
    BY <1>9, RecordMoves DEF Lane
  <2>2. send[n][t] \in Row \cup {None} BY <2>1 DEF TypeInv, TypeOK
  <2>3. y \in Row BY <1>9, <2>2, RecordMoves, OutcomeType
  <2>4. lane[r] # None /\ UNCHANGED <<fact, accepted, jobs>> BY <1>9 DEF Record
  <2>5. Ends(r) \/ \E x \in Lane : GoesOn(r, x) /\ ~Sending(x)
    BY <1>9, RecordMoves DEF Sending
  <2>6. ASSUME y.status = "sent" PROVE accepted[n][t] > 0
    <3>1. CASE lane[r].outcome = "sent"
      BY <1>9, <2>4, <3>1 DEF FactInv, TrueOutcomes, Sending, Record
    <3>2. CASE lane[r].outcome # "sent"
      <4>1. y = send[n][t] /\ send[n][t] # None
        BY <2>6, <3>2 DEF Outcome, Recorded
      <4>2. accepted[n][t] > 0 \/ fact[n] = "copied"
        BY <2>1, <2>6, <4>1 DEF FactInv, TrueRows
      <4>3. fact[n] = "owed" BY <2>4 DEF FactInv, OwedLanes
      <4>4. QED BY <4>2, <4>3
    <3>3. QED BY <3>1, <3>2
  <2>7. Writes(n, t, y) BY <1>9, RecordMoves
  <2> HIDE DEF y
  <2>8. QED BY <1>3, <2>1, <2>3, <2>4, <2>5, <2>6, <2>7
<1>10. ASSUME Badge(r)
       PROVE  lane[r] # None /\ Ends(r) /\ Retried(r) \subseteq {lane[r].notice}
  BY <1>10 DEF Badge, Ends, Moves, Retried
<1>11. ASSUME NEW a \in Alarms, NEW queued \in BOOLEAN, Announce(r, a, queued)
       PROVE  FactInv'
  <2>1. a \in Notices BY OutboxAssumption
  <2>2. Leg(a) BY <1>11, <2>1, LegWrites DEF Announce, TypeInv, TypeOK
  <2>3. Fresh(a) /\ UNCHANGED accepted /\ fact' = [fact EXCEPT ![a] = "owed"]
    BY <1>11 DEF Announce, EntersFailing, Fresh
  <2>4. Unwritten' /\ SettledAtOnce' /\ TrueRows' /\ OwedPosts'
    BY <2>1, <2>2, <2>3, FreshLeg
  <2>5. \A m \in Notices : fact[m] = "owed" \/ m = a => fact'[m] = "owed"
    BY <2>3 DEF TypeInv, TypeOK
  <2>6. Badge(r) BY <1>11 DEF Announce, EntersFailing
  <2>7. OwedJobs'
    <3>1. jobs' \subseteq jobs \cup {lane[r].notice} \cup {a}
      BY <1>10, <1>11, <2>6 DEF Announce, LegJobs
    <3>2. lane[r].notice \in Notices /\ fact[lane[r].notice] = "owed"
      BY <1>10, <2>6, RetriedType DEF FactInv, OwedLanes
    <3>3. QED BY <2>1, <2>5, <3>1, <3>2 DEF FactInv, OwedJobs, TypeInv, TypeOK
  <2>8. \A q \in Runners : lane'[q] = None \/ lane'[q] = lane[q]
    BY <1>10, <2>6, LaneMove, NoneIsSound DEF Ends
  <2>9. OwedLanes'
    BY <2>5, <2>8 DEF FactInv, OwedLanes, TypeInv, TypeOK, Lane
  <2>10. TrueOutcomes' BY <2>3, <2>8 DEF FactInv, TrueOutcomes, Sending
  <2>11. QED BY <2>4, <2>7, <2>9, <2>10 DEF FactInv
<1>12. CASE EnterFailing(r)
  BY <1>2, <1>10, <1>12 DEF EnterFailing, EntersFailing
<1>13. CASE StayFailing(r) BY <1>2, <1>10, <1>13 DEF StayFailing
<1>14. ASSUME NEW queued \in BOOLEAN, TurnHealthy(r, queued) PROVE FactInv'
  BY <1>2, <1>10, <1>14 DEF TurnHealthy
<1>15. CASE BadgeLost(r) BY <1>2, <1>10, <1>15 DEF BadgeLost
<1>16. ASSUME NEW again \in BOOLEAN, Die(r, again) PROVE FactInv'
  BY <1>2, <1>16 DEF Die, Ends, Moves
<1>17. QED
  BY <1>1, <1>4, <1>5, <1>6, <1>7, <1>8, <1>9, <1>11, <1>12, <1>13, <1>14, <1>15, <1>16
  DEF Dispatch, Step

LEMMA FactStep == TypeInv /\ FactInv /\ [Next]_vars => FactInv'
<1>1. ASSUME FactInv, UNCHANGED vars PROVE FactInv'
  BY <1>1 DEF vars, FactInv, Unwritten, Fresh, SettledAtOnce, Settled, OwedJobs,
              OwedLanes, OwedPosts, TrueRows, TrueOutcomes
<1>2. QED BY <1>1, NextCases, FactEmit, FactAround, FactDispatch, FactAdvance

LEMMA AlwaysFacts == Spec => []FactInv
BY FactInit, FactStep, AlwaysTyped, PTL DEF Spec

\* For all values of the constants, faults and interleavings: a notice the dispatch
\* marked sent is in that channel, and only what was owed to Slack is ever posted.
THEOREM ReceiptsSpeakTrue == Spec => []ReceiptsAreTrue
<1>1. FactInv => ReceiptsAreTrue BY DEF FactInv, TrueRows, OwedPosts, ReceiptsAreTrue
<1>2. QED BY <1>1, AlwaysFacts, PTL

(***************************************************************************)
(* The lease, for dispatches that end within it.                           *)
(***************************************************************************)

PostingLane(l) == l # None /\ l.at \in {"post", "record"}

\* The row a posting dispatch claimed is still its own.
Held(l, row) == row # None /\ row.status = "pending" /\ row.age = l.age
HeldLeases ==
    \A r \in Runners :
        PostingLane(lane[r]) => Held(lane[r], send[lane[r].notice][lane[r].target])

Locks ==
    \A r, q \in Runners :
        PostingLane(lane[r]) /\ PostingLane(lane[q]) /\ r # q =>
            <<lane[r].notice, lane[r].target>> # <<lane[q].notice, lane[q].target>>

\* Only the summary's receipt says digest, and only a failure says rejected.
Shaped(t, row) ==
    row # None => /\ row.reason = "digest" => row.status = "quiet" /\ t = NoTarget
                  /\ row.reason = "rejected" => row.status = "failed"
RowShape == \A n \in Notices : \A t \in Targets : Shaped(t, send[n][t])

LeaseInv == HeldLeases /\ Locks /\ RowShape

LEMMA PostingType ==
  ASSUME TypeInv, NEW r \in Runners, PostingLane(lane[r])
  PROVE  /\ lane[r] \in Lane /\ lane[r].notice \in Notices
         /\ lane[r].target \in Channels /\ lane[r].target \in Targets
         /\ lane[r].age \in Nat /\ lane[r].age <= MaxSpan
<1>1. lane[r] \in Lane /\ Sound(lane[r]) /\ lane[r] # None /\ lane[r].at # "quiet"
  BY DEF PostingLane, TypeInv, TypeOK
<1>2. lane[r].notice \in Notices /\ lane[r].target \in Channels
  BY <1>1 DEF Lane, Sound
<1>3. lane[r].age \in 0..MaxSpan BY <1>1 DEF Lane
<1>4. QED BY <1>1, <1>2, <1>3, BoundTypes DEF Targets

\* A row in somebody's hands cannot be claimed.
LEMMA HeldIsNotReclaimable ==
  ASSUME TypeInv, HeldLeases, MaxSpan <= ClaimTtl, NEW q \in Runners,
         PostingLane(lane[q]), NEW age \in Nat, NEW repaired \in BOOLEAN
  PROVE  ~Reclaimable(send[lane[q].notice][lane[q].target], age, repaired)
<1> DEFINE row == send[lane[q].notice][lane[q].target]
<1>1. row.status = "pending" /\ row.age = lane[q].age BY DEF HeldLeases, Held
<1>2. lane[q].age \in Nat /\ lane[q].age <= MaxSpan BY PostingType
<1>3. ~(row.age - age > ClaimTtl) BY <1>1, <1>2, BoundTypes
<1> HIDE DEF row
<1>4. ~Abandoned(row, age) BY <1>3 DEF Abandoned
<1>5. ~Reclaimable(row, age, repaired)
  BY <1>1, <1>4 DEF Reclaimable, RetryReclaimable, RescueReclaimable
<1>6. QED BY <1>5 DEF row

\* One dispatch moves, the rows of the others stay, and what it holds is its own.
LEMMA LeaseMove ==
  ASSUME TypeInv, HeldLeases, Locks, NEW r \in Runners, NEW x \in Lane \cup {None},
         Sound(x), Moves(r, x),
         \A q \in Runners :
             q # r /\ PostingLane(lane[q]) =>
                 send'[lane[q].notice][lane[q].target] =
                     send[lane[q].notice][lane[q].target],
         PostingLane(x) =>
             /\ Held(x, send'[x.notice][x.target])
             /\ \A q \in Runners :
                    q # r /\ PostingLane(lane[q]) =>
                        <<x.notice, x.target>> # <<lane[q].notice, lane[q].target>>
  PROVE  HeldLeases' /\ Locks'
<1>1. lane'[r] = x /\ \A q \in Runners : q # r => lane'[q] = lane[q] BY LaneMove
<1>2. HeldLeases' BY <1>1 DEF HeldLeases
<1>3. Locks' BY <1>1 DEF Locks
<1>4. QED BY <1>2, <1>3

\* It keeps what it held, or lets it go, and no row changes.
LEMMA LeaseKept ==
  ASSUME TypeInv, LeaseInv, NEW r \in Runners, UNCHANGED send,
         \/ Ends(r)
         \/ \E x \in Lane :
                GoesOn(r, x) /\ (PostingLane(x) => PostingLane(lane[r]))
  PROVE  LeaseInv'
<1>1. RowShape' BY DEF LeaseInv, RowShape
<1>2. CASE Ends(r)
  <2>1. ~PostingLane(None) BY DEF PostingLane
  <2>2. QED BY <1>1, <1>2, <2>1, NoneIsSound, LeaseMove DEF Ends, LeaseInv
<1>3. ASSUME NEW x \in Lane, GoesOn(r, x), PostingLane(x) => PostingLane(lane[r])
      PROVE  LeaseInv'
  <2>1. PostingLane(x) => Held(x, send'[x.notice][x.target])
    BY <1>3 DEF GoesOn, LeaseInv, HeldLeases, Held
  <2>2. PostingLane(x) =>
            \A q \in Runners :
                q # r /\ PostingLane(lane[q]) =>
                    <<x.notice, x.target>> # <<lane[q].notice, lane[q].target>>
    BY <1>3 DEF GoesOn, LeaseInv, Locks
  <2>3. HeldLeases' /\ Locks'
    BY <1>3, <2>1, <2>2, LeaseMove DEF GoesOn, LeaseInv
  <2>4. QED BY <1>1, <2>3 DEF LeaseInv
<1>4. QED BY <1>2, <1>3

\* A write keeps the shape of the rows if it has it.
LEMMA ShapedWrite ==
  ASSUME TypeInv, RowShape, NEW n \in Notices, NEW t \in Targets, NEW y \in Row,
         Writes(n, t, y), Shaped(t, y)
  PROVE  RowShape'
BY RowWrite DEF RowShape, TypeInv

\* Rows of a notice that is not owed are in nobody's hands.
LEMMA FreshRows ==
  ASSUME TypeInv, FactInv, LeaseInv, NEW n \in Notices, Fresh(n),
         \A m \in Notices : \A t \in Targets : m # n => send'[m][t] = send[m][t]
  PROVE  \A q \in Runners :
             PostingLane(lane[q]) =>
                 send'[lane[q].notice][lane[q].target] =
                     send[lane[q].notice][lane[q].target]
<1> SUFFICES ASSUME NEW q \in Runners, PostingLane(lane[q])
             PROVE  send'[lane[q].notice][lane[q].target] =
                        send[lane[q].notice][lane[q].target]
  OBVIOUS
<1>1. lane[q].notice \in Notices /\ lane[q].target \in Targets BY PostingType
<1>2. fact[lane[q].notice] = "owed" BY DEF PostingLane, FactInv, OwedLanes
<1>3. QED BY <1>1, <1>2 DEF Fresh

\* An owed leg touches only the rows of its notice.
LEMMA LegRows ==
  ASSUME TypeInv, RowShape, NEW n \in Notices, Leg(n)
  PROVE  /\ RowShape'
         /\ \A m \in Notices : \A t \in Targets : m # n => send'[m][t] = send[m][t]
<1>1. CASE UNCHANGED send BY <1>1 DEF RowShape
<1>2. ASSUME NEW t \in Targets, NEW y \in Row, Writes(n, t, y),
             y.reason \in {"no_channel", "queue_unavailable"}
      PROVE  /\ RowShape'
             /\ \A m \in Notices : \A u \in Targets : m # n => send'[m][u] = send[m][u]
  <2>1. Shaped(t, y) BY <1>2 DEF Shaped
  <2>2. RowShape' BY <1>2, <2>1, ShapedWrite
  <2>3. QED BY <1>2, <2>2, RowWrite DEF TypeInv
<1>3. QED BY <1>1, <1>2 DEF Leg

LEMMA LeaseInit == Init => LeaseInv
<1> SUFFICES ASSUME Init PROVE LeaseInv OBVIOUS
<1>1. HeldLeases /\ Locks BY DEF Init, HeldLeases, Locks, PostingLane
<1>2. RowShape BY DEF Init, RowShape, Shaped
<1>3. QED BY <1>1, <1>2 DEF LeaseInv

LEMMA LeaseEmit ==
  ASSUME TypeInv, FactInv, LeaseInv, NEW n \in Notices, Emit(n)
  PROVE  LeaseInv'
<1>1. Fresh(n) /\ UNCHANGED lane
  BY DEF Emit, BeginEmit, CommitOwed, EmitCopied, EmitDigest, Fresh
<1>2. /\ RowShape'
      /\ \A m \in Notices : \A t \in Targets : m # n => send'[m][t] = send[m][t]
  <2>1. CASE BeginEmit(n) BY <2>1 DEF BeginEmit, LeaseInv, RowShape
  <2>2. ASSUME NEW queued \in BOOLEAN, CommitOwed(n, queued) PROVE Leg(n)
    <3>1. seen[n] \in Channels \cup {None} BY DEF TypeInv, TypeOK
    <3>2. QED BY <2>2, <3>1, LegWrites DEF CommitOwed
  <2>3. ASSUME NEW queued \in BOOLEAN, CommitOwed(n, queued)
        PROVE  RowShape' /\ \A m \in Notices : \A t \in Targets :
                                m # n => send'[m][t] = send[m][t]
    BY <2>2, <2>3, LegRows DEF LeaseInv
  <2>4. ASSUME NEW c \in Channels, EmitCopied(n, c)
        PROVE  RowShape' /\ \A m \in Notices : \A t \in Targets :
                                m # n => send'[m][t] = send[m][t]
    <3>1. c \in Targets BY DEF Targets
    <3>2. Sent \in Row /\ Shaped(c, Sent)
      BY RowTypes, OutboxAssumption DEF Sent, Shaped, FailureReasons
    <3>3. Writes(n, c, Sent) BY <2>4 DEF EmitCopied, Writes
    <3>4. QED BY <3>1, <3>2, <3>3, ShapedWrite, RowWrite DEF LeaseInv, TypeInv
  <2>5. CASE EmitDigest(n)
    <3>1. NoTarget \in Targets BY DEF Targets
    <3>2. Quiet("digest") \in Row /\ Shaped(NoTarget, Quiet("digest"))
      BY RowTypes DEF Quiet, Shaped
    <3>3. Writes(n, NoTarget, Quiet("digest")) BY <2>5 DEF EmitDigest, Writes
    <3>4. QED BY <3>1, <3>2, <3>3, ShapedWrite, RowWrite DEF LeaseInv, TypeInv
  <2>6. QED BY <2>1, <2>3, <2>4, <2>5 DEF Emit
<1>3. HeldLeases'
  BY <1>1, <1>2, FreshRows DEF LeaseInv, HeldLeases
<1>4. Locks' BY <1>1 DEF LeaseInv, Locks
<1>5. QED BY <1>2, <1>3, <1>4 DEF LeaseInv

LEMMA LeaseAround == ASSUME LeaseInv, Around PROVE LeaseInv'
<1>1. UNCHANGED <<send, lane>>
  BY DEF Around, AttachChannel, RepointChannel, OutageBegins, OutageEnds, RescueTick,
         RunRescue, world
<1>2. QED BY <1>1 DEF LeaseInv, HeldLeases, Locks, RowShape

LEMMA LeaseAdvance == ASSUME TypeInv, LeaseInv, Advance PROVE LeaseInv'
<1>1. ASSUME NEW n \in Notices, NEW t \in Targets
      PROVE  Shaped(t, send'[n][t])
  <2>1. send[n][t] \in Row \cup {None} BY DEF TypeInv, TypeOK
  <2>2. send'[n][t] = Older(send[n][t]) BY AdvanceMoves
  <2>3. Shaped(t, send[n][t]) BY DEF LeaseInv, RowShape
  <2>4. QED BY <2>1, <2>2, <2>3, OlderType DEF Shaped
<1>2. ASSUME NEW r \in Runners, PostingLane(lane'[r])
      PROVE  /\ PostingLane(lane[r]) /\ lane'[r].notice = lane[r].notice
             /\ lane'[r].target = lane[r].target /\ lane'[r].age = lane[r].age + 1
  <2>1. Aged(r) BY AdvanceMoves
  <2>2. QED BY <1>2, <2>1 DEF Aged, PostingLane
<1>3. ASSUME NEW r \in Runners, PostingLane(lane'[r])
      PROVE  Held(lane'[r], send'[lane'[r].notice][lane'[r].target])
  <2> DEFINE n == lane[r].notice
             t == lane[r].target
             row == send[n][t]
  <2>1. PostingLane(lane[r]) /\ lane'[r].notice = n /\ lane'[r].target = t
        /\ lane'[r].age = lane[r].age + 1
    BY <1>2, <1>3
  <2>2. n \in Notices /\ t \in Targets /\ lane[r].age \in Nat /\ lane[r].age <= MaxSpan
    BY <2>1, PostingType
  <2>3. row # None /\ row.status = "pending" /\ row.age = lane[r].age
    BY <2>1 DEF LeaseInv, HeldLeases, Held
  <2>4. row \in Row \cup {None} BY <2>2 DEF TypeInv, TypeOK
  <2>5. row.age < Horizon BY <2>2, <2>3, BoundTypes DEF Horizon
  <2>6. send'[n][t] = Older(row) BY <2>2, AdvanceMoves
  <2> HIDE DEF row
  <2>7. Older(row) # None /\ Older(row).status = "pending"
        /\ Older(row).age = row.age + 1
    BY <2>3, <2>4, <2>5, OlderType
  <2>8. QED BY <2>1, <2>3, <2>6, <2>7 DEF Held
<1>4. Locks' BY <1>2 DEF LeaseInv, Locks
<1>5. QED BY <1>1, <1>3, <1>4 DEF LeaseInv, HeldLeases, RowShape

\* What a row is when a dispatch is about to write over it.
LEMMA ClaimedRow ==
  ASSUME TypeInv, LeaseInv, MaxSpan <= ClaimTtl, NEW r \in Runners, NEW x \in Lane,
         Claims(r, x)
  PROVE  /\ lane[r].notice \in Notices /\ lane[r].target \in Channels
         /\ lane[r].target \in Targets /\ lane[r].age \in Ages
         /\ \A q \in Runners :
                q # r /\ PostingLane(lane[q]) =>
                    <<lane[r].notice, lane[r].target>> # <<lane[q].notice, lane[q].target>>
         /\ ~Final(send[lane[r].notice][lane[r].target])
<1> DEFINE n == lane[r].notice
           t == lane[r].target
<1>1. lane[r] \in Lane /\ Sound(lane[r]) /\ lane[r].at = "claim" /\ lane[r] # None
  BY OutboxAssumption DEF Claims, GoesOn
<1>2. n \in Notices /\ t \in Channels /\ t \in Targets
  BY <1>1 DEF Lane, Sound, Targets
<1>3. lane[r].age \in Ages /\ lane[r].age \in Nat /\ lane[r].repaired \in BOOLEAN
  <2>1. lane[r].age \in 0..MaxSpan /\ lane[r].repaired \in BOOLEAN BY <1>1 DEF Lane
  <2>2. QED BY <2>1, BoundTypes
<1>4. send[n][t] # None => Reclaimable(send[n][t], lane[r].age, lane[r].repaired)
  BY DEF Claims
<1>5. ASSUME NEW q \in Runners, PostingLane(lane[q]), n = lane[q].notice,
             t = lane[q].target
      PROVE  FALSE
  <2>1. send[n][t] # None BY <1>5 DEF LeaseInv, HeldLeases, Held
  <2>2. ~Reclaimable(send[n][t], lane[r].age, lane[r].repaired)
    BY <1>3, <1>5, HeldIsNotReclaimable DEF LeaseInv
  <2>3. QED BY <1>4, <2>1, <2>2
<1>6. ~Final(send[n][t])
  <2>1. Shaped(t, send[n][t]) BY <1>2 DEF LeaseInv, RowShape
  <2>2. t # NoTarget BY <1>2, OutboxAssumption
  <2>3. send[n][t] # None =>
            \/ send[n][t].status = "pending"
            \/ send[n][t].status = "failed" /\ send[n][t].reason # "rejected"
    BY <1>4 DEF Reclaimable, RetryReclaimable, RescueReclaimable, Abandoned, Curable,
                Retryable
  <2>4. QED BY <2>1, <2>2, <2>3 DEF Shaped, Final
<1>7. QED BY <1>2, <1>3, <1>5, <1>6

\* The record of a dispatch goes to its own pending row.
LEMMA OwnRow ==
  ASSUME TypeInv, LeaseInv, NEW r \in Runners, Record(r)
  PROVE  LET row == send[lane[r].notice][lane[r].target]
             y == Outcome(row, lane[r].outcome)
         IN  /\ PostingLane(lane[r])
             /\ row \in Row /\ row # None /\ row.status = "pending"
             /\ y \in Row /\ Shaped(lane[r].target, y)
             /\ y.status = (IF lane[r].outcome = "sent" THEN "sent" ELSE "failed")
             /\ Writes(lane[r].notice, lane[r].target, y)
<1> DEFINE n == lane[r].notice
           t == lane[r].target
           o == lane[r].outcome
           row == send[n][t]
           y == Outcome(row, o)
<1>1. PostingLane(lane[r]) BY DEF Record, PostingLane
<1>2. n \in Notices /\ t \in Targets BY <1>1, PostingType
<1>3. o \in FailureReasons \cup {"sent"} /\ Writes(n, t, y) BY RecordMoves
<1>4. row # None /\ row.status = "pending"
  BY <1>1 DEF LeaseInv, HeldLeases, Held
<1>5. row \in Row BY <1>2, <1>4 DEF TypeInv, TypeOK
<1> HIDE DEF row
<1>6. y \in Row BY <1>3, <1>5, OutcomeType
<1>7. CASE o = "sent"
  <2>1. y.status = "sent" /\ y.reason = None
    BY <1>4, <1>7 DEF Outcome, Recorded, Rank
  <2>2. Shaped(t, y) BY <2>1, OutboxAssumption DEF Shaped, FailureReasons
  <2>3. QED BY <1>1, <1>3, <1>4, <1>5, <1>6, <1>7, <2>1, <2>2 DEF row
<1>8. CASE o # "sent"
  <2>1. y.status = "failed" /\ y.reason = o
    BY <1>4, <1>8 DEF Outcome, Recorded, Rank
  <2>2. o # "digest" BY <1>3 DEF FailureReasons, Curable, Retryable
  <2>3. Shaped(t, y) BY <2>1, <2>2 DEF Shaped
  <2>4. QED BY <1>1, <1>3, <1>4, <1>5, <1>6, <1>8, <2>1, <2>3 DEF row
<1>9. QED BY <1>7, <1>8

LEMMA LeaseClaim ==
  ASSUME TypeInv, LeaseInv, MaxSpan <= ClaimTtl, NEW r \in Runners, Claim(r)
  PROVE  LeaseInv'
<1>1. CASE Ends(r) /\ UNCHANGED send BY <1>1, LeaseKept
<1>2. ASSUME NEW x \in Lane, Claims(r, x) PROVE LeaseInv'
  <2> DEFINE n == lane[r].notice
             t == lane[r].target
  <2>1. /\ n \in Notices /\ t \in Targets /\ lane[r].age \in Ages
        /\ \A q \in Runners :
               q # r /\ PostingLane(lane[q]) =>
                   <<n, t>> # <<lane[q].notice, lane[q].target>>
    BY <1>2, ClaimedRow
  <2>2. PICK k \in Attempts : Writes(n, t, Pending(k, lane[r].age))
    BY <1>2 DEF Claims
  <2> DEFINE y == Pending(k, lane[r].age)
  <2>3. y \in Row /\ y # None /\ y.status = "pending" /\ y.age = lane[r].age
    BY <2>1, RowTypes, OutboxAssumption DEF Pending
  <2>4. Shaped(t, y) BY OutboxAssumption DEF Pending, Shaped, FailureReasons
  <2>5. Writes(n, t, y) BY <2>2
  <2> HIDE DEF y
  <2>6. /\ send'[n][t] = y
        /\ \A m \in Notices : \A u \in Targets :
               m # n \/ u # t => send'[m][u] = send[m][u]
    BY <2>1, <2>3, <2>5, RowWrite DEF TypeInv
  <2>7. RowShape' BY <2>1, <2>3, <2>4, <2>5, ShapedWrite DEF LeaseInv
  <2>8. /\ x.notice = n /\ x.target = t /\ x.age = lane[r].age
        /\ Sound(x) /\ Moves(r, x)
    BY <1>2 DEF Claims, GoesOn
  <2>9. Held(x, send'[x.notice][x.target]) BY <2>3, <2>6, <2>8 DEF Held
  <2>10. \A q \in Runners :
             q # r /\ PostingLane(lane[q]) =>
                 send'[lane[q].notice][lane[q].target] =
                     send[lane[q].notice][lane[q].target]
    BY <2>1, <2>6, PostingType
  <2>11. HeldLeases' /\ Locks'
    BY <2>1, <2>8, <2>9, <2>10, LeaseMove DEF LeaseInv
  <2>12. QED BY <2>7, <2>11 DEF LeaseInv
<1>3. QED BY <1>1, <1>2, ClaimMoves

LEMMA LeaseRecord ==
  ASSUME TypeInv, LeaseInv, NEW r \in Runners, Record(r)
  PROVE  LeaseInv'
<1> DEFINE n == lane[r].notice
           t == lane[r].target
           y == Outcome(send[n][t], lane[r].outcome)
<1>1. PostingLane(lane[r]) /\ y \in Row /\ Shaped(t, y) /\ Writes(n, t, y)
  BY OwnRow
<1>2. n \in Notices /\ t \in Targets BY <1>1, PostingType
<1> HIDE DEF y
<1>3. RowShape' BY <1>1, <1>2, ShapedWrite DEF LeaseInv
<1>4. \A q \in Runners :
          q # r /\ PostingLane(lane[q]) =>
              send'[lane[q].notice][lane[q].target] =
                  send[lane[q].notice][lane[q].target]
  <2>1. \A m \in Notices : \A u \in Targets :
            m # n \/ u # t => send'[m][u] = send[m][u]
    BY <1>1, <1>2, RowWrite DEF TypeInv
  <2>2. QED BY <1>1, <2>1, PostingType DEF LeaseInv, Locks
<1>5. CASE Ends(r)
  <2>1. ~PostingLane(None) BY DEF PostingLane
  <2>2. QED BY <1>3, <1>4, <1>5, <2>1, NoneIsSound, LeaseMove DEF Ends, LeaseInv
<1>6. ASSUME NEW x \in Lane, GoesOn(r, x), x.at = "badge" PROVE LeaseInv'
  <2>1. ~PostingLane(x) BY <1>6 DEF PostingLane
  <2>2. QED BY <1>3, <1>4, <1>6, <2>1, LeaseMove DEF GoesOn, LeaseInv
<1>7. QED BY <1>5, <1>6, RecordMoves

LEMMA LeaseQuiet ==
  ASSUME TypeInv, LeaseInv, NEW r \in Runners, RecordQuiet(r)
  PROVE  LeaseInv'
<1> DEFINE n == lane[r].notice
           y == Recorded(send[n][NoTarget], "quiet", "no_channel")
<1>1. n \in Notices /\ NoTarget \in Targets /\ NoTarget \notin Channels
      /\ Writes(n, NoTarget, y) /\ y \in Row /\ Ends(r)
  BY QuietWrites, OutboxAssumption DEF Targets
<1>2. Shaped(NoTarget, y)
  <2>1. Shaped(NoTarget, send[n][NoTarget]) BY <1>1 DEF LeaseInv, RowShape
  <2>2. QED BY <2>1 DEF Shaped, Recorded
<1> HIDE DEF y
<1>3. RowShape' BY <1>1, <1>2, ShapedWrite DEF LeaseInv
<1>4. \A q \in Runners :
          PostingLane(lane[q]) =>
              send'[lane[q].notice][lane[q].target] =
                  send[lane[q].notice][lane[q].target]
  <2>1. \A m \in Notices : \A u \in Targets :
            m # n \/ u # NoTarget => send'[m][u] = send[m][u]
    BY <1>1, RowWrite DEF TypeInv
  <2>2. QED BY <1>1, <2>1, PostingType
<1>5. ~PostingLane(None) BY DEF PostingLane
<1>6. QED BY <1>1, <1>3, <1>4, <1>5, NoneIsSound, LeaseMove DEF Ends, LeaseInv

LEMMA LeaseAnnounce ==
  ASSUME TypeInv, FactInv, LeaseInv, NEW r \in Runners, NEW a \in Alarms,
         NEW queued \in BOOLEAN, Announce(r, a, queued)
  PROVE  LeaseInv'
<1>1. a \in Notices BY OutboxAssumption
<1>2. Leg(a) BY <1>1, LegWrites DEF Announce, TypeInv, TypeOK
<1>3. Fresh(a) /\ Ends(r) BY DEF Announce, EntersFailing, Badge, Fresh, Ends, Moves
<1>4. /\ RowShape'
      /\ \A m \in Notices : \A t \in Targets : m # a => send'[m][t] = send[m][t]
  BY <1>1, <1>2, LegRows DEF LeaseInv
<1>5. \A q \in Runners :
          PostingLane(lane[q]) =>
              send'[lane[q].notice][lane[q].target] =
                  send[lane[q].notice][lane[q].target]
  BY <1>1, <1>3, <1>4, FreshRows
<1>6. ~PostingLane(None) BY DEF PostingLane
<1>7. QED BY <1>3, <1>4, <1>5, <1>6, NoneIsSound, LeaseMove DEF Ends, LeaseInv

LEMMA LeaseDispatch ==
  ASSUME TypeInv, FactInv, LeaseInv, MaxSpan <= ClaimTtl,
         NEW r \in Runners, Dispatch(r)
  PROVE  LeaseInv'
<1>1. ASSUME NEW n \in Notices, Start(r, n) PROVE LeaseInv'
  <2>1. UNCHANGED send BY <1>1 DEF Start
  <2>2. CASE Ends(r) BY <2>1, <2>2, LeaseKept
  <2>3. CASE Moves(r, Dispatching(n))
    <3>1. ~PostingLane(Dispatching(n)) BY DispatchingType DEF PostingLane
    <3>2. HeldLeases' /\ Locks'
      BY <2>1, <2>3, <3>1, DispatchingType, LeaseMove DEF LeaseInv
    <3>3. QED BY <2>1, <3>2 DEF LeaseInv, RowShape
  <2>4. QED BY <1>1, <2>2, <2>3, StartMoves
<1>2. CASE ReadHealth(r)
  <2>1. \E x \in Lane : GoesOn(r, x) /\ ~PostingLane(x)
    BY <1>2, ReadHealthMoves DEF PostingLane
  <2>2. QED BY <1>2, <2>1, LeaseKept DEF ReadHealth
<1>3. CASE Claim(r) BY <1>3, LeaseClaim
<1>4. ASSUME NEW lost \in BOOLEAN, PostAccepted(r, lost) PROVE LeaseInv'
  <2>1. PostingLane(lane[r]) /\ UNCHANGED send BY <1>4 DEF PostAccepted, PostingLane
  <2>2. QED BY <1>4, <2>1, AcceptedMoves, LeaseKept
<1>5. ASSUME NEW reason \in FailureReasons, PostFails(r, reason) PROVE LeaseInv'
  <2>1. PostingLane(lane[r]) /\ UNCHANGED send BY <1>5 DEF PostFails, PostingLane
  <2>2. QED BY <1>5, <2>1, FailsMoves, LeaseKept
<1>6. CASE RecordQuiet(r) BY <1>6, LeaseQuiet
<1>7. CASE Record(r) BY <1>7, LeaseRecord
<1>8. ASSUME NEW a \in Alarms, NEW queued \in BOOLEAN, Announce(r, a, queued)
      PROVE  LeaseInv'
  BY <1>8, LeaseAnnounce
<1>9. ASSUME Badge(r), UNCHANGED send PROVE LeaseInv'
  BY <1>9, LeaseKept DEF Badge, Ends, Moves
<1>10. CASE EnterFailing(r) BY <1>9, <1>10 DEF EnterFailing, EntersFailing
<1>11. CASE StayFailing(r) BY <1>9, <1>11 DEF StayFailing
<1>12. ASSUME NEW queued \in BOOLEAN, TurnHealthy(r, queued) PROVE LeaseInv'
  BY <1>9, <1>12 DEF TurnHealthy
<1>13. CASE BadgeLost(r) BY <1>9, <1>13 DEF BadgeLost
<1>14. ASSUME NEW again \in BOOLEAN, Die(r, again) PROVE LeaseInv'
  BY <1>14, LeaseKept DEF Die, Ends, Moves
<1>15. QED
  BY <1>1, <1>2, <1>3, <1>4, <1>5, <1>6, <1>7, <1>8, <1>10, <1>11, <1>12, <1>13, <1>14
  DEF Dispatch, Step

LEMMA LeaseStep ==
  ASSUME MaxSpan <= ClaimTtl
  PROVE  TypeInv /\ FactInv /\ LeaseInv /\ [Next]_vars => LeaseInv'
<1>1. ASSUME LeaseInv, UNCHANGED vars PROVE LeaseInv'
  BY <1>1 DEF vars, LeaseInv, HeldLeases, Locks, RowShape
<1>2. QED
  BY <1>1, NextCases, LeaseEmit, LeaseAround, LeaseDispatch, LeaseAdvance

LEMMA AlwaysLeased == ASSUME MaxSpan <= ClaimTtl PROVE Spec => []LeaseInv
BY LeaseInit, LeaseStep, AlwaysTyped, AlwaysFacts, PTL DEF Spec

\* When dispatches end within the lease, two of them never both stand between the
\* claim and the outcome of one notice for one channel.
THEOREM ClaimIsALock ==
  ASSUME MaxSpan <= ClaimTtl
  PROVE  Spec => []OneDispatcherPerTarget
<1>1. LeaseInv => OneDispatcherPerTarget
  BY DEF LeaseInv, Locks, PostingLane, OneDispatcherPerTarget, Posting
<1>2. QED BY <1>1, AlwaysLeased, PTL

(***************************************************************************)
(* Final receipts, for dispatches that end within the lease.               *)
(***************************************************************************)

StaysFinal ==
    \A n \in Notices : \A t \in Targets :
        Final(send[n][t]) => send'[n][t] = send[n][t]

LEMMA FinalWrite ==
  ASSUME TypeInv, NEW n \in Notices, NEW t \in Targets, NEW y \in Row,
         Writes(n, t, y), Final(send[n][t]) => y = send[n][t]
  PROVE  StaysFinal
BY RowWrite DEF StaysFinal, TypeInv

LEMMA FinalLeg ==
  ASSUME TypeInv, FactInv, NEW n \in Notices, Fresh(n), Leg(n)
  PROVE  StaysFinal
<1>1. \A t \in Targets : ~Final(send[n][t]) BY DEF FactInv, Unwritten, Final
<1>2. CASE UNCHANGED send BY <1>2 DEF StaysFinal
<1>3. CASE \E t \in Targets : \E y \in Row : Writes(n, t, y)
  BY <1>1, <1>3, FinalWrite
<1>4. QED BY <1>2, <1>3 DEF Leg

LEMMA FinalEmit ==
  ASSUME TypeInv, FactInv, NEW n \in Notices, Emit(n)
  PROVE  StaysFinal
<1>1. Fresh(n) BY DEF Emit, BeginEmit, CommitOwed, EmitCopied, EmitDigest, Fresh
<1>2. \A t \in Targets : ~Final(send[n][t]) BY <1>1 DEF FactInv, Unwritten, Final
<1>3. CASE BeginEmit(n) BY <1>3 DEF BeginEmit, StaysFinal
<1>4. ASSUME NEW queued \in BOOLEAN, CommitOwed(n, queued) PROVE StaysFinal
  <2>1. seen[n] \in Channels \cup {None} BY DEF TypeInv, TypeOK
  <2>2. Leg(n) BY <1>4, <2>1, LegWrites DEF CommitOwed
  <2>3. QED BY <1>1, <2>2, FinalLeg
<1>5. ASSUME NEW c \in Channels, EmitCopied(n, c) PROVE StaysFinal
  <2>1. c \in Targets BY DEF Targets
  <2>2. Writes(n, c, Sent) BY <1>5 DEF EmitCopied, Writes
  <2>3. QED BY <1>2, <2>1, <2>2, RowTypes, FinalWrite
<1>6. CASE EmitDigest(n)
  <2>1. NoTarget \in Targets BY DEF Targets
  <2>2. Writes(n, NoTarget, Quiet("digest")) BY <1>6 DEF EmitDigest, Writes
  <2>3. QED BY <1>2, <2>1, <2>2, RowTypes, FinalWrite
<1>7. QED BY <1>3, <1>4, <1>5, <1>6 DEF Emit

LEMMA FinalDispatch ==
  ASSUME TypeInv, FactInv, LeaseInv, MaxSpan <= ClaimTtl,
         NEW r \in Runners, Dispatch(r)
  PROVE  StaysFinal
<1>1. CASE UNCHANGED send BY <1>1 DEF StaysFinal
<1>2. CASE Claim(r)
  <2>1. ASSUME NEW x \in Lane, Claims(r, x) PROVE StaysFinal
    <3>1. /\ lane[r].notice \in Notices /\ lane[r].target \in Targets
          /\ lane[r].age \in Ages /\ ~Final(send[lane[r].notice][lane[r].target])
      BY <2>1, ClaimedRow
    <3>2. PICK k \in Attempts :
              Writes(lane[r].notice, lane[r].target, Pending(k, lane[r].age))
      BY <2>1 DEF Claims
    <3>3. QED BY <3>1, <3>2, RowTypes, FinalWrite
  <2>2. QED BY <1>1, <1>2, <2>1, ClaimMoves
<1>3. CASE RecordQuiet(r)
  <2> DEFINE n == lane[r].notice
             row == send[n][NoTarget]
             y == Recorded(row, "quiet", "no_channel")
  <2>1. n \in Notices /\ NoTarget \in Targets /\ Writes(n, NoTarget, y) /\ y \in Row
    BY <1>3, QuietWrites DEF Targets
  <2>2. Final(row) => y = row
    <3>1. Shaped(NoTarget, row) BY <2>1 DEF LeaseInv, RowShape
    <3>2. ASSUME Final(row) PROVE row # None /\ row.status \in {"sent", "quiet", "failed"}
      BY <3>1, <3>2 DEF Shaped, Final
    <3>3. \A status \in {"sent", "quiet", "failed"} : Rank(status) >= Rank("quiet")
      BY DEF Rank
    <3>4. QED BY <3>2, <3>3 DEF Recorded
  <2> HIDE DEF y
  <2>3. QED BY <2>1, <2>2, FinalWrite
<1>4. CASE Record(r)
  <2> DEFINE n == lane[r].notice
             t == lane[r].target
             y == Outcome(send[n][t], lane[r].outcome)
  <2>1. /\ PostingLane(lane[r]) /\ send[n][t].status = "pending"
        /\ y \in Row /\ Writes(n, t, y)
    BY <1>4, OwnRow
  <2>2. n \in Notices /\ t \in Targets BY <2>1, PostingType
  <2>3. ~Final(send[n][t])
    <3>1. Shaped(t, send[n][t]) BY <2>2 DEF LeaseInv, RowShape
    <3>2. QED BY <2>1, <3>1 DEF Shaped, Final
  <2> HIDE DEF y
  <2>4. QED BY <2>1, <2>2, <2>3, FinalWrite
<1>5. ASSUME NEW a \in Alarms, NEW queued \in BOOLEAN, Announce(r, a, queued)
      PROVE  StaysFinal
  <2>1. a \in Notices BY OutboxAssumption
  <2>2. Leg(a) BY <1>5, <2>1, LegWrites DEF Announce, TypeInv, TypeOK
  <2>3. Fresh(a) BY <1>5 DEF Announce, Fresh
  <2>4. QED BY <2>1, <2>2, <2>3, FinalLeg
<1>6. \/ UNCHANGED send \/ Claim(r) \/ RecordQuiet(r) \/ Record(r)
      \/ \E a \in Alarms, queued \in BOOLEAN : Announce(r, a, queued)
  BY DEF Dispatch, Step, Start, ReadHealth, PostAccepted, PostFails, EnterFailing,
         StayFailing, TurnHealthy, BadgeLost, Die
<1>7. QED BY <1>1, <1>2, <1>3, <1>4, <1>5, <1>6

LEMMA FinalAdvance == ASSUME TypeInv, LeaseInv, Advance PROVE StaysFinal
<1>1. ASSUME NEW n \in Notices, NEW t \in Targets, Final(send[n][t])
      PROVE  send'[n][t] = send[n][t]
  <2>1. send[n][t] \in Row \cup {None} BY DEF TypeInv, TypeOK
  <2>2. send'[n][t] = Older(send[n][t]) BY AdvanceMoves
  <2>3. send[n][t] # None /\ send[n][t].status # "pending"
    BY <1>1 DEF LeaseInv, RowShape, Shaped, Final
  <2>4. QED BY <2>1, <2>2, <2>3, OlderType
<1>2. QED BY <1>1 DEF StaysFinal

LEMMA FinalStep ==
  ASSUME MaxSpan <= ClaimTtl
  PROVE  TypeInv /\ FactInv /\ LeaseInv /\ [Next]_vars => StaysFinal
<1>1. ASSUME Around \/ UNCHANGED vars PROVE StaysFinal
  BY <1>1 DEF StaysFinal, vars, Around, AttachChannel, RepointChannel, OutageBegins,
              OutageEnds, RescueTick, RunRescue, world
<1>2. QED BY <1>1, NextCases, FinalEmit, FinalDispatch, FinalAdvance

\* When dispatches end within the lease, no step changes a receipt that is sent, was
\* left to the summary or was refused.
THEOREM ReceiptsStayFinal ==
  ASSUME MaxSpan <= ClaimTtl
  PROVE  Spec => FinalReceipts
<1>1. TypeInv /\ FactInv /\ LeaseInv /\ [Next]_vars =>
          [\A n \in Notices : \A t \in Targets :
              Final(send[n][t]) => send'[n][t] = send[n][t]]_vars
  BY FinalStep DEF StaysFinal
<1>2. QED BY <1>1, AlwaysTyped, AlwaysFacts, AlwaysLeased, PTL DEF Spec, FinalReceipts

(***************************************************************************)
(* What a channel sees, for dispatches that end within the lease.          *)
(***************************************************************************)

MarkedSent(n, c) == send[n][c] # None /\ send[n][c].status = "sent"
InFlight(n, c) ==
    \E r \in Runners : Sending(lane[r]) /\ lane[r].notice = n /\ lane[r].target = c

\* Each post of a channel is paid for by a fault, but the one its receipt speaks of.
Counted ==
    \A n \in Notices : \A c \in Channels :
        \/ accepted[n][c] <= faults
        \/ accepted[n][c] <= faults + 1 /\ (MarkedSent(n, c) \/ InFlight(n, c))

LEMMA CountNumbers ==
  ASSUME TypeInv
  PROVE  /\ faults \in Nat
         /\ \A n \in Notices : \A c \in Channels : accepted[n][c] \in Nat
BY BoundTypes DEF TypeInv, TypeOK

\* No post, and every receipt that spoke of one still does.
LEMMA SameCount ==
  ASSUME Counted, UNCHANGED <<accepted, faults>>,
         \A n \in Notices : \A c \in Channels :
             MarkedSent(n, c) \/ InFlight(n, c) => MarkedSent(n, c)' \/ InFlight(n, c)'
  PROVE  Counted'
BY DEF Counted

LEMMA FaultCount ==
  ASSUME TypeInv, Counted, UNCHANGED accepted, faults' = faults + 1
  PROVE  Counted'
<1>1. \A n \in Notices : \A c \in Channels : accepted[n][c] <= faults + 1
  BY CountNumbers DEF Counted
<1>2. QED BY <1>1 DEF Counted

\* A dispatch that is not about to record a post moves, and no sent receipt changes.
LEMMA QuietCount ==
  ASSUME TypeInv, Counted, StaysFinal, UNCHANGED <<accepted, faults>>,
         NEW r \in Runners, NEW x \in Lane \cup {None}, Sound(x), Moves(r, x),
         ~Sending(lane[r])
  PROVE  Counted'
<1>1. \A q \in Runners : q # r => lane'[q] = lane[q] BY LaneMove
<1>2. ASSUME NEW n \in Notices, NEW c \in Channels, InFlight(n, c)
      PROVE  InFlight(n, c)'
  BY <1>1, <1>2 DEF InFlight
<1>3. ASSUME NEW n \in Notices, NEW c \in Channels, MarkedSent(n, c)
      PROVE  MarkedSent(n, c)'
  BY <1>3 DEF MarkedSent, StaysFinal, Final, Targets
<1>4. QED BY <1>2, <1>3, SameCount

LEMMA KeptCount ==
  ASSUME TypeInv, Counted, StaysFinal, UNCHANGED <<accepted, faults, lane>>
  PROVE  Counted'
<1>1. ASSUME NEW n \in Notices, NEW c \in Channels, MarkedSent(n, c)
      PROVE  MarkedSent(n, c)'
  BY <1>1 DEF MarkedSent, StaysFinal, Final, Targets
<1>2. ASSUME NEW n \in Notices, NEW c \in Channels, InFlight(n, c)
      PROVE  InFlight(n, c)'
  BY <1>2 DEF InFlight
<1>3. QED BY <1>1, <1>2, SameCount

LEMMA AcceptedCount ==
  ASSUME TypeInv, LeaseInv, Counted, NEW r \in Runners, NEW lost \in BOOLEAN,
         PostAccepted(r, lost)
  PROVE  Counted'
<1> DEFINE m == lane[r].notice
           t == lane[r].target
<1>1. PostingLane(lane[r]) /\ ~Sending(lane[r]) /\ UNCHANGED send
  BY DEF PostAccepted, PostingLane, Sending
<1>2. m \in Notices /\ t \in Channels BY <1>1, PostingType
<1>3. PICK x \in Lane : /\ GoesOn(r, x) /\ x.at = "record"
                        /\ x.outcome = (IF lost THEN "call_failed" ELSE "sent")
  BY AcceptedMoves
<1>4. lane'[r] = x /\ \A q \in Runners : q # r => lane'[q] = lane[q]
  BY <1>3, LaneMove DEF GoesOn
<1>5. accepted[m][t] <= faults
  <2>1. ~MarkedSent(m, t) BY <1>1 DEF LeaseInv, HeldLeases, Held, MarkedSent
  <2>2. ~InFlight(m, t)
    <3>1. \A q \in Runners : Sending(lane[q]) => PostingLane(lane[q])
      BY DEF Sending, PostingLane
    <3>2. QED BY <1>1, <3>1 DEF InFlight, LeaseInv, Locks
  <2>3. QED BY <1>2, <2>1, <2>2 DEF Counted
<1>6. faults' = faults + (IF lost THEN 1 ELSE 0) BY DEF PostAccepted
<1>7. ASSUME NEW n \in Notices, NEW c \in Channels
      PROVE  \/ accepted'[n][c] <= faults'
             \/ accepted'[n][c] <= faults' + 1 /\ (MarkedSent(n, c)' \/ InFlight(n, c)')
  <2>1. CASE n = m /\ c = t
    <3>1. accepted'[n][c] = accepted[m][t] + 1 BY <2>1, AcceptedCounts
    <3>2. CASE lost BY <1>2, <1>5, <1>6, <3>1, <3>2, CountNumbers
    <3>3. CASE ~lost
      <4>1. Sending(x) BY <1>3, <3>3, OutboxAssumption DEF Sending
      <4>2. InFlight(n, c)' BY <1>3, <1>4, <2>1, <4>1 DEF InFlight, GoesOn
      <4>3. QED BY <1>2, <1>5, <1>6, <3>1, <3>3, <4>2, CountNumbers
    <3>4. QED BY <3>2, <3>3
  <2>2. CASE n # m \/ c # t
    <3>1. accepted'[n][c] = accepted[n][c] BY <2>2, AcceptedCounts
    <3>2. MarkedSent(n, c) => MarkedSent(n, c)' BY <1>1 DEF MarkedSent
    <3>3. InFlight(n, c) => InFlight(n, c)' BY <1>1, <1>4 DEF InFlight
    <3>4. QED BY <1>6, <3>1, <3>2, <3>3, CountNumbers DEF Counted
  <2>3. QED BY <2>1, <2>2
<1>8. QED BY <1>7 DEF Counted

LEMMA RecordCount ==
  ASSUME TypeInv, LeaseInv, Counted, StaysFinal, NEW r \in Runners, Record(r)
  PROVE  Counted'
<1> DEFINE m == lane[r].notice
           t == lane[r].target
           y == Outcome(send[m][t], lane[r].outcome)
<1>1. /\ PostingLane(lane[r]) /\ y \in Row /\ Writes(m, t, y)
      /\ y.status = (IF lane[r].outcome = "sent" THEN "sent" ELSE "failed")
  BY OwnRow
<1>2. m \in Notices /\ t \in Channels /\ t \in Targets BY <1>1, PostingType
<1> HIDE DEF y
<1>3. send'[m][t] = y BY <1>1, <1>2, RowWrite DEF TypeInv
<1>4. \A q \in Runners : q # r => lane'[q] = lane[q]
  BY RecordMoves, LaneMove, NoneIsSound DEF Ends, GoesOn
<1>5. ASSUME NEW n \in Notices, NEW c \in Channels, MarkedSent(n, c)
      PROVE  MarkedSent(n, c)'
  BY <1>5 DEF MarkedSent, StaysFinal, Final, Targets
<1>6. ASSUME NEW n \in Notices, NEW c \in Channels, InFlight(n, c)
      PROVE  MarkedSent(n, c)' \/ InFlight(n, c)'
  <2>1. PICK q \in Runners : Sending(lane[q]) /\ lane[q].notice = n /\ lane[q].target = c
    BY <1>6 DEF InFlight
  <2>2. CASE q # r BY <1>4, <2>1, <2>2 DEF InFlight
  <2>3. CASE q = r
    <3>1. y.status = "sent" /\ y # None
      BY <1>1, <2>1, <2>3, OutboxAssumption DEF Sending
    <3>2. QED BY <1>3, <2>1, <2>3, <3>1 DEF MarkedSent
  <2>4. QED BY <2>2, <2>3
<1>7. UNCHANGED <<accepted, faults>> BY DEF Record
<1>8. QED BY <1>5, <1>6, <1>7, SameCount

LEMMA CountDispatch ==
  ASSUME TypeInv, LeaseInv, Counted, StaysFinal, NEW r \in Runners, Dispatch(r)
  PROVE  Counted'
<1>1. ASSUME Ends(r) \/ \E x \in Lane : GoesOn(r, x), lane[r] = None \/ lane[r].at # "record",
             UNCHANGED <<accepted, faults>>
      PROVE  Counted'
  BY <1>1, QuietCount, NoneIsSound DEF Ends, GoesOn, Sending
<1>2. ASSUME NEW n \in Notices, Start(r, n) PROVE Counted'
  <2>1. ~Sending(lane[r]) /\ UNCHANGED <<accepted, faults>> BY <1>2 DEF Start, Sending
  <2>2. QED BY <1>2, <2>1, StartMoves, QuietCount, NoneIsSound, DispatchingType DEF Ends
<1>3. CASE ReadHealth(r) BY <1>1, <1>3, ReadHealthMoves DEF ReadHealth
<1>4. CASE Claim(r) BY <1>1, <1>4, ClaimMoves DEF Claim, Claims
<1>5. ASSUME NEW lost \in BOOLEAN, PostAccepted(r, lost) PROVE Counted'
  BY <1>5, AcceptedCount
<1>6. ASSUME NEW reason \in FailureReasons, PostFails(r, reason) PROVE Counted'
  BY <1>1, <1>6, FailsMoves DEF PostFails
<1>7. CASE RecordQuiet(r) BY <1>1, <1>7, QuietWrites DEF RecordQuiet
<1>8. CASE Record(r) BY <1>8, RecordCount
<1>9. ASSUME Badge(r) PROVE Ends(r) /\ lane[r].at # "record"
  BY <1>9 DEF Badge, Ends, Moves
<1>10. ASSUME NEW a \in Alarms, NEW queued \in BOOLEAN, Announce(r, a, queued)
       PROVE  Counted'
  BY <1>1, <1>9, <1>10 DEF Announce, EntersFailing
<1>11. CASE EnterFailing(r) BY <1>1, <1>9, <1>11 DEF EnterFailing, EntersFailing
<1>12. CASE StayFailing(r) BY <1>1, <1>9, <1>12 DEF StayFailing
<1>13. ASSUME NEW queued \in BOOLEAN, TurnHealthy(r, queued) PROVE Counted'
  BY <1>1, <1>9, <1>13 DEF TurnHealthy
<1>14. CASE BadgeLost(r) BY <1>14, FaultCount DEF BadgeLost
<1>15. ASSUME NEW again \in BOOLEAN, Die(r, again) PROVE Counted'
  BY <1>15, FaultCount DEF Die
<1>16. QED
  BY <1>2, <1>3, <1>4, <1>5, <1>6, <1>7, <1>8, <1>10, <1>11, <1>12, <1>13, <1>14, <1>15
  DEF Dispatch, Step

LEMMA CountAdvance ==
  ASSUME TypeInv, LeaseInv, Counted, StaysFinal, Advance
  PROVE  Counted'
<1>1. ASSUME NEW n \in Notices, NEW c \in Channels, MarkedSent(n, c)
      PROVE  MarkedSent(n, c)'
  BY <1>1 DEF MarkedSent, StaysFinal, Final, Targets
<1>2. ASSUME NEW n \in Notices, NEW c \in Channels, InFlight(n, c)
      PROVE  InFlight(n, c)'
  <2>1. PICK q \in Runners : Sending(lane[q]) /\ lane[q].notice = n /\ lane[q].target = c
    BY <1>2 DEF InFlight
  <2>2. Aged(q) BY AdvanceMoves
  <2>3. lane'[q] # None BY <2>1, <2>2, OutboxAssumption DEF Aged, Sending
  <2>4. QED BY <2>1, <2>2, <2>3 DEF Aged, Sending, InFlight
<1>3. UNCHANGED <<accepted, faults>> BY DEF Advance
<1>4. QED BY <1>1, <1>2, <1>3, SameCount

LEMMA CountStep ==
  ASSUME MaxSpan <= ClaimTtl
  PROVE  TypeInv /\ FactInv /\ LeaseInv /\ Counted /\ [Next]_vars => Counted'
<1> SUFFICES ASSUME TypeInv, FactInv, LeaseInv, Counted, [Next]_vars PROVE Counted'
  OBVIOUS
<1>1. StaysFinal BY FinalStep
<1>2. CASE UNCHANGED <<accepted, faults, lane>> BY <1>1, <1>2, KeptCount
<1>3. ASSUME NEW n \in Notices, Emit(n) PROVE UNCHANGED <<accepted, faults, lane>>
  BY <1>3 DEF Emit, BeginEmit, CommitOwed, EmitCopied, EmitDigest
<1>4. ASSUME Around \/ UNCHANGED vars PROVE UNCHANGED <<accepted, faults, lane>>
  BY <1>4 DEF vars, Around, AttachChannel, RepointChannel, OutageBegins,
              OutageEnds, RescueTick, RunRescue
<1>5. QED BY <1>1, <1>2, <1>3, <1>4, NextCases, CountDispatch, CountAdvance

LEMMA CountInit == Init => Counted
BY OutboxAssumption DEF Init, Counted

LEMMA AlwaysCounted == ASSUME MaxSpan <= ClaimTtl PROVE Spec => []Counted
BY CountInit, CountStep, AlwaysTyped, AlwaysFacts, AlwaysLeased, PTL DEF Spec

\* When dispatches end within the lease, a channel sees a notice more than once only
\* as often as an answer was lost, or a dispatch died or threw.
THEOREM PostsAreCounted ==
  ASSUME MaxSpan <= ClaimTtl
  PROVE  Spec => []RepeatsNeedFaults
<1>1. TypeInv /\ Counted => RepeatsNeedFaults
  BY CountNumbers DEF Counted, RepeatsNeedFaults
<1>2. QED BY <1>1, AlwaysTyped, AlwaysCounted, PTL

\* What is in a channel is accounted for, when dispatches end within the lease.
THEOREM ChannelsAreAccountedFor ==
  ASSUME MaxSpan <= ClaimTtl
  PROVE  Spec => []PostsAreAccounted
<1>1. OneDispatcherPerTarget /\ RepeatsNeedFaults /\ ReceiptsAreTrue => PostsAreAccounted
  BY DEF PostsAreAccounted
<1>2. QED BY <1>1, ClaimIsALock, PostsAreCounted, ReceiptsSpeakTrue, PTL

(***************************************************************************)
(* The outbox keeps its promise, for dispatches that end within the lease: *)
(* every step is one of the abstract steps, or changes nothing the promise *)
(* speaks of.                                                              *)
(***************************************************************************)

\* What Slack refuses it never took: a notice with a refusal has no post.
Refusing(l) == l # None /\ l.at = "record" /\ l.outcome = "rejected"
RefusedInv ==
    /\ \A n \in Notices : n \in refused => \A c \in Channels : accepted[n][c] = 0
    /\ \A r \in Runners : Refusing(lane[r]) => lane[r].notice \in refused

LEMMA RefusedInit == Init => RefusedInv
BY DEF Init, RefusedInv, Refusing

LEMMA RefusedLane ==
  ASSUME TypeInv, RefusedInv, NEW r \in Runners, NEW x \in Lane \cup {None}, Sound(x),
         Moves(r, x), UNCHANGED <<refused, accepted>>, Refusing(x) => x.notice \in refused
  PROVE  RefusedInv'
<1>1. lane'[r] = x /\ \A q \in Runners : q # r => lane'[q] = lane[q] BY LaneMove
<1>2. QED BY <1>1 DEF RefusedInv

LEMMA RefusedDispatch ==
  ASSUME TypeInv, RefusedInv, NEW r \in Runners, Dispatch(r)
  PROVE  RefusedInv'
<1> USE DEF world
<1>1. ASSUME UNCHANGED <<refused, accepted>>,
             Ends(r) \/ \E x \in Lane : GoesOn(r, x) /\ ~Refusing(x)
      PROVE  RefusedInv'
  <2>1. ~Refusing(None) BY DEF Refusing
  <2>2. QED BY <1>1, <2>1, RefusedLane, NoneIsSound DEF Ends, GoesOn
<1>2. ASSUME NEW n \in Notices, Start(r, n) PROVE RefusedInv'
  <2>1. UNCHANGED <<refused, accepted>> BY <1>2 DEF Start
  <2>2. CASE Ends(r) BY <1>1, <2>1, <2>2
  <2>3. CASE Moves(r, Dispatching(n))
    <3>1. ~Refusing(Dispatching(n)) BY DispatchingType DEF Refusing
    <3>2. QED BY <2>1, <2>3, <3>1, RefusedLane, DispatchingType
  <2>4. QED BY <1>2, <2>2, <2>3, StartMoves
<1>3. CASE ReadHealth(r)
  <2>1. \E x \in Lane : GoesOn(r, x) /\ ~Refusing(x)
    BY <1>3, ReadHealthMoves DEF Refusing
  <2>2. QED BY <1>1, <1>3, <2>1 DEF ReadHealth
<1>4. CASE Claim(r)
  <2>1. Ends(r) \/ \E x \in Lane : GoesOn(r, x) /\ ~Refusing(x)
    BY <1>4, ClaimMoves DEF Claims, Refusing
  <2>2. QED BY <1>1, <1>4, <2>1 DEF Claim
<1>5. ASSUME NEW lost \in BOOLEAN, PostAccepted(r, lost) PROVE RefusedInv'
  <2> DEFINE n == lane[r].notice
  <2>1. n \notin refused /\ UNCHANGED refused BY <1>5 DEF PostAccepted
  <2>2. PICK x \in Lane :
            GoesOn(r, x) /\ x.outcome = (IF lost THEN "call_failed" ELSE "sent")
    BY <1>5, AcceptedMoves
  <2>3. ~Refusing(x) /\ Moves(r, x) /\ Sound(x) BY <2>2 DEF Refusing, GoesOn
  <2>4. lane'[r] = x /\ \A q \in Runners : q # r => lane'[q] = lane[q]
    BY <2>3, LaneMove
  <2>5. \A m \in Notices : m # n => accepted'[m] = accepted[m]
    BY <1>5 DEF PostAccepted, TypeInv, TypeOK
  <2>6. QED BY <2>1, <2>3, <2>4, <2>5 DEF RefusedInv
<1>6. ASSUME NEW reason \in FailureReasons, PostFails(r, reason) PROVE RefusedInv'
  <2>1. PICK x \in Lane : GoesOn(r, x) /\ x.at = "record" /\ x.outcome = reason
    BY <1>6, FailsMoves
  <2>2. reason = "rejected" => lane[r].notice \in refused
    BY <1>6 DEF PostFails, PostFailures
  <2>3. Refusing(x) => x.notice \in refused BY <2>1, <2>2 DEF Refusing, GoesOn
  <2>4. UNCHANGED <<refused, accepted>> BY <1>6 DEF PostFails
  <2>5. QED BY <2>1, <2>3, <2>4, RefusedLane DEF GoesOn
<1>7. CASE RecordQuiet(r) BY <1>1, <1>7, QuietWrites DEF RecordQuiet
<1>8. CASE Record(r)
  <2>1. Ends(r) \/ \E x \in Lane : GoesOn(r, x) /\ ~Refusing(x)
    BY <1>8, RecordMoves DEF Refusing
  <2>2. QED BY <1>1, <1>8, <2>1 DEF Record
<1>9. ASSUME Badge(r), UNCHANGED <<refused, accepted>> PROVE RefusedInv'
  BY <1>1, <1>9 DEF Badge, Ends, Moves
<1>10. ASSUME NEW a \in Alarms, NEW queued \in BOOLEAN, Announce(r, a, queued)
       PROVE  RefusedInv'
  BY <1>9, <1>10 DEF Announce, EntersFailing
<1>11. CASE EnterFailing(r) BY <1>9, <1>11 DEF EnterFailing, EntersFailing
<1>12. CASE StayFailing(r) BY <1>9, <1>12 DEF StayFailing
<1>13. ASSUME NEW queued \in BOOLEAN, TurnHealthy(r, queued) PROVE RefusedInv'
  BY <1>9, <1>13 DEF TurnHealthy
<1>14. CASE BadgeLost(r) BY <1>9, <1>14 DEF BadgeLost
<1>15. ASSUME NEW again \in BOOLEAN, Die(r, again) PROVE RefusedInv'
  BY <1>1, <1>15 DEF Die, Ends, Moves
<1>16. QED
  BY <1>2, <1>3, <1>4, <1>5, <1>6, <1>7, <1>8, <1>10, <1>11, <1>12, <1>13, <1>14, <1>15
  DEF Dispatch, Step

LEMMA RefusedStep == TypeInv /\ RefusedInv /\ [Next]_vars => RefusedInv'
<1>1. ASSUME RefusedInv, UNCHANGED <<refused, accepted, lane>> PROVE RefusedInv'
  BY <1>1 DEF RefusedInv
<1>2. ASSUME NEW n \in Notices, Emit(n) PROVE UNCHANGED <<refused, accepted, lane>>
  BY <1>2 DEF Emit, BeginEmit, CommitOwed, EmitCopied, EmitDigest
<1>3. CASE Around
  BY <1>1, <1>3 DEF Around, AttachChannel, RepointChannel, OutageBegins, OutageEnds,
                    RescueTick, RunRescue, world
<1>4. ASSUME TypeInv, RefusedInv, Advance PROVE RefusedInv'
  <2>1. UNCHANGED <<refused, accepted>> BY <1>4 DEF Advance, world
  <2>2. \A q \in Runners : Aged(q) BY <1>4, AdvanceMoves
  <2>3. ASSUME NEW q \in Runners, Refusing(lane'[q]) PROVE lane'[q].notice \in refused
    <3>1. Refusing(lane[q]) /\ lane'[q].notice = lane[q].notice
      BY <2>2, <2>3 DEF Aged, Refusing
    <3>2. QED BY <1>4, <3>1 DEF RefusedInv
  <2>4. QED BY <1>4, <2>1, <2>3 DEF RefusedInv
<1>5. UNCHANGED vars => UNCHANGED <<refused, accepted, lane>> BY DEF vars
<1>6. QED BY <1>1, <1>2, <1>3, <1>4, <1>5, NextCases, RefusedDispatch

LEMMA AlwaysRefused == Spec => []RefusedInv
BY RefusedInit, RefusedStep, AlwaysTyped, PTL DEF Spec

Fates == [n \in Notices |-> [c \in Channels |-> FateOf(n, c)]]

\* The fate of each notice in each channel is what it was.
SameFates == \A n \in Notices : \A c \in Channels : FateOf(n, c)' = FateOf(n, c)

LEMMA NothingHappens ==
  ASSUME SameFates, UNCHANGED accepted
  PROVE  UNCHANGED Promise!vars
BY DEF SameFates, Promise!vars

LEMMA SameRowsSameFates ==
  ASSUME UNCHANGED fact, \A n \in Notices : \A c \in Channels : send'[n][c] = send[n][c]
  PROVE  SameFates
BY DEF SameFates, FateOf

\* What settles a notice is a step of the promise.
LEMMA Settling ==
  ASSUME NEW n \in Notices, Promise!Settle(n)
  PROVE  [Promise!Next]_(Promise!vars)
<1>1. UNCHANGED accepted
  BY DEF Promise!Settle, Promise!Acknowledge, Promise!Refuse, Promise!SetAside
<1>2. PICK g : Fates' = [Fates EXCEPT ![n] = g]
  BY DEF Promise!Settle, Promise!Acknowledge, Promise!Refuse, Promise!SetAside, Fates
<1>3. CASE Fates'[n] # Fates[n] BY <1>3 DEF Promise!Next, Fates
<1>4. CASE Fates'[n] = Fates[n]
  <2>1. Fates = [m \in Notices |-> Fates[m]] BY DEF Fates
  <2> HIDE DEF Fates
  <2>2. Fates' = Fates BY <1>2, <1>4, <2>1
  <2>3. QED BY <1>1, <2>2 DEF Promise!vars, Fates
<1>5. QED BY <1>3, <1>4

\* One row is written, of a notice that is owed.
LEMMA OneFate ==
  ASSUME TypeInv, NEW n \in Notices, NEW c \in Channels, NEW y \in Row,
         Writes(n, c, y), UNCHANGED fact, NEW f, FateOf(n, c)' = f
  PROVE  Fates' = [Fates EXCEPT ![n][c] = f]
<1>1. \A m \in Notices : \A d \in Channels : m # n \/ d # c => send'[m][d] = send[m][d]
  <2>1. Channels \subseteq Targets BY DEF Targets
  <2>2. QED BY <2>1, RowWrite DEF TypeInv
<1>2. \A m \in Notices : \A d \in Channels :
          m # n \/ d # c => FateOf(m, d)' = FateOf(m, d)
  BY <1>1 DEF FateOf
<1>3. QED BY <1>2 DEF Fates

\* A row that is not final leaves the notice open, if it is owed.
LEMMA OpenFate ==
  ASSUME NEW n \in Notices, NEW c \in Channels, fact[n] = "owed", ~Final(send[n][c])
  PROVE  FateOf(n, c) = "open"
BY DEF FateOf, Final

\* An owed leg settles nothing for a channel.
LEMMA LegFates ==
  ASSUME TypeInv, FactInv, NEW n \in Notices, Fresh(n), Leg(n),
         fact' = [fact EXCEPT ![n] = "owed"]
  PROVE  SameFates
<1>1. fact'[n] = "owed" /\ \A m \in Notices : m # n => fact'[m] = fact[m]
  BY DEF TypeInv, TypeOK
<1>2. Channels \subseteq Targets BY DEF Targets
<1>3. \A c \in Channels : send[n][c] = None BY <1>2 DEF FactInv, Unwritten
<1>4. /\ \A m \in Notices : \A c \in Channels : m # n => send'[m][c] = send[m][c]
      /\ \A c \in Channels :
             send'[n][c] # None => /\ send'[n][c].status # "sent"
                                   /\ send'[n][c].reason # "rejected"
  <2>1. CASE UNCHANGED send BY <1>3, <2>1
  <2>2. ASSUME NEW t \in Targets, NEW y \in Row, Writes(n, t, y),
               y.status \in {"quiet", "failed"},
               y.reason \in {"no_channel", "queue_unavailable"}
        PROVE  /\ \A m \in Notices : \A c \in Channels : m # n => send'[m][c] = send[m][c]
               /\ \A c \in Channels :
                      send'[n][c] # None => /\ send'[n][c].status # "sent"
                                            /\ send'[n][c].reason # "rejected"
    <3>1. /\ send'[n][t] = y
          /\ \A m \in Notices : \A u \in Targets :
                 m # n \/ u # t => send'[m][u] = send[m][u]
      BY <2>2, RowWrite DEF TypeInv
    <3>2. \A m \in Notices : \A c \in Channels : m # n => send'[m][c] = send[m][c]
      BY <1>2, <3>1
    <3>3. ASSUME NEW c \in Channels, send'[n][c] # None
          PROVE  send'[n][c].status # "sent" /\ send'[n][c].reason # "rejected"
      <4>1. c = t BY <1>2, <1>3, <3>1, <3>3
      <4>2. QED BY <2>2, <3>1, <4>1
    <3>4. QED BY <3>2, <3>3
  <2>3. QED BY <2>1, <2>2 DEF Leg
<1>5. \A m \in Notices : \A c \in Channels : m # n => FateOf(m, c)' = FateOf(m, c)
  BY <1>1, <1>4 DEF FateOf
<1>6. ASSUME NEW c \in Channels PROVE FateOf(n, c)' = FateOf(n, c)
  <2>1. FateOf(n, c) = "open" BY <1>3 DEF FateOf, Fresh
  <2>2. FateOf(n, c)' = "open" BY <1>1, <1>4 DEF FateOf
  <2>3. QED BY <2>1, <2>2
<1>7. QED BY <1>5, <1>6 DEF SameFates

\* A notice that comes to be settled is set aside: nobody was told of it.
LEMMA SetsAside ==
  ASSUME TypeInv, FactInv, NEW n \in Notices, NEW t \in Targets, NEW y \in Row,
         Writes(n, t, y), fact[n] = "none", NEW f \in {"copied", "digest"},
         fact' = [fact EXCEPT ![n] = f], UNCHANGED accepted,
         t \in Channels <=> y.status = "sent",
         y.reason # "rejected"
  PROVE  Promise!SetAside(n, {t} \cap Channels)
<1>1. fact'[n] = f /\ \A m \in Notices : m # n => fact'[m] = fact[m]
  BY DEF TypeInv, TypeOK
<1>2. /\ send'[n][t] = y
      /\ \A m \in Notices : \A u \in Targets :
             m # n \/ u # t => send'[m][u] = send[m][u]
  BY RowWrite DEF TypeInv
<1>3. Channels \subseteq Targets BY DEF Targets
<1>4. \A c \in Channels : send[n][c] = None
  BY <1>3 DEF FactInv, Unwritten, Fresh
<1>5. \A c \in Channels : FateOf(n, c) = "open" BY <1>4 DEF FateOf
<1>6. \A c \in Channels : accepted[n][c] = 0 BY DEF FactInv, OwedPosts, TypeInv, TypeOK
<1>7. \A c \in Channels :
          FateOf(n, c)' = IF c \in {t} \cap Channels THEN "there" ELSE "left"
  <2>1. ASSUME NEW c \in Channels, c = t PROVE FateOf(n, c)' = "there"
    <3>1. y # None BY OutboxAssumption
    <3>2. QED BY <1>2, <2>1, <3>1 DEF FateOf
  <2>2. ASSUME NEW c \in Channels, c # t PROVE FateOf(n, c)' = "left"
    <3>1. send'[n][c] = None BY <1>2, <1>3, <1>4, <2>2
    <3>2. QED BY <1>1, <3>1 DEF FateOf
  <2>3. QED BY <2>1, <2>2
<1>8. \A m \in Notices : \A c \in Channels : m # n => FateOf(m, c)' = FateOf(m, c)
  BY <1>1, <1>2, <1>3 DEF FateOf
<1>9. Fates' = [Fates EXCEPT ![n] =
                    [c \in Channels |-> IF c \in {t} \cap Channels THEN "there" ELSE "left"]]
  BY <1>7, <1>8 DEF Fates
<1>10. QED BY <1>5, <1>6, <1>9 DEF Promise!SetAside, Promise!Untold, Fates

LEMMA PromiseEmit ==
  ASSUME TypeInv, FactInv, NEW n \in Notices, Emit(n)
  PROVE  [Promise!Next]_(Promise!vars)
<1>1. CASE BeginEmit(n)
  <2>1. /\ fact[n] = "none" /\ fact'[n] = "emitting"
        /\ \A m \in Notices : m # n => fact'[m] = fact[m]
        /\ UNCHANGED <<send, accepted>>
    BY <1>1 DEF BeginEmit, TypeInv, TypeOK
  <2>2. SameFates BY <2>1 DEF SameFates, FateOf
  <2>3. QED BY <2>1, <2>2, NothingHappens
<1>2. ASSUME NEW queued \in BOOLEAN, CommitOwed(n, queued)
      PROVE  [Promise!Next]_(Promise!vars)
  <2>1. seen[n] \in Channels \cup {None} BY DEF TypeInv, TypeOK
  <2>2. Leg(n) BY <1>2, <2>1, LegWrites DEF CommitOwed
  <2>3. /\ Fresh(n) /\ UNCHANGED accepted
        /\ fact' = [fact EXCEPT ![n] = "owed"]
    BY <1>2 DEF CommitOwed, Fresh
  <2>4. QED BY <2>2, <2>3, LegFates, NothingHappens
<1>3. ASSUME NEW c \in Channels, EmitCopied(n, c)
      PROVE  [Promise!Next]_(Promise!vars)
  <2>1. c \in Targets BY DEF Targets
  <2>2. Sent.status = "sent" /\ Sent.reason # "rejected"
    BY OutboxAssumption DEF Sent, FailureReasons
  <2>3. /\ Writes(n, c, Sent) /\ fact[n] = "none" /\ UNCHANGED accepted
        /\ fact' = [fact EXCEPT ![n] = "copied"]
    BY <1>3 DEF EmitCopied, Writes
  <2>4. Promise!SetAside(n, {c} \cap Channels) BY <2>1, <2>2, <2>3, RowTypes, SetsAside
  <2>5. {c} \cap Channels = {c} OBVIOUS
  <2>6. QED BY <2>4, <2>5, Settling DEF Promise!Settle
<1>4. CASE EmitDigest(n)
  <2>1. NoTarget \in Targets /\ NoTarget \notin Channels
    BY OutboxAssumption DEF Targets
  <2>2. Quiet("digest").status # "sent" /\ Quiet("digest").reason # "rejected"
    BY DEF Quiet
  <2>3. /\ Writes(n, NoTarget, Quiet("digest")) /\ fact[n] = "none" /\ UNCHANGED accepted
        /\ fact' = [fact EXCEPT ![n] = "digest"]
    BY <1>4 DEF EmitDigest, Writes
  <2>4. Promise!SetAside(n, {NoTarget} \cap Channels)
    BY <2>1, <2>2, <2>3, RowTypes, SetsAside
  <2>5. {NoTarget} \cap Channels = {} BY <2>1
  <2>6. QED BY <2>4, <2>5, Settling DEF Promise!Settle
<1>5. QED BY <1>1, <1>2, <1>3, <1>4 DEF Emit

\* A post is made only where the notice is open.
LEMMA PromisePost ==
  ASSUME TypeInv, FactInv, LeaseInv, NEW r \in Runners, NEW lost \in BOOLEAN,
         PostAccepted(r, lost)
  PROVE  [Promise!Next]_(Promise!vars)
<1> DEFINE n == lane[r].notice
           c == lane[r].target
<1>1. PostingLane(lane[r]) BY DEF PostAccepted, PostingLane
<1>2. n \in Notices /\ c \in Channels BY <1>1, PostingType
<1>3. fact[n] = "owed" BY <1>1 DEF PostingLane, FactInv, OwedLanes
<1>4. ~Final(send[n][c])
  <2>1. send[n][c].status = "pending" BY <1>1 DEF LeaseInv, HeldLeases, Held
  <2>2. Shaped(c, send[n][c]) BY <1>2 DEF LeaseInv, RowShape, Targets
  <2>3. QED BY <2>1, <2>2 DEF Shaped, Final
<1>5. FateOf(n, c) = "open" BY <1>2, <1>3, <1>4, OpenFate
<1>6. UNCHANGED <<fact, send>> BY DEF PostAccepted, world
<1>7. Fates' = Fates BY <1>6 DEF Fates, FateOf
<1>8. accepted' = [accepted EXCEPT ![n][c] = @ + 1] BY DEF PostAccepted
<1>9. Promise!Tell(n, c) BY <1>2, <1>5, <1>7, <1>8 DEF Promise!Tell, Fates
<1>10. QED BY <1>2, <1>9 DEF Promise!Next

\* The outcome of a dispatch acknowledges a post, says that there was none, or leaves
\* the notice open.
LEMMA PromiseRecord ==
  ASSUME TypeInv, FactInv, LeaseInv, RefusedInv, NEW r \in Runners, Record(r)
  PROVE  [Promise!Next]_(Promise!vars)
<1> DEFINE o == lane[r].outcome
<1>0. PostingLane(lane[r]) BY OwnRow
<1>1. PICK n \in Notices, c \in Channels : n = lane[r].notice /\ c = lane[r].target
  BY <1>0, PostingType
<1>2. PICK y \in Row :
          /\ Writes(n, c, y)
          /\ o = "sent" => y.status = "sent"
          /\ o # "sent" => y.status = "failed" /\ y.reason = o
  <2> DEFINE row == send[n][c]
             z == Outcome(row, o)
  <2>1. z \in Row /\ Writes(n, c, z) /\ row # None /\ row.status = "pending"
    BY <1>1, OwnRow
  <2> HIDE DEF row
  <2>2. /\ o = "sent" => z.status = "sent"
        /\ o # "sent" => z.status = "failed" /\ z.reason = o
    BY <2>1 DEF Outcome, Recorded, Rank
  <2> HIDE DEF z
  <2>3. QED BY <2>1, <2>2
<1>3. fact[n] = "owed" /\ UNCHANGED <<fact, accepted>>
  BY <1>0, <1>1 DEF PostingLane, FactInv, OwedLanes, Record, world
<1>4. ~Final(send[n][c])
  <2>1. send[n][c].status = "pending" BY <1>1, OwnRow
  <2>2. Shaped(c, send[n][c]) BY DEF LeaseInv, RowShape, Targets
  <2>3. QED BY <2>1, <2>2 DEF Shaped, Final
<1>5. FateOf(n, c) = "open" BY <1>3, <1>4, OpenFate
<1>6. lane[r] # None /\ lane[r].at = "record" BY DEF Record
<1>7. y # None BY OutboxAssumption
<1>8. send'[n][c] = y BY <1>2, RowWrite DEF TypeInv, Targets
<1>9. \A f : FateOf(n, c)' = f => Fates' = [Fates EXCEPT ![n][c] = f]
  BY <1>2, <1>3, OneFate
<1>10. CASE o = "sent"
  <2>1. accepted[n][c] > 0 BY <1>1, <1>6, <1>10 DEF FactInv, TrueOutcomes, Sending
  <2>2. FateOf(n, c)' = "there" BY <1>2, <1>7, <1>8, <1>10 DEF FateOf
  <2>3. Promise!Acknowledge(n, c)
    BY <1>3, <1>5, <1>9, <2>1, <2>2 DEF Promise!Acknowledge, Fates
  <2>4. QED BY <2>3, Settling DEF Promise!Settle
<1>11. CASE o = "rejected"
  <2>1. \A d \in Channels : accepted[n][d] = 0
    BY <1>1, <1>6, <1>11 DEF RefusedInv, Refusing
  <2>2. FateOf(n, c)' = "refused" BY <1>2, <1>7, <1>8, <1>11 DEF FateOf
  <2>3. Promise!Refuse(n, c)
    BY <1>3, <1>5, <1>9, <2>1, <2>2 DEF Promise!Refuse, Promise!Untold, Fates
  <2>4. QED BY <2>3, Settling DEF Promise!Settle
<1>12. CASE o \notin {"sent", "rejected"}
  <2>1. FateOf(n, c)' = "open" BY <1>2, <1>3, <1>7, <1>8, <1>12 DEF FateOf
  <2>2. Fates' = [Fates EXCEPT ![n][c] = "open"] BY <1>9, <2>1
  <2>3. [Fates EXCEPT ![n][c] = "open"] = Fates
    <3>1. Fates[n][c] = "open" BY <1>5 DEF Fates
    <3>2. Fates = [m \in Notices |-> Fates[m]] /\ Fates[n] = [d \in Channels |-> Fates[n][d]]
      BY DEF Fates
    <3> HIDE DEF Fates
    <3>3. [Fates[n] EXCEPT ![c] = "open"] = Fates[n] BY <3>1, <3>2
    <3>4. QED BY <3>2, <3>3
  <2>4. UNCHANGED Promise!vars BY <1>3, <2>2, <2>3 DEF Promise!vars, Fates
  <2>5. QED BY <2>4
<1>13. QED BY <1>10, <1>11, <1>12

\* A claim reopens nothing.
LEMMA ClaimFates ==
  ASSUME TypeInv, FactInv, LeaseInv, MaxSpan <= ClaimTtl, NEW r \in Runners,
         NEW x \in Lane, Claims(r, x), UNCHANGED fact
  PROVE  SameFates
<1>0. PICK n \in Notices, c \in Channels : n = lane[r].notice /\ c = lane[r].target
  BY ClaimedRow
<1>1. c \in Targets /\ lane[r].age \in Ages /\ ~Final(send[n][c])
  BY <1>0, ClaimedRow
<1>2. fact[n] = "owed"
  BY <1>0, OutboxAssumption DEF Claims, GoesOn, FactInv, OwedLanes
<1>3. PICK y \in Row : Writes(n, c, y) /\ y.status = "pending" /\ y.reason = None
  BY <1>0, <1>1, RowTypes DEF Claims, Pending
<1>4. /\ send'[n][c] = y
      /\ \A m \in Notices : \A u \in Targets :
             m # n \/ u # c => send'[m][u] = send[m][u]
  BY <1>1, <1>3, RowWrite DEF TypeInv
<1>5. FateOf(n, c) = "open" BY <1>1, <1>2, OpenFate
<1>6. FateOf(n, c)' = "open"
  BY <1>2, <1>3, <1>4, OutboxAssumption DEF FateOf, FailureReasons
<1>7. \A m \in Notices : \A d \in Channels :
          m # n \/ d # c => FateOf(m, d)' = FateOf(m, d)
  BY <1>4 DEF FateOf, Targets
<1>8. QED BY <1>5, <1>6, <1>7 DEF SameFates

LEMMA PromiseDispatch ==
  ASSUME TypeInv, FactInv, LeaseInv, RefusedInv, MaxSpan <= ClaimTtl,
         NEW r \in Runners, Dispatch(r)
  PROVE  [Promise!Next]_(Promise!vars)
<1>1. ASSUME UNCHANGED <<fact, send, accepted>> PROVE [Promise!Next]_(Promise!vars)
  BY <1>1, SameRowsSameFates, NothingHappens
<1>2. CASE Claim(r)
  <2>1. UNCHANGED <<fact, accepted>> BY <1>2 DEF Claim, world
  <2>2. CASE Ends(r) /\ UNCHANGED send BY <1>1, <2>1, <2>2
  <2>3. CASE \E x \in Lane : Claims(r, x) BY <2>1, <2>3, ClaimFates, NothingHappens
  <2>4. QED BY <1>2, <2>2, <2>3, ClaimMoves
<1>3. CASE RecordQuiet(r)
  <2>1. UNCHANGED <<fact, accepted>> BY <1>3 DEF RecordQuiet, world
  <2>2. \A n \in Notices : \A c \in Channels : send'[n][c] = send[n][c]
    BY <1>3, QuietWrites, RowWrite, OutboxAssumption DEF TypeInv, Targets
  <2>3. QED BY <2>1, <2>2, SameRowsSameFates, NothingHappens
<1>4. ASSUME NEW a \in Alarms, NEW queued \in BOOLEAN, Announce(r, a, queued)
      PROVE  [Promise!Next]_(Promise!vars)
  <2>1. a \in Notices BY OutboxAssumption
  <2>2. Leg(a) BY <1>4, <2>1, LegWrites DEF Announce, TypeInv, TypeOK
  <2>3. Fresh(a) /\ UNCHANGED accepted /\ fact' = [fact EXCEPT ![a] = "owed"]
    BY <1>4 DEF Announce, EntersFailing, Fresh
  <2>4. QED BY <2>1, <2>2, <2>3, LegFates, NothingHappens
<1>5. \/ UNCHANGED <<fact, send, accepted>>
      \/ \E lost \in BOOLEAN : PostAccepted(r, lost)
      \/ Claim(r) \/ RecordQuiet(r) \/ Record(r)
      \/ \E a \in Alarms, queued \in BOOLEAN : Announce(r, a, queued)
  BY DEF Dispatch, Step, Start, ReadHealth, PostFails, EnterFailing, EntersFailing,
         StayFailing, TurnHealthy, BadgeLost, Die, world
<1>6. QED BY <1>1, <1>2, <1>3, <1>4, <1>5, PromisePost, PromiseRecord

LEMMA PromiseAdvance ==
  ASSUME TypeInv, Advance
  PROVE  [Promise!Next]_(Promise!vars)
<1>1. UNCHANGED <<fact, accepted>> BY DEF Advance, world
<1>2. ASSUME NEW n \in Notices, NEW c \in Channels PROVE FateOf(n, c)' = FateOf(n, c)
  <2>1. c \in Targets BY DEF Targets
  <2>2. send[n][c] \in Row \cup {None} BY <2>1 DEF TypeInv, TypeOK
  <2>3. send'[n][c] = Older(send[n][c]) BY <2>1, AdvanceMoves
  <2>4. /\ send[n][c] = None <=> send'[n][c] = None
        /\ send[n][c] # None => /\ send'[n][c].status = send[n][c].status
                                /\ send'[n][c].reason = send[n][c].reason
    BY <2>2, <2>3, OlderType
  <2>5. QED BY <1>1, <2>4 DEF FateOf
<1>3. QED BY <1>1, <1>2, NothingHappens DEF SameFates

LEMMA PromiseStep ==
  ASSUME MaxSpan <= ClaimTtl
  PROVE  TypeInv /\ FactInv /\ LeaseInv /\ RefusedInv /\ [Next]_vars =>
             [Promise!Next]_(Promise!vars)
<1>1. ASSUME Around \/ UNCHANGED vars PROVE [Promise!Next]_(Promise!vars)
  <2>1. UNCHANGED <<fact, send, accepted>>
    BY <1>1 DEF vars, Around, AttachChannel, RepointChannel, OutageBegins, OutageEnds,
                RescueTick, RunRescue, world
  <2>2. QED BY <2>1, SameRowsSameFates, NothingHappens
<1>2. QED BY <1>1, NextCases, PromiseEmit, PromiseDispatch, PromiseAdvance

LEMMA PromiseInit == Init => Promise!Init
<1> SUFFICES ASSUME Init PROVE Promise!Init OBVIOUS
<1>1. \A n \in Notices : \A c \in Channels : send[n][c] = None /\ fact[n] = "none"
  BY DEF Init, Targets
<1>2. \A n \in Notices : \A c \in Channels : FateOf(n, c) = "open" BY <1>1 DEF FateOf
<1>3. accepted = [n \in Notices |-> [c \in Channels |-> 0]] BY DEF Init
<1>4. QED BY <1>2, <1>3 DEF Promise!Init

\* The outbox implements its promise, when dispatches end within the lease: a channel
\* is told of a notice only while that is open there, a receipt says sent after a post
\* and refused only of what was never posted, and what is already in a channel or left
\* to the summary is not told.
THEOREM OutboxKeepsItsPromise ==
  ASSUME MaxSpan <= ClaimTtl
  PROVE  Spec => Promised
<1>1. Init => Promise!Init BY PromiseInit
<1>2. TypeInv /\ FactInv /\ LeaseInv /\ RefusedInv /\ [Next]_vars =>
          [Promise!Next]_(Promise!vars)
  BY PromiseStep
<1>3. QED BY <1>1, <1>2, AlwaysTyped, AlwaysFacts, AlwaysLeased, AlwaysRefused, PTL
          DEF Spec, Promised, Promise!Spec

\* The outbox keeps its word, when dispatches end within the lease.
THEOREM OutboxKeepsItsWord ==
  ASSUME MaxSpan <= ClaimTtl
  PROVE  Spec => KeepsItsWord
BY OutboxKeepsItsPromise, ReceiptsStayFinal DEF KeepsItsWord
=============================================================================

------------------------ MODULE ReplayNarrationProofs ------------------------
(***************************************************************************)
(* Proofs about ReplayNarration.  Three invariants that lean on each       *)
(* other: what every tick has in hand is in order (nothing without a       *)
(* summary is older than what it is about to store), what every row and    *)
(* every read about to be written says of its chunks is true, and what was *)
(* asked of a model is accounted for by the ticks that are at it.          *)
(***************************************************************************)
EXTENDS ReplayNarration, FiniteSetTheorems, TLAPS

(* What is held is listed, what is not is blank, and one of the held       *)
(* recordings is the newest.                                               *)
HeldInv ==
    /\ \A r \in Recordings : Held(r) => r \in visible
    /\ \A r \in Recordings : ~Held(r) => row[r] = NoRow
    /\ (\E r \in Recordings : Held(r)) =>
           \E r \in Recordings : Held(r) /\ \A q \in Recordings : Held(q) => start[q] <= start[r]

(* What a tick has in hand. *)
InHand(w) ==
    /\ tick[w].listed \subseteq visible
    /\ tick[w].fresh \subseteq visible
    /\ \A r \in tick[w].retries : r \in visible /\ Held(r)
    /\ tick[w].at \in {"idle", "started", "listed"} =>
           tick[w].fresh = {} /\ tick[w].retries = {}
    /\ tick[w].at = "started" =>
           tick[w].mark = 0 \/ \E q \in visible : tick[w].mark = start[q]
    /\ tick[w].at = "working" => tick[w].left # 0
    /\ tick[w].at = "writing" =>
           /\ tick[w].doing \in visible \ tick[w].fresh
           /\ tick[w].got.stop \in {"failed", "settled"}
           /\ tick[w].again => Held(tick[w].doing)

(* A recording without a summary is among what a tick is to store, or no   *)
(* older than any of it.                                                   *)
NotOlder(r, rs) == r \in rs \/ \A q \in rs : start[q] <= start[r]

Leads(w, r) ==
    /\ tick[w].at = "started" => tick[w].mark <= start[r]
    /\ tick[w].at = "listed" => NotOlder(r, tick[w].listed)
    /\ tick[w].at \in {"known", "working"} => NotOlder(r, tick[w].fresh)
    /\ tick[w].at = "writing" =>
           /\ r = tick[w].doing \/ NotOlder(r, tick[w].fresh)
           /\ ~tick[w].again => start[tick[w].doing] <= start[r]

Owed(r) == r \in visible \ excused /\ ~Held(r)

OrderInv ==
    \A r \in Recordings : Owed(r) =>
        /\ \A q \in Recordings : Held(q) => start[q] <= start[r]
        /\ \A w \in Workers : Leads(w, r)

IInv == TypeOK /\ HeldInv /\ (\A w \in Workers : InHand(w)) /\ OrderInv

-----------------------------------------------------------------------------
(* Types. *)

LEMMA PlacesAreFinite ==
    ASSUME NEW read \in SUBSET Places
    PROVE  /\ IsFiniteSet(read) /\ Cardinality(read) \in Nat
           /\ read # {} => Cardinality(read) > 0
<1>1. IsFiniteSet(Places)
  BY FS_Interval, BoundsAssumption DEF Places
<1>2. IsFiniteSet(read)
  BY <1>1, FS_Subset
<1>3. Cardinality(read) \in Nat /\ (Cardinality(read) = 0 <=> read = {})
  BY <1>2, FS_CardinalityType, FS_EmptySet
<1> QED BY <1>2, <1>3

LEMMA DigestType ==
    ASSUME NEW held \in Row, NEW read \in SUBSET Places,
           NEW stop \in {"failed", "settled"}, NEW cursor \in 0 .. Chunks
    PROVE  ResumeDigest(held, read, stop, cursor) \in Row
<1>1. Cardinality(read) \in Nat
  BY PlacesAreFinite
<1>2. held.beats \in Nat /\ held.copies \in [Places -> Nat]
  BY DEF Row
<1>3. held.beats - (IF EndsWithEnded(held) THEN 1 ELSE 0) \in Nat
  BY <1>2 DEF EndsWithEnded
<1>4. held.beats - (IF EndsWithEnded(held) THEN 1 ELSE 0)
        + (IF read = {} THEN 0 ELSE Cardinality(read) + 1) \in Nat
  BY <1>1, <1>3
<1>5. [c \in Places |-> held.copies[c] + (IF c \in read THEN 1 ELSE 0)] \in [Places -> Nat]
  BY <1>2
<1> QED BY <1>4, <1>5 DEF ResumeDigest, Row

LEMMA PulledType ==
    ASSUME NEW held \in Row, NEW got \in PulledWell(held) \cup PulledBadly(held)
    PROVE  got \in Row /\ got.stop \in {"failed", "settled"}
<1>1. ResumeAt(held) \in Places
  BY BoundsAssumption DEF Row, ResumeAt, Places
<1>2. PICK read \in SUBSET Places, stop \in {"failed", "settled"}, cursor \in 0 .. Chunks :
        got = ResumeDigest(held, read, stop, cursor)
  <2>1. \A c \in Places : ResumeAt(held) .. c - 1 \in SUBSET Places
    BY <1>1, BoundsAssumption DEF Places
  <2>2. ResumeAt(held) .. Chunks \in SUBSET Places
    BY <1>1, BoundsAssumption DEF Places
  <2>3. \A c \in Places : c \in 0 .. Chunks
    BY BoundsAssumption DEF Places
  <2>4. 0 \in 0 .. Chunks
    BY BoundsAssumption
  <2>5. CASE got = ResumeDigest(held, ResumeAt(held) .. Chunks, "settled", 0)
    BY <2>2, <2>4, <2>5
  <2>6. CASE \E c \in Places : got = ResumeDigest(held, ResumeAt(held) .. c - 1, "settled", c)
    BY <2>1, <2>3, <2>6
  <2>7. CASE got = ResumeDigest(held, {}, "failed", 0) \/ got = ResumeDigest(held, {}, "settled", 0)
    BY <2>4, <2>7
  <2>8. CASE \E c \in Places : got = ResumeDigest(held, ResumeAt(held) .. c - 1, "failed", c)
    BY <2>1, <2>3, <2>8
  <2> QED BY <2>5, <2>6, <2>7, <2>8 DEF PulledWell, PulledBadly
<1>3. got.stop = stop
  BY <1>2 DEF ResumeDigest
<1> QED BY <1>2, <1>3, DigestType

LEMMA BlankTypes == NoRow \in Row /\ Idle \in Tick
<1>1. NoRow \in Row
  BY BoundsAssumption DEF NoRow, Row
<1> QED BY <1>1, BoundsAssumption DEF Idle, Tick

LEMMA StartsAreInstants == TypeOK => \A r \in Recordings : start[r] \in Nat
<1>1. Instants \cup {0} \subseteq Nat
  BY InstantsAssumption
<1> QED BY <1>1 DEF TypeOK

LEMMA LatestIs ==
    ASSUME TypeOK, HeldInv
    PROVE  /\ LatestStartedAt \in Nat
           /\ \A r \in Recordings : Held(r) => start[r] <= LatestStartedAt
           /\ LatestStartedAt # 0 => \E r \in Recordings : Held(r) /\ start[r] = LatestStartedAt
<1>1. \A r \in Recordings : start[r] \in Nat
  BY StartsAreInstants
<1>2. CASE \E r \in Recordings : Held(r)
  <2>1. PICK r \in Recordings :
          Held(r) /\ \A q \in Recordings : Held(q) => start[q] <= start[r]
    BY <1>2 DEF HeldInv
  <2>2. /\ LatestStartedAt \in {start[q] : q \in {p \in Recordings : Held(p)}}
        /\ \A q \in Recordings : Held(q) => start[q] <= LatestStartedAt
    BY <1>2, <2>1 DEF LatestStartedAt
  <2> QED BY <1>1, <2>2
<1>3. CASE ~\E r \in Recordings : Held(r)
  BY <1>3 DEF LatestStartedAt
<1> QED BY <1>2, <1>3

LEMMA OnwardsIs ==
    ASSUME NEW fresh \in SUBSET Recordings, NEW retries \in SUBSET Recordings,
           NEW left \in 0 .. Budget
    PROVE  /\ Onwards(fresh, retries, left) \in Tick
           /\ \/ Onwards(fresh, retries, left) = Idle
              \/ left # 0 /\ Onwards(fresh, retries, left) =
                   [Idle EXCEPT !.at = "working", !.left = left, !.fresh = fresh,
                                !.retries = retries]
BY BlankTypes DEF Onwards, Tick, Idle

-----------------------------------------------------------------------------
(* The invariant, action by action. *)

LEMMA Initially == Init => IInv
<1> SUFFICES ASSUME Init PROVE IInv
  OBVIOUS
<1>1. TypeOK
  BY BlankTypes, BoundsAssumption DEF Init, TypeOK
<1>2. \A r \in Recordings : ~Held(r) /\ row[r] = NoRow
  BY DEF Init, Held, NoRow
<1>3. HeldInv
  BY <1>2 DEF HeldInv
<1>4. \A w \in Workers : InHand(w)
  BY DEF Init, InHand, Idle
<1>5. OrderInv
  BY DEF Init, OrderInv, Owed
<1> QED BY <1>1, <1>3, <1>4, <1>5 DEF IInv

(* One tick moves, and nothing is stored. *)
LEMMA TickMoves ==
    ASSUME IInv, NEW w \in Workers, NEW t \in Tick,
           tick' = [tick EXCEPT ![w] = t], UNCHANGED <<visible, start, row>>,
           excused \subseteq excused', excused' \subseteq Recordings,
           asked' \in [Recordings -> Nat], faults' \in 0 .. MaxFaults,
           InHand(w)', \A r \in Recordings : Owed(r)' => Leads(w, r)'
    PROVE  IInv'
<1>1. TypeOK'
  BY DEF IInv, TypeOK
<1>2. \A r \in Recordings : Held(r)' <=> Held(r)
  BY DEF Held
<1>3. HeldInv'
  BY <1>2 DEF IInv, HeldInv
<1>4. ASSUME NEW v \in Workers PROVE InHand(v)'
  <2>1. CASE v = w
    BY <2>1
  <2>2. CASE v # w
    <3>1. tick'[v] = tick[v]
      BY <2>2 DEF IInv, TypeOK
    <3> QED BY <1>2, <3>1 DEF IInv, InHand, TypeOK
  <2> QED BY <2>1, <2>2
<1>5. OrderInv'
  <2> SUFFICES ASSUME NEW r \in Recordings, Owed(r)'
               PROVE  /\ \A q \in Recordings : Held(q)' => start'[q] <= start'[r]
                      /\ \A v \in Workers : Leads(v, r)'
    BY DEF OrderInv
  <2>1. Owed(r)
    BY <1>2 DEF Owed
  <2>2. ASSUME NEW v \in Workers PROVE Leads(v, r)'
    <3>1. CASE v = w
      BY <3>1
    <3>2. CASE v # w
      <4>1. tick'[v] = tick[v]
        BY <3>2 DEF IInv, TypeOK
      <4>2. Leads(v, r)
        BY <2>1 DEF IInv, OrderInv
      <4> QED BY <4>1, <4>2 DEF Leads, NotOlder
    <3> QED BY <3>1, <3>2
  <2>3. \A q \in Recordings : Held(q)' => start'[q] <= start'[r]
    BY <1>2, <2>1 DEF IInv, OrderInv
  <2> QED BY <2>2, <2>3
<1> QED BY <1>1, <1>3, <1>4, <1>5 DEF IInv

(* A tick that ends, or goes on with nothing in hand it did not have. *)
LEMMA TickEnds ==
    ASSUME IInv, NEW w \in Workers, tick' = [tick EXCEPT ![w] = Idle],
           UNCHANGED <<visible, start, row>>,
           excused \subseteq excused', excused' \subseteq Recordings,
           asked' \in [Recordings -> Nat], faults' \in 0 .. MaxFaults
    PROVE  IInv'
<1>1. tick'[w] = Idle
  BY DEF IInv, TypeOK
<1>2. InHand(w)' /\ \A r \in Recordings : Leads(w, r)'
  BY <1>1 DEF InHand, Leads, Idle
<1> QED BY <1>2, BlankTypes, TickMoves

LEMMA AppearKeeps ==
    ASSUME IInv, NEW r \in Recordings, Appear(r)
    PROVE  IInv'
<1>1. PICK t \in Instants :
        /\ start' = [start EXCEPT ![r] = t]
        /\ excused' = IF \E q \in visible : start[q] > t THEN excused \cup {r} ELSE excused
  BY DEF Appear
<1>2. TypeOK'
  BY <1>1 DEF IInv, TypeOK, Appear
<1>3. \A q \in Recordings : Held(q)' <=> Held(q)
  BY DEF Held, Appear
<1>4. \A q \in visible : q # r /\ q \in Recordings /\ start'[q] = start[q] /\ q \in visible'
  BY <1>1 DEF IInv, TypeOK, Appear
<1>5. HeldInv'
  <2>1. \A q \in Recordings : Held(q) => q \in visible
    BY DEF IInv, HeldInv
  <2>2. \A q \in Recordings : ~Held(q)' => row'[q] = NoRow
    BY <1>3 DEF IInv, HeldInv, Appear
  <2>3. ASSUME \E q \in Recordings : Held(q)
        PROVE  \E q \in Recordings : Held(q) /\ \A p \in Recordings : Held(p) => start'[p] <= start'[q]
    <3>1. PICK q \in Recordings : Held(q) /\ \A p \in Recordings : Held(p) => start[p] <= start[q]
      BY <2>3 DEF IInv, HeldInv
    <3> QED BY <1>4, <2>1, <3>1
  <2> QED BY <1>3, <1>4, <2>1, <2>2, <2>3 DEF HeldInv
<1>6. ASSUME NEW w \in Workers PROVE InHand(w)'
  BY <1>3, <1>4 DEF IInv, InHand, Appear, TypeOK, Tick
<1>7. OrderInv'
  <2> SUFFICES ASSUME NEW p \in Recordings, Owed(p)'
               PROVE  /\ \A q \in Recordings : Held(q)' => start'[q] <= start'[p]
                      /\ \A w \in Workers : Leads(w, p)'
    BY DEF OrderInv
  <2>0. \A q \in Recordings : Held(q) => q \in visible
    BY DEF IInv, HeldInv
  <2>1. CASE p = r
    <3>1. \A q \in visible : start'[q] <= start'[p]
      <4>1. start'[r] = t /\ t \in Nat
        BY <1>1, InstantsAssumption DEF IInv, TypeOK
      <4>2. ~\E q \in visible : start[q] > t
        BY <1>1, <2>1 DEF Owed, IInv, TypeOK
      <4>3. \A q \in visible : start[q] \in Nat
        BY StartsAreInstants DEF IInv, TypeOK
      <4> QED BY <1>4, <2>1, <4>1, <4>2, <4>3
    <3>2. 0 <= start'[p]
      BY <1>1, <2>1, InstantsAssumption DEF IInv, TypeOK
    <3>3. ASSUME NEW w \in Workers PROVE Leads(w, p)'
      <4>1. InHand(w) /\ tick' = tick
        BY DEF IInv, Appear
      <4> QED BY <1>4, <3>1, <3>2, <4>1 DEF InHand, Leads, NotOlder
    <3> QED BY <1>3, <2>0, <3>1, <3>3
  <2>2. CASE p # r
    <3>1. Owed(p) /\ start'[p] = start[p]
      BY <1>1, <1>3, <2>2 DEF Owed, Appear, IInv, TypeOK
    <3>2. ASSUME NEW w \in Workers PROVE Leads(w, p)'
      <4>1. InHand(w) /\ tick' = tick /\ Leads(w, p)
        BY <3>1 DEF IInv, OrderInv, Appear
      <4> QED BY <1>4, <3>1, <4>1 DEF InHand, Leads, NotOlder
    <3>3. \A q \in Recordings : Held(q) => start[q] <= start[p]
      BY <3>1 DEF IInv, OrderInv
    <3> QED BY <1>3, <1>4, <2>0, <3>1, <3>2, <3>3
  <2> QED BY <2>1, <2>2
<1> QED BY <1>2, <1>5, <1>6, <1>7 DEF IInv

LEMMA StartKeeps ==
    ASSUME IInv, NEW w \in Workers, StartTick(w)
    PROVE  IInv'
<1> DEFINE t == [Idle EXCEPT !.at = "started", !.mark = LatestStartedAt]
<1>1. LatestStartedAt \in Nat
  BY LatestIs DEF IInv
<1>2. t \in Tick
  BY <1>1, BlankTypes DEF Tick, Idle
<1>3. tick'[w] = t
  BY DEF StartTick, IInv, TypeOK
<1>4. InHand(w)'
  <2>1. LatestStartedAt # 0 => \E q \in visible : LatestStartedAt = start[q]
    BY LatestIs DEF IInv, HeldInv
  <2>2. /\ t.at = "started" /\ t.mark = LatestStartedAt
        /\ t.listed = {} /\ t.fresh = {} /\ t.retries = {}
    BY DEF Idle
  <2> HIDE DEF t
  <2> QED BY <1>3, <2>1, <2>2 DEF InHand, StartTick
<1>5. ASSUME NEW r \in Recordings, Owed(r)' PROVE Leads(w, r)'
  <2>1. Owed(r)
    BY <1>5 DEF Owed, Held, StartTick
  <2>2. LatestStartedAt <= start[r]
    <3>1. CASE LatestStartedAt = 0
      BY <3>1, StartsAreInstants DEF IInv
    <3>2. CASE LatestStartedAt # 0
      BY <2>1, <3>2, LatestIs DEF IInv, OrderInv
    <3> QED BY <3>1, <3>2
  <2> QED BY <1>3, <2>2 DEF Leads, Idle, StartTick
<1> QED BY <1>2, <1>4, <1>5, TickMoves DEF StartTick, IInv, TypeOK

LEMMA ListKeeps ==
    ASSUME IInv, NEW w \in Workers, ListRecordings(w)
    PROVE  IInv'
<1> DEFINE due == {r \in visible : ~IsBeforeWatermark(r, tick[w].mark)}
<1>1. PICK page \in SUBSET visible :
        /\ tick' = [tick EXCEPT ![w] = [Idle EXCEPT !.at = "listed", !.listed = due \cap page]]
        /\ excused' = excused \cup (due \ (due \cap page))
  BY DEF ListRecordings, NewestPages
<1> DEFINE t == [Idle EXCEPT !.at = "listed", !.listed = due \cap page]
<1>2. t \in Tick
  BY BlankTypes DEF Tick, Idle, IInv, TypeOK
<1>3. tick'[w] = t
  BY <1>1 DEF IInv, TypeOK
<1>4. InHand(w)'
  <2>1. /\ t.at = "listed" /\ t.listed = due \cap page /\ t.fresh = {} /\ t.retries = {}
    BY DEF Idle
  <2> HIDE DEF t
  <2> QED BY <1>3, <2>1 DEF InHand, ListRecordings
<1>5. ASSUME NEW r \in Recordings, Owed(r)' PROVE Leads(w, r)'
  <2>1. Owed(r) /\ r \notin due \ (due \cap page)
    BY <1>1, <1>5 DEF Owed, Held, ListRecordings
  <2>2. r \in due
    <3>1. tick[w].mark <= start[r] /\ tick[w].at = "started"
      BY <2>1 DEF IInv, OrderInv, Leads, ListRecordings
    <3>2. tick[w].mark \in Nat /\ start[r] \in Nat
      BY StartsAreInstants DEF IInv, TypeOK, Tick
    <3> QED BY <2>1, <3>1, <3>2 DEF Owed, IsBeforeWatermark
  <2> QED BY <1>3, <2>1, <2>2 DEF Leads, NotOlder, Idle
<1>6. faults' \in 0 .. MaxFaults
  BY BoundsAssumption DEF ListRecordings, Fault, IInv, TypeOK
<1>7. excused' \subseteq Recordings
  BY <1>1 DEF IInv, TypeOK
<1> QED BY <1>1, <1>2, <1>4, <1>5, <1>6, <1>7, TickMoves DEF ListRecordings, IInv, TypeOK

LEMMA SummarisedKeeps ==
    ASSUME IInv, NEW w \in Workers, SummarisedIds(w)
    PROVE  IInv'
<1> DEFINE t == [tick[w] EXCEPT !.at = "known", !.fresh = Fresh(tick[w].listed)]
<1>1. tick[w] \in Tick /\ tick[w].at = "listed" /\ InHand(w)
  BY DEF SummarisedIds, IInv, TypeOK
<1>2. t \in Tick /\ tick' = [tick EXCEPT ![w] = t] /\ tick'[w] = t
  BY <1>1 DEF Tick, Fresh, SummarisedIds, IInv, TypeOK
<1>3. t.at = "known" /\ t.fresh = Fresh(tick[w].listed) /\ t.listed = tick[w].listed
      /\ t.retries = tick[w].retries
  BY <1>1 DEF Tick
<1>4. InHand(w)'
  BY <1>1, <1>2, <1>3 DEF InHand, Fresh, SummarisedIds
<1>5. ASSUME NEW r \in Recordings, Owed(r)' PROVE Leads(w, r)'
  <2>1. Owed(r)
    BY <1>5 DEF Owed, Held, SummarisedIds
  <2>2. NotOlder(r, tick[w].listed)
    BY <1>1, <2>1 DEF IInv, OrderInv, Leads
  <2>3. NotOlder(r, Fresh(tick[w].listed))
    BY <2>1, <2>2 DEF NotOlder, Fresh, Owed
  <2>4. tick'[w].at = "known" /\ tick'[w].fresh = Fresh(tick[w].listed) BY <1>2, <1>3
  <2>5. start' = start BY DEF SummarisedIds
  <2> HIDE DEF t
  <2>6. NotOlder(r, tick[w].fresh)' BY <2>3, <2>4, <2>5 DEF NotOlder
  <2> QED BY <2>4, <2>6 DEF Leads
<1> QED BY <1>2, <1>4, <1>5, TickMoves DEF SummarisedIds, IInv, TypeOK

LEMMA RetryableKeeps ==
    ASSUME IInv, NEW w \in Workers, RetryablePullIds(w)
    PROVE  IInv'
<1> DEFINE failed == {r \in tick[w].listed : Retryable(r)}
<1>1. PICK left \in 1 .. Budget : tick' = [tick EXCEPT ![w] = Onwards(tick[w].fresh, failed, left)]
  BY DEF RetryablePullIds
<1> DEFINE t == Onwards(tick[w].fresh, failed, left)
<1>2. tick[w] \in Tick /\ tick[w].at = "known" /\ InHand(w)
  BY DEF RetryablePullIds, IInv, TypeOK
<1>3. /\ t \in Tick
      /\ t = Idle \/ t = [Idle EXCEPT !.at = "working", !.left = left,
                                      !.fresh = tick[w].fresh, !.retries = failed]
      /\ left # 0
  <2>1. left \in 0 .. Budget /\ tick[w].fresh \in SUBSET Recordings
        /\ failed \in SUBSET Recordings /\ left # 0
    BY <1>2, BoundsAssumption DEF Tick
  <2> HIDE DEF failed
  <2> QED BY <2>1, OnwardsIs
<1>4. CASE t = Idle
  BY <1>1, <1>4, TickEnds DEF RetryablePullIds, IInv, TypeOK
<1>5. CASE t = [Idle EXCEPT !.at = "working", !.left = left,
                            !.fresh = tick[w].fresh, !.retries = failed]
  <2>1. /\ tick'[w] = t /\ t.at = "working" /\ t.fresh = tick[w].fresh
        /\ t.retries = failed /\ t.listed = {} /\ t.left # 0
    BY <1>1, <1>3, <1>5 DEF Idle, IInv, TypeOK
  <2>2. InHand(w)'
    <3>1. \A r \in failed : r \in visible /\ Held(r)
      BY <1>2 DEF InHand, Retryable, Held
    <3> QED BY <1>2, <2>1, <3>1 DEF InHand, RetryablePullIds, Held
  <2>3. ASSUME NEW r \in Recordings, Owed(r)' PROVE Leads(w, r)'
    <3>1. Owed(r)
      BY <2>3 DEF Owed, Held, RetryablePullIds
    <3>2. NotOlder(r, tick[w].fresh)
      BY <1>2, <3>1 DEF IInv, OrderInv, Leads
    <3> QED BY <2>1, <3>2 DEF Leads, NotOlder, RetryablePullIds
  <2> HIDE DEF t
  <2> QED BY <1>1, <1>3, <2>2, <2>3, TickMoves DEF RetryablePullIds, IInv, TypeOK, t
<1> QED BY <1>3, <1>4, <1>5

(* A pull of one recording: the row it goes on from, and what it changes. *)
GoneOnFrom(w, d) == IF d \in tick[w].retries THEN row[d] ELSE NoRow

Pulls(w, d, got) ==
    /\ tick' = [tick EXCEPT ![w].at = "writing", ![w].doing = d,
                            ![w].again = (d \in tick[w].retries), ![w].got = got,
                            ![w].left = @ - 1,
                            ![w].fresh = @ \ {d},
                            ![w].retries = IF d \in tick[w].fresh THEN @ ELSE @ \ {d}]
    /\ asked' = IF d \in tick[w].retries THEN asked ELSE [asked EXCEPT ![d] = @ + 1]
    /\ faults' = faults \/ Fault

LEMMA PullKeeps ==
    ASSUME IInv, NEW w \in Workers, PullEvents(w)
    PROVE  IInv'
<1>1. PICK d \in Due(w) : \E got \in PulledWell(GoneOnFrom(w, d)) \cup PulledBadly(GoneOnFrom(w, d)) :
        Pulls(w, d, got)
  <2>1. PICK d \in Due(w) :
          LET again == d \in tick[w].retries
              held  == IF again THEN row[d] ELSE NoRow
          IN  \E got \in PulledWell(held) \cup PulledBadly(held) :
                /\ IF got \in PulledWell(held) THEN UNCHANGED faults ELSE Fault
                /\ tick' = [tick EXCEPT ![w].at = "writing", ![w].doing = d,
                                        ![w].again = again, ![w].got = got,
                                        ![w].left = @ - 1,
                                        ![w].fresh = @ \ {d},
                                        ![w].retries = IF d \in tick[w].fresh
                                                       THEN @ ELSE @ \ {d}]
                /\ asked' = IF again THEN asked
                            ELSE [asked EXCEPT ![d] = @ + 1]
    BY DEF PullEvents
  <2> QED BY <2>1 DEF GoneOnFrom, Pulls
<1>0. PICK got \in PulledWell(GoneOnFrom(w, d)) \cup PulledBadly(GoneOnFrom(w, d)) :
        Pulls(w, d, got)
  BY <1>1
<1> DEFINE t == [tick[w] EXCEPT !.at = "writing", !.doing = d,
                                !.again = (d \in tick[w].retries), !.got = got,
                                !.left = @ - 1, !.fresh = @ \ {d},
                                !.retries = IF d \in tick[w].fresh THEN @ ELSE @ \ {d}]
<1>2. tick[w] \in Tick /\ tick[w].at = "working" /\ InHand(w)
  BY DEF PullEvents, IInv, TypeOK
<1>3. /\ tick[w].fresh \subseteq visible /\ tick[w].retries \subseteq visible
      /\ visible \subseteq Recordings
  BY <1>2 DEF InHand, IInv, TypeOK
<1>4. /\ d \in tick[w].fresh \cup tick[w].retries
      /\ tick[w].fresh # {} => d \in tick[w].fresh /\ \A q \in tick[w].fresh : start[d] <= start[q]
  BY DEF Due, OldestFirst
<1>5. got \in Row /\ got.stop \in {"failed", "settled"}
  <2>1. GoneOnFrom(w, d) \in Row
    BY <1>3, <1>4, BlankTypes DEF IInv, TypeOK, GoneOnFrom
  <2> QED BY <1>0, <2>1, PulledType
<1>6. t \in Tick
  <2>1. tick[w].left - 1 \in 0 .. Budget
    BY <1>2, BoundsAssumption DEF InHand, Tick
  <2>2. d \in Recordings /\ (d \in tick[w].retries) \in BOOLEAN
    BY <1>3, <1>4
  <2>3. /\ tick[w].fresh \ {d} \in SUBSET Recordings
        /\ (IF d \in tick[w].fresh THEN tick[w].retries ELSE tick[w].retries \ {d})
              \in SUBSET Recordings
    BY <1>2, <1>3
  <2> QED BY <1>2, <1>5, <2>1, <2>2, <2>3 DEF Tick
<1>7. tick' = [tick EXCEPT ![w] = t] /\ tick'[w] = t
  BY <1>0 DEF IInv, TypeOK, Pulls
<1>8. /\ t.at = "writing" /\ t.doing = d /\ t.got = got /\ t.again = (d \in tick[w].retries)
      /\ t.fresh = tick[w].fresh \ {d} /\ t.retries \subseteq tick[w].retries
      /\ t.listed = tick[w].listed
  BY <1>2 DEF Tick
<1> HIDE DEF t
<1>9. InHand(w)'
  BY <1>2, <1>3, <1>4, <1>5, <1>7, <1>8 DEF InHand, PullEvents, Held
<1>10. ASSUME NEW r \in Recordings, Owed(r)' PROVE Leads(w, r)'
  <2>1. Owed(r)
    BY <1>10 DEF Owed, Held, PullEvents
  <2>2. NotOlder(r, tick[w].fresh)
    BY <1>2, <2>1 DEF IInv, OrderInv, Leads
  <2>3. ~t.again => start[d] <= start[r]
    BY <1>4, <1>8, <2>2 DEF NotOlder
  <2>4. r = d \/ NotOlder(r, t.fresh)
    BY <1>8, <2>2 DEF NotOlder
  <2> QED BY <1>7, <1>8, <2>3, <2>4 DEF Leads, NotOlder, PullEvents
<1>11. asked' \in [Recordings -> Nat] /\ faults' \in 0 .. MaxFaults
  <2>1. d \in Recordings /\ asked \in [Recordings -> Nat]
    BY <1>3, <1>4 DEF IInv, TypeOK
  <2>2. asked' \in [Recordings -> Nat]
    <3>1. asked' = asked \/ asked' = [asked EXCEPT ![d] = @ + 1]
      BY <1>0 DEF Pulls
    <3> QED BY <2>1, <3>1
  <2>3. faults' \in 0 .. MaxFaults
    BY <1>0, BoundsAssumption DEF Fault, IInv, TypeOK, Pulls
  <2> QED BY <2>2, <2>3
<1> QED BY <1>6, <1>7, <1>9, <1>10, <1>11, TickMoves DEF PullEvents, IInv, TypeOK

(* A tick leaves a recording behind: stored now or before, or excused. *)
LEMMA DoneKeeps ==
    ASSUME IInv, NEW w \in Workers, tick[w].at = "writing", GoOn(w),
           UNCHANGED <<visible, start, asked>>,
           excused \subseteq excused', excused' \subseteq Recordings,
           faults' \in 0 .. MaxFaults,
           NEW d, d = tick[w].doing,
           \/ row' = row /\ (Held(d) \/ d \in excused')
           \/ row' = [row EXCEPT ![d] = tick[w].got] /\ (tick[w].again <=> Held(d))
    PROVE  IInv'
<1>1. tick[w] \in Tick /\ InHand(w)
  BY DEF IInv, TypeOK
<1>2. d \in visible /\ d \in Recordings /\ tick[w].got \in Row /\ tick[w].got.stop # "none"
  BY <1>1 DEF InHand, IInv, TypeOK, Tick
<1>3. row' \in [Recordings -> Row]
  BY <1>2 DEF IInv, TypeOK
<1> DEFINE t == Onwards(tick[w].fresh, tick[w].retries, tick[w].left)
<1>4. /\ t \in Tick /\ tick' = [tick EXCEPT ![w] = t] /\ tick'[w] = t
      /\ \/ t = Idle
         \/ /\ tick[w].left # 0
            /\ t = [Idle EXCEPT !.at = "working", !.left = tick[w].left,
                                !.fresh = tick[w].fresh, !.retries = tick[w].retries]
  <2>1. /\ tick[w].fresh \in SUBSET Recordings /\ tick[w].retries \in SUBSET Recordings
        /\ tick[w].left \in 0 .. Budget
    BY <1>1 DEF Tick
  <2>2. tick' = [tick EXCEPT ![w] = t]
    BY DEF GoOn
  <2>3. tick'[w] = t
    BY <2>2 DEF IInv, TypeOK
  <2>4. /\ t \in Tick
        /\ \/ t = Idle
           \/ /\ tick[w].left # 0
              /\ t = [Idle EXCEPT !.at = "working", !.left = tick[w].left,
                                  !.fresh = tick[w].fresh, !.retries = tick[w].retries]
    <3>1. t \in Tick
      BY <2>1, OnwardsIs
    <3> QED BY <3>1, Zenon DEF Onwards
  <2> HIDE DEF t
  <2> QED BY <2>2, <2>3, <2>4
<1> HIDE DEF t
<1>5. TypeOK'
  BY <1>3, <1>4 DEF IInv, TypeOK
<1>6. /\ \A r \in Recordings : Held(r) => Held(r)'
      /\ \A r \in Recordings : Held(r)' => Held(r) \/ (r = d /\ ~tick[w].again)
      /\ \A r \in Recordings : ~Held(r)' => row'[r] = row[r]
  <2>1. CASE row' = row
    BY <2>1 DEF Held
  <2>2. CASE row' = [row EXCEPT ![d] = tick[w].got] /\ (tick[w].again <=> Held(d))
    <3>1. \A r \in Recordings : row'[r] = IF r = d THEN tick[w].got ELSE row[r]
      BY <2>2 DEF IInv, TypeOK
    <3> QED BY <1>2, <2>2, <3>1 DEF Held
  <2> QED BY <2>1, <2>2
<1>7. Held(d)' \/ d \in excused'
  BY <1>2 DEF Held, IInv, TypeOK
<1>8. HeldInv'
  <2>1. \A r \in Recordings : Held(r)' => r \in visible'
    BY <1>2, <1>6 DEF IInv, HeldInv
  <2>2. \A r \in Recordings : ~Held(r)' => row'[r] = NoRow
    BY <1>6 DEF IInv, HeldInv
  <2>3. \A r \in Recordings : start[r] \in Nat
    BY StartsAreInstants DEF IInv
  <2>4. ASSUME \E r \in Recordings : Held(r)'
        PROVE  \E r \in Recordings : Held(r)' /\ \A q \in Recordings : Held(q)' => start[q] <= start[r]
    <3>1. CASE \E r \in Recordings : Held(r)
      <4>1. PICK r \in Recordings : Held(r) /\ \A q \in Recordings : Held(q) => start[q] <= start[r]
        BY <3>1 DEF IInv, HeldInv
      <4>2. CASE start[d] <= start[r]
        BY <1>6, <4>1, <4>2
      <4>3. CASE ~(start[d] <= start[r])
        <5>1. ~Held(d)
          BY <1>2, <4>1, <4>3
        <5>2. CASE Held(d)'
          BY <1>2, <1>6, <2>3, <4>1, <4>3, <5>2
        <5>3. CASE ~Held(d)'
          BY <1>6, <4>1, <5>3
        <5> QED BY <5>2, <5>3
      <4> QED BY <4>2, <4>3
    <3>2. CASE ~\E r \in Recordings : Held(r)
      BY <1>2, <1>6, <2>3, <2>4, <3>2
    <3> QED BY <3>1, <3>2
  <2> QED BY <2>1, <2>2, <2>4 DEF HeldInv
<1>9. ASSUME NEW v \in Workers PROVE InHand(v)'
  <2>1. CASE v = w
    <3>1. CASE t = Idle
      BY <1>4, <2>1, <3>1 DEF InHand, Idle
    <3>2. CASE t = [Idle EXCEPT !.at = "working", !.left = tick[w].left,
                                !.fresh = tick[w].fresh, !.retries = tick[w].retries]
      <4>1. /\ t.at = "working" /\ t.fresh = tick[w].fresh /\ t.retries = tick[w].retries
            /\ t.listed = {} /\ t.left # 0
        BY <1>4, <3>2 DEF Idle
      <4> QED BY <1>1, <1>4, <1>6, <2>1, <4>1 DEF InHand, IInv, TypeOK
    <3> QED BY <1>4, <3>1, <3>2
  <2>2. CASE v # w
    <3>1. tick'[v] = tick[v] /\ InHand(v)
      BY <1>4, <2>2 DEF IInv, TypeOK
    <3>2. tick[v].at = "writing" => tick[v].doing \in Recordings
      BY <3>1 DEF InHand, IInv, TypeOK
    <3> QED BY <1>6, <3>1, <3>2 DEF InHand, IInv, TypeOK
  <2> QED BY <2>1, <2>2
<1>10. OrderInv'
  <2> SUFFICES ASSUME NEW r \in Recordings, Owed(r)'
               PROVE  /\ \A q \in Recordings : Held(q)' => start'[q] <= start'[r]
                      /\ \A v \in Workers : Leads(v, r)'
    BY DEF OrderInv
  <2>1. Owed(r) /\ r # d
    BY <1>6, <1>7 DEF Owed
  <2>2. Leads(w, r) /\ \A q \in Recordings : Held(q) => start[q] <= start[r]
    BY <2>1 DEF IInv, OrderInv
  <2>3. \A q \in Recordings : Held(q)' => start'[q] <= start'[r]
    BY <1>6, <2>2 DEF Leads
  <2>4. ASSUME NEW v \in Workers PROVE Leads(v, r)'
    <3>1. CASE v = w
      <4>1. NotOlder(r, tick[w].fresh)
        BY <2>1, <2>2 DEF Leads
      <4>2. CASE t = Idle
        BY <1>4, <3>1, <4>2 DEF Leads, Idle
      <4>3. CASE t = [Idle EXCEPT !.at = "working", !.left = tick[w].left,
                                  !.fresh = tick[w].fresh, !.retries = tick[w].retries]
        <5>1. t.at = "working" /\ t.fresh = tick[w].fresh
          BY <4>3 DEF Idle
        <5> QED BY <1>4, <3>1, <4>1, <5>1 DEF Leads, NotOlder
      <4> QED BY <1>4, <4>2, <4>3
    <3>2. CASE v # w
      <4>1. tick'[v] = tick[v] /\ Leads(v, r)
        BY <1>4, <2>1, <3>2 DEF IInv, TypeOK, OrderInv
      <4> QED BY <4>1 DEF Leads, NotOlder
    <3> QED BY <3>1, <3>2
  <2> QED BY <2>3, <2>4
<1> QED BY <1>5, <1>8, <1>9, <1>10 DEF IInv

LEMMA WriteKeeps ==
    ASSUME IInv, NEW w \in Workers, Persist(w) \/ RefreshFailedPull(w)
    PROVE  IInv'
<1> DEFINE d == tick[w].doing
<1>1. /\ tick[w] \in Tick /\ InHand(w) /\ tick[w].at = "writing" /\ GoOn(w)
      /\ UNCHANGED <<visible, start, asked, excused, faults>>
  BY DEF Persist, RefreshFailedPull, IInv, TypeOK
<1>2. \/ row' = row /\ Held(d)
      \/ row' = [row EXCEPT ![d] = tick[w].got] /\ (tick[w].again <=> Held(d))
  <2>1. CASE Persist(w)
    BY <2>1 DEF Persist
  <2>2. CASE RefreshFailedPull(w)
    BY <1>1, <2>2 DEF RefreshFailedPull, InHand
  <2> QED BY <2>1, <2>2
<1> HIDE DEF d
<1>3. faults' \in 0 .. MaxFaults /\ excused' \subseteq Recordings /\ excused \subseteq excused'
  BY <1>1 DEF IInv, TypeOK
<1> QED BY <1>1, <1>2, <1>3, DoneKeeps DEF d

LEMMA FailKeeps ==
    ASSUME IInv, NEW w \in Workers, AttemptFails(w)
    PROVE  IInv'
<1>1. /\ tick[w] \in Tick /\ InHand(w) /\ tick[w].at = "writing" /\ GoOn(w)
      /\ UNCHANGED <<visible, start, asked, row>> /\ excused' = excused \cup {tick[w].doing}
  BY DEF AttemptFails, IInv, TypeOK
<1>2. faults' \in 0 .. MaxFaults
  BY BoundsAssumption DEF AttemptFails, Fault, IInv, TypeOK
<1>3. tick[w].doing \in Recordings
  BY <1>1 DEF InHand, IInv, TypeOK
<1>4. excused' \subseteq Recordings /\ excused \subseteq excused'
  BY <1>1, <1>3 DEF IInv, TypeOK
<1> QED BY <1>1, <1>2, <1>4, DoneKeeps

LEMMA DieKeeps ==
    ASSUME IInv, NEW w \in Workers, Die(w)
    PROVE  IInv'
<1>1. faults' \in 0 .. MaxFaults
  BY BoundsAssumption DEF Die, Fault, IInv, TypeOK
<1> QED BY <1>1, TickEnds DEF Die, IInv, TypeOK

LEMMA StepKeeps == IInv /\ [Next]_vars => IInv'
<1> SUFFICES ASSUME IInv, [Next]_vars PROVE IInv'
  OBVIOUS
<1>1. CASE \E r \in Recordings : Appear(r)
  BY <1>1, AppearKeeps
<1>2. CASE \E w \in Workers : StartTick(w) \/ AttemptFails(w) \/ Die(w)
  BY <1>2, StartKeeps, FailKeeps, DieKeeps
<1>3. CASE \E w \in Workers : Work(w)
  BY <1>3, ListKeeps, SummarisedKeeps, RetryableKeeps, PullKeeps, WriteKeeps DEF Work
<1>4. CASE UNCHANGED vars
  BY <1>4 DEF vars, IInv, TypeOK, HeldInv, InHand, OrderInv, Leads, NotOlder, Owed, Held
<1> QED BY <1>1, <1>2, <1>3, <1>4 DEF Next

LEMMA Inductive == Spec => []IInv
BY Initially, StepKeeps, PTL DEF Spec

(* Every row keeps the shape of a summary and every tick its budget.       *)
THEOREM TypeCorrect == Spec => []TypeOK
BY Inductive, PTL DEF IInv

(* The watermark leaves nothing behind that did not come late, was not cut *)
(* from a listing and was not tried in vain, for any number of ticks.      *)
THEOREM WatermarkIsSafe == Spec => []NoneIsPassedOver
<1>1. IInv => NoneIsPassedOver
  <2> SUFFICES ASSUME IInv, NEW r \in visible \ excused, ~Held(r)
               PROVE  LatestStartedAt <= start[r]
    BY DEF NoneIsPassedOver
  <2>1. Owed(r) /\ r \in Recordings
    BY DEF Owed, IInv, TypeOK
  <2>2. CASE LatestStartedAt = 0
    BY <2>1, <2>2, StartsAreInstants DEF IInv
  <2>3. CASE LatestStartedAt # 0
    BY <2>1, <2>3, LatestIs DEF IInv, OrderInv
  <2> QED BY <2>2, <2>3
<1> QED BY <1>1, Inductive, PTL

-----------------------------------------------------------------------------
(* What rows and reads say of their chunks. *)

LEMMA RowStep ==
    ASSUME IInv, [Next]_vars, NEW r \in Recordings
    PROVE  /\ row[r].beats <= row'[r].beats
           /\ row[r].stop = "settled" => row'[r] = row[r]
<1>0. row \in [Recordings -> Row] /\ row[r].beats \in Nat
  BY DEF IInv, TypeOK, Row
<1>1. CASE row' = row
  BY <1>0, <1>1
<1>2. CASE \E w \in Workers : Persist(w) \/ RefreshFailedPull(w)
  <2>1. PICK w \in Workers : Persist(w) \/ RefreshFailedPull(w)
    BY <1>2
  <2>2. tick[w].got \in Row
    BY DEF IInv, TypeOK, Tick
  <2>3. CASE Persist(w)
    <3>1. CASE row' = row
      BY <1>0, <3>1
    <3>2. CASE ~Held(tick[w].doing) /\ row' = [row EXCEPT ![tick[w].doing] = tick[w].got]
      <4>1. r = tick[w].doing => row[r] = NoRow
        BY <3>2 DEF IInv, HeldInv
      <4>2. NoRow.beats = 0 /\ NoRow.stop = "none"
        BY DEF NoRow
      <4>3. tick[w].got.beats \in Nat
        BY <2>2 DEF Row
      <4> QED BY <1>0, <3>2, <4>1, <4>2, <4>3
    <3> QED BY <2>3, <3>1, <3>2 DEF Persist
  <2>4. CASE RefreshFailedPull(w)
    <3>1. CASE row' = row
      BY <1>0, <3>1
    <3>2. CASE /\ MayRefresh(tick[w].doing, tick[w].got)
               /\ row' = [row EXCEPT ![tick[w].doing] = tick[w].got]
      BY <1>0, <3>2 DEF MayRefresh, Retryable
    <3> QED BY <2>4, <3>1, <3>2 DEF RefreshFailedPull
  <2> QED BY <2>1, <2>3, <2>4
<1> QED BY <1>1, <1>2 DEF Next, Work, vars, Appear, StartTick, ListRecordings,
        SummarisedIds, RetryablePullIds, PullEvents, AttemptFails, Die

(* A retry never takes beats away, and what has settled is never written   *)
(* over, whichever of two retries comes last.                              *)
THEOREM RowsNeverShrink == Spec => RowsOnlyGrow
<1>1. IInv /\ [Next]_vars =>
        [\A r \in Recordings :
            /\ row[r].beats <= row'[r].beats
            /\ row[r].stop = "settled" => row'[r] = row[r]]_vars
  BY RowStep
<1> QED BY <1>1, Inductive, PTL DEF Spec, RowsOnlyGrow

(* A summary that tells the truth about its chunks. *)
Counted(x) == \A c \in Places : x.copies[c] = IF c <= ReadUpTo(x) THEN 1 ELSE 0

Tells(x) ==
    /\ x.cursor > 1 => x.beats > 0
    /\ x.beats <= BeatLimit => Counted(x)

(* A read of further chunks of a failed row, or of a row not there yet,    *)
(* tells the truth or has fewer beats than the row it went on from.        *)
LEMMA PulledTells ==
    ASSUME NEW held \in Row, Tells(held), held.stop = "failed" \/ held = NoRow,
           NEW got \in PulledWell(held) \cup PulledBadly(held)
    PROVE  Tells(got) \/ got.beats < held.beats
<1> DEFINE up == ReadUpTo(held)
           cut == IF EndsWithEnded(held) THEN 1 ELSE 0
<1>1. /\ held.beats \in Nat /\ held.cursor \in 0 .. Chunks
      /\ held.copies \in [Places -> Nat] /\ held.stop # "settled"
      /\ Chunks \in Nat \ {0} /\ BeatLimit \in Nat
  BY BoundsAssumption DEF Row, NoRow
<1>2. /\ ResumeAt(held) = up + 1
      /\ up \in 0 .. Chunks - 1
      /\ up # 0 => held.beats > 0
  BY <1>1 DEF ReadUpTo, ResumeAt, Tells
<1>3. /\ cut \in 0 .. 1
      /\ cut = 1 => held.beats > 0
      /\ cut = 0 => held.beats = 0 \/ held.beats > BeatLimit
  BY <1>1 DEF EndsWithEnded
<1>4. held.beats <= BeatLimit =>
        \A c \in Places : held.copies[c] = IF c <= up THEN 1 ELSE 0
  BY DEF Tells, Counted
<1>0. /\ cut = IF EndsWithEnded(held) THEN 1 ELSE 0
      /\ up = ReadUpTo(held)
  OBVIOUS
<1> HIDE DEF up, cut
<1>5. ASSUME NEW last \in up + 1 .. Chunks, NEW stop, NEW cursor \in 0 .. Chunks,
             \/ cursor = last + 1
             \/ cursor = 0 /\ stop = "settled" /\ last = Chunks,
             got = ResumeDigest(held, up + 1 .. last, stop, cursor)
      PROVE  Tells(got)
  <2> DEFINE read == up + 1 .. last
  <2>0. last \in Nat /\ up \in Nat /\ last <= Chunks /\ up + 1 <= last
    BY <1>1, <1>2, <1>5
  <2>1. read \in SUBSET Places /\ last \in read
    BY <1>1, <2>0 DEF Places
  <2>8. \A c \in Places : c \in read <=> up < c /\ c <= last
    BY <2>0 DEF Places
  <2>9. got = ResumeDigest(held, read, stop, cursor)
    BY <1>5
  <2> HIDE DEF read
  <2>2. Cardinality(read) \in Nat /\ Cardinality(read) > 0
    BY <2>1, PlacesAreFinite
  <2>3. got.beats = (held.beats - cut) + (Cardinality(read) + 1)
    <3>1. got.beats = held.beats - (IF EndsWithEnded(held) THEN 1 ELSE 0)
                        + (IF read = {} THEN 0 ELSE Cardinality(read) + 1)
      BY <2>9 DEF ResumeDigest
    <3> QED BY <1>0, <2>1, <3>1
  <2>4. got.beats > held.beats /\ got.beats > 0
    BY <1>1, <1>3, <2>2, <2>3
  <2>5. got.cursor = cursor /\ got.stop = stop
    BY <2>9 DEF ResumeDigest
  <2>6. ReadUpTo(got) = last
    BY <1>1, <1>5, <2>0, <2>4, <2>5 DEF ReadUpTo
  <2>7. ASSUME got.beats <= BeatLimit, NEW c \in Places
        PROVE  got.copies[c] = IF c <= last THEN 1 ELSE 0
    <3>1. got.copies[c] = held.copies[c] + (IF c \in read THEN 1 ELSE 0)
      BY <2>9 DEF ResumeDigest
    <3>2. held.copies[c] = IF c <= up THEN 1 ELSE 0
      BY <1>1, <1>4, <2>3, <2>4, <2>2, <1>3, <2>7
    <3> QED BY <2>0, <2>8, <3>1, <3>2 DEF Places
  <2> QED BY <2>4, <2>6, <2>7 DEF Tells, Counted
<1>6. ASSUME NEW stop \in {"failed", "settled"}, NEW cursor \in 0 .. Chunks,
             cursor <= 1 \/ cursor = up + 1, stop = "failed" \/ cursor = 0,
             got = ResumeDigest(held, {}, stop, cursor)
      PROVE  Tells(got) \/ got.beats < held.beats
  <2>1. /\ got.beats = held.beats - cut /\ got.cursor = cursor /\ got.stop = stop
        /\ \A c \in Places : got.copies[c] = held.copies[c] + 0
    BY <1>0, <1>1, <1>3, <1>6 DEF ResumeDigest
  <2>2. CASE cut = 1
    BY <1>1, <2>1, <2>2
  <2>3. CASE cut = 0 /\ held.beats > BeatLimit
    BY <1>1, <2>1, <2>3 DEF Tells
  <2>4. CASE cut = 0 /\ held.beats = 0
    <3>1. up = 0 /\ got.beats = 0 /\ cursor <= 1
      BY <1>1, <1>2, <1>6, <2>1, <2>4
    <3>2. ReadUpTo(got) = 0
      BY <1>6, <2>1, <3>1 DEF ReadUpTo
    <3>3. \A c \in Places : got.copies[c] = IF c <= 0 THEN 1 ELSE 0
      <4>1. held.beats <= BeatLimit
        BY <1>1, <2>4
      <4>2. \A c \in Places : held.copies[c] = IF c <= up THEN 1 ELSE 0
        BY <1>4, <4>1
      <4> QED BY <2>1, <3>1, <4>2 DEF Places
    <3> QED BY <1>6, <2>1, <3>1, <3>2, <3>3 DEF Tells, Counted
  <2> QED BY <1>3, <2>2, <2>3, <2>4
<1>7. CASE got = ResumeDigest(held, ResumeAt(held) .. Chunks, "settled", 0)
  <2>1. Chunks \in up + 1 .. Chunks /\ 0 \in 0 .. Chunks /\ ResumeAt(held) = up + 1
    BY <1>1, <1>2
  <2> QED BY <1>5, <1>7, <2>1
<1>8. ASSUME NEW c \in Places, NEW stop \in {"failed", "settled"}, c > ResumeAt(held),
             got = ResumeDigest(held, ResumeAt(held) .. c - 1, stop, c)
      PROVE  Tells(got)
  <2>1. /\ c - 1 \in up + 1 .. Chunks /\ c \in 0 .. Chunks /\ ResumeAt(held) = up + 1
        /\ c = (c - 1) + 1
    BY <1>1, <1>2, <1>8 DEF Places
  <2> QED BY <1>5, <1>8, <2>1
<1>9. CASE got = ResumeDigest(held, {}, "failed", 0) \/ got = ResumeDigest(held, {}, "settled", 0)
  BY <1>1, <1>6, <1>9
<1>10. ASSUME NEW c \in Places, c = ResumeAt(held),
              got = ResumeDigest(held, ResumeAt(held) .. c - 1, "failed", c)
       PROVE  Tells(got) \/ got.beats < held.beats
  <2>1. ResumeAt(held) .. c - 1 = {} /\ c \in 0 .. Chunks /\ c = up + 1
    BY <1>1, <1>2, <1>10 DEF Places
  <2> QED BY <1>6, <1>10, <2>1
<1> QED
  <2>1. CASE got \in PulledWell(held)
    BY <1>7, <1>8, <2>1 DEF PulledWell
  <2>2. CASE got \in PulledBadly(held)
    <3>1. CASE \E c \in Places : /\ c >= ResumeAt(held)
                                 /\ got = ResumeDigest(held, ResumeAt(held) .. c - 1, "failed", c)
      <4>1. PICK c \in Places : /\ c >= ResumeAt(held)
                                /\ got = ResumeDigest(held, ResumeAt(held) .. c - 1, "failed", c)
        BY <3>1
      <4>2. c > ResumeAt(held) \/ c = ResumeAt(held)
        BY <1>1, <1>2, <4>1 DEF Places
      <4> QED BY <1>8, <1>10, <4>1, <4>2
    <3> QED BY <1>9, <2>2, <3>1 DEF PulledBadly
  <2> QED BY <2>1, <2>2

GotTells(w) ==
    tick[w].at = "writing" =>
        IF tick[w].again
        THEN \/ row[tick[w].doing].stop = "settled"
             \/ Tells(tick[w].got)
             \/ tick[w].got.beats < row[tick[w].doing].beats
        ELSE Tells(tick[w].got)

ChunkInv ==
    /\ \A r \in Recordings : Tells(row[r])
    /\ \A w \in Workers : GotTells(w)

LEMMA ChunksInitially == Init => ChunkInv
<1>1. Tells(NoRow)
  BY BoundsAssumption DEF Tells, Counted, NoRow, ReadUpTo, Places
<1> QED BY <1>1 DEF Init, ChunkInv, GotTells, Idle

(* A tick comes to write by a pull only. *)
LEMMA WritingStep ==
    ASSUME IInv, [Next]_vars, NEW v \in Workers, tick'[v].at = "writing"
    PROVE  tick'[v] = tick[v] \/ PullEvents(v)
<1>1. tick \in [Workers -> Tick]
  BY DEF IInv, TypeOK
<1>2. CASE \E r \in Recordings : Appear(r)
  BY <1>2 DEF Appear
<1>3. CASE UNCHANGED vars
  BY <1>3 DEF vars
<1>4. ASSUME NEW w \in Workers, NEW t, tick' = [tick EXCEPT ![w] = t], t.at # "writing"
      PROVE  tick'[v] = tick[v]
  BY <1>1, <1>4
<1>5. \A fresh, retries, left : Onwards(fresh, retries, left).at # "writing"
  BY DEF Onwards, Idle
<1>6. ASSUME NEW w \in Workers, StartTick(w) \/ AttemptFails(w) \/ Die(w) \/ Work(w)
      PROVE  tick'[v] = tick[v] \/ PullEvents(v)
  <2>1. CASE StartTick(w) \/ Die(w)
    <3>1. \A mark : [Idle EXCEPT !.at = "started", !.mark = mark].at = "started"
      BY DEF Idle
    <3>2. Idle.at = "idle"
      BY DEF Idle
    <3> QED BY <1>4, <2>1, <3>1, <3>2 DEF StartTick, Die
  <2>2. CASE AttemptFails(w) \/ Persist(w) \/ RefreshFailedPull(w)
    BY <1>4, <1>5, <2>2 DEF AttemptFails, Persist, RefreshFailedPull, GoOn
  <2>3. CASE ListRecordings(w)
    <3>1. \A listed : [Idle EXCEPT !.at = "listed", !.listed = listed].at = "listed"
      BY DEF Idle
    <3>2. \E listed : tick' = [tick EXCEPT ![w] = [Idle EXCEPT !.at = "listed", !.listed = listed]]
      BY <2>3 DEF ListRecordings
    <3> QED BY <1>4, <3>1, <3>2
  <2>4. CASE SummarisedIds(w)
    <3>1. tick' = [tick EXCEPT ![w] = [tick[w] EXCEPT !.at = "known", !.fresh = Fresh(tick[w].listed)]]
      BY <1>1, <2>4 DEF SummarisedIds
    <3>2. [tick[w] EXCEPT !.at = "known", !.fresh = Fresh(tick[w].listed)].at = "known"
      BY <1>1 DEF Tick
    <3> QED BY <1>4, <3>1, <3>2
  <2>5. CASE RetryablePullIds(w)
    BY <1>4, <1>5, <2>5 DEF RetryablePullIds
  <2>6. CASE PullEvents(w)
    <3>1. w = v \/ tick'[v] = tick[v]
      BY <1>1, <2>6 DEF PullEvents
    <3> QED BY <2>6, <3>1
  <2> QED BY <1>6, <2>1, <2>2, <2>3, <2>4, <2>5, <2>6 DEF Work
<1> QED BY <1>2, <1>3, <1>6 DEF Next

(* What a pull puts in the hands of its tick. *)
LEMMA PullGives ==
    ASSUME IInv, NEW w \in Workers, PullEvents(w)
    PROVE  \E d \in Recordings :
             \E got \in PulledWell(GoneOnFrom(w, d)) \cup PulledBadly(GoneOnFrom(w, d)) :
                /\ Pulls(w, d, got)
                /\ d \in tick[w].fresh \cup tick[w].retries
                /\ d \in tick[w].retries => Held(d)
                /\ GoneOnFrom(w, d) \in Row /\ got \in Row
                /\ tick'[w].at = "writing" /\ tick'[w].doing = d /\ tick'[w].got = got
                /\ tick'[w].again = (d \in tick[w].retries)
                /\ tick'[w].fresh = tick[w].fresh \ {d}
                /\ \A v \in Workers \ {w} : tick'[v] = tick[v]
<1>1. PICK d \in Due(w) :
        LET again == d \in tick[w].retries
            held  == IF again THEN row[d] ELSE NoRow
        IN  \E got \in PulledWell(held) \cup PulledBadly(held) :
              /\ IF got \in PulledWell(held) THEN UNCHANGED faults ELSE Fault
              /\ tick' = [tick EXCEPT ![w].at = "writing", ![w].doing = d,
                                      ![w].again = again, ![w].got = got,
                                      ![w].left = @ - 1,
                                      ![w].fresh = @ \ {d},
                                      ![w].retries = IF d \in tick[w].fresh
                                                     THEN @ ELSE @ \ {d}]
              /\ asked' = IF again THEN asked
                          ELSE [asked EXCEPT ![d] = @ + 1]
  BY DEF PullEvents
<1>2. PICK got \in PulledWell(GoneOnFrom(w, d)) \cup PulledBadly(GoneOnFrom(w, d)) :
        Pulls(w, d, got)
  BY <1>1 DEF GoneOnFrom, Pulls
<1>3. /\ d \in tick[w].fresh \cup tick[w].retries /\ d \in Recordings
      /\ d \in tick[w].retries => Held(d)
  <2>1. InHand(w) /\ visible \subseteq Recordings
    BY DEF IInv, TypeOK
  <2>2. d \in tick[w].fresh \cup tick[w].retries
    BY DEF Due, OldestFirst
  <2> QED BY <2>1, <2>2 DEF InHand
<1>4. GoneOnFrom(w, d) \in Row
  BY <1>3, BlankTypes DEF GoneOnFrom, IInv, TypeOK
<1>5. got \in Row
  BY <1>2, <1>4, PulledType
<1>6. /\ tick'[w].at = "writing" /\ tick'[w].doing = d /\ tick'[w].got = got
      /\ tick'[w].again = (d \in tick[w].retries)
      /\ tick'[w].fresh = tick[w].fresh \ {d}
      /\ \A v \in Workers \ {w} : tick'[v] = tick[v]
  <2>1. tick \in [Workers -> Tick] /\ tick[w] \in Tick
    BY DEF IInv, TypeOK
  <2> QED BY <1>2, <2>1 DEF Pulls, Tick
<1> QED BY <1>2, <1>3, <1>4, <1>5, <1>6

LEMMA ChunksKept == IInv /\ ChunkInv /\ [Next]_vars => ChunkInv'
<1> SUFFICES ASSUME IInv, ChunkInv, [Next]_vars PROVE ChunkInv'
  OBVIOUS
<1>0. row \in [Recordings -> Row] /\ tick \in [Workers -> Tick]
  BY DEF IInv, TypeOK
<1>1. ASSUME NEW r \in Recordings PROVE Tells(row[r])'
  <2>1. CASE row'[r] = row[r]
    BY <2>1 DEF ChunkInv, Tells, Counted, ReadUpTo
  <2>2. CASE \E w \in Workers : Persist(w) \/ RefreshFailedPull(w)
    <3>1. PICK w \in Workers : Persist(w) \/ RefreshFailedPull(w)
      BY <2>2
    <3>2. \/ row' = row
          \/ row' = [row EXCEPT ![tick[w].doing] = tick[w].got] /\ Tells(tick[w].got)
      <4>1. GotTells(w) /\ tick[w].at = "writing"
        BY <3>1 DEF ChunkInv, Persist, RefreshFailedPull
      <4>2. CASE Persist(w)
        BY <4>1, <4>2 DEF Persist, GotTells
      <4>3. CASE RefreshFailedPull(w)
        <5>1. CASE row' = row
          BY <5>1
        <5>2. CASE /\ MayRefresh(tick[w].doing, tick[w].got)
                   /\ row' = [row EXCEPT ![tick[w].doing] = tick[w].got]
          <6>1. /\ row[tick[w].doing].stop = "failed" /\ tick[w].again
                /\ row[tick[w].doing].beats <= tick[w].got.beats
            BY <4>3, <5>2 DEF MayRefresh, Retryable, RefreshFailedPull
          <6>2. row[tick[w].doing].beats \in Nat /\ tick[w].got.beats \in Nat
            <7>1. tick[w].doing \in Recordings
              BY <4>1 DEF IInv, InHand, TypeOK
            <7> QED BY <1>0, <7>1 DEF Tick, Row
          <6>3. Tells(tick[w].got)
            BY <4>1, <6>1, <6>2 DEF GotTells
          <6> QED BY <5>2, <6>3
        <5> QED BY <4>3, <5>1, <5>2 DEF RefreshFailedPull
      <4> QED BY <3>1, <4>2, <4>3
    <3>3. row'[r] = row[r] \/ (row'[r] = tick[w].got /\ Tells(tick[w].got))
      BY <1>0, <3>2
    <3> QED BY <2>1, <3>3 DEF Tells, Counted, ReadUpTo
  <2>3. row' = row \/ \E w \in Workers : Persist(w) \/ RefreshFailedPull(w)
    BY DEF Next, Work, vars, Appear, StartTick, ListRecordings,
        SummarisedIds, RetryablePullIds, PullEvents, AttemptFails, Die
  <2> QED BY <2>1, <2>2, <2>3
<1>2. ASSUME NEW v \in Workers, tick'[v].at = "writing" PROVE GotTells(v)'
  <2>1. CASE tick'[v] = tick[v]
    <3>1. GotTells(v) /\ tick[v].at = "writing"
      BY <1>2, <2>1 DEF ChunkInv
    <3>2. tick[v].doing \in Recordings /\ tick[v].got.beats \in Nat
      BY <1>0, <3>1 DEF IInv, InHand, TypeOK, Tick, Row
    <3>3. /\ row[tick[v].doing].beats <= row'[tick[v].doing].beats
          /\ row[tick[v].doing].stop = "settled" => row'[tick[v].doing] = row[tick[v].doing]
      BY <3>2, RowStep
    <3>4. row[tick[v].doing].beats \in Nat /\ row'[tick[v].doing].beats \in Nat
      <4>1. row' \in [Recordings -> Row]
        BY StepKeeps DEF IInv, TypeOK
      <4> QED BY <1>0, <3>2, <4>1 DEF Row
    <3> QED BY <2>1, <3>1, <3>2, <3>3, <3>4 DEF GotTells, Tells, Counted, ReadUpTo
  <2>2. CASE PullEvents(v)
    <3>0. PICK d \in Recordings :
            \E got \in PulledWell(GoneOnFrom(v, d)) \cup PulledBadly(GoneOnFrom(v, d)) :
              /\ d \in tick[v].retries => Held(d)
              /\ GoneOnFrom(v, d) \in Row /\ got \in Row
              /\ tick'[v].doing = d /\ tick'[v].got = got
              /\ tick'[v].again = (d \in tick[v].retries)
      BY <2>2, PullGives
    <3>1. PICK got \in PulledWell(GoneOnFrom(v, d)) \cup PulledBadly(GoneOnFrom(v, d)) :
            /\ d \in tick[v].retries => Held(d)
            /\ GoneOnFrom(v, d) \in Row /\ got \in Row
            /\ tick'[v].doing = d /\ tick'[v].got = got
            /\ tick'[v].again = (d \in tick[v].retries)
      BY <3>0
    <3>2. row' = row /\ row[d] \in Row
      BY <1>0, <2>2 DEF PullEvents
    <3>3. CASE d \in tick[v].retries
      <4>1. GoneOnFrom(v, d) = row[d] /\ row[d].stop \in {"failed", "settled"}
        BY <3>1, <3>2, <3>3 DEF GoneOnFrom, Held, Row
      <4>2. row[d].stop = "failed" => Tells(got) \/ got.beats < row[d].beats
        BY <3>1, <4>1, PulledTells DEF ChunkInv
      <4> QED BY <3>1, <3>2, <3>3, <4>1, <4>2 DEF GotTells, Tells, Counted, ReadUpTo
    <3>4. CASE d \notin tick[v].retries
      <4>1. GoneOnFrom(v, d) = NoRow /\ NoRow.beats = 0
        BY <3>4 DEF GoneOnFrom, NoRow
      <4>2. Tells(NoRow)
        BY BoundsAssumption DEF Tells, Counted, NoRow, ReadUpTo, Places
      <4>3. Tells(got) \/ got.beats < 0
        BY <3>1, <4>1, <4>2, PulledTells
      <4>4. got.beats \in Nat
        BY <3>1 DEF Row
      <4>5. Tells(got)
        BY <4>3, <4>4
      <4> QED BY <3>1, <3>4, <4>5 DEF GotTells, Tells, Counted, ReadUpTo
    <3> QED BY <3>3, <3>4
  <2> QED BY <1>2, <2>1, <2>2, WritingStep
<1>3. \A v \in Workers : GotTells(v)'
  BY <1>2 DEF GotTells
<1> QED BY <1>1, <1>3 DEF ChunkInv

-----------------------------------------------------------------------------
(* What was asked is accounted for by the ticks that write or are to.      *)

Writers(r) == {w \in Workers :
                tick[w].at = "writing" /\ tick[w].doing = r /\ ~tick[w].again}

Holders(r) == {w \in Workers : r \in tick[w].fresh}

AskedOf(r) == IF Held(r)
              THEN asked[r] + Cardinality(Holders(r)) <= Cardinality(Workers) + faults
              ELSE asked[r] <= Cardinality(Writers(r)) + faults

AskInv == \A r \in Recordings : AskedOf(r)

LEMMA Headcount ==
    ASSUME NEW S \in SUBSET Workers
    PROVE  /\ IsFiniteSet(S) /\ Cardinality(S) \in Nat
           /\ Cardinality(S) <= Cardinality(Workers)
           /\ \A T \in SUBSET S : Cardinality(T) <= Cardinality(S)
           /\ \A w \in S : Cardinality(S \ {w}) = Cardinality(S) - 1
           /\ \A w \in Workers \ S : Cardinality(S \cup {w}) = Cardinality(S) + 1
<1>1. IsFiniteSet(S) /\ Cardinality(S) <= Cardinality(Workers)
  BY WorkersAssumption, FS_Subset
<1>2. Cardinality(S) \in Nat
  BY <1>1, FS_CardinalityType
<1>3. \A T \in SUBSET S : Cardinality(T) <= Cardinality(S)
  BY <1>1, FS_Subset
<1>4. \A w : /\ w \in S => Cardinality(S \ {w}) = Cardinality(S) - 1
             /\ w \notin S => Cardinality(S \cup {w}) = Cardinality(S) + 1
  BY <1>1, FS_RemoveElement, FS_AddElement
<1> QED BY <1>1, <1>2, <1>3, <1>4

(* A step that asks nothing and stores nothing: whoever stops writing does *)
(* so by a fault.                                                          *)
LEMMA AskedStays ==
    ASSUME IInv, IInv', NEW r \in Recordings, AskedOf(r), asked'[r] = asked[r],
           Held(r)' <=> Held(r), Held(r) => Holders(r)' \subseteq Holders(r),
           \/ faults <= faults' /\ (~Held(r) => Writers(r) \subseteq Writers(r)')
           \/ /\ faults' = faults + 1
              /\ \E w \in Workers : Writers(r) \ {w} \subseteq Writers(r)'
    PROVE  AskedOf(r)'
<1>1. /\ faults \in Nat /\ faults' \in Nat /\ asked[r] \in Nat
      /\ Cardinality(Workers) \in Nat
  BY WorkersAssumption, FS_CardinalityType, BoundsAssumption DEF IInv, TypeOK
<1>2. /\ Holders(r) \in SUBSET Workers /\ Holders(r)' \in SUBSET Workers
      /\ Writers(r) \in SUBSET Workers /\ Writers(r)' \in SUBSET Workers
  BY DEF Holders, Writers
<1>3. /\ Cardinality(Holders(r)) \in Nat /\ Cardinality(Holders(r)') \in Nat
      /\ Cardinality(Writers(r)) \in Nat /\ Cardinality(Writers(r)') \in Nat
  BY <1>2, Headcount
<1>4. Cardinality(Holders(r))' = Cardinality(Holders(r)')
      /\ Cardinality(Writers(r))' = Cardinality(Writers(r)')
  OBVIOUS
<1>5. CASE Held(r)
  <2>1. Cardinality(Holders(r)') <= Cardinality(Holders(r))
    BY <1>2, <1>5, Headcount
  <2> QED BY <1>1, <1>3, <1>4, <1>5, <2>1 DEF AskedOf
<1>6. CASE ~Held(r) /\ faults <= faults' /\ Writers(r) \subseteq Writers(r)'
  <2>1. Cardinality(Writers(r)) <= Cardinality(Writers(r)')
    BY <1>2, <1>6, Headcount
  <2> QED BY <1>1, <1>3, <1>4, <1>6, <2>1 DEF AskedOf
<1>7. CASE ~Held(r) /\ faults' = faults + 1 /\ \E w \in Workers : Writers(r) \ {w} \subseteq Writers(r)'
  <2>1. PICK w \in Workers : Writers(r) \ {w} \subseteq Writers(r)'
    BY <1>7
  <2>2. Cardinality(Writers(r) \ {w}) <= Cardinality(Writers(r)')
    BY <1>2, <2>1, Headcount
  <2>3. Cardinality(Writers(r)) <= Cardinality(Writers(r) \ {w}) + 1
    <3>1. CASE w \in Writers(r)
      <4>1. Cardinality(Writers(r) \ {w}) = Cardinality(Writers(r)) - 1
        BY <1>2, <3>1, Headcount
      <4> QED BY <1>3, <4>1
    <3>2. CASE w \notin Writers(r)
      <4>1. Writers(r) \ {w} = Writers(r)
        BY <3>2
      <4> QED BY <1>3, <4>1
    <3> QED BY <3>1, <3>2
  <2>4. Cardinality(Writers(r) \ {w}) \in Nat
    BY <1>2, Headcount
  <2> QED BY <1>1, <1>3, <1>4, <1>7, <2>2, <2>3, <2>4 DEF AskedOf
<1> QED BY <1>5, <1>6, <1>7

(* One tick moves, neither to nor from writing, and what is new to it has  *)
(* no summary.                                                             *)
LEMMA AskedWhileListing ==
    ASSUME IInv, AskInv, [Next]_vars, UNCHANGED <<row, asked, faults>>,
           \A v \in Workers : /\ tick[v].at = "writing" => tick'[v] = tick[v]
                              /\ \A r \in tick'[v].fresh : Held(r) => r \in tick[v].fresh
    PROVE  AskInv'
<1>1. IInv'
  BY StepKeeps
<1>2. ASSUME NEW r \in Recordings PROVE AskedOf(r)'
  <2>1. Held(r)' <=> Held(r)
    BY DEF Held
  <2>2. Held(r) => Holders(r)' \subseteq Holders(r)
    BY DEF Holders
  <2>3. Writers(r) \subseteq Writers(r)'
    BY DEF Writers
  <2>4. faults <= faults' /\ AskedOf(r)
    BY BoundsAssumption DEF IInv, TypeOK, AskInv
  <2> QED BY <1>1, <2>1, <2>2, <2>3, <2>4, AskedStays
<1> QED BY <1>2 DEF AskInv

(* A tick that leaves a recording as the loop does, in favour of the next. *)
LEMMA GoesOn ==
    ASSUME IInv, NEW w \in Workers, GoOn(w)
    PROVE  /\ tick'[w].at # "writing" /\ tick'[w].fresh \subseteq tick[w].fresh
           /\ \A v \in Workers \ {w} : tick'[v] = tick[v]
<1>1. tick \in [Workers -> Tick]
  BY DEF IInv, TypeOK
<1>2. \A fresh, retries, left :
        /\ Onwards(fresh, retries, left).at # "writing"
        /\ Onwards(fresh, retries, left).fresh = {} \/ Onwards(fresh, retries, left).fresh = fresh
  BY DEF Onwards, Idle
<1>3. tick'[w] = Onwards(tick[w].fresh, tick[w].retries, tick[w].left)
      /\ \A v \in Workers \ {w} : tick'[v] = tick[v]
  BY <1>1 DEF GoOn
<1>4. tick'[w].fresh = {} \/ tick'[w].fresh = tick[w].fresh
  BY <1>2, <1>3
<1>5. tick'[w].at # "writing"
  BY <1>2, <1>3
<1> QED BY <1>3, <1>4, <1>5

LEMMA AskedWhenFaulty ==
    ASSUME IInv, AskInv, [Next]_vars, NEW w \in Workers, AttemptFails(w) \/ Die(w)
    PROVE  AskInv'
<1>1. IInv'
  BY StepKeeps
<1>2. /\ tick'[w].fresh \subseteq tick[w].fresh
      /\ \A v \in Workers \ {w} : tick'[v] = tick[v]
  <2>1. CASE AttemptFails(w)
    BY <2>1, GoesOn DEF AttemptFails
  <2>2. CASE Die(w)
    BY <2>2 DEF Die, Idle, IInv, TypeOK
  <2> QED BY <2>1, <2>2
<1>3. UNCHANGED <<row, asked>> /\ faults' = faults + 1
  BY DEF AttemptFails, Die, Fault
<1>4. ASSUME NEW r \in Recordings PROVE AskedOf(r)'
  <2>1. Held(r)' <=> Held(r)
    BY <1>3 DEF Held
  <2>2. Holders(r)' \subseteq Holders(r)
    BY <1>2 DEF Holders
  <2>3. Writers(r) \ {w} \subseteq Writers(r)'
    BY <1>2 DEF Writers
  <2> QED BY <1>1, <1>3, <2>1, <2>2, <2>3, AskedStays DEF AskInv
<1> QED BY <1>4 DEF AskInv

LEMMA AskedWhenPulled ==
    ASSUME IInv, AskInv, [Next]_vars, NEW w \in Workers, PullEvents(w)
    PROVE  AskInv'
<1>1. IInv'
  BY StepKeeps
<1>2. PICK d \in Recordings :
        /\ d \in tick[w].fresh \cup tick[w].retries
        /\ d \in tick[w].retries => Held(d)
        /\ asked' = IF d \in tick[w].retries THEN asked ELSE [asked EXCEPT ![d] = @ + 1]
        /\ faults' = faults \/ faults' = faults + 1
        /\ tick'[w].at = "writing" /\ tick'[w].doing = d
        /\ tick'[w].again = (d \in tick[w].retries)
        /\ tick'[w].fresh = tick[w].fresh \ {d}
        /\ \A v \in Workers \ {w} : tick'[v] = tick[v]
  <2>1. PICK d \in Recordings :
          \E got \in PulledWell(GoneOnFrom(w, d)) \cup PulledBadly(GoneOnFrom(w, d)) :
            /\ Pulls(w, d, got)
            /\ d \in tick[w].fresh \cup tick[w].retries
            /\ d \in tick[w].retries => Held(d)
            /\ tick'[w].at = "writing" /\ tick'[w].doing = d
            /\ tick'[w].again = (d \in tick[w].retries)
            /\ tick'[w].fresh = tick[w].fresh \ {d}
            /\ \A v \in Workers \ {w} : tick'[v] = tick[v]
    BY PullGives
  <2> QED BY <2>1 DEF Pulls, Fault
<1>3. UNCHANGED row /\ tick[w].at = "working"
  BY DEF PullEvents
<1>4. /\ faults \in Nat /\ faults <= faults' /\ faults' \in Nat
      /\ asked \in [Recordings -> Nat] /\ Cardinality(Workers) \in Nat
  BY <1>2, WorkersAssumption, FS_CardinalityType, BoundsAssumption DEF IInv, TypeOK
<1>5. ASSUME NEW r \in Recordings PROVE AskedOf(r)'
  <2>1. Held(r)' <=> Held(r)
    BY <1>3 DEF Held
  <2>2. Holders(r)' \subseteq Holders(r)
    BY <1>2 DEF Holders
  <2>3. Writers(r) \subseteq Writers(r)'
    BY <1>2, <1>3 DEF Writers
  <2>4. CASE asked'[r] = asked[r]
    BY <1>1, <1>4, <2>1, <2>2, <2>3, <2>4, AskedStays DEF AskInv
  <2>5. CASE asked'[r] # asked[r]
    <3>1. r = d /\ d \notin tick[w].retries /\ asked'[r] = asked[r] + 1
      BY <1>2, <1>4, <2>5
    <3>2. d \in tick[w].fresh
      BY <1>2, <3>1
    <3>3. /\ Holders(r) \in SUBSET Workers /\ Holders(r)' \in SUBSET Workers
          /\ Writers(r) \in SUBSET Workers /\ Writers(r)' \in SUBSET Workers
      BY DEF Holders, Writers
    <3>4. CASE Held(r)
      <4>1. Holders(r)' = Holders(r) \ {w} /\ w \in Holders(r)
        BY <1>2, <3>1, <3>2 DEF Holders
      <4>2. Cardinality(Holders(r)') = Cardinality(Holders(r)) - 1
        BY <3>3, <4>1, Headcount
      <4>3. Cardinality(Holders(r)) \in Nat /\ asked[r] \in Nat
        BY <1>4, <3>3, Headcount
      <4>4. asked[r] + Cardinality(Holders(r)) <= Cardinality(Workers) + faults
        BY <3>4 DEF AskInv, AskedOf
      <4>5. asked'[r] + Cardinality(Holders(r)') <= Cardinality(Workers) + faults'
        BY <1>4, <3>1, <4>2, <4>3, <4>4
      <4> QED BY <2>1, <3>4, <4>5 DEF AskedOf
    <3>5. CASE ~Held(r)
      <4>1. Writers(r)' = Writers(r) \cup {w} /\ w \in Workers \ Writers(r)
        BY <1>2, <1>3, <3>1 DEF Writers
      <4>2. Cardinality(Writers(r)') = Cardinality(Writers(r)) + 1
        BY <3>3, <4>1, Headcount
      <4>3. Cardinality(Writers(r)) \in Nat /\ asked[r] \in Nat
        BY <1>4, <3>3, Headcount
      <4>4. asked[r] <= Cardinality(Writers(r)) + faults
        BY <3>5 DEF AskInv, AskedOf
      <4>5. asked'[r] <= Cardinality(Writers(r)') + faults'
        BY <1>4, <3>1, <4>2, <4>3, <4>4
      <4> QED BY <2>1, <3>5, <4>5 DEF AskedOf
    <3> QED BY <3>4, <3>5
  <2> QED BY <2>4, <2>5
<1> QED BY <1>5 DEF AskInv

LEMMA AskedWhenStored ==
    ASSUME IInv, AskInv, [Next]_vars, NEW w \in Workers, Persist(w) \/ RefreshFailedPull(w)
    PROVE  AskInv'
<1>1. IInv'
  BY StepKeeps
<1>0. PICK d : d = tick[w].doing
  OBVIOUS
<1>2. /\ tick[w] \in Tick /\ InHand(w) /\ tick[w].at = "writing" /\ GoOn(w)
      /\ UNCHANGED <<asked, faults>>
  BY DEF Persist, RefreshFailedPull, IInv, TypeOK
<1>3. /\ d \in Recordings /\ d \notin tick[w].fresh /\ tick[w].got.stop # "none"
      /\ tick[w].again => Held(d)
  BY <1>0, <1>2 DEF InHand, IInv, TypeOK
<1>4. row' = row \/ row' = [row EXCEPT ![d] = tick[w].got]
  BY <1>0 DEF Persist, RefreshFailedPull
<1>5. Held(d)' /\ \A r \in Recordings : r # d => (Held(r)' <=> Held(r))
  <2>1. row \in [Recordings -> Row]
    BY DEF IInv, TypeOK
  <2>2. row' = row => Held(d)
    <3>1. CASE Persist(w)
      BY <1>0, <1>3, <2>1, <3>1 DEF Persist, Held
    <3>2. CASE RefreshFailedPull(w)
      BY <1>3, <3>2 DEF RefreshFailedPull
    <3> QED BY <3>1, <3>2
  <2>3. CASE row' = row
    BY <2>2, <2>3 DEF Held
  <2>4. CASE row' = [row EXCEPT ![d] = tick[w].got]
    <3>1. \A r \in Recordings : row'[r] = IF r = d THEN tick[w].got ELSE row[r]
      BY <2>1, <2>4
    <3> QED BY <1>3, <3>1 DEF Held
  <2> QED BY <1>4, <2>3, <2>4
<1>6. /\ tick'[w].at # "writing" /\ tick'[w].fresh \subseteq tick[w].fresh
      /\ \A v \in Workers \ {w} : tick'[v] = tick[v]
  BY <1>2, GoesOn
<1>7. /\ faults \in Nat /\ asked \in [Recordings -> Nat] /\ Cardinality(Workers) \in Nat
  BY WorkersAssumption, FS_CardinalityType, BoundsAssumption DEF IInv, TypeOK
<1>8. ASSUME NEW r \in Recordings PROVE AskedOf(r)'
  <2>1. Holders(r)' \subseteq Holders(r)
    BY <1>6 DEF Holders
  <2>2. r # d => Writers(r) \subseteq Writers(r)'
    BY <1>0, <1>6 DEF Writers
  <2>3. faults <= faults' /\ asked'[r] = asked[r] /\ AskedOf(r)
    BY <1>2, <1>7 DEF AskInv
  <2>4. CASE r # d \/ Held(r)
    <3>1. Held(r)' <=> Held(r)
      BY <1>5, <2>4
    <3>2. ~Held(r) => Writers(r) \subseteq Writers(r)'
      BY <2>2, <2>4
    <3> QED BY <1>1, <2>1, <2>3, <3>1, <3>2, AskedStays
  <2>5. CASE r = d /\ ~Held(r)
    <3>1. /\ Holders(r) \in SUBSET Workers /\ Holders(r)' \in SUBSET Workers
          /\ Writers(r) \in SUBSET Workers
      BY DEF Holders, Writers
    <3>2. Holders(r)' \cap Writers(r) = {}
      <4>1. ASSUME NEW v \in Holders(r)', v \in Writers(r) PROVE FALSE
        <5>1. v \in Workers /\ tick[v].at = "writing" /\ tick[v].doing = r
          BY <4>1 DEF Writers
        <5>2. r \notin tick[v].fresh
          BY <5>1 DEF IInv, InHand
        <5>3. r \in tick[v].fresh
          BY <2>1, <4>1 DEF Holders
        <5> QED BY <5>2, <5>3
      <4> QED BY <4>1
    <3>3. Cardinality(Holders(r)') + Cardinality(Writers(r)) <= Cardinality(Workers)
      <4>1. IsFiniteSet(Holders(r)') /\ IsFiniteSet(Writers(r))
        BY <3>1, Headcount
      <4>2. Cardinality(Holders(r)' \cup Writers(r)) =
              Cardinality(Holders(r)') + Cardinality(Writers(r)) - Cardinality(Holders(r)' \cap Writers(r))
        BY <4>1, FS_Union
      <4>3. Cardinality(Holders(r)' \cap Writers(r)) = 0
        BY <3>2, FS_EmptySet
      <4>4. Cardinality(Holders(r)' \cup Writers(r)) <= Cardinality(Workers)
        BY <3>1, Headcount
      <4>5. Cardinality(Holders(r)') \in Nat /\ Cardinality(Writers(r)) \in Nat
        BY <3>1, Headcount
      <4> QED BY <4>2, <4>3, <4>4, <4>5
    <3>4. Cardinality(Holders(r)') \in Nat /\ Cardinality(Writers(r)) \in Nat
      BY <3>1, Headcount
    <3>5. asked[r] <= Cardinality(Writers(r)) + faults
      BY <2>3, <2>5 DEF AskedOf
    <3>6. asked'[r] + Cardinality(Holders(r)') <= Cardinality(Workers) + faults'
      BY <1>2, <1>7, <2>3, <3>3, <3>4, <3>5
    <3> QED BY <1>5, <2>5, <3>6 DEF AskedOf
  <2> QED BY <2>4, <2>5
<1> QED BY <1>8 DEF AskInv

LEMMA AskedKept == IInv /\ AskInv /\ [Next]_vars => AskInv'
<1> SUFFICES ASSUME IInv, AskInv, [Next]_vars PROVE AskInv'
  OBVIOUS
<1>0. tick \in [Workers -> Tick]
  BY DEF IInv, TypeOK
<1>1. CASE UNCHANGED vars
  BY <1>1, AskedWhileListing DEF vars
<1>2. CASE \E r \in Recordings : Appear(r)
  BY <1>2, AskedWhileListing DEF Appear
<1>3. ASSUME NEW w \in Workers, StartTick(w) \/ SummarisedIds(w) \/ RetryablePullIds(w)
      PROVE  AskInv'
  <2>1. UNCHANGED <<row, asked, faults>> /\ tick[w].at # "writing"
    BY <1>3 DEF StartTick, SummarisedIds, RetryablePullIds
  <2>2. \A v \in Workers \ {w} : tick'[v] = tick[v]
    BY <1>0, <1>3 DEF StartTick, SummarisedIds, RetryablePullIds
  <2>3. \A r \in tick'[w].fresh : Held(r) => r \in tick[w].fresh
    <3>1. CASE StartTick(w)
      <4>1. tick'[w].fresh = {}
        BY <1>0, <3>1 DEF StartTick, Idle
      <4> QED BY <4>1
    <3>2. CASE SummarisedIds(w)
      <4>1. tick'[w].fresh = Fresh(tick[w].listed)
        BY <1>0, <3>2 DEF SummarisedIds, Tick
      <4> QED BY <4>1 DEF Fresh
    <3>3. CASE RetryablePullIds(w)
      <4>1. \A fresh, retries, left :
              Onwards(fresh, retries, left).fresh = {} \/ Onwards(fresh, retries, left).fresh = fresh
        BY DEF Onwards, Idle
      <4>2. \E retries, left : tick'[w] = Onwards(tick[w].fresh, retries, left)
        <5>1. PICK left \in 1 .. Budget :
                tick' = [tick EXCEPT ![w] = Onwards(tick[w].fresh,
                                                    {r \in tick[w].listed : Retryable(r)}, left)]
          BY <3>3 DEF RetryablePullIds
        <5>2. tick'[w] = Onwards(tick[w].fresh, {r \in tick[w].listed : Retryable(r)}, left)
          BY <1>0, <5>1
        <5> QED BY <5>2
      <4>3. tick'[w].fresh = {} \/ tick'[w].fresh = tick[w].fresh
        BY <4>1, <4>2
      <4> QED BY <4>3
    <3> QED BY <1>3, <3>1, <3>2, <3>3
  <2> QED BY <2>1, <2>2, <2>3, AskedWhileListing
<1>4. ASSUME NEW w \in Workers, ListRecordings(w)
      PROVE  AskInv'
  <2>1. UNCHANGED <<row, asked>> /\ tick[w].at = "started" /\ (UNCHANGED faults \/ Fault)
    BY <1>4 DEF ListRecordings
  <2>2. tick'[w].fresh = {} /\ \A v \in Workers \ {w} : tick'[v] = tick[v]
    BY <1>0, <1>4 DEF ListRecordings, Idle
  <2>3. IInv'
    BY StepKeeps
  <2>4. ASSUME NEW r \in Recordings PROVE AskedOf(r)'
    <3>1. Held(r)' <=> Held(r)
      BY <2>1 DEF Held
    <3>2. Holders(r)' \subseteq Holders(r)
      BY <2>2 DEF Holders
    <3>3. Writers(r) \subseteq Writers(r)'
      BY <2>1, <2>2 DEF Writers
    <3>4. faults <= faults' /\ asked'[r] = asked[r] /\ AskedOf(r)
      BY <2>1, BoundsAssumption DEF Fault, IInv, TypeOK, AskInv
    <3> QED BY <2>3, <3>1, <3>2, <3>3, <3>4, AskedStays
  <2> QED BY <2>4 DEF AskInv
<1>5. CASE \E w \in Workers : \/ PullEvents(w) \/ Persist(w) \/ RefreshFailedPull(w)
                              \/ AttemptFails(w) \/ Die(w)
  BY <1>5, AskedWhenPulled, AskedWhenStored, AskedWhenFaulty
<1> QED BY <1>1, <1>2, <1>3, <1>4, <1>5 DEF Next, Work

LEMMA AskedInitially == Init => AskInv
<1>1. Cardinality({}) = 0
  BY FS_EmptySet
<1>2. ASSUME Init, NEW r \in Recordings PROVE AskedOf(r)
  <2>1. ~Held(r) /\ asked[r] = 0 /\ faults = 0
    BY <1>2 DEF Init, Held, NoRow
  <2>2. Writers(r) = {}
    BY <1>2 DEF Init, Idle, Writers
  <2> QED BY <1>1, <2>1, <2>2 DEF AskedOf
<1> QED BY <1>2 DEF AskInv

LEMMA DoneOnceInductive == Spec => [](IInv /\ ChunkInv /\ AskInv)
<1>1. Init => IInv /\ ChunkInv /\ AskInv
  BY Initially, ChunksInitially, AskedInitially
<1>2. (IInv /\ ChunkInv /\ AskInv) /\ [Next]_vars => (IInv /\ ChunkInv /\ AskInv)'
  BY StepKeeps, ChunksKept, AskedKept
<1> QED BY <1>1, <1>2, PTL DEF Spec

(* No chunk is counted in twice and no recording narrated again: a summary *)
(* is asked for at most once by each tick that was at it when it was       *)
(* written, and once more for each fault.                                  *)
THEOREM NothingIsRepeated == Spec => []NothingIsDoneOver
<1>1. ChunkInv => EachBeatOnce
  BY DEF ChunkInv, Tells, Counted, EachBeatOnce
<1>2. IInv /\ AskInv => BoughtOnce
  <2> SUFFICES ASSUME IInv, AskInv, NEW r \in Recordings
               PROVE  asked[r] <= Cardinality(Workers) + faults
    BY DEF BoughtOnce
  <2>1. /\ faults \in Nat /\ asked[r] \in Nat /\ Cardinality(Workers) \in Nat
    BY WorkersAssumption, FS_CardinalityType, BoundsAssumption DEF IInv, TypeOK
  <2>2. Holders(r) \in SUBSET Workers /\ Writers(r) \in SUBSET Workers
    BY DEF Holders, Writers
  <2>3. /\ Cardinality(Holders(r)) \in Nat /\ Cardinality(Writers(r)) \in Nat
        /\ Cardinality(Writers(r)) <= Cardinality(Workers)
    BY <2>2, Headcount
  <2> QED BY <2>1, <2>3 DEF AskInv, AskedOf
<1> QED BY <1>1, <1>2, DoneOnceInductive, PTL DEF NothingIsDoneOver
=============================================================================

--------------------------- MODULE SignatureLedger ---------------------------
(***************************************************************************)
(* What the product remembers of a finding it has said or been told to     *)
(* stop saying: the finding_signatures ledger, the dismissals rows and the *)
(* ancestry edges that carry both when a signature is derived anew         *)
(* (packages/db/src/services/signature-ledger.service.ts), and the         *)
(* suppression policy (packages/core/src/findings/suppression-policy.ts).  *)
(*                                                                         *)
(* The rows of one project.  recordDismissal and markSignatureDelivered    *)
(* resolve the signature before they write, recordAncestry reads the old   *)
(* row before it writes the new one, and nothing locks what was read, so   *)
(* each is two steps.  An edge is written once and never changes, so a     *)
(* walk along edges answers as of its last read.                           *)
(*                                                                         *)
(* A definition whose name starts with Bad is a bug the definition after   *)
(* it could have had.  No action uses one: each is put in the place of the *)
(* good definition to see that a property notices.                         *)
(***************************************************************************)
EXTENDS Integers, FiniteSets

CONSTANTS
    Signatures,
    Presses,       \* (finding, action): what a dismissal is unique by
    SigOf,         \* Presses -> Signatures: the signature stored with the finding
    Callers,       \* service calls that may be in progress at the same time
    None,
    MaxHops,       \* ANCESTRY_RESOLUTION_MAX_HOPS
    Renames,       \* bound: the <<old, new>> pairs recordAncestry is asked for
    MaxSeen        \* bound: how many sightings are recorded

ASSUME LedgerAssumption ==
    /\ IsFiniteSet(Signatures) /\ None \notin Signatures
    /\ SigOf \in [Presses -> Signatures]
    /\ MaxHops \in Nat
    /\ Renames \subseteq {e \in Signatures \X Signatures : e[1] # e[2]}
    /\ MaxSeen \in Nat

VARIABLES
    ledger,        \* finding_signatures, by signature
    edge,          \* signature_ancestry: old signature -> new signature
    dismissals,    \* dismissals: the signature each press was recorded against
    call,          \* the service calls in progress
    sightings      \* history: how often each signature itself was recorded

ledgerVars == <<ledger, edge, dismissals, call, sightings>>

\* A row exists exactly when it was seen; the instants of delivered_at and
\* dismissed_at are forgotten, a policy reads only whether they are set.
Row == [times : Nat, delivered : BOOLEAN, dismissed : BOOLEAN]
NoRow == [times |-> 0, delivered |-> FALSE, dismissed |-> FALSE]
Exists(s) == ledger[s].times > 0

NoCall == [op |-> "none"]
Call == {NoCall}
        \cup [op : {"dismiss"}, press : Presses, at : Signatures]
        \cup [op : {"deliver"}, at : Signatures]
        \cup [op : {"carry"}, from : Signatures, to : Signatures, old : Row]

(***************************************************************************)
(* Reading.                                                                *)
(***************************************************************************)

\* The signature k edges forward of s, None past the end of the chain.
Forward(s) ==
    LET walk[k \in Nat] == IF k = 0 THEN s
                           ELSE IF walk[k - 1] = None THEN None ELSE edge[walk[k - 1]]
    IN  walk

\* resolve ends at the first signature without an edge, if it comes within
\* MaxHops edges. A cycle has none, so it ends as a chain too long does.
EndsAt(s, t) == edge[t] = None /\ \E k \in 0..MaxHops : Forward(s)[k] = t

Resolvable(s) == \E t \in Signatures : EndsAt(s, t)

Resolved(s) == CHOOSE t \in Signatures : EndsAt(s, t)

\* resolveForward: what the writers of stamps work on.
ResolveForward(s) == IF Resolvable(s) THEN Resolved(s) ELSE s

\* The dismissals row consultSignature falls back on.
DismissedAt(s) == \E p \in Presses : dismissals[p] = s

IsHeld(s) == ledger[s].dismissed \/ DismissedAt(s) \/ ledger[s].delivered

\* consultSignature: in doubt, suppress.
Suppressed(s) == Resolvable(s) => IsHeld(Resolved(s))

(***************************************************************************)
(* Writing.                                                                *)
(***************************************************************************)

\* The sightings of the signatures in S, one by one.
Seen(S) == UNION {{s} \X (1 .. sightings[s]) : s \in S}

\* recordSignature: upsertSeen on the signature as computed, never forwarded.
RecordSignature(s) ==
    /\ Cardinality(Seen(Signatures)) < MaxSeen
    /\ sightings' = [sightings EXCEPT ![s] = @ + 1]
    /\ ledger' = [ledger EXCEPT ![s].times = @ + 1]
    /\ UNCHANGED <<edge, dismissals, call>>

\* recordDismissal resolves outside the transaction that writes.
BeginDismissal(c, p) ==
    /\ call[c] = NoCall
    /\ call' = [call EXCEPT ![c] = [op |-> "dismiss", press |-> p, at |-> ResolveForward(SigOf[p])]]
    /\ UNCHANGED <<ledger, edge, dismissals, sightings>>

\* A stamp keeps the instant it has and needs a row to land on.
CommitDismissal(c) ==
    LET s == call[c].at
        p == call[c].press
    IN  /\ call[c].op = "dismiss"
        /\ dismissals' = [dismissals EXCEPT ![p] = IF @ = None THEN s ELSE @]
        /\ ledger' = [ledger EXCEPT ![s].dismissed = @ \/ Exists(s)]
        /\ call' = [call EXCEPT ![c] = NoCall]
        /\ UNCHANGED <<edge, sightings>>

\* markSignatureDelivered.
BeginDelivered(c, s) ==
    /\ call[c] = NoCall
    /\ call' = [call EXCEPT ![c] = [op |-> "deliver", at |-> ResolveForward(s)]]
    /\ UNCHANGED <<ledger, edge, dismissals, sightings>>

CommitDelivered(c) ==
    LET s == call[c].at
    IN  /\ call[c].op = "deliver"
        /\ ledger' = [ledger EXCEPT ![s].delivered = @ \/ Exists(s)]
        /\ call' = [call EXCEPT ![c] = NoCall]
        /\ UNCHANGED <<edge, dismissals, sightings>>

BadClaimable(s) == \A d \in Callers : call[d].op = "carry" => call[d].from # s

\* The unique (organization, old_signature) claim: an edge that is there, or is
\* being written, is not written again.
Claimable(s) ==
    /\ edge[s] = None
    /\ \A d \in Callers : call[d].op = "carry" => call[d].from # s

\* recordAncestry claims the edge and reads the old row. A claim that meets an
\* existing edge changes nothing, and is a stutter here.
BeginCarry(c, s, t) ==
    /\ call[c] = NoCall
    /\ Claimable(s)
    /\ call' = [call EXCEPT ![c] = [op |-> "carry", from |-> s, to |-> t, old |-> ledger[s]]]
    /\ UNCHANGED <<ledger, edge, dismissals, sightings>>

BadMerged(new, old) ==
    [ times     |-> new.times + old.times,
      delivered |-> new.delivered \/ old.delivered,
      dismissed |-> new.dismissed ]

\* carryForwardValues and CARRY_FORWARD_SET.
Merged(new, old) ==
    [ times     |-> new.times + old.times,
      delivered |-> new.delivered \/ old.delivered,
      dismissed |-> new.dismissed \/ old.dismissed ]

\* carryForward writes the row it read onto the new signature, and the
\* transaction commits. With no old row there is nothing to carry.
CommitCarry(c) ==
    LET s == call[c].from
        t == call[c].to
    IN  /\ call[c].op = "carry"
        /\ edge' = [edge EXCEPT ![s] = t]
        /\ ledger' = [ledger EXCEPT ![t] = Merged(@, call[c].old)]
        /\ call' = [call EXCEPT ![c] = NoCall]
        /\ UNCHANGED <<dismissals, sightings>>

\* The process dies or the transaction rolls back.
Abort(c) ==
    /\ call[c] # NoCall
    /\ call' = [call EXCEPT ![c] = NoCall]
    /\ UNCHANGED <<ledger, edge, dismissals, sightings>>

LedgerInit ==
    /\ ledger = [s \in Signatures |-> NoRow]
    /\ edge = [s \in Signatures |-> None]
    /\ dismissals = [p \in Presses |-> None]
    /\ call = [c \in Callers |-> NoCall]
    /\ sightings = [s \in Signatures |-> 0]

Step(c) ==
    \/ \E p \in Presses : BeginDismissal(c, p)
    \/ \E s \in Signatures : BeginDelivered(c, s)
    \/ \E e \in Renames : BeginCarry(c, e[1], e[2])
    \/ CommitDismissal(c)
    \/ CommitDelivered(c)
    \/ CommitCarry(c)
    \/ Abort(c)

LedgerNext ==
    \/ \E s \in Signatures : RecordSignature(s)
    \/ \E c \in Callers : Step(c)

LedgerSpec == LedgerInit /\ [][LedgerNext]_ledgerVars

(***************************************************************************)
(* Properties.                                                             *)
(***************************************************************************)

LedgerTypeOK ==
    /\ ledger \in [Signatures -> Row]
    /\ edge \in [Signatures -> Signatures \cup {None}]
    /\ dismissals \in [Presses -> Signatures \cup {None}]
    /\ call \in [Callers -> Call]
    /\ sightings \in [Signatures -> Nat]

Carrying(c) == call[c].op = "carry"

\* An edge is being written by at most one call, and not once it is there: this
\* is what makes a retried recordAncestry a no-op instead of a second merge.
OneCarryPerEdge ==
    \A c \in Callers : Carrying(c) =>
        /\ edge[call[c].from] = None
        /\ \A d \in Callers \ {c} : Carrying(d) => call[d].from # call[c].from

\* What is recorded stays: an edge and a dismissal are written once, a stamp is
\* never taken back, and no count goes down. A retried press and a retried
\* ancestry write re-present what is there.
Grows ==
    /\ \A s \in Signatures :
          /\ edge[s] # None => edge'[s] = edge[s]
          /\ ledger[s].times <= ledger'[s].times
          /\ ledger[s].dismissed => ledger'[s].dismissed
          /\ ledger[s].delivered => ledger'[s].delivered
    /\ \A p \in Presses : dismissals[p] # None => dismissals'[p] = dismissals[p]

MemoryOnlyGrows == [][Grows]_ledgerVars

\* Descends(s, t): t is s or was derived from it, along recorded edges. It is in
\* whatever has s and, of all it has, the signatures derived from that.
Descends(s, t) ==
    \A C \in SUBSET Signatures :
        s \in C /\ (\A x \in C : edge[x] \in C \cup {None}) => t \in C

\* Suppression has a cause: a row stamped dismissed is that of a signature
\* somebody dismissed, or derives from one, however presses and carries race.
NothingIsDismissedUnasked ==
    \A t \in Signatures :
        ledger[t].dismissed =>
            \E p \in Presses : dismissals[p] # None /\ Descends(SigOf[p], t)

OnACycle(s) == edge[s] # None /\ Descends(edge[s], s)

\* times_seen loses no sighting and, whatever is retried or raced, counts none
\* twice: a row counts at least its own sightings and at most those of all the
\* signatures it descends from.
EverySightingCountsOnce ==
    \A t \in Signatures :
        /\ sightings[t] <= ledger[t].times
        /\ (\A s \in Signatures : Descends(s, t) => ~OnACycle(s)) =>
              ledger[t].times <= Cardinality(Seen({s \in Signatures : Descends(s, t)}))

\* What the ledger holds is accounted for: each edge has one writer, each stamp a
\* dismissal behind it and each count the sightings it is made of.
LedgerAddsUp ==
    LedgerTypeOK /\ OneCarryPerEdge /\ NothingIsDismissedUnasked /\ EverySightingCountsOnce

\* The snapshot a carry holds has the stamp that keeps the old signature quiet.
Stamped(r) == r.dismissed \/ r.delivered

\* The only thing that makes a suppressed signature deliverable again is an
\* ancestry edge: one whose carry did not have the stamp in hand (the dismissal
\* slipped in between its read and its write, or never found a row to stamp), or
\* one to a signature that was itself already replaced.
ForgetsOnlyThroughAnEdge ==
    [][\A s \in Signatures :
          Suppressed(s) /\ ~Suppressed(s)' =>
              \E c \in Callers :
                  /\ CommitCarry(c)
                  /\ ~Stamped(call[c].old) \/ edge[call[c].to] # None]_ledgerVars

\* The ledger remembers: nothing recorded is taken back, and what is quiet stays
\* quiet but for such an edge.
LedgerRemembers == MemoryOnlyGrows /\ ForgetsOnlyThroughAnEdge
=============================================================================

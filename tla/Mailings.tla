------------------------------ MODULE Mailings ------------------------------
(***************************************************************************)
(* What an outbox promises of each notice and each channel, whatever       *)
(* queue, lease, retry or sweep keeps it: a channel is told while the      *)
(* notice is open there, an acknowledgement comes after a telling, a       *)
(* refusal of a notice that nobody was told, and a notice that is already  *)
(* there by another hand, or left to a summary, is never told.             *)
(***************************************************************************)
EXTENDS Naturals

CONSTANTS Notices, Channels

VARIABLES
    told,     \* how often each channel was told of each notice
    fate      \* what became of it there: "open", "there", "refused", "left"

vars == <<told, fate>>

Init ==
    /\ told = [n \in Notices |-> [c \in Channels |-> 0]]
    /\ fate = [n \in Notices |-> [c \in Channels |-> "open"]]

Untold(n) == \A c \in Channels : told[n][c] = 0

Tell(n, c) ==
    /\ fate[n][c] = "open"
    /\ told' = [told EXCEPT ![n][c] = @ + 1]
    /\ UNCHANGED fate

Acknowledge(n, c) ==
    /\ fate[n][c] = "open" /\ told[n][c] > 0
    /\ fate' = [fate EXCEPT ![n][c] = "there"]
    /\ UNCHANGED told

Refuse(n, c) ==
    /\ fate[n][c] = "open" /\ Untold(n)
    /\ fate' = [fate EXCEPT ![n][c] = "refused"]
    /\ UNCHANGED told

\* Another hand has put it into the channels of C, or nobody will tell it.
SetAside(n, C) ==
    /\ Untold(n) /\ \A c \in Channels : fate[n][c] = "open"
    /\ fate' = [fate EXCEPT ![n] =
                    [c \in Channels |-> IF c \in C THEN "there" ELSE "left"]]
    /\ UNCHANGED told

\* To settle a notice changes what became of it somewhere.
Settle(n) ==
    \/ \E c \in Channels : Acknowledge(n, c) \/ Refuse(n, c) \/ SetAside(n, {c})
    \/ SetAside(n, {})

Next ==
    \E n \in Notices :
        \/ \E c \in Channels : Tell(n, c)
        \/ fate'[n] # fate[n] /\ Settle(n)

Spec == Init /\ [][Next]_vars
=============================================================================

------------------------ MODULE MCNotificationOutbox ------------------------
(* Instances of NotificationOutbox for TLC. *)
EXTENDS NotificationOutbox, TLC

Interchangeable == Permutations(Runners) \cup Permutations(Channels)
=============================================================================

---------------------------- MODULE MCShippedChanges ----------------------------
(* The values are those of the configuration. *)
EXTENDS ShippedChanges
=============================================================================

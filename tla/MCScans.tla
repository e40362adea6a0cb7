------------------------------ MODULE MCScans ------------------------------
(* An instance of Scans for TLC. *)
EXTENDS Scans
=============================================================================

------------------------------ MODULE MCLookup ------------------------------
(* The instances of MCWorkspaces, for the lookups.                         *)
EXTENDS Lookup, MCWorkspaces
=============================================================================

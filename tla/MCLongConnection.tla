-------------------------- MODULE MCLongConnection --------------------------
(* An instance of LongConnection for TLC: two configurations and one change  *)
(* from the first to the second.                                             *)
EXTENDS LongConnection

MCConfig == {"old", "new"}
=============================================================================

-------------------------- MODULE MCReviewSession --------------------------
(* Instances of ReviewSession for TLC: every thread reviews one pair. *)
EXTENDS ReviewSession

SamePair == [t \in Thread |-> "pair"]
=============================================================================

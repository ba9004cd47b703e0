------------------------------ MODULE MCOutbox ------------------------------
(* Instances of Outbox for TLC. *)
EXTENDS Outbox, TLC

CONSTANTS codex, c1

\* A Started notice, and an action that is produced more than once.
DeliveryRows == {1, 2}
DeliveryKinds == 1 :> "delivery" @@ 2 :> "stopReview"

\* For liveness: an automatic review, its engine stopped and resumed, and a row
\* of a kind that the program does not know.
LiveRows == {1, 2}
LiveKinds == 1 :> "autoReview" @@ 2 :> "delivery"

OneEngine == [r \in Row |-> codex]
=============================================================================

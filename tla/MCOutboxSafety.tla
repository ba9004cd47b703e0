--------------------------- MODULE MCOutboxSafety ---------------------------
(***************************************************************************)
(* Two pairs of actions in the outbox that one run explores side by side:  *)
(* an automatic review, blocked while its engine is stopped, with an       *)
(* explicit one, which resumes the engine from inside the worker; and the  *)
(* Started notice of a review with an action that is produced more than    *)
(* once.  The action constraint keeps a behaviour within one of the pairs. *)
(***************************************************************************)
EXTENDS Outbox, TLC

CONSTANT codex

MCRow == 1..4
MCKind ==
  1 :> "autoReview" @@ 2 :> "explicitReview" @@ 3 :> "delivery" @@ 4 :> "stopReview"
OneEngine == [r \in Row |-> codex]

\* Stops and resumes concern reviews, with one crash or one resume of the panel's;
\* what is produced again or retried and the lifecycle notices concern the others,
\* with one retry, repetition or crash.
OfReviews ==
  /\ status'[3] = "absent" /\ status'[4] = "absent" /\ review'.thread = "none"
  /\ budget'.requeue = MaxRequeue /\ budget'.replay = MaxReplay
  /\ budget'.crash = MaxCrash \/ budget'.resume = MaxResume
OfDeliveries ==
  /\ status'[1] = "absent" /\ status'[2] = "absent"
  /\ budget'.stop = MaxStop /\ budget'.resume = MaxResume
  /\ \/ budget'.crash = MaxCrash /\ budget'.replay = MaxReplay
     \/ budget'.crash = MaxCrash /\ budget'.requeue = MaxRequeue
     \/ budget'.requeue = MaxRequeue /\ budget'.replay = MaxReplay

WithinOnePair == OfReviews \/ OfDeliveries
=============================================================================

----------------------------- MODULE MCSessions -----------------------------
(***************************************************************************)
(* Codex reviews, on two small instances that one run explores side by     *)
(* side: two starts of one pair with two stops, and a review with a        *)
(* follow-up and a stop.  The instance of a behaviour is chosen at its     *)
(* start.                                                                  *)
(***************************************************************************)
EXTENDS MCReviewSession

VARIABLE part
sessionsVars == <<vars, part>>

\* The threads are interchangeable: the second is reserved after the first.
OfPair ==
  /\ \A s \in Sender : send'[s].pc = "idle"
  /\ drive'["t2"][1] # "none" => drive'["t1"][1] # "none"
OfFollowUps == drive'["t2"][1] = "none" /\ stop'["c2"].pc = "idle"

\* Of one death of the app-server and one restart of the program, one happens.
OneMishap == budget'.death + budget'.crash > 0

SessionsInit == part \in {"pair", "followups"} /\ Init

SessionsNext ==
  /\ Next /\ OneMishap /\ UNCHANGED part
  /\ IF part = "pair" THEN OfPair ELSE OfFollowUps

SessionsSpec ==
  SessionsInit /\ [][SessionsNext]_sessionsVars /\ SessionFair
=============================================================================

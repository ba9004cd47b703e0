--------------------------- MODULE DurableAction ----------------------------
(***************************************************************************)
(* What the outbox promises of an action, without the table, the worker,   *)
(* the copies it takes, the resumes or the crashes: once produced it is    *)
(* not forgotten; it is done only after it happened, and then for good; it *)
(* may be given up and revived; it may happen more than once, and even     *)
(* after it was given up, when it was on its way by then.                  *)
(***************************************************************************)
CONSTANT Action

VARIABLES
  state,    \* of each action: absent, queued, done or dead
  happened  \* actions whose effect happened at least once

durableVars == <<state, happened>>

Init == state = [a \in Action |-> "absent"] /\ happened = {}

Produce(a) ==
  /\ state[a] = "absent" /\ state' = [state EXCEPT ![a] = "queued"]
  /\ UNCHANGED happened

Happen(a) ==
  /\ state[a] \in {"queued", "dead"} /\ happened' = happened \cup {a}
  /\ UNCHANGED state

Complete(a) ==
  /\ state[a] \in {"queued", "dead"} /\ a \in happened
  /\ state' = [state EXCEPT ![a] = "done"]
  /\ UNCHANGED happened

\* Several at once: the notices of one review, the corrupt rows of one page.
GiveUp(those) ==
  /\ \A a \in those : state[a] = "queued"
  /\ state' = [a \in Action |-> IF a \in those THEN "dead" ELSE state[a]]
  /\ UNCHANGED happened

Revive(a) ==
  /\ state[a] = "dead" /\ state' = [state EXCEPT ![a] = "queued"]
  /\ UNCHANGED happened

Next ==
  \/ \E a \in Action : Produce(a) \/ Happen(a) \/ Complete(a) \/ Revive(a)
  \/ \E those \in SUBSET Action : GiveUp(those)

Spec == Init /\ [][Next]_durableVars
=============================================================================

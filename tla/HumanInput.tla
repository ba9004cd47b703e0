----------------------------- MODULE HumanInput -----------------------------
(***************************************************************************)
(* Questions that a Codex turn asks a human over two channels at once: a   *)
(* card in a conversation and a popup in Codex.  The asker (the MCP tool), *)
(* the card's callback, the commands /answer and /cancel, the user's       *)
(* replay of such a message and the sweep of overdue questions race on one *)
(* row; its conditional update decides, and the broker tells the asker.    *)
(***************************************************************************)
EXTENDS Naturals, FiniteSets

CONSTANTS
  Ask,        \* questions of one conversation
  Message,    \* messages received in it
  AskOf,      \* the question each message is about
  CommandOf,  \* "answered" or "cancelled", what each message asks for
  MaxPending, \* MAX_PENDING_PER_CONVERSATION
  MaxUpset    \* failed steps, lost askers, replays and restarts

ASSUME MessageAssumption ==
  /\ AskOf \in [Message -> Ask] /\ CommandOf \in [Message -> {"answered", "cancelled"}]
  /\ Message \cap {"codex", "card", "nobody"} = {}

VARIABLES
  row,     \* human_input_request: its status, and who made it terminal
  clock,   \* of each question: before expires_at, after it, after the deadline of the wait
  askAt,   \* where the asker is
  waiter,  \* the asker's watch channel: whether the broker has its sender, what was sent
  popup,   \* the popup of the question is open
  card,    \* the card may be seen
  result,  \* what the asker has returned
  message, \* messaging_event rows
  handler, \* the worker, and the user's replay
  page,    \* received_ids the worker goes through
  wake,    \* the permit of its Notify
  replies, \* replies to the messages that were enqueued
  upsets   \* upsets left

askVars == <<row, clock, askAt, waiter, popup, card, result>>
messageVars == <<message, handler, page, wake, replies>>
humanVars == <<askVars, messageVars, upsets>>

Terminal == {"answered", "cancelled", "expired"}
NoRow == [status |-> "none", by |-> "nobody"]
Failed == [status |-> "error", by |-> "nobody"]
By == {"codex", "card", "nobody"} \cup Message
AskRow == [status : {"none", "pending", "error"} \cup Terminal, by : By]
Handler == {"worker", "replay"}
NoMessage == "none"

HumanInit ==
  /\ row = [a \in Ask |-> NoRow] /\ clock = [a \in Ask |-> "early"]
  /\ askAt = [a \in Ask |-> "new"] /\ waiter = [a \in Ask |-> [open |-> FALSE, heard |-> NoRow]]
  /\ popup = [a \in Ask |-> FALSE] /\ card = [a \in Ask |-> FALSE]
  /\ result = [a \in Ask |-> NoRow]
  /\ message = [m \in Message |-> "none"]
  /\ handler = [h \in Handler |-> [at |-> "idle", message |-> NoMessage, won |-> FALSE]]
  /\ page = {} /\ wake = FALSE /\ replies = {} /\ upsets = MaxUpset

Upset == upsets > 0 /\ upsets' = upsets - 1
AskStep(a, from, to) == askAt[a] \in from /\ askAt' = [askAt EXCEPT ![a] = to]
Pending == {a \in Ask : row[a].status = "pending"}

-----------------------------------------------------------------------------
(* The row and the broker.                                                 *)

\* HumanInputBroker::publish takes the sender out.
Publish(new, a) ==
  waiter' = IF waiter[a].open THEN [waiter EXCEPT ![a] = [open |-> FALSE, heard |-> new]]
            ELSE waiter

\* A conditional update, and the news of it if it changed the row.
Decide(a, allowed, status, by) ==
  LET new == [status |-> status, by |-> by] IN
  IF allowed THEN row' = [row EXCEPT ![a] = new] /\ Publish(new, a)
  ELSE UNCHANGED <<row, waiter>>

\* Mutant: the update looks only at expires_at.
AnswerableLast(a) == row[a].status # "none" /\ clock[a] = "early"

\* human_input::answer: pending, and expires_at is not past; the rest of the
\* updates look at the status alone.
Answerable(a) == row[a].status = "pending" /\ clock[a] = "early"
IsPending(a) == row[a].status = "pending"

-----------------------------------------------------------------------------
(* ask_via_messaging.  Nobody knows the id of the question before its card *)
(* is out, so that to create and to subscribe are one step.                *)

AskHuman(a) ==
  /\ askAt[a] = "new"
  /\ IF Cardinality(Pending) < MaxPending
     THEN /\ row' = [row EXCEPT ![a].status = "pending"]
          /\ waiter' = [waiter EXCEPT ![a].open = TRUE]
          /\ AskStep(a, {"new"}, "sending") /\ UNCHANGED result
     ELSE AskStep(a, {"new"}, "over") /\ result' = [result EXCEPT ![a] = Failed]
                                      /\ UNCHANGED <<row, waiter>>
  /\ UNCHANGED <<clock, popup, card, messageVars, upsets>>

CardOut(a) ==
  /\ askAt[a] = "sending" /\ ~card[a] /\ card' = [card EXCEPT ![a] = TRUE]
  /\ UNCHANGED <<row, clock, askAt, waiter, popup, result, messageVars, upsets>>

\* The provider refuses, or its answer is lost: the question is cancelled.
CardFails(a) ==
  /\ Upset /\ AskStep(a, {"sending"}, "over")
  /\ Decide(a, IsPending(a), "cancelled", "nobody")
  /\ result' = [result EXCEPT ![a] = Failed]
  /\ UNCHANGED <<clock, popup, card, messageVars>>

\* set_card_message_id; only now the deadline is set.  Then the popup, unless Codex
\* has none or refuses it.
CardSent(a) ==
  /\ card[a]
  /\ \E both \in BOOLEAN :
       /\ AskStep(a, {"sending"}, IF both THEN "both" ELSE "channel")
       /\ popup' = [popup EXCEPT ![a] = both]
  /\ UNCHANGED <<row, clock, waiter, card, result, messageVars, upsets>>

\* set_card_message_id fails: an error, and the question stays pending.
CardIdLost(a) ==
  /\ card[a] /\ Upset /\ AskStep(a, {"sending"}, "over")
  /\ result' = [result EXCEPT ![a] = Failed]
  /\ UNCHANGED <<row, clock, waiter, popup, card, messageVars>>

\* wait_with_elicitation and wait_channel_only: the news came first.
HearWinner(a) ==
  /\ waiter[a].heard # NoRow /\ AskStep(a, {"both", "channel"}, "over")
  /\ result' = [result EXCEPT ![a] = waiter[a].heard]
  /\ popup' = [popup EXCEPT ![a] = FALSE]
  /\ UNCHANGED <<row, clock, waiter, card, messageVars, upsets>>

\* Declined, cancelled, failed or timed out, or an answer that is not valid.
PopupDismissed(a) ==
  /\ popup[a] /\ AskStep(a, {"both"}, "channel") /\ popup' = [popup EXCEPT ![a] = FALSE]
  /\ UNCHANGED <<row, clock, waiter, card, result, messageVars, upsets>>

\* accept_codex_or_wait_channel: won or not, the row is read again.
PopupAccepted(a) ==
  /\ popup[a] /\ AskStep(a, {"both"}, "reading") /\ popup' = [popup EXCEPT ![a] = FALSE]
  /\ Decide(a, Answerable(a), "answered", "codex")
  /\ UNCHANGED <<clock, card, result, messageVars, upsets>>

\* expire_request
Deadline(a) ==
  /\ clock[a] = "deadline" /\ AskStep(a, {"both", "channel"}, "reading")
  /\ popup' = [popup EXCEPT ![a] = FALSE]
  /\ Decide(a, IsPending(a), "expired", "nobody")
  /\ UNCHANGED <<clock, card, result, messageVars, upsets>>

\* current_request
ReadBack(a) ==
  /\ AskStep(a, {"reading"}, "over") /\ result' = [result EXCEPT ![a] = row[a]]
  /\ UNCHANGED <<row, clock, waiter, popup, card, messageVars, upsets>>

\* The client of the tool goes away.
AskerGone(a) ==
  /\ Upset /\ AskStep(a, {"sending", "both", "channel"}, "gone")
  /\ popup' = [popup EXCEPT ![a] = FALSE]
  /\ UNCHANGED <<row, clock, waiter, card, result, messageVars>>

\* expires_at is set before the card is sent, the deadline of the wait after it.
Time(a) ==
  /\ row[a].status # "none"
  /\ \/ clock[a] = "early" /\ clock' = [clock EXCEPT ![a] = "late"]
     \/ clock[a] = "late" /\ askAt[a] \in {"both", "channel"}
        /\ clock' = [clock EXCEPT ![a] = "deadline"]
  /\ UNCHANGED <<row, askAt, waiter, popup, card, result, messageVars, upsets>>

\* expire_due, every 30 seconds.
ExpireDue(a) ==
  /\ IsPending(a) /\ clock[a] # "early" /\ Decide(a, TRUE, "expired", "nobody")
  /\ UNCHANGED <<clock, askAt, popup, card, result, messageVars, upsets>>

-----------------------------------------------------------------------------
(* The card and the messages.                                              *)

\* handle_card, on_card_callback: the answer, or (Feishu) the cancel button.
PressCard(a) ==
  /\ card[a]
  /\ \/ Decide(a, Answerable(a), "answered", "card")
     \/ Decide(a, IsPending(a), "cancelled", "card")
  /\ UNCHANGED <<clock, askAt, popup, card, result, messageVars, upsets>>

\* persist_verified_long_connection_event: insert_dedup, then wake.
Receive(m) ==
  /\ message[m] = "none" /\ card[AskOf[m]]
  /\ message' = [message EXCEPT ![m] = "received"] /\ wake' = TRUE
  /\ UNCHANGED <<askVars, handler, page, replies, upsets>>

Took(h, m) == handler' = [handler EXCEPT ![h] = [at |-> "execute", message |-> m, won |-> FALSE]]

\* drain_received reads a page of ids, until there is none, and then waits.
Drain ==
  /\ handler["worker"].at = "idle" /\ page = {} /\ wake
  /\ page' = {m \in Message : message[m] = "received"}
  /\ wake' = (page' # {})
  /\ UNCHANGED <<askVars, message, handler, replies, upsets>>

\* get_entry: an event of the page is processed whatever its status is by now.
TakeFromPage(m) ==
  /\ handler["worker"].at = "idle" /\ m \in page
  /\ page' = page \ {m} /\ Took("worker", m)
  /\ UNCHANGED <<askVars, message, wake, replies, upsets>>

\* replay of a received or failed event, which the worker may be processing.
Replay(m) ==
  /\ Upset /\ handler["replay"].at = "idle" /\ message[m] \in {"received", "failed"}
  /\ Took("replay", m)
  /\ UNCHANGED <<askVars, message, page, wake, replies>>

\* process_event: /answer or /cancel.
Execute(h) ==
  LET m == handler[h].message
      a == AskOf[m]
      won == IF CommandOf[m] = "answered" THEN Answerable(a) ELSE IsPending(a) IN
  /\ handler[h].at = "execute"
  /\ Decide(a, won, CommandOf[m], m)
  /\ handler' = [handler EXCEPT ![h] = [@ EXCEPT !.at = "reply", !.won = won]]
  /\ UNCHANGED <<clock, askAt, popup, card, result, message, page, wake, replies, upsets>>

\* enqueue_reply and mark_processed_with_reply; its key is the event's, so while the
\* reply of another run of the event is not sent yet it is that one.
Reply(h) ==
  LET m == handler[h].message IN
  /\ handler[h].at = "reply"
  /\ \/ replies' = replies \cup {[message |-> m, won |-> handler[h].won]}
     \/ (\E r \in replies : r.message = m) /\ UNCHANGED replies
  /\ message' = [message EXCEPT ![m] = "processed"]
  /\ handler' = [handler EXCEPT ![h].at = "idle"]
  /\ UNCHANGED <<askVars, page, wake, upsets>>

\* The command or its reply fails: mark_failed, whatever the status was.
ExecuteFails(h) ==
  /\ Upset /\ handler[h].at \in {"execute", "reply"}
  /\ message' = [message EXCEPT ![handler[h].message] = "failed"]
  /\ handler' = [handler EXCEPT ![h].at = "idle"]
  /\ UNCHANGED <<askVars, page, wake, replies>>

\* A restart: the askers and the broker are gone, reconcile_startup_orphans cancels
\* what they asked, and the worker begins with a drain.
HumanRestart ==
  /\ Upset
  /\ row' = [a \in Ask |-> IF IsPending(a) THEN [status |-> "cancelled", by |-> "nobody"]
                           ELSE row[a]]
  /\ askAt' = [a \in Ask |-> IF askAt[a] \in {"new", "over"} THEN askAt[a] ELSE "gone"]
  /\ waiter' = [a \in Ask |-> [open |-> FALSE, heard |-> NoRow]]
  /\ popup' = [a \in Ask |-> FALSE]
  /\ handler' = [h \in Handler |-> [handler[h] EXCEPT !.at = "idle"]]
  /\ page' = {} /\ wake' = TRUE
  /\ UNCHANGED <<clock, card, result, message, replies>>

HumanNext ==
  \/ \E a \in Ask :
       \/ AskHuman(a) \/ CardOut(a) \/ CardFails(a) \/ CardSent(a) \/ CardIdLost(a)
       \/ HearWinner(a) \/ PopupDismissed(a) \/ PopupAccepted(a) \/ Deadline(a) \/ ReadBack(a)
       \/ AskerGone(a) \/ Time(a) \/ ExpireDue(a) \/ PressCard(a)
  \/ \E m \in Message : Receive(m) \/ TakeFromPage(m) \/ Replay(m)
  \/ \E h \in Handler : Execute(h) \/ Reply(h) \/ ExecuteFails(h)
  \/ Drain \/ HumanRestart

HumanSpec == HumanInit /\ [][HumanNext]_humanVars

-----------------------------------------------------------------------------
HumanTypeOK ==
  /\ row \in [Ask -> AskRow] /\ clock \in [Ask -> {"early", "late", "deadline"}]
  /\ askAt \in [Ask -> {"new", "sending", "both", "channel", "reading", "over", "gone"}]
  /\ waiter \in [Ask -> [open : BOOLEAN, heard : AskRow]]
  /\ popup \in [Ask -> BOOLEAN] /\ card \in [Ask -> BOOLEAN] /\ result \in [Ask -> AskRow]
  /\ message \in [Message -> {"none", "received", "processed", "failed"}]
  /\ handler \in [Handler -> [at : {"idle", "execute", "reply"},
                              message : Message \cup {NoMessage}, won : BOOLEAN]]
  /\ page \subseteq Message /\ wake \in BOOLEAN
  /\ replies \subseteq [message : Message, won : BOOLEAN]

\* There is one winner and all are told of the same: an asker that returns a terminal
\* question returns it as it is for good, and who is told that his message decided is
\* the one who did, however popup, card, commands, replays, the sweep, the deadline
\* and restarts interleave (module doc of human_input.rs).
OneWinner ==
  /\ \A a \in Ask : result[a].status \in Terminal => result[a] = row[a]
  /\ \A r \in replies : r.won => row[AskOf[r.message]].by = r.message
=============================================================================

----------------------------- MODULE EdgeProofs -----------------------------
(***************************************************************************)
(* Proofs about the edges of the program: questions over two channels, a   *)
(* long connection, the webhook receiver, the web terminal and remote      *)
(* access.  They share no state, so each part has an invariant of its own. *)
(***************************************************************************)
EXTENDS HumanInput, LongConnection, Receiver, WebPty, Remote, FiniteSetTheorems,
        SequenceTheorems, TLAPS

-----------------------------------------------------------------------------
(***************************************************************************)
(* Proofs about the questions asked over two channels, for any set of      *)
(* questions and messages.  That all are told of one winner rests on a row *)
(* that is decided once: a terminal row never changes.                     *)
(***************************************************************************)

\* Message m decided its question.
WonBy(m) == row[AskOf[m]].status \in Terminal /\ row[AskOf[m]].by = m

\* A question that has not been asked has no row.
NewHasNoRow == \A a \in Ask : askAt[a] = "new" => row[a].status = "none"

\* What the broker told, and what the asker returned, is the row if it is terminal.
HeardIsRow ==
  \A a \in Ask : waiter[a].heard.status \in Terminal => waiter[a].heard = row[a]
ResultIsRow == \A a \in Ask : result[a].status \in Terminal => result[a] = row[a]

\* A handler at work has a message, and if it won, so did the message.
HandlersKnow ==
  \A h \in Handler :
    /\ handler[h].at # "idle" => handler[h].message \in Message
    /\ handler[h].at = "reply" /\ handler[h].won => WonBy(handler[h].message)

RepliesAreTrue == \A r \in replies : r.won => WonBy(r.message)

HumanInv ==
  HumanTypeOK /\ NewHasNoRow /\ HeardIsRow /\ ResultIsRow /\ HandlersKnow /\ RepliesAreTrue

\* What a step may do to the rows and to the waiters.
RowsStay == \A a \in Ask : row[a].status \in Terminal => row'[a] = row[a]
NoneStays == \A a \in Ask : row[a].status = "none" => row'[a].status = "none"
RowTyped == row' \in [Ask -> AskRow] /\ waiter' \in [Ask -> [open : BOOLEAN, heard : AskRow]]

LEMMA HumanInitInv == HumanInit => HumanInv
<1> SUFFICES ASSUME HumanInit PROVE HumanInv
  OBVIOUS
<1>1. HumanTypeOK
  BY DEF HumanInit, HumanTypeOK, NoRow, AskRow, By, Terminal, Handler
<1>2. NewHasNoRow /\ HeardIsRow /\ ResultIsRow
  BY DEF HumanInit, NewHasNoRow, HeardIsRow, ResultIsRow, NoRow, Terminal
<1>3. HandlersKnow /\ RepliesAreTrue
  BY DEF HumanInit, HandlersKnow, RepliesAreTrue
<1>4. QED
  BY <1>1, <1>2, <1>3 DEF HumanInv

\* A conditional update that looks for pending decides a question once, and what it tells
\* the asker is what it wrote.
LEMMA DecideOnce ==
  ASSUME HumanInv, NEW a \in Ask, NEW allowed \in BOOLEAN, allowed => IsPending(a),
         NEW s \in Terminal, NEW by \in By, Decide(a, allowed, s, by)
  PROVE  /\ RowTyped /\ RowsStay /\ NoneStays /\ HeardIsRow'
         /\ allowed => row'[a] = [status |-> s, by |-> by]
<1> DEFINE new == [status |-> s, by |-> by]
<1>1. new \in AskRow /\ new.status = s
  BY DEF AskRow
<1> HIDE DEF new
<1>2. CASE ~allowed
  <2>1. row' = row /\ waiter' = waiter
    BY <1>2 DEF Decide
  <2>2. QED
    BY <1>2, <2>1 DEF HumanInv, HumanTypeOK, RowTyped, RowsStay, NoneStays, HeardIsRow
<1>3. CASE allowed
  <2>1. row' = [row EXCEPT ![a] = new] /\ row[a].status = "pending"
    BY <1>3 DEF Decide, IsPending, new
  <2>2. waiter' = IF waiter[a].open
                  THEN [waiter EXCEPT ![a] = [open |-> FALSE, heard |-> new]] ELSE waiter
    BY <1>3 DEF Decide, Publish, new
  <2>3. row \in [Ask -> AskRow] /\ waiter \in [Ask -> [open : BOOLEAN, heard : AskRow]]
    BY DEF HumanInv, HumanTypeOK
  <2>4. [open |-> FALSE, heard |-> new] \in [open : BOOLEAN, heard : AskRow]
    BY <1>1
  <2>5. RowTyped
    BY <1>1, <2>1, <2>2, <2>3, <2>4 DEF RowTyped
  <2>6. RowsStay /\ NoneStays
    BY <2>1, <2>3 DEF RowsStay, NoneStays, Terminal
  <2>7. HeardIsRow'
    BY <1>1, <2>1, <2>2, <2>3 DEF HeardIsRow, HumanInv, Terminal
  <2>8. row'[a] = new
    BY <2>1, <2>3
  <2>9. QED
    BY <2>5, <2>6, <2>7, <2>8 DEF new
<1>4. QED
  BY <1>2, <1>3

\* Decided rows keep what was known of them.
LEMMA WinnersStay ==
  ASSUME HumanInv, RowsStay, UNCHANGED <<handler, replies>>
  PROVE  HandlersKnow' /\ RepliesAreTrue'
<1>1. \A m \in Message : WonBy(m) => WonBy(m)'
  BY MessageAssumption DEF WonBy, RowsStay
<1>2. \A r \in replies : r.message \in Message
  BY DEF HumanInv, HumanTypeOK
<1>3. QED
  BY <1>1, <1>2 DEF HumanInv, HandlersKnow, RepliesAreTrue

\* The asker and what happens to its question.
LEMMA AskInv ==
  ASSUME HumanInv, NEW a \in Ask,
         \/ AskHuman(a) \/ CardOut(a) \/ CardFails(a) \/ CardSent(a) \/ CardIdLost(a)
         \/ HearWinner(a) \/ PopupDismissed(a) \/ PopupAccepted(a) \/ Deadline(a) \/ ReadBack(a)
         \/ AskerGone(a) \/ Time(a) \/ ExpireDue(a) \/ PressCard(a)
  PROVE  HumanInv'
<1>1. UNCHANGED messageVars
  BY DEF AskHuman, CardOut, CardFails, CardSent, CardIdLost, HearWinner, PopupDismissed,
         PopupAccepted, Deadline, ReadBack, AskerGone, Time, ExpireDue, PressCard
<1>2. /\ RowTyped /\ RowsStay /\ HeardIsRow'
      /\ \A b \in Ask : askAt'[b] = "new" /\ row[b].status = "none" => row'[b].status = "none"
  <2>1. CASE AskHuman(a)
    <3>1. /\ row \in [Ask -> AskRow] /\ waiter \in [Ask -> [open : BOOLEAN, heard : AskRow]]
          /\ askAt \in [Ask -> {"new", "sending", "both", "channel", "reading", "over", "gone"}]
          /\ row[a].status = "none" /\ askAt'[a] # "new"
      BY <2>1 DEF HumanInv, HumanTypeOK, AskHuman, NewHasNoRow, AskStep
    <3>2. CASE Cardinality(Pending) < MaxPending
      <4>1. /\ row' = [row EXCEPT ![a].status = "pending"]
            /\ waiter' = [waiter EXCEPT ![a].open = TRUE]
        BY <2>1, <3>2 DEF AskHuman
      <4>2. RowTyped
        BY <3>1, <4>1 DEF RowTyped, AskRow
      <4>3. RowsStay /\ HeardIsRow'
        BY <3>1, <4>1 DEF RowsStay, HeardIsRow, HumanInv, Terminal
      <4>4. QED
        BY <3>1, <4>1, <4>2, <4>3
    <3>3. CASE ~(Cardinality(Pending) < MaxPending)
      BY <2>1, <3>1, <3>3 DEF AskHuman, RowTyped, RowsStay, HeardIsRow, HumanInv
    <3>4. QED
      BY <3>2, <3>3
  <2>2. CASE UNCHANGED <<row, waiter>>
    BY <2>2 DEF HumanInv, HumanTypeOK, RowTyped, RowsStay, HeardIsRow
  <2>3. ASSUME NEW allowed \in BOOLEAN, NEW s \in Terminal, NEW by \in By,
               allowed => IsPending(a), Decide(a, allowed, s, by)
        PROVE  RowTyped /\ RowsStay /\ NoneStays /\ HeardIsRow'
    BY <2>3, DecideOnce
  <2>4. "answered" \in Terminal /\ "cancelled" \in Terminal /\ "expired" \in Terminal
        /\ "nobody" \in By /\ "codex" \in By /\ "card" \in By
        /\ Answerable(a) \in BOOLEAN /\ IsPending(a) \in BOOLEAN
        /\ (Answerable(a) => IsPending(a))
    BY DEF Terminal, By, Answerable, IsPending
  <2>5. CASE CardFails(a)
    BY <2>3, <2>4, <2>5 DEF CardFails, NoneStays
  <2>6. CASE PopupAccepted(a)
    BY <2>3, <2>4, <2>6 DEF PopupAccepted, NoneStays
  <2>7. CASE Deadline(a)
    BY <2>3, <2>4, <2>7 DEF Deadline, NoneStays
  <2>8. CASE ExpireDue(a)
    BY <2>3, <2>4, <2>8 DEF ExpireDue, NoneStays
  <2>9. CASE PressCard(a)
    BY <2>3, <2>4, <2>9 DEF PressCard, NoneStays
  <2>10. QED
    BY <2>1, <2>2, <2>5, <2>6, <2>7, <2>8, <2>9
    DEF CardOut, CardSent, CardIdLost, HearWinner, PopupDismissed, ReadBack, AskerGone, Time
<1>3. /\ askAt' \in [Ask -> {"new", "sending", "both", "channel", "reading", "over", "gone"}]
      /\ \A b \in Ask : askAt'[b] = "new" => askAt[b] = "new"
  BY DEF HumanInv, HumanTypeOK, AskStep, AskHuman, CardOut, CardFails, CardSent, CardIdLost,
         HearWinner, PopupDismissed, PopupAccepted, Deadline, ReadBack, AskerGone, Time,
         ExpireDue, PressCard
<1>4. /\ popup' \in [Ask -> BOOLEAN] /\ card' \in [Ask -> BOOLEAN]
      /\ clock' \in [Ask -> {"early", "late", "deadline"}]
  BY DEF HumanInv, HumanTypeOK, AskHuman, CardOut, CardFails, CardSent, CardIdLost,
         HearWinner, PopupDismissed, PopupAccepted, Deadline, ReadBack, AskerGone, Time,
         ExpireDue, PressCard
<1>5. result' \in [Ask -> AskRow] /\ ResultIsRow'
  <2>1. result \in [Ask -> AskRow] /\ row \in [Ask -> AskRow] /\ Failed \in AskRow
        /\ waiter[a].heard \in AskRow /\ Failed.status \notin Terminal
    BY DEF HumanInv, HumanTypeOK, Failed, AskRow, By, Terminal
  <2>2. \/ result' = result
        \/ result' = [result EXCEPT ![a] = Failed]
        \/ result' = [result EXCEPT ![a] = waiter[a].heard] /\ UNCHANGED row
        \/ result' = [result EXCEPT ![a] = row[a]] /\ UNCHANGED row
    BY DEF AskHuman, CardOut, CardFails, CardSent, CardIdLost, HearWinner, PopupDismissed,
           PopupAccepted, Deadline, ReadBack, AskerGone, Time, ExpireDue, PressCard
  <2>3. QED
    BY <1>2, <2>1, <2>2 DEF HumanInv, ResultIsRow, HeardIsRow, RowsStay
<1>6. HumanTypeOK'
  BY <1>1, <1>2, <1>3, <1>4, <1>5 DEF HumanInv, HumanTypeOK, RowTyped, messageVars
<1>7. NewHasNoRow'
  BY <1>2, <1>3 DEF HumanInv, NewHasNoRow
<1>8. HandlersKnow' /\ RepliesAreTrue'
  BY <1>1, <1>2, WinnersStay DEF messageVars
<1>9. QED
  BY <1>2, <1>5, <1>6, <1>7, <1>8 DEF HumanInv

\* The messages, and who goes through them.
LEMMA MessageInv ==
  ASSUME HumanInv, NEW m \in Message, Receive(m) \/ TakeFromPage(m) \/ Replay(m) \/ Drain
  PROVE  HumanInv'
<1>1. UNCHANGED <<askVars, replies>>
  BY DEF Receive, TakeFromPage, Replay, Drain
<1>2. /\ handler' \in [Handler -> [at : {"idle", "execute", "reply"},
                                   message : Message \cup {NoMessage}, won : BOOLEAN]]
      /\ \A h \in Handler :
           handler'[h] = handler[h] \/ handler'[h] = [at |-> "execute", message |-> m, won |-> FALSE]
  <2> DEFINE began == [at |-> "execute", message |-> m, won |-> FALSE]
             Work == [at : {"idle", "execute", "reply"}, message : Message \cup {NoMessage},
                      won : BOOLEAN]
  <2>1. \/ handler' = handler
        \/ \E k \in Handler : handler' = [handler EXCEPT ![k] = began]
    BY DEF Receive, TakeFromPage, Replay, Drain, Took, Handler
  <2>2. handler \in [Handler -> Work] /\ began \in Work
    BY DEF HumanInv, HumanTypeOK
  <2> HIDE DEF began, Work
  <2>3. handler' \in [Handler -> Work]
        /\ \A h \in Handler : handler'[h] = handler[h] \/ handler'[h] = began
    BY <2>1, <2>2
  <2>4. QED
    BY <2>3 DEF began, Work
<1>3. /\ message' \in [Message -> {"none", "received", "processed", "failed"}]
      /\ page' \subseteq Message /\ wake' \in BOOLEAN
  BY DEF HumanInv, HumanTypeOK, Receive, TakeFromPage, Replay, Drain
<1>4. HumanTypeOK'
  BY <1>1, <1>2, <1>3 DEF HumanInv, HumanTypeOK, askVars
<1>5. NewHasNoRow' /\ HeardIsRow' /\ ResultIsRow'
  BY <1>1 DEF HumanInv, NewHasNoRow, HeardIsRow, ResultIsRow, askVars
<1>6. \A n \in Message : WonBy(n)' = WonBy(n)
  BY <1>1 DEF WonBy, askVars
<1>7. HandlersKnow'
  BY <1>2, <1>6 DEF HumanInv, HandlersKnow
<1>8. RepliesAreTrue'
  BY <1>1, <1>6 DEF HumanInv, HumanTypeOK, RepliesAreTrue
<1>9. QED
  BY <1>4, <1>5, <1>7, <1>8 DEF HumanInv

\* A handler carries out its message and answers it.
LEMMA HandlerInv ==
  ASSUME HumanInv, NEW h \in Handler, Execute(h) \/ Reply(h) \/ ExecuteFails(h)
  PROVE  HumanInv'
<1>1. PICK m \in Message : m = handler[h].message
  BY DEF HumanInv, HandlersKnow, Execute, Reply, ExecuteFails
<1>2. handler \in [Handler -> [at : {"idle", "execute", "reply"},
                               message : Message \cup {NoMessage}, won : BOOLEAN]]
  BY DEF HumanInv, HumanTypeOK
<1>3. CASE Execute(h)
  <2> DEFINE won == IF CommandOf[m] = "answered" THEN Answerable(AskOf[m]) ELSE IsPending(AskOf[m])
  <2>1. /\ won \in BOOLEAN /\ (won => IsPending(AskOf[m]))
        /\ AskOf[m] \in Ask /\ CommandOf[m] \in Terminal /\ m \in By
    BY <1>1, MessageAssumption DEF Answerable, IsPending, Terminal, By
  <2>2. /\ Decide(AskOf[m], won, CommandOf[m], m)
        /\ handler' = [handler EXCEPT ![h] = [@ EXCEPT !.at = "reply", !.won = won]]
        /\ UNCHANGED <<clock, askAt, popup, card, result, message, page, wake, replies>>
    BY <1>1, <1>3 DEF Execute
  <2> HIDE DEF won
  <2>3. /\ RowTyped /\ RowsStay /\ NoneStays /\ HeardIsRow'
        /\ won => row'[AskOf[m]] = [status |-> CommandOf[m], by |-> m]
    BY <2>1, <2>2, DecideOnce
  <2>4. /\ handler' \in [Handler -> [at : {"idle", "execute", "reply"},
                                     message : Message \cup {NoMessage}, won : BOOLEAN]]
        /\ handler'[h].at = "reply" /\ handler'[h].won = won /\ handler'[h].message = m
        /\ \A g \in Handler : g # h => handler'[g] = handler[g]
    BY <1>1, <1>2, <2>1, <2>2
  <2>5. HumanTypeOK'
    BY <2>2, <2>3, <2>4 DEF HumanInv, HumanTypeOK, RowTyped
  <2>6. NewHasNoRow' /\ ResultIsRow'
    BY <2>2, <2>3 DEF HumanInv, NewHasNoRow, ResultIsRow, RowsStay, NoneStays
  <2>7. \A n \in Message : WonBy(n) => WonBy(n)'
    BY <2>3, MessageAssumption DEF WonBy, RowsStay
  <2>8. won => WonBy(m)'
    BY <2>1, <2>3 DEF WonBy
  <2>9. HandlersKnow'
    BY <1>1, <2>4, <2>7, <2>8 DEF HumanInv, HandlersKnow
  <2>10. RepliesAreTrue'
    BY <2>2, <2>7 DEF HumanInv, HumanTypeOK, RepliesAreTrue
  <2>11. QED
    BY <2>3, <2>5, <2>6, <2>9, <2>10 DEF HumanInv
<1>4. CASE Reply(h) \/ ExecuteFails(h)
  <2>1. /\ UNCHANGED <<askVars, page, wake>>
        /\ handler' = [handler EXCEPT ![h].at = "idle"]
    BY <1>4 DEF Reply, ExecuteFails
  <2>2. message' \in [Message -> {"none", "received", "processed", "failed"}]
    BY <1>1, <1>4 DEF HumanInv, HumanTypeOK, Reply, ExecuteFails
  <2>3. /\ handler' \in [Handler -> [at : {"idle", "execute", "reply"},
                                     message : Message \cup {NoMessage}, won : BOOLEAN]]
        /\ handler'[h].at = "idle" /\ \A g \in Handler : g # h => handler'[g] = handler[g]
    BY <1>2, <2>1
  <2>4. \A n \in Message : WonBy(n)' = WonBy(n)
    BY <2>1 DEF WonBy, askVars
  <2>5. \A r \in replies' :
          r \in [message : Message, won : BOOLEAN] /\ (r.won => WonBy(r.message))
    <3>1. \A r \in replies :
            r \in [message : Message, won : BOOLEAN] /\ (r.won => WonBy(r.message))
      BY DEF HumanInv, HumanTypeOK, RepliesAreTrue
    <3>2. [message |-> m, won |-> handler[h].won] \in [message : Message, won : BOOLEAN]
      BY <1>1, <1>2
    <3>3. CASE replies' = replies
      BY <3>1, <3>3
    <3>4. CASE replies' = replies \cup {[message |-> m, won |-> handler[h].won]}
               /\ handler[h].at = "reply"
      BY <1>1, <3>1, <3>2, <3>4 DEF HumanInv, HandlersKnow
    <3>5. QED
      BY <1>1, <1>4, <3>3, <3>4 DEF Reply, ExecuteFails
  <2>6. HumanTypeOK'
    BY <2>1, <2>2, <2>3, <2>5 DEF HumanInv, HumanTypeOK, askVars
  <2>7. NewHasNoRow' /\ HeardIsRow' /\ ResultIsRow'
    BY <2>1 DEF HumanInv, NewHasNoRow, HeardIsRow, ResultIsRow, askVars
  <2>8. HandlersKnow'
    BY <2>3, <2>4 DEF HumanInv, HandlersKnow
  <2>9. RepliesAreTrue'
    BY <2>4, <2>5 DEF RepliesAreTrue
  <2>10. QED
    BY <2>6, <2>7, <2>8, <2>9 DEF HumanInv
<1>5. QED
  BY <1>3, <1>4

\* A restart cancels what is pending and forgets who waited.
LEMMA RestartInv ==
  ASSUME HumanInv, HumanRestart
  PROVE  HumanInv'
<1>1. [status |-> "cancelled", by |-> "nobody"] \in AskRow /\ NoRow \in AskRow
      /\ NoRow.status \notin Terminal
  BY DEF AskRow, By, NoRow, Terminal
<1>2. row' \in [Ask -> AskRow] /\ RowsStay /\ NoneStays
  BY <1>1 DEF HumanInv, HumanTypeOK, HumanRestart, IsPending, RowsStay, NoneStays, Terminal
<1>3. waiter' \in [Ask -> [open : BOOLEAN, heard : AskRow]] /\ HeardIsRow'
  BY <1>1 DEF HumanRestart, HeardIsRow
<1>4. /\ askAt' \in [Ask -> {"new", "sending", "both", "channel", "reading", "over", "gone"}]
      /\ \A b \in Ask : askAt'[b] = "new" => askAt[b] = "new"
      /\ popup' \in [Ask -> BOOLEAN]
  BY DEF HumanInv, HumanTypeOK, HumanRestart
<1>5. /\ handler' \in [Handler -> [at : {"idle", "execute", "reply"},
                                   message : Message \cup {NoMessage}, won : BOOLEAN]]
      /\ \A h \in Handler : handler'[h].at = "idle"
  <2>1. handler' = [h \in Handler |-> [handler[h] EXCEPT !.at = "idle"]]
    BY DEF HumanRestart
  <2>2. ASSUME NEW h \in Handler
        PROVE  /\ [handler[h] EXCEPT !.at = "idle"] \in
                    [at : {"idle", "execute", "reply"},
                     message : Message \cup {NoMessage}, won : BOOLEAN]
               /\ [handler[h] EXCEPT !.at = "idle"].at = "idle"
    BY DEF HumanInv, HumanTypeOK
  <2> QED BY <2>1, <2>2
<1>6. HumanTypeOK'
  BY <1>2, <1>3, <1>4, <1>5 DEF HumanInv, HumanTypeOK, HumanRestart
<1>7. NewHasNoRow' /\ ResultIsRow'
  BY <1>2, <1>4 DEF HumanInv, HumanRestart, NewHasNoRow, ResultIsRow, RowsStay, NoneStays
<1>8. HandlersKnow'
  BY <1>5 DEF HandlersKnow
<1>9. RepliesAreTrue'
  BY <1>2, MessageAssumption DEF HumanInv, HumanTypeOK, HumanRestart, RepliesAreTrue, WonBy, RowsStay
<1>10. QED
  BY <1>3, <1>6, <1>7, <1>8, <1>9 DEF HumanInv

LEMMA HumanStepInv == HumanInv /\ [HumanNext]_humanVars => HumanInv'
<1> SUFFICES ASSUME HumanInv, [HumanNext]_humanVars PROVE HumanInv'
  OBVIOUS
<1>1. CASE Drain
  <2>1. CASE Message = {}
    BY <1>1, <2>1
    DEF HumanInv, HumanTypeOK, NewHasNoRow, HeardIsRow, ResultIsRow, HandlersKnow,
        RepliesAreTrue, WonBy, Drain, askVars
  <2>2. CASE Message # {}
    BY <1>1, <2>2, MessageInv
  <2>3. QED
    BY <2>1, <2>2
<1>2. CASE UNCHANGED humanVars
  BY <1>2 DEF humanVars, askVars, messageVars, HumanInv, HumanTypeOK, NewHasNoRow, HeardIsRow,
              ResultIsRow, HandlersKnow, RepliesAreTrue, WonBy
<1>3. QED
  BY <1>1, <1>2, AskInv, MessageInv, HandlerInv, RestartInv DEF HumanNext

LEMMA HumanInvariance == HumanSpec => []HumanInv
  BY HumanInitInv, HumanStepInv, PTL DEF HumanSpec

\* An asker that returns a terminal question returns it as it is for good, and whoever is
\* told that his message decided is the one who did, for any number of questions and
\* messages and however answers, sweeps, replays and restarts interleave.
THEOREM AllToldOfOneWinner == HumanSpec => []OneWinner
<1>1. HumanInv => OneWinner
  BY DEF HumanInv, ResultIsRow, RepliesAreTrue, WonBy, OneWinner
<1>2. QED
  BY <1>1, HumanInvariance, PTL

-----------------------------------------------------------------------------
(***************************************************************************)
(* Proofs about the long connection, for any set of configurations and any *)
(* number of generations.  OneConnection is not inductive: a successor may *)
(* be spawned because whoever still runs is awaited first, by name.        *)
(***************************************************************************)

Runs(g) == supervisor[g].at \notin {"none", "over"}

\* Whoever runs is the task in the map, or has been taken out of it and is awaited.
RunnersAreKnown ==
  \A g \in Generation : Runs(g) => g = task.generation \/ g \in reconciler.joins

\* One of the two: whoever is awaited was the task, and has no successor yet.
AwaitedBeforeSpawn ==
  /\ reconciler.joins # {} => task = NoTask
  /\ \A g, h \in reconciler.joins : g = h
  /\ reconciler.at \in {"idle", "tasks"} => reconciler.joins = {}
  /\ reconciler.at = "spawn" => \A g \in reconciler.joins : supervisor[g].at = "over"

\* The task in the map has a generation that was handed out.
TaskIsNumbered == task # NoTask => task.generation \in Generation

\* A supervisor that reports knows what it does next.
ReportsAreKnown ==
  \A g \in Generation : supervisor[g].at = "report" => supervisor[g].next \in DOMAIN AfterReport

ConnectionInv ==
  /\ ConnectionTypeOK /\ RunnersAreKnown /\ AwaitedBeforeSpawn /\ TaskIsNumbered
  /\ ReportsAreKnown

LEMMA ConnectionInitInv == ConnectionInit => ConnectionInv
  BY ConfigAssumption
  DEF ConnectionInit, ConnectionInv, ConnectionTypeOK, RunnersAreKnown, AwaitedBeforeSpawn,
      TaskIsNumbered, ReportsAreKnown, Runs, Generation, NoTask, Status, FREE, RECONCILER

SupervisorAt == {"none", "loop", "report", "connect", "live", "broken", "sleep", "over"}
Supervisor == [at : SupervisorAt, config : Config \cup {Off}, next : Status]

\* Supervisor g goes on to another place, which is a report only if it says what of.
Goes(g) ==
  /\ supervisor' \in [Generation -> Supervisor]
  /\ supervisor'[g].at # "none"
  /\ supervisor'[g].at = "report" => supervisor'[g].next \in DOMAIN AfterReport
  /\ \A h \in Generation : h # g => supervisor'[h] = supervisor[h]

LEMMA MovesGoes ==
  ASSUME ConnectionTypeOK, NEW g \in Generation, NEW s \in SupervisorAt \ {"none", "report"}, Moves(g, s)
  PROVE  Goes(g)
<1>1. supervisor \in [Generation -> Supervisor]
  BY DEF ConnectionTypeOK, Supervisor, SupervisorAt
<1>2. [supervisor[g] EXCEPT !.at = s] \in Supervisor
  BY <1>1 DEF Supervisor
<1>3. supervisor' = [supervisor EXCEPT ![g] = [supervisor[g] EXCEPT !.at = s]]
  BY DEF Moves
<1>4. supervisor'[g].at = s
  BY <1>1, <1>3 DEF Supervisor
<1>5. supervisor' \in [Generation -> Supervisor]
  BY <1>1, <1>2, <1>3
<1>6. QED
  BY <1>1, <1>3, <1>4, <1>5 DEF Goes

LEMMA ReportsGoes ==
  ASSUME ConnectionTypeOK, NEW g \in Generation, NEW n \in DOMAIN AfterReport,
         NEW s \in SupervisorAt \ {"none", "report"}, Reports(g, n, s)
  PROVE  Goes(g)
<1> DEFINE to == IF generation = g THEN "report" ELSE s
<1>1. supervisor \in [Generation -> Supervisor] /\ n \in Status /\ to \in SupervisorAt \ {"none"}
  BY DEF ConnectionTypeOK, Supervisor, SupervisorAt, AfterReport, Status
<1> HIDE DEF to
<1>2. [supervisor[g] EXCEPT !.at = to, !.next = n] \in Supervisor
  BY <1>1 DEF Supervisor
<1>3. supervisor' = [supervisor EXCEPT ![g] = [supervisor[g] EXCEPT !.at = to, !.next = n]]
  BY DEF Reports, to
<1>4. supervisor'[g].at = to /\ supervisor'[g].next = n
  BY <1>1, <1>3 DEF Supervisor
<1>5. supervisor' \in [Generation -> Supervisor]
  BY <1>1, <1>2, <1>3
<1>6. QED
  BY <1>1, <1>3, <1>4, <1>5 DEF Goes

\* What a supervisor does by itself starts nobody: it keeps the reconciler, the task and
\* the order of the two.
LEMMA SupervisorInv ==
  ASSUME ConnectionInv, NEW g \in Generation,
         SupervisorStep(g) \/ Loop(g) \/ Connect(g) \/ Disconnects(g) \/ Broken(g) \/ Wakes(g)
  PROVE  ConnectionInv'
<1>1. /\ UNCHANGED <<managerOwn, statusLock, stopping>> /\ Runs(g) /\ status' \in Status
      /\ Goes(g)
  <2> USE DEF ConnectionInv, SupervisorAt, Runs
  <2>1. ConnectionTypeOK /\ status \in Status
    BY DEF ConnectionTypeOK
  <2>2. CASE WriteStatus(g)
    <3>1. supervisor[g].next \in DOMAIN AfterReport
      BY <2>2 DEF WriteStatus, ReportsAreKnown
    <3>2. /\ AfterReport[supervisor[g].next] \in SupervisorAt \ {"none", "report"}
          /\ supervisor[g].next \in Status
      BY <3>1 DEF AfterReport, Status
    <3>3. QED
      BY <2>1, <2>2, <3>2, MovesGoes DEF WriteStatus
  <2>3. CASE Aborted(g)
    BY <2>1, <2>3, MovesGoes DEF Aborted
  <2>4. CASE Loop(g)
    BY <2>1, <2>4, ReportsGoes DEF Loop, AfterReport
  <2>5. CASE Connect(g)
    BY <2>1, <2>5, ReportsGoes DEF Connect, AfterReport
  <2>6. CASE Disconnects(g)
    BY <2>1, <2>6, ReportsGoes DEF Disconnects, AfterReport
  <2>7. CASE Broken(g)
    BY <2>1, <2>7, ReportsGoes DEF Broken, AfterReport
  <2>8. CASE Wakes(g)
    BY <2>1, <2>8, MovesGoes DEF Wakes
  <2>9. QED
    BY <2>2, <2>3, <2>4, <2>5, <2>6, <2>7, <2>8 DEF SupervisorStep
<1>2. \A h \in Generation : Runs(h)' => Runs(h)
  BY <1>1 DEF Runs, Goes
<1>3. ConnectionTypeOK'
  BY <1>1 DEF managerOwn, Goes, ConnectionInv, ConnectionTypeOK, Supervisor, SupervisorAt
<1>4. RunnersAreKnown'
  BY <1>1, <1>2 DEF RunnersAreKnown, managerOwn, ConnectionInv
<1>5. AwaitedBeforeSpawn'
  <2>1. reconciler' = reconciler /\ task' = task
    BY <1>1 DEF managerOwn
  <2>2. \A h \in Generation : supervisor[h].at = "over" => supervisor'[h].at = "over"
    BY <1>1 DEF Goes, Runs
  <2>3. reconciler.joins \subseteq Generation
    BY DEF ConnectionInv, ConnectionTypeOK
  <2>4. QED
    BY <2>1, <2>2, <2>3 DEF AwaitedBeforeSpawn, ConnectionInv
<1>6. TaskIsNumbered'
  BY <1>1 DEF TaskIsNumbered, managerOwn, ConnectionInv
<1>7. ReportsAreKnown'
  BY <1>1 DEF ReportsAreKnown, Goes, ConnectionInv
<1>8. QED
  BY <1>3, <1>4, <1>5, <1>6, <1>7 DEF ConnectionInv

LEMMA ConnectionStepInv == ConnectionInv /\ [ConnectionNext]_connectionVars => ConnectionInv'
<1> SUFFICES ASSUME ConnectionInv, [ConnectionNext]_connectionVars PROVE ConnectionInv'
  OBVIOUS
<1> USE ConfigAssumption
    DEF ConnectionInv, ConnectionTypeOK, RunnersAreKnown, AwaitedBeforeSpawn, TaskIsNumbered,
        ReportsAreKnown, Runs, NoTask, Generation, Status, FREE, RECONCILER
<1>1. ASSUME NEW c \in Config \cup {Off}, SaveConfig(c) PROVE ConnectionInv'
  BY <1>1 DEF SaveConfig
<1>2. CASE Retire
  <2>1. CASE task # NoTask /\ task.config # reconciler.seen
    <3> DEFINE old == task.generation
    <3>1. old \in Generation /\ \A g \in Generation : Runs(g) => g = old
      BY <1>2, <2>1 DEF Retire
    <3>2. /\ generation' = generation + 1 /\ generation < MaxGeneration
          /\ stopping' = stopping \cup {old} /\ task' = NoTask
          /\ reconciler' = [reconciler EXCEPT !.at = "statuses", !.joins = {old}]
          /\ UNCHANGED <<saved, statusLock, status, supervisor, saves>>
      BY <1>2, <2>1 DEF Retire
    <3>3. reconciler' = [at |-> "statuses", seen |-> reconciler.seen, joins |-> {old}]
      BY <3>2
    <3>4. ConnectionTypeOK'
      BY <3>1, <3>2, <3>3
    <3>5. RunnersAreKnown' /\ AwaitedBeforeSpawn' /\ TaskIsNumbered' /\ ReportsAreKnown'
      BY <3>1, <3>2, <3>3
    <3>6. QED
      BY <3>4, <3>5
  <2>2. CASE ~(task # NoTask /\ task.config # reconciler.seen)
    BY <1>2, <2>2 DEF Retire
  <2>3. QED
    BY <2>1, <2>2
<1>3. CASE LockStatuses
  BY <1>3 DEF LockStatuses
<1>4. CASE JoinAborted
  BY <1>4 DEF JoinAborted
<1>5. CASE SpawnSupervisor
  <2>1. reconciler' = [at |-> "idle", seen |-> Off, joins |-> {}] /\ statusLock' = FREE
        /\ reconciler.at = "spawn" /\ UNCHANGED <<saved, stopping, saves>>
    BY <1>5 DEF SpawnSupervisor, Done
  <2>2. CASE reconciler.seen # Off /\ task = NoTask
    <3> DEFINE new == generation + 1
               first == [at |-> "loop", config |-> reconciler.seen, next |-> "none"]
    <3>1. /\ generation < MaxGeneration /\ generation' = new /\ status' = "connecting"
          /\ task' = [generation |-> new, config |-> reconciler.seen]
          /\ supervisor' = [supervisor EXCEPT ![new] = first]
      BY <1>5, <2>2 DEF SpawnSupervisor
    <3>2. new \in Generation /\ first \in Supervisor
      BY <3>1 DEF Supervisor, SupervisorAt
    <3>3. ConnectionTypeOK'
      BY <2>1, <3>1, <3>2 DEF Supervisor, SupervisorAt
    <3>4. \A g \in Generation : ~Runs(g)
      BY <2>1, <2>2
    <3>5. RunnersAreKnown' /\ AwaitedBeforeSpawn' /\ TaskIsNumbered' /\ ReportsAreKnown'
      BY <2>1, <3>1, <3>2, <3>4
    <3>6. QED
      BY <3>3, <3>5
  <2>3. CASE ~(reconciler.seen # Off /\ task = NoTask)
    <3>1. UNCHANGED <<generation, task, status, supervisor>>
      BY <1>5, <2>3 DEF SpawnSupervisor
    <3>2. ConnectionTypeOK'
      BY <2>1, <3>1
    <3>3. RunnersAreKnown' /\ AwaitedBeforeSpawn' /\ TaskIsNumbered' /\ ReportsAreKnown'
      BY <2>1, <3>1
    <3>4. QED
      BY <3>2, <3>3
  <2>4. QED
    BY <2>2, <2>3
<1>6. ASSUME NEW g \in Generation,
             SupervisorStep(g) \/ Loop(g) \/ Connect(g) \/ Disconnects(g) \/ Broken(g) \/ Wakes(g)
      PROVE ConnectionInv'
  BY <1>6, SupervisorInv
<1>7. CASE UNCHANGED connectionVars
  BY <1>7 DEF connectionVars, managerOwn
<1>8. QED
  BY <1>1, <1>2, <1>3, <1>4, <1>5, <1>6, <1>7 DEF ConnectionNext

LEMMA ConnectionInvariance == ConnectionSpec => []ConnectionInv
  BY ConnectionInitInv, ConnectionStepInv, PTL DEF ConnectionSpec

\* An integration is never connected twice, however many configurations are saved and
\* whatever its supervisors do while they are replaced.
THEOREM NeverConnectedTwice == ConnectionSpec => []OneConnection
<1>1. ConnectionInv => OneConnection
  <2> SUFFICES ASSUME ConnectionInv PROVE OneConnection
    OBVIOUS
  <2> DEFINE Live == {g \in Generation : supervisor[g].at = "live"}
  <2>1. \A g, h \in Live : g = h
    BY DEF ConnectionInv, ConnectionTypeOK, RunnersAreKnown, AwaitedBeforeSpawn, Runs, NoTask,
           Generation
  <2> HIDE DEF Live
  <2>2. ASSUME Live = {} PROVE Cardinality(Live) <= 1
    BY <2>2, FS_EmptySet
  <2>3. ASSUME Live # {} PROVE Cardinality(Live) <= 1
    <3>1. PICK x \in Live : Live = {x}
      BY <2>1, <2>3
    <3>2. Cardinality({x}) = 1
      BY FS_Singleton
    <3>3. QED
      BY <3>1, <3>2
  <2>4. Cardinality(Live) <= 1
    BY <2>2, <2>3
  <2>5. QED
    BY <2>4 DEF OneConnection, Live
<1>2. QED
  BY <1>1, ConnectionInvariance, PTL

-----------------------------------------------------------------------------
(***************************************************************************)
(* Proofs about the webhook receiver, for any number of starts, stops,     *)
(* settings and deliveries.  Whose a server and a child are follows from   *)
(* where the command that made them is, and start_lock from where all are. *)
(***************************************************************************)

Working == {"teardown", "probe", "spawn", "scan", "abandon"}
Active(r) == tunnelChild[r] \in {"up", "exited"} \/ httpServer[r] \in {"serving", "closing"}

\* The command that works on the runtime is the one that holds start_lock.
LockHeld ==
  /\ \A c \in StartCall : startAt[c] \in Working <=> runtimeLock = c
  /\ \A p \in StopCall : haltAt[p] = "teardown" <=> runtimeLock = p

\* While it works no runtime is installed; what it tears down it has begun with.
OneAtATime ==
  /\ runtimeLock # NoCall => receiver = NoCall /\ newest = runtimeLock
  /\ prior # NoCall => /\ runtimeLock # NoCall
                       /\ runtimeLock \in StartCall => startAt[runtimeLock] = "teardown"
  /\ newest \in StopCall => receiver = NoCall

\* What a start has made so far.
MadeSoFar ==
  /\ \A c \in StartCall :
       /\ startAt[c] \in {"idle", "lock", "teardown", "probe"} =>
            httpServer[c] = "none" /\ tunnelChild[c] = "none"
       /\ startAt[c] = "spawn" => tunnelChild[c] = "none"
       /\ startAt[c] = "abandon" => tunnelChild[c] \in {"none", "gone"}
  /\ receiver # NoCall => startAt[receiver] = "over"

\* Nothing that runs is without an owner.
ActiveIsOwned == \A r \in StartCall : Active(r) => r \in {receiver, prior, runtimeLock}

RuntimeInv ==
  ReceiverTypeOK /\ LockHeld /\ OneAtATime /\ MadeSoFar /\ ActiveIsOwned

\* Of the deliveries, AcknowledgedIsKept is inductive as it stands.
ReceiverInv == RuntimeInv /\ AcknowledgedIsKept

LEMMA ReceiverInitInv == ReceiverInit => ReceiverInv
<1> SUFFICES ASSUME ReceiverInit PROVE ReceiverInv
  OBVIOUS
<1>1. setting \in Setting /\ edits = 0 /\ refusals = 0 /\ 0 \in 0..MaxSetting /\ 0 \in 0..MaxRefusal
  BY ReceiverAssumption DEF ReceiverInit
<1>2. ReceiverTypeOK
  BY <1>1 DEF ReceiverInit, ReceiverTypeOK
<1>3. LockHeld /\ OneAtATime
  BY ReceiverAssumption DEF ReceiverInit, LockHeld, OneAtATime, Working
<1>4. MadeSoFar /\ ActiveIsOwned
  BY ReceiverAssumption DEF ReceiverInit, MadeSoFar, ActiveIsOwned, Active
<1>5. AcknowledgedIsKept
  BY DEF ReceiverInit, AcknowledgedIsKept
<1>6. QED
  BY <1>2, <1>3, <1>4, <1>5 DEF ReceiverInv, RuntimeInv

\* A command gets start_lock and takes the runtime out.
LEMMA TakeInv ==
  ASSUME RuntimeInv, NEW h \in StartCall \cup StopCall, TakeRuntime(h),
         \/ h \in StartCall /\ EnterStart(h)
         \/ h \in StopCall /\ EnterStop(h)
  PROVE  RuntimeInv'
<1> USE ReceiverAssumption DEF RuntimeInv
<1>1. /\ runtimeLock = NoCall /\ runtimeLock' = h /\ newest' = h /\ prior' = receiver
      /\ receiver' = NoCall /\ prior = NoCall
      /\ httpServer' = [r \in StartCall |-> IF r = receiver THEN "closing" ELSE httpServer[r]]
      /\ UNCHANGED <<setting, edits, startCfg, tunnelChild, requestVars, quit>>
  BY DEF TakeRuntime, OneAtATime
<1>2. /\ h \in StartCall => startAt' = [startAt EXCEPT ![h] = "teardown"] /\ UNCHANGED haltAt
                            /\ startAt[h] = "lock"
      /\ h \in StopCall => haltAt' = [haltAt EXCEPT ![h] = "teardown"] /\ UNCHANGED startAt
  BY DEF EnterStart, EnterStop
<1>3. ReceiverTypeOK'
  BY <1>1, <1>2 DEF ReceiverTypeOK, requestVars
<1>4. LockHeld'
  BY <1>1, <1>2 DEF LockHeld, ReceiverTypeOK, Working
<1>5. OneAtATime'
  BY <1>1, <1>2 DEF OneAtATime, ReceiverTypeOK
<1>6. MadeSoFar'
  BY <1>1, <1>2 DEF MadeSoFar, ReceiverTypeOK
<1>7. ActiveIsOwned'
  BY <1>1 DEF ActiveIsOwned, Active, ReceiverTypeOK
<1>8. QED
  BY <1>3, <1>4, <1>5, <1>6, <1>7

\* What it took out is down: the child is reaped.
LEMMA ReapInv ==
  ASSUME RuntimeInv, ReapPrior, UNCHANGED <<receiver, httpServer, newest>>,
         UNCHANGED <<setting, edits, startCfg, requestVars, quit>>,
         \/ \E c \in StartCall :
              /\ runtimeLock = c /\ UNCHANGED <<haltAt, runtimeLock>>
              /\ startAt[c] = "teardown" /\ startAt' = [startAt EXCEPT ![c] = "probe"]
         \/ \E p \in StopCall :
              /\ haltAt[p] = "teardown" /\ haltAt' = [haltAt EXCEPT ![p] = "over"]
              /\ runtimeLock = p /\ runtimeLock' = NoCall /\ UNCHANGED startAt
  PROVE  RuntimeInv'
<1> USE ReceiverAssumption DEF RuntimeInv
<1>1. /\ prior' = NoCall
      /\ tunnelChild' = [r \in StartCall |->
           IF r = prior /\ tunnelChild[r] # "none" THEN "gone" ELSE tunnelChild[r]]
      /\ prior # NoCall => httpServer[prior] = "closed"
  BY DEF ReapPrior, PriorIsDown
<1>2. ReceiverTypeOK'
  BY <1>1 DEF ReceiverTypeOK, requestVars
<1>3. LockHeld'
  BY <1>1 DEF LockHeld, ReceiverTypeOK, Working
<1>4. OneAtATime'
  BY <1>1 DEF OneAtATime, ReceiverTypeOK
<1>5. MadeSoFar'
  BY <1>1 DEF MadeSoFar, OneAtATime, ReceiverTypeOK
<1>6. ActiveIsOwned'
  BY <1>1 DEF ActiveIsOwned, Active, OneAtATime, ReceiverTypeOK
<1>7. QED
  BY <1>2, <1>3, <1>4, <1>5, <1>6

\* The rest of a start: it works on what it makes itself, and hands it over or ends it.
LEMMA StartsInv ==
  ASSUME RuntimeInv, NEW c \in StartCall,
         \/ CloudflaredUnresolved(c) \/ GiveUpStart(c) \/ BindPort(c) \/ SpawnTunnel(c)
         \/ UrlScanned(c) \/ SpawnFailed(c) \/ Abandoned(c) \/ StartWebhook(c)
  PROVE  RuntimeInv'
<1> USE ReceiverAssumption
    DEF RuntimeInv, ReceiverTypeOK, LockHeld, OneAtATime, MadeSoFar, ActiveIsOwned, Active,
        Working, requestVars, runtimeVars, Leave, InstallRuntime
<1>1. CASE CloudflaredUnresolved(c)
  BY <1>1 DEF CloudflaredUnresolved
<1>2. CASE GiveUpStart(c)
  BY <1>2 DEF GiveUpStart
<1>3. CASE BindPort(c)
  BY <1>3 DEF BindPort
<1>4. CASE SpawnTunnel(c)
  BY <1>4 DEF SpawnTunnel
<1>5. CASE UrlScanned(c)
  BY <1>5 DEF UrlScanned
<1>6. CASE SpawnFailed(c)
  BY <1>6 DEF SpawnFailed
<1>7. CASE Abandoned(c)
  BY <1>7 DEF Abandoned
<1>8. CASE StartWebhook(c)
  BY <1>8 DEF StartWebhook
<1>9. QED
  BY <1>1, <1>2, <1>3, <1>4, <1>5, <1>6, <1>7, <1>8

\* What comes in between: settings, stops that ask, polls, exits, ends of servers and
\* children.  None of them starts anything.
LEMMA BetweenInv ==
  ASSUME RuntimeInv,
         \/ \E s \in Setting : SaveSetting(s)
         \/ \E p \in StopCall : StopWebhook(p)
         \/ \E r \in StartCall : ServerEnds(r) \/ TunnelExits(r)
         \/ HealStatus \/ Quit
  PROVE  RuntimeInv'
<1> USE ReceiverAssumption
    DEF RuntimeInv, ReceiverTypeOK, LockHeld, OneAtATime, MadeSoFar, ActiveIsOwned, Active,
        Working, requestVars, runtimeVars, callVars, Teardown
<1>1. ASSUME NEW s \in Setting, SaveSetting(s) PROVE RuntimeInv'
  BY <1>1 DEF SaveSetting
<1>2. ASSUME NEW p \in StopCall, StopWebhook(p) PROVE RuntimeInv'
  BY <1>2 DEF StopWebhook
<1>3. ASSUME NEW r \in StartCall, ServerEnds(r) PROVE RuntimeInv'
  BY <1>3 DEF ServerEnds
<1>4. ASSUME NEW r \in StartCall, TunnelExits(r) PROVE RuntimeInv'
  BY <1>4 DEF TunnelExits
<1>5. CASE HealStatus
  BY <1>5 DEF HealStatus
<1>6. CASE Quit
  BY <1>6 DEF Quit
<1>7. QED
  BY <1>1, <1>2, <1>3, <1>4, <1>5, <1>6

\* A delivery moves nothing but itself, and a delivery that moves is kept first.
LEMMA DeliveryInv ==
  ASSUME ReceiverInv, NEW d \in Delivery,
         Ingest(d) \/ Acknowledge(d) \/ \E r \in StartCall : Handle(d, r)
  PROVE  ReceiverInv'
<1> USE ReceiverAssumption DEF ReceiverInv, RuntimeInv
<1>1. UNCHANGED <<setting, edits, callVars, runtimeVars, quit>>
  BY DEF Ingest, Acknowledge, Handle
<1>2. \/ request' = request
      \/ \E s \in {"ingest", "persisted", "kept", "unauthorized", "ignored", "wrongRepo",
                   "failed"} :
           /\ request' = [request EXCEPT ![d] = s]
           /\ s = "persisted" => d \in inboxed'
           /\ s = "kept" => request[d] = "persisted"
           /\ s = "wrongRepo" => \E r \in StartCall : ProjectOf[d] \notin Routes[startCfg[r]]
  BY DEF Ingest, Acknowledge, Handle, Verdict, Routed
<1>3. /\ inboxed' \subseteq Delivery /\ inboxed \subseteq inboxed' /\ refusals' \in 0..MaxRefusal
      /\ handledBy' \in [Delivery -> StartCall \cup {NoCall}]
  BY DEF Ingest, Acknowledge, Handle, ReceiverTypeOK
<1>4. ReceiverTypeOK'
  BY <1>1, <1>2, <1>3 DEF ReceiverTypeOK, callVars, runtimeVars
<1>5. LockHeld' /\ OneAtATime' /\ MadeSoFar' /\ ActiveIsOwned'
  BY <1>1 DEF LockHeld, OneAtATime, MadeSoFar, ActiveIsOwned, Active, callVars, runtimeVars
<1>6. AcknowledgedIsKept'
  BY <1>2, <1>3 DEF AcknowledgedIsKept, ReceiverTypeOK
<1>7. QED
  BY <1>4, <1>5, <1>6

LEMMA ReceiverStepInv == ReceiverInv /\ [ReceiverNext]_receiverVars => ReceiverInv'
<1> SUFFICES ASSUME ReceiverInv, [ReceiverNext]_receiverVars PROVE ReceiverInv'
  OBVIOUS
<1>1. CASE \E d \in Delivery : DeliveryStep(d) \/ \E r \in StartCall : Handle(d, r)
  BY <1>1, DeliveryInv DEF DeliveryStep
<1>2. ASSUME NEW c \in StartCall, EnterStart(c) PROVE RuntimeInv' /\ UNCHANGED requestVars
  BY <1>2, TakeInv DEF ReceiverInv, EnterStart, TakeRuntime
<1>3. ASSUME NEW p \in StopCall, EnterStop(p) PROVE RuntimeInv' /\ UNCHANGED requestVars
  BY <1>3, TakeInv DEF ReceiverInv, EnterStop, TakeRuntime
<1>4. ASSUME NEW c \in StartCall, TornDown(c) PROVE RuntimeInv' /\ UNCHANGED requestVars
  BY <1>4, ReapInv DEF ReceiverInv, TornDown
<1>5. ASSUME NEW p \in StopCall, StopDone(p) PROVE RuntimeInv' /\ UNCHANGED requestVars
  <2>1. runtimeLock = p
    BY <1>5 DEF StopDone, ReceiverInv, RuntimeInv, LockHeld
  <2>2. QED
    BY <1>5, <2>1, ReapInv DEF ReceiverInv, StopDone
<1>6. ASSUME NEW c \in StartCall,
             \/ CloudflaredUnresolved(c) \/ GiveUpStart(c) \/ BindPort(c) \/ SpawnTunnel(c)
             \/ UrlScanned(c) \/ SpawnFailed(c) \/ Abandoned(c) \/ StartWebhook(c)
      PROVE RuntimeInv' /\ UNCHANGED requestVars
  <2>1. UNCHANGED requestVars
    BY <1>6 DEF CloudflaredUnresolved, GiveUpStart, BindPort, SpawnTunnel, UrlScanned,
                SpawnFailed, Abandoned, StartWebhook
  <2>2. QED
    BY <1>6, <2>1, StartsInv DEF ReceiverInv
<1>7. ASSUME \/ \E s \in Setting : SaveSetting(s)
             \/ \E p \in StopCall : StopWebhook(p)
             \/ \E r \in StartCall : ServerEnds(r) \/ TunnelExits(r)
             \/ HealStatus \/ Quit
      PROVE RuntimeInv' /\ UNCHANGED requestVars
  <2>1. UNCHANGED requestVars
    BY <1>7 DEF SaveSetting, StopWebhook, ServerEnds, TunnelExits, HealStatus, Quit
  <2>2. QED
    BY <1>7, <2>1, BetweenInv DEF ReceiverInv
<1>8. ASSUME UNCHANGED receiverVars PROVE RuntimeInv' /\ UNCHANGED requestVars
  BY <1>8
  DEF receiverVars, callVars, runtimeVars, requestVars, ReceiverInv, RuntimeInv, ReceiverTypeOK,
      LockHeld, OneAtATime, MadeSoFar, ActiveIsOwned, Active
<1>9. CASE RuntimeInv' /\ UNCHANGED requestVars
  BY <1>9 DEF ReceiverInv, AcknowledgedIsKept, requestVars
<1>10. QED
  BY <1>1, <1>2, <1>3, <1>4, <1>5, <1>6, <1>7, <1>8, <1>9
  DEF ReceiverNext, StartStep, StopStep

LEMMA ReceiverInvariance == ReceiverSpec => []ReceiverInv
  BY ReceiverInitInv, ReceiverStepInv, PTL DEF ReceiverSpec

\* While the program runs, no tunnel child and no server that listens is without an owner,
\* for any number of starts, stops and polls that overlap.
THEOREM NothingIsLeaked == ReceiverSpec => []ReceiverOwned
<1>1. ReceiverInv => ReceiverOwned
  BY DEF ReceiverInv, RuntimeInv, ActiveIsOwned, Active, ReceiverOwned
<1>2. QED
  BY <1>1, ReceiverInvariance, PTL

\* Once a stop has had its turn and no start has had one since, nothing serves.
THEOREM StopsAreHonoured == ReceiverSpec => []StopIsHonoured
<1>1. ReceiverInv => StopIsHonoured
  <2> SUFFICES ASSUME ReceiverInv, newest \in StopCall, haltAt[newest] = "over"
               PROVE  /\ receiver = NoCall
                      /\ \A r \in StartCall : httpServer[r] # "serving" /\ tunnelChild[r] # "up"
    BY DEF StopIsHonoured
  <2>1. runtimeLock = NoCall
    BY DEF ReceiverInv, RuntimeInv, OneAtATime, LockHeld
  <2>2. receiver = NoCall /\ prior = NoCall
    BY <2>1 DEF ReceiverInv, RuntimeInv, OneAtATime
  <2>3. QED
    BY <2>1, <2>2, ReceiverAssumption DEF ReceiverInv, RuntimeInv, ActiveIsOwned, Active
<1>2. QED
  BY <1>1, ReceiverInvariance, PTL

\* No authentic delivery of a routed project is acknowledged before it is in the inbox or
\* turned away, whichever receivers come and go.
THEOREM NothingAcknowledgedIsLost == ReceiverSpec => []AcknowledgedIsKept
<1>1. ReceiverInv => AcknowledgedIsKept
  BY DEF ReceiverInv
<1>2. QED
  BY <1>1, ReceiverInvariance, PTL

-----------------------------------------------------------------------------
(***************************************************************************)
(* The web terminal, for any set of shells, cap, ring size and chunks.  A  *)
(* panel's screen follows the output because the replay and the flag, and  *)
(* the push and the emission, are each done under the ring's mutex:        *)
(* between them the screen is the ring, or short of the last chunk by one. *)
(***************************************************************************)

\* s is the end of the numbers up to last.
IsTail(s, last) == \A i \in 1..Len(s) : s[i] = last - Len(s) + i

\* What is registered or reserved is within the cap, a session that has just been
\* registered counted once.
PtyCap ==
  /\ IsFiniteSet(ptyMap \cup Reserved) /\ Cardinality(ptyMap \cup Reserved) <= MaxPty

\* The end of a session is announced by the first teardown.
EndedOnce == \A p \in Pty : ended[p] # 0 => tornDown[p]

\* The mutex of the ring is held over the replay and the flag, and by the reader over
\* a push and its emission.
RingLocked ==
  \A p \in Pty :
    /\ ringLock[p] = "panel" <=> panelAt[p] = "flip"
    /\ subscribed[p] <=> panelAt[p] = "on"

\* The ring is the end of the output, up to the last chunk pushed.
RingIsTail ==
  \A p \in Pty :
    /\ IsTail(ring[p], written[p].in) /\ Len(ring[p]) <= written[p].in
    /\ ringLock[p] = "reader" => ring[p] # <<>>

\* The screen is the ring between the replay and the flag; from then on it is the end
\* of the output, without the chunk the reader has pushed and not yet emitted.
ScreenFollows ==
  \A p \in Pty :
    /\ panelAt[p] = "flip" => screen[p] = ring[p]
    /\ panelAt[p] = "on" /\ ringLock[p] # "reader" =>
         IsTail(screen[p], written[p].in) /\ Len(screen[p]) >= Len(ring[p])
    /\ panelAt[p] = "on" /\ ringLock[p] = "reader" =>
         IsTail(screen[p], written[p].in - 1) /\ Len(screen[p]) + 1 >= Len(ring[p])

PtyInv ==
  /\ PtyTypes /\ PtyCap /\ EndedOnce /\ RingLocked /\ RingIsTail /\ ScreenFollows

-----------------------------------------------------------------------------
(* Tails of the output                                                      *)

\* The next chunk makes the tail longer, and so does dropping the first of it.
LEMMA Pushed ==
  ASSUME NEW s \in Seq(Nat), NEW n \in Nat, IsTail(s, n)
  PROVE  LET all == Append(s, n + 1) IN
         /\ all \in Seq(Nat) /\ IsTail(all, n + 1) /\ Len(all) = Len(s) + 1
         /\ Tail(all) \in Seq(Nat) /\ IsTail(Tail(all), n + 1) /\ Len(Tail(all)) = Len(s)
PROOF
<1> DEFINE all == Append(s, n + 1)
<1>1. Len(s) \in Nat /\ n + 1 \in Nat OBVIOUS
<1>2. /\ all \in Seq(Nat) /\ Len(all) = Len(s) + 1 /\ all[Len(s) + 1] = n + 1
      /\ \A i \in 1..Len(s) : all[i] = s[i]
  BY <1>1, AppendProperties
<1> HIDE DEF all
<1>3. IsTail(all, n + 1)
  <2>1. \A i \in 1..Len(s) : s[i] = n - Len(s) + i BY DEF IsTail
  <2>2. SUFFICES ASSUME NEW i \in 1..Len(s) + 1 PROVE all[i] = n + 1 - (Len(s) + 1) + i
    BY <1>2 DEF IsTail
  <2>3. CASE i = Len(s) + 1 BY <1>1, <1>2, <2>3
  <2>4. CASE i \in 1..Len(s) BY <1>1, <1>2, <2>1, <2>4
  <2> QED BY <1>1, <2>3, <2>4
<1>4. all # <<>> BY <1>1, <1>2
<1>5. /\ Tail(all) \in Seq(Nat) /\ Len(Tail(all)) = Len(s)
      /\ \A i \in 1..Len(s) : Tail(all)[i] = all[i + 1]
  BY <1>1, <1>2, <1>4, HeadTailProperties
<1> DEFINE t == Tail(all)
<1>7. /\ Len(t) = Len(s) /\ \A i \in 1..Len(s) : t[i] = all[i + 1] BY <1>5
<1> HIDE DEF t
<1>6. IsTail(t, n + 1)
  <2>1. SUFFICES ASSUME NEW i \in 1..Len(s) PROVE t[i] = n + 1 - Len(s) + i
    BY <1>7 DEF IsTail
  <2>2. i + 1 \in 1..Len(all) BY <1>1, <1>2
  <2>3. all[i + 1] = n + 1 - Len(all) + (i + 1) BY <1>3, <2>2 DEF IsTail
  <2> QED BY <1>1, <1>2, <1>7, <2>3
<1> QED BY <1>2, <1>3, <1>5, <1>6 DEF all, t

-----------------------------------------------------------------------------
(* The invariant is inductive, part by part.                                *)

\* A teardown that is not the first announces nothing.
LEMMA EndedOnceStep ==
  ASSUME PtyTypes, EndedOnce, [PtyNext]_ptyVars
  PROVE  EndedOnce'
PROOF
<1> USE DEF PtyTypes, EndedOnce, registryVars, outputVars
<1>1. ASSUME NEW p \in Pty, ReaderEof(p) PROVE EndedOnce'
  <2>1. CASE tornDown[p]
    BY <1>1, <2>1 DEF ReaderEof, FinishSession
  <2>2. CASE ~tornDown[p]
    <3>1. /\ tornDown' = [tornDown EXCEPT ![p] = TRUE]
          /\ \A q \in Pty : q # p => ended'[q] = ended[q]
      BY <1>1, <2>2 DEF ReaderEof, FinishSession
    <3> QED BY <3>1
  <2> QED BY <2>1, <2>2
<1>2. ASSUME NEW p \in Pty, CloseFinishes(p) PROVE EndedOnce'
  <2>1. CASE tornDown[p]
    BY <1>2, <2>1 DEF CloseFinishes, FinishSession
  <2>2. CASE ~tornDown[p]
    <3>1. /\ tornDown' = [tornDown EXCEPT ![p] = TRUE]
          /\ \A q \in Pty : q # p => ended'[q] = ended[q]
      BY <1>2, <2>2 DEF CloseFinishes, FinishSession
    <3> QED BY <3>1
  <2> QED BY <2>1, <2>2
<1>3. CASE ShutdownPtys
  BY <1>3 DEF ShutdownPtys
<1>4. CASE UNCHANGED <<tornDown, ended>>
  BY <1>4
<1> HIDE DEF PtyTypes, EndedOnce, registryVars, outputVars
<1> QED
  <2>1. ASSUME NEW p \in Pty,
         ReservePty(p) \/ SpawnShell(p) \/ SpawnPtyFails(p) \/ RegisterPty(p) \/
         StartReader(p) \/ Attach(p) \/ ReplayRing(p) \/ FlipSubscribed(p) \/ Detach(p)
         \/ ShellWrites(p) \/ PushChunk(p) \/ EmitChunk(p) \/ ShellExits(p) \/
         ClosePty(p)
       PROVE  UNCHANGED <<tornDown, ended>>
    BY <2>1 DEF ReservePty, SpawnShell, SpawnPtyFails, RegisterPty, StartReader, Attach,
       ReplayRing, FlipSubscribed, Detach, ShellWrites, PushChunk, EmitChunk, ShellExits,
       ClosePty, registryVars, outputVars
  <2>2. CASE UNCHANGED ptyVars
    BY <2>2, <1>4 DEF ptyVars, registryVars, outputVars
  <2> QED BY <1>1, <1>2, <1>3, <1>4, <2>1, <2>2 DEF PtyNext

\* The flag follows the panel, and the mutex is passed on, never shared.
LEMMA RingLockedStep ==
  ASSUME PtyTypes, RingLocked, [PtyNext]_ptyVars
  PROVE  RingLocked'
PROOF
<1> USE DEF PtyTypes, RingLocked, registryVars, outputVars
<1>1. ASSUME NEW p \in Pty, Attach(p) PROVE RingLocked'
  BY <1>1 DEF Attach
<1>2. ASSUME NEW p \in Pty, ReplayRing(p) PROVE RingLocked'
  BY <1>2 DEF ReplayRing
<1>3. ASSUME NEW p \in Pty, FlipSubscribed(p) PROVE RingLocked'
  BY <1>3 DEF FlipSubscribed
<1>4. ASSUME NEW p \in Pty, Detach(p) PROVE RingLocked'
  BY <1>4 DEF Detach
<1>5. ASSUME NEW p \in Pty, PushChunk(p) PROVE RingLocked'
  BY <1>5 DEF PushChunk
<1>6. ASSUME NEW p \in Pty, EmitChunk(p) PROVE RingLocked'
  BY <1>6 DEF EmitChunk
<1>7. CASE UNCHANGED <<ringLock, panelAt, subscribed>>
  BY <1>7
<1> HIDE DEF PtyTypes, RingLocked, registryVars, outputVars
<1> QED
  <2>1. ASSUME NEW p \in Pty,
         ReservePty(p) \/ SpawnShell(p) \/ SpawnPtyFails(p) \/ RegisterPty(p) \/
         StartReader(p) \/ ShellWrites(p) \/ ReaderEof(p) \/ ShellExits(p) \/
         ClosePty(p) \/ CloseFinishes(p)
       PROVE  UNCHANGED <<ringLock, panelAt, subscribed>>
    BY <2>1 DEF ReservePty, SpawnShell, SpawnPtyFails, RegisterPty, StartReader,
       ShellWrites, ReaderEof, ShellExits, ClosePty, CloseFinishes, registryVars, outputVars
  <2>2. ASSUME ShutdownPtys
       PROVE  UNCHANGED <<ringLock, panelAt, subscribed>>
    BY <2>2 DEF ShutdownPtys, registryVars, outputVars
  <2>3. CASE UNCHANGED ptyVars
    BY <2>3, <1>7 DEF ptyVars, registryVars, outputVars
  <2> QED BY <1>1, <1>2, <1>3, <1>4, <1>5, <1>6, <1>7, <2>1, <2>2, <2>3 DEF PtyNext

\* A chunk is pushed at the end of the ring.
LEMMA PushKeepsTail ==
  ASSUME PtyTypes, RingIsTail, NEW p \in Pty, PushChunk(p)
  PROVE  /\ ring' \in [Pty -> Seq(Nat)] /\ written'[p].in = written[p].in + 1
         /\ IsTail(ring'[p], written'[p].in) /\ ring'[p] # <<>>
         /\ Len(ring'[p]) <= Len(ring[p]) + 1 /\ Len(ring'[p]) <= written'[p].in
         /\ \A q \in Pty : q # p => ring'[q] = ring[q] /\ written'[q] = written[q]
PROOF
<1> DEFINE s == ring[p]
           n == written[p].in
           all == Append(s, n + 1)
           new == IF Len(all) > RingCap THEN Tail(all) ELSE all
<1>1. s \in Seq(Nat) /\ n \in Nat /\ IsTail(s, n) /\ Len(s) \in Nat /\ Len(s) <= n
  BY DEF PtyTypes, RingIsTail
<1>2. /\ all \in Seq(Nat) /\ IsTail(all, n + 1) /\ Len(all) = Len(s) + 1
      /\ Tail(all) \in Seq(Nat) /\ IsTail(Tail(all), n + 1) /\ Len(Tail(all)) = Len(s)
  BY <1>1, Pushed
<1>3. RingCap \in Nat \ {0} BY PtyAssumption
<1> HIDE DEF all
<1>4. /\ new \in Seq(Nat) /\ IsTail(new, n + 1) /\ Len(new) <= Len(s) + 1
      /\ Len(new) <= n + 1 /\ Len(new) > 0
  <2>1. CASE Len(all) > RingCap
    <3>1. new = Tail(all) /\ Len(s) > 0 BY <1>1, <1>2, <1>3, <2>1
    <3> DEFINE rest == Tail(all)
    <3>2. /\ rest \in Seq(Nat) /\ IsTail(rest, n + 1) /\ Len(rest) = Len(s)
          /\ new = rest
      BY <1>2, <3>1
    <3>3. Len(s) > 0 BY <3>1
    <3> HIDE DEF new, rest, s, n
    <3>4. IsTail(new, n + 1) BY <3>2
    <3>5. Len(new) = Len(s) /\ new \in Seq(Nat) BY <3>2
    <3> QED BY <1>1, <3>3, <3>4, <3>5
  <2>2. CASE ~(Len(all) > RingCap)
    <3>1. new = all BY <2>2
    <3> HIDE DEF new
    <3> QED BY <1>1, <1>2, <3>1
  <2> HIDE DEF new
  <2> QED BY <2>1, <2>2
<1> HIDE DEF new
<1>5. new # <<>> BY <1>4
<1>6. /\ ring' = [ring EXCEPT ![p] = new]
      /\ written' = [written EXCEPT ![p].in = n + 1]
  BY DEF PushChunk, new, all
<1>7. ring'[p] = new /\ written'[p].in = n + 1
  BY <1>6 DEF PtyTypes
<1>8. /\ ring' \in [Pty -> Seq(Nat)]
      /\ \A q \in Pty : q # p => ring'[q] = ring[q] /\ written'[q] = written[q]
  BY <1>4, <1>6 DEF PtyTypes
<1> QED BY <1>4, <1>5, <1>7, <1>8

\* Only a push changes the ring, and what it is the end of.
LEMMA RingIsTailStep ==
  ASSUME PtyTypes, RingIsTail, [PtyNext]_ptyVars
  PROVE  RingIsTail'
PROOF
<1> USE DEF PtyTypes, RingIsTail, registryVars, outputVars
<1>1. ASSUME NEW p \in Pty, ReplayRing(p) PROVE RingIsTail'
  BY <1>1 DEF ReplayRing
<1>2. ASSUME NEW p \in Pty, FlipSubscribed(p) PROVE RingIsTail'
  BY <1>2 DEF FlipSubscribed
<1>3. ASSUME NEW p \in Pty, ShellWrites(p) PROVE RingIsTail'
  BY <1>3 DEF ShellWrites
<1>4. ASSUME NEW p \in Pty, PushChunk(p) PROVE RingIsTail'
  <2>1. \A q \in Pty : q # p => ringLock'[q] = ringLock[q]
    BY <1>4 DEF PushChunk
  <2> QED BY <1>4, <2>1, PushKeepsTail
<1>5. ASSUME NEW p \in Pty, EmitChunk(p) PROVE RingIsTail'
  BY <1>5 DEF EmitChunk
<1>6. CASE UNCHANGED <<ring, ringLock, written>>
  BY <1>6
<1> HIDE DEF PtyTypes, RingIsTail, registryVars, outputVars
<1> QED
  <2>1. ASSUME NEW p \in Pty,
         ReservePty(p) \/ SpawnShell(p) \/ SpawnPtyFails(p) \/ RegisterPty(p) \/
         StartReader(p) \/ Attach(p) \/ Detach(p) \/ ReaderEof(p) \/ ShellExits(p) \/
         ClosePty(p) \/ CloseFinishes(p)
       PROVE  UNCHANGED <<ring, ringLock, written>>
    BY <2>1 DEF ReservePty, SpawnShell, SpawnPtyFails, RegisterPty, StartReader, Attach,
       Detach, ReaderEof, ShellExits, ClosePty, CloseFinishes, registryVars, outputVars
  <2>2. ASSUME ShutdownPtys
       PROVE  UNCHANGED <<ring, ringLock, written>>
    BY <2>2 DEF ShutdownPtys, registryVars, outputVars
  <2>3. CASE UNCHANGED ptyVars
    BY <2>3, <1>6 DEF ptyVars, registryVars, outputVars
  <2> QED BY <1>1, <1>2, <1>3, <1>4, <1>5, <1>6, <2>1, <2>2, <2>3 DEF PtyNext

\* What is emitted to an attached panel is what was just pushed.
LEMMA ScreenFollowsStep ==
  ASSUME PtyTypes, RingLocked, RingIsTail, ScreenFollows, [PtyNext]_ptyVars
  PROVE  ScreenFollows'
PROOF
<1> USE DEF PtyTypes, RingLocked, ScreenFollows, registryVars, outputVars
<1>1. ASSUME NEW p \in Pty, Attach(p) PROVE ScreenFollows'
  BY <1>1 DEF Attach
<1>2. ASSUME NEW p \in Pty, ReplayRing(p) PROVE ScreenFollows'
  BY <1>2 DEF ReplayRing
<1>3. ASSUME NEW p \in Pty, FlipSubscribed(p) PROVE ScreenFollows'
  BY <1>3 DEF FlipSubscribed, RingIsTail
<1>4. ASSUME NEW p \in Pty, Detach(p) PROVE ScreenFollows'
  BY <1>4 DEF Detach
<1>5. ASSUME NEW p \in Pty, ShellWrites(p) PROVE ScreenFollows'
  BY <1>5 DEF ShellWrites
<1>6. ASSUME NEW p \in Pty, PushChunk(p) PROVE ScreenFollows'
  <2>1. /\ ringLock[p] = "free" /\ ringLock'[p] = "reader" /\ UNCHANGED <<panelAt, screen>>
        /\ \A q \in Pty : q # p => ringLock'[q] = ringLock[q]
    BY <1>6 DEF PushChunk
  <2>2. panelAt[p] # "flip" BY <2>1
  <2>3. written[p].in \in Nat /\ Len(screen[p]) \in Nat /\ Len(ring[p]) \in Nat OBVIOUS
  <2>4. /\ ring' \in [Pty -> Seq(Nat)] /\ written'[p].in = written[p].in + 1
        /\ Len(ring'[p]) <= Len(ring[p]) + 1
        /\ \A q \in Pty : q # p => ring'[q] = ring[q] /\ written'[q] = written[q]
    BY <1>6, PushKeepsTail
  <2>5. panelAt[p] = "on" =>
          /\ IsTail(screen[p], written[p].in) /\ Len(screen[p]) >= Len(ring[p])
    BY <2>1
  <2>6. written'[p].in - 1 = written[p].in BY <2>3, <2>4
  <2>7. Len(ring'[p]) \in Nat BY <2>4
  <2>8. panelAt[p] = "on" =>
          /\ IsTail(screen[p], written'[p].in - 1)
          /\ Len(screen[p]) + 1 >= Len(ring'[p])
    <3> HIDE DEF PtyTypes, RingLocked, ScreenFollows
    <3>1. SUFFICES ASSUME panelAt[p] = "on"
                   PROVE  /\ IsTail(screen[p], written'[p].in - 1)
                          /\ Len(screen[p]) + 1 >= Len(ring'[p])
      OBVIOUS
    <3>2. Len(screen[p]) >= Len(ring[p]) BY <2>5, <3>1
    <3>3. Len(screen[p]) + 1 >= Len(ring'[p]) BY <2>3, <2>4, <2>7, <3>2
    <3>4. IsTail(screen[p], written'[p].in - 1) BY <2>5, <2>6, <3>1
    <3> QED BY <3>3, <3>4
  <2>9. ringLock'[p] # "free" BY <2>1
  <2> HIDE DEF PtyTypes
  <2> QED BY <2>1, <2>2, <2>4, <2>8
<1>7. ASSUME NEW p \in Pty, EmitChunk(p) PROVE ScreenFollows'
  <2>1. /\ ringLock[p] = "reader" /\ ringLock'[p] = "free"
        /\ UNCHANGED <<panelAt, ring, written>>
        /\ \A q \in Pty : q # p => ringLock'[q] = ringLock[q] /\ screen'[q] = screen[q]
        /\ panelAt[p] = "on" => screen'[p] = Append(screen[p], written[p].in)
    BY <1>7 DEF EmitChunk
  <2>2. panelAt[p] # "flip" BY <2>1
  <2>3. /\ written[p].in \in Nat /\ Len(screen[p]) \in Nat /\ screen[p] \in Seq(Nat)
        /\ Len(ring[p]) \in Nat /\ Len(ring[p]) > 0
    BY <2>1 DEF RingIsTail
  <2>4. ASSUME panelAt[p] = "on"
        PROVE  /\ screen'[p] = Append(screen[p], written[p].in)
               /\ IsTail(screen'[p], written[p].in) /\ Len(screen'[p]) >= Len(ring[p])
               /\ Len(screen'[p]) \in Nat
    <3>1. IsTail(screen[p], written[p].in - 1) /\ Len(screen[p]) + 1 >= Len(ring[p])
      BY <2>1, <2>4
    <3>2. written[p].in - 1 \in Nat
      BY <2>1, <2>3 DEF RingIsTail, IsTail
    <3>3. written[p].in - 1 + 1 = written[p].in BY <2>3
    <3>4. /\ IsTail(Append(screen[p], written[p].in), written[p].in)
          /\ Len(Append(screen[p], written[p].in)) = Len(screen[p]) + 1
      BY <2>3, <3>1, <3>2, <3>3, Pushed
    <3>5. screen'[p] = Append(screen[p], written[p].in) BY <2>1, <2>4
    <3> HIDE DEF PtyTypes, ScreenFollows, RingLocked
    <3> QED BY <2>3, <3>1, <3>4, <3>5
  <2>5. ASSUME NEW q \in Pty, q # p
        PROVE  /\ UNCHANGED <<panelAt, ring, written>>
               /\ ringLock'[q] = ringLock[q] /\ screen'[q] = screen[q]
    BY <2>1, <2>5
  <2>6. \A q \in Pty : q # p => ringLock'[q] = ringLock[q] /\ screen'[q] = screen[q]
    BY <2>5
  <2> HIDE DEF PtyTypes
  <2> QED BY <2>1, <2>2, <2>4, <2>6
<1>8. CASE UNCHANGED <<ring, ringLock, panelAt, screen, written>>
  BY <1>8
<1> HIDE DEF PtyTypes, RingLocked, ScreenFollows, registryVars, outputVars
<1> QED
  <2>1. ASSUME NEW p \in Pty,
         ReservePty(p) \/ SpawnShell(p) \/ SpawnPtyFails(p) \/ RegisterPty(p) \/
         StartReader(p) \/ ReaderEof(p) \/ ShellExits(p) \/ ClosePty(p) \/
         CloseFinishes(p)
       PROVE  UNCHANGED <<ring, ringLock, panelAt, screen, written>>
    BY <2>1 DEF ReservePty, SpawnShell, SpawnPtyFails, RegisterPty, StartReader, ReaderEof,
       ShellExits, ClosePty, CloseFinishes, registryVars, outputVars
  <2>2. ASSUME ShutdownPtys
       PROVE  UNCHANGED <<ring, ringLock, panelAt, screen, written>>
    BY <2>2 DEF ShutdownPtys, registryVars, outputVars
  <2>3. CASE UNCHANGED ptyVars
    BY <2>3, <1>8 DEF ptyVars, registryVars, outputVars
  <2> QED BY <1>1, <1>2, <1>3, <1>4, <1>5, <1>6, <1>7, <1>8, <2>1, <2>2, <2>3 DEF PtyNext

\* Every step keeps the types.
LEMMA PtyTypesStep ==
  ASSUME PtyTypes, EndedOnce, RingIsTail, [PtyNext]_ptyVars
  PROVE  PtyTypes'
PROOF
<1> USE PtyAssumption
       DEF PtyTypes, registryVars, outputVars
<1>1. ASSUME NEW p \in Pty, ReservePty(p) PROVE PtyTypes'
  BY <1>1 DEF ReservePty, PtyStep
<1>2. ASSUME NEW p \in Pty, SpawnShell(p) PROVE PtyTypes'
  BY <1>2 DEF SpawnShell, PtyStep
<1>3. ASSUME NEW p \in Pty, SpawnPtyFails(p) PROVE PtyTypes'
  BY <1>3 DEF SpawnPtyFails, KillShell
<1>4. ASSUME NEW p \in Pty, RegisterPty(p) PROVE PtyTypes'
  BY <1>4 DEF RegisterPty, PtyStep
<1>5. ASSUME NEW p \in Pty, StartReader(p) PROVE PtyTypes'
  BY <1>5 DEF StartReader, PtyStep, KillShell
<1>6. ASSUME NEW p \in Pty, Attach(p) PROVE PtyTypes'
  BY <1>6 DEF Attach
<1>7. ASSUME NEW p \in Pty, ReplayRing(p) PROVE PtyTypes'
  BY <1>7 DEF ReplayRing
<1>8. ASSUME NEW p \in Pty, FlipSubscribed(p) PROVE PtyTypes'
  BY <1>8 DEF FlipSubscribed
<1>9. ASSUME NEW p \in Pty, Detach(p) PROVE PtyTypes'
  BY <1>9 DEF Detach
<1>10. ASSUME NEW p \in Pty, ShellWrites(p) PROVE PtyTypes'
  <2>1. /\ written[p] \in [out : 0..MaxChunk, in : 0..MaxChunk]
        /\ written[p].out + 1 \in 0..MaxChunk
    BY <1>10 DEF ShellWrites
  <2>2. written' = [written EXCEPT ![p].out = written[p].out + 1]
    BY <1>10 DEF ShellWrites
  <2>3. [written[p] EXCEPT !.out = written[p].out + 1] \in [out : 0..MaxChunk, in : 0..MaxChunk]
    BY <2>1
  <2>4. written' = [written EXCEPT ![p] = [written[p] EXCEPT !.out = written[p].out + 1]]
    BY <2>2
  <2>5. written' \in [Pty -> [out : 0..MaxChunk, in : 0..MaxChunk]] BY <2>3, <2>4
  <2> QED BY <1>10, <2>5 DEF ShellWrites
<1>11. ASSUME NEW p \in Pty, PushChunk(p) PROVE PtyTypes'
  <2>1. /\ ringLock' = [ringLock EXCEPT ![p] = "reader"] /\ written[p].in < written[p].out
        /\ written' = [written EXCEPT ![p].in = written[p].in + 1]
        /\ UNCHANGED <<ptyAt, ptyMap, shell, tornDown, closing, ended, subscribed, panelAt,
                       screen, panels>>
    BY <1>11 DEF PushChunk
  <2>2. ring' \in [Pty -> Seq(Nat)] BY <1>11, PushKeepsTail
  <2>3. written[p].in + 1 \in 0..MaxChunk BY <2>1
  <2>4. written' \in [Pty -> [out : 0..MaxChunk, in : 0..MaxChunk]] BY <2>1, <2>3
  <2> QED BY <2>1, <2>2, <2>4
<1>12. ASSUME NEW p \in Pty, EmitChunk(p) PROVE PtyTypes'
  BY <1>12 DEF EmitChunk
<1>13. ASSUME NEW p \in Pty, ReaderEof(p) PROVE PtyTypes'
  <2>1. CASE tornDown[p] BY <1>13, <2>1 DEF ReaderEof, PtyStep, FinishSession
  <2>2. CASE ~tornDown[p]
    <3>1. ended[p] = 0 BY <2>2 DEF EndedOnce
    <3>2. /\ tornDown' = [tornDown EXCEPT ![p] = TRUE] /\ ptyMap' = ptyMap \ {p}
          /\ ended' = [ended EXCEPT ![p] = 1]
      BY <1>13, <2>2, <3>1 DEF ReaderEof, PtyStep, FinishSession
    <3> QED BY <1>13, <3>2 DEF ReaderEof, PtyStep
  <2> QED BY <2>1, <2>2
<1>14. ASSUME NEW p \in Pty, ShellExits(p) PROVE PtyTypes'
  BY <1>14 DEF ShellExits, KillShell
<1>15. ASSUME NEW p \in Pty, ClosePty(p) PROVE PtyTypes'
  BY <1>15 DEF ClosePty, KillShell
<1>16. ASSUME NEW p \in Pty, CloseFinishes(p) PROVE PtyTypes'
  <2>1. CASE tornDown[p] BY <1>16, <2>1 DEF CloseFinishes, FinishSession
  <2>2. CASE ~tornDown[p]
    <3>1. ended[p] = 0 BY <2>2 DEF EndedOnce
    <3>2. /\ tornDown' = [tornDown EXCEPT ![p] = TRUE] /\ ptyMap' = ptyMap \ {p}
          /\ ended' = [ended EXCEPT ![p] = 1]
      BY <1>16, <2>2, <3>1 DEF CloseFinishes, FinishSession
    <3> QED BY <1>16, <3>2 DEF CloseFinishes
  <2> QED BY <2>1, <2>2
<1>17. CASE ShutdownPtys
  BY <1>17 DEF ShutdownPtys
<1>18. CASE UNCHANGED <<ptyAt, ptyMap, shell, tornDown, closing, ended, written, ring,
                        ringLock, subscribed, panelAt, screen, panels>>
  BY <1>18
<1> HIDE DEF PtyTypes, registryVars, outputVars
<1> QED
  <2>1. CASE UNCHANGED ptyVars
    BY <2>1, <1>18 DEF ptyVars, registryVars, outputVars
  <2> QED BY <1>1, <1>2, <1>3, <1>4, <1>5, <1>6, <1>7, <1>8, <1>9, <1>10, <1>11, <1>12,
     <1>13, <1>14, <1>15, <1>16, <1>17, <1>18, <2>1 DEF PtyNext

\* The cap is checked against what is registered and what is reserved, and a session
\* is one of the two from its reservation to its removal.
LEMMA PtyCapStep ==
  ASSUME PtyTypes, PtyCap, [PtyNext]_ptyVars
  PROVE  PtyCap'
PROOF
<1> DEFINE held == ptyMap \cup Reserved
<1>1. IsFiniteSet(held) /\ Cardinality(held) <= MaxPty /\ MaxPty \in Nat
  BY PtyAssumption DEF PtyCap
<1>2. SUFFICES IsFiniteSet(held') /\ Cardinality(held') <= MaxPty
  BY DEF PtyCap
<1>3. ASSUME held' \subseteq held PROVE IsFiniteSet(held') /\ Cardinality(held') <= MaxPty
  <2> HIDE DEF held
  <2>1. Cardinality(held) \in Nat BY <1>1, FS_CardinalityType
  <2>2. /\ IsFiniteSet(held') /\ Cardinality(held') <= Cardinality(held)
        /\ Cardinality(held') \in Nat
    BY <1>1, <1>3, FS_Subset, FS_CardinalityType
  <2> QED BY <1>1, <2>1, <2>2
<1>4. ASSUME NEW p \in Pty, ReservePty(p)
      PROVE  IsFiniteSet(held') /\ Cardinality(held') <= MaxPty
  <2>1. Reserved' = Reserved \cup {p} /\ UNCHANGED ptyMap
    BY <1>4 DEF ReservePty, PtyStep, Reserved, PtyTypes
  <2>2. held' = held \cup {p} BY <2>1
  <2>3. IsFiniteSet(ptyMap) /\ IsFiniteSet(Reserved) BY <1>1, FS_Subset
  <2>4. /\ Cardinality(ptyMap) \in Nat /\ Cardinality(Reserved) \in Nat
        /\ Cardinality(ptyMap \cap Reserved) \in Nat
    BY <2>3, FS_CardinalityType, FS_Intersection
  <2>5. Cardinality(held) =
          Cardinality(ptyMap) + Cardinality(Reserved) - Cardinality(ptyMap \cap Reserved)
    BY <2>3, FS_Union
  <2>6. Cardinality(ptyMap) + Cardinality(Reserved) < MaxPty BY <1>4 DEF ReservePty
  <2>7. Cardinality(held) + 1 <= MaxPty /\ Cardinality(held) \in Nat
    <3>1. Cardinality(held) \in Nat BY <1>1, FS_CardinalityType
    <3> HIDE DEF held
    <3> QED BY <1>1, <2>4, <2>5, <2>6, <3>1
  <2> HIDE DEF held
  <2>8. /\ IsFiniteSet(held \cup {p})
        /\ Cardinality(held \cup {p}) = IF p \in held THEN Cardinality(held)
                                                     ELSE Cardinality(held) + 1
    BY <1>1, FS_AddElement
  <2> QED BY <1>1, <2>2, <2>7, <2>8
<1>5. ASSUME NEW p \in Pty, SpawnShell(p) \/ RegisterPty(p) PROVE held' \subseteq held
  BY <1>5 DEF SpawnShell, RegisterPty, PtyStep, Reserved, PtyTypes, registryVars, outputVars
<1>6. ASSUME NEW p \in Pty, SpawnPtyFails(p) \/ StartReader(p) PROVE held' \subseteq held
  BY <1>6 DEF SpawnPtyFails, StartReader, PtyStep, Reserved, PtyTypes, registryVars, outputVars
<1>7. ASSUME NEW p \in Pty, ReaderEof(p) PROVE held' \subseteq held
  BY <1>7 DEF ReaderEof, FinishSession, PtyStep, Reserved, PtyTypes
<1>8. ASSUME NEW p \in Pty, CloseFinishes(p) PROVE held' \subseteq held
  BY <1>8 DEF CloseFinishes, FinishSession, Reserved
<1>9. CASE ShutdownPtys
  <2>1. held' \subseteq held BY <1>9 DEF ShutdownPtys, Reserved
  <2> QED BY <1>3, <2>1
<1>10. ASSUME UNCHANGED <<ptyAt, ptyMap>> PROVE held' \subseteq held
  BY <1>10 DEF Reserved
<1> HIDE DEF held
<1> QED
  <2>1. ASSUME NEW p \in Pty,
         Attach(p) \/ ReplayRing(p) \/ FlipSubscribed(p) \/ Detach(p) \/ ShellWrites(p) \/
         PushChunk(p) \/ EmitChunk(p) \/ ShellExits(p) \/ ClosePty(p)
       PROVE  UNCHANGED <<ptyAt, ptyMap>>
    BY <2>1 DEF Attach, ReplayRing, FlipSubscribed, Detach, ShellWrites, PushChunk, EmitChunk,
       ShellExits, ClosePty, registryVars
  <2>2. CASE UNCHANGED ptyVars
    BY <1>3, <1>10, <2>2 DEF ptyVars, registryVars
  <2> QED BY <1>3, <1>4, <1>5, <1>6, <1>7, <1>8, <1>9, <1>10, <2>1, <2>2 DEF PtyNext

LEMMA PtyInitInv == PtyInit => PtyInv
PROOF
<1> SUFFICES ASSUME PtyInit PROVE PtyInv OBVIOUS
<1> USE DEF PtyInit
<1>1. PtyTypes BY PtyAssumption DEF PtyTypes
<1>2. PtyCap
  <2>1. ptyMap \cup Reserved = {} BY DEF Reserved
  <2>2. Cardinality(ptyMap \cup Reserved) = 0 BY <2>1, FS_EmptySet
  <2>3. MaxPty \in Nat BY PtyAssumption
  <2>4. IsFiniteSet(ptyMap \cup Reserved) BY <2>1, FS_EmptySet
  <2>5. Cardinality(ptyMap \cup Reserved) <= MaxPty BY <2>2, <2>3
  <2> QED BY <2>4, <2>5 DEF PtyCap
<1>3. EndedOnce /\ RingLocked BY DEF EndedOnce, RingLocked
<1>4. RingIsTail /\ ScreenFollows BY DEF RingIsTail, ScreenFollows, IsTail
<1> QED BY <1>1, <1>2, <1>3, <1>4 DEF PtyInv

LEMMA PtyInvariance == PtySpec => []PtyInv
PROOF
<1>1. PtyInv /\ [PtyNext]_ptyVars => PtyInv'
  BY PtyTypesStep, PtyCapStep, EndedOnceStep, RingLockedStep, RingIsTailStep, ScreenFollowsStep
  DEF PtyInv
<1> QED BY PtyInitInv, <1>1, PTL DEF PtySpec

\* Types, and the cap: however spawns, closes and a shutdown interleave, no more than
\* MaxPty sessions are registered, and each is announced as ended at most once.
THEOREM PtyTypeCorrect == PtySpec => []PtyTypeOK
PROOF
<1>1. PtyInv => PtyTypeOK
  <2> SUFFICES ASSUME PtyTypes, PtyCap PROVE PtyTypeOK BY DEF PtyInv
  <2>1. MaxPty \in Nat BY PtyAssumption
  <2>2. /\ Cardinality(ptyMap) <= Cardinality(ptyMap \cup Reserved)
        /\ Cardinality(ptyMap) \in Nat /\ Cardinality(ptyMap \cup Reserved) \in Nat
    BY FS_Subset, FS_CardinalityType DEF PtyCap
  <2> QED BY <2>1, <2>2 DEF PtyTypeOK, PtyCap
<1> QED BY PtyInvariance, <1>1, PTL

\* What an attached panel shows is the end of the output without a gap or a repetition.
THEOREM PanelsShowTheOutput == PtySpec => []StreamIsWhole
PROOF
<1>1. PtyInv => StreamIsWhole
  BY DEF PtyInv, ScreenFollows, StreamIsWhole, IsTail
<1> QED BY PtyInvariance, <1>1, PTL

-----------------------------------------------------------------------------
(***************************************************************************)
(* Remote access, for any entrypoints, tunnels, ports, plans and deaths.   *)
(* Every listening server is in the map or about to be entered, and every  *)
(* tunnel of the map leads to the address that its entrypoint is bound at: *)
(* both rest on the order in which one reconciliation stops, binds,        *)
(* starts.                                                                 *)
(***************************************************************************)

\* A bound entrypoint is bound as the configuration wants it.
MapFollowsPlan ==
  \A e \in Entry :
    entries[e] # Unbound => entries[e] = Wanted(remotePlan, e) /\ entries[e].port # Nobody

\* What is still to be bound, or has been and is not in the map yet.
Binding ==
  /\ reconciling = "bind" => \A e \in todo :
       /\ e \in Entry /\ e \notin made /\ entries[e] = Unbound
       /\ Wanted(remotePlan, e).port # Nobody
  /\ \A e \in made :
       /\ reconciling = "bind" /\ e \in Entry /\ entries[e] = Unbound
       /\ Wanted(remotePlan, e).port # Nobody

\* What is still to be started is out of the map, and its target is bound.
Starting ==
  reconciling = "start" => \A t \in todo :
    /\ t \in Tunnel /\ tunnels[t] = NoTunnel /\ remotePlan.tunnel[t].mode # "off"
    /\ entries[Target(t)].port # Nobody

\* From the start of the tunnels to the next save the map of tunnels is what the
\* configuration and the bound entrypoints ask for.
TunnelsAsDesired ==
  reconciling \in {"start", "idle"} => \A t \in Tunnel :
    tunnels[t] # NoTunnel =>
      /\ tunnels[t].mode = remotePlan.tunnel[t].mode /\ tunnels[t].mode # "off"
      /\ tunnels[t].port = remotePlan.tunnel[t].port
      /\ tunnels[t].to = entries[Target(t)] /\ tunnels[t].to.port # Nobody

\* Only a quick tunnel has a process.
ProcessesOfQuick == \A t \in Tunnel : tunnelProc[t].now # "none" => tunnels[t].mode = "quick"

\* A server that is not being aborted is in a map, or about to be entered.
EntryListens ==
  \A p \in Port, e \in Entry :
    holder[p].by = e /\ ~holder[p].aborted =>
      \/ entries[e] = [port |-> p, rev |-> holder[p].rev]
      \/ e \in made /\ Wanted(remotePlan, e) = [port |-> p, rev |-> holder[p].rev]
LanListens ==
  \A p \in Port, t \in Tunnel :
    holder[p].by = t /\ ~holder[p].aborted =>
      /\ tunnels[t].mode = "lan" /\ tunnels[t].port = p
      /\ tunnels[t].to.rev = holder[p].rev

RemoteInv ==
  /\ RemoteTypeOK /\ MapFollowsPlan /\ Binding /\ Starting /\ TunnelsAsDesired
  /\ ProcessesOfQuick /\ EntryListens /\ LanListens
-----------------------------------------------------------------------------
(* Lemmas about the operators                                               *)

\* What validate_remote_access leaves of a configuration.
LEMMA PlanTyped ==
  ASSUME NEW plan \in Plan
  PROVE  /\ plan.entry \in [Entry -> EntryPlan] /\ plan.tunnel \in [Tunnel -> TunnelPlan]
         /\ \A t \in Tunnel : plan.tunnel[t].mode # "off" => plan.tunnel[t].target \in Entry
         /\ \A t \in Tunnel :
              plan.tunnel[t].mode = "lan" => plan.tunnel[t].port \in Port
PROOF
<1>1. /\ plan.entry \in [Entry -> EntryPlan] /\ plan.tunnel \in [Tunnel -> TunnelPlan]
      /\ PlanIsValid(plan)
  BY RemoteAssumption
<1>2. \A t \in Tunnel : plan.tunnel[t].port \in Port \cup {Nobody}
  BY <1>1 DEF TunnelPlan
<1> QED BY <1>1, <1>2 DEF PlanIsValid

\* An abort marks the listeners of those it is asked for, and changes nothing else.
LEMMA AbortedServer ==
  ASSUME holder \in [Port -> Listener], NEW xs
  PROVE  /\ Abort(xs) \in [Port -> Listener]
         /\ \A p \in Port :
              /\ Abort(xs)[p].by = holder[p].by /\ Abort(xs)[p].rev = holder[p].rev
              /\ ~Abort(xs)[p].aborted => ~holder[p].aborted /\ holder[p].by \notin xs
PROOF
<1>1. SUFFICES ASSUME NEW p \in Port
               PROVE  /\ Abort(xs)[p] \in Listener
                      /\ Abort(xs)[p].by = holder[p].by /\ Abort(xs)[p].rev = holder[p].rev
                      /\ ~Abort(xs)[p].aborted => ~holder[p].aborted /\ holder[p].by \notin xs
  BY DEF Abort
<1>2. holder[p] \in Listener OBVIOUS
<1>3. CASE holder[p].by \in xs
  <2>1. Abort(xs)[p] = [holder[p] EXCEPT !.aborted = TRUE] BY <1>3 DEF Abort
  <2> QED BY <1>2, <2>1 DEF Listener
<1>4. CASE holder[p].by \notin xs
  <2>1. Abort(xs)[p] = holder[p] BY <1>4 DEF Abort
  <2> QED BY <1>2, <1>4, <2>1
<1> QED BY <1>3, <1>4

\* A tunnel is entered as the configuration and its bound target say.
LEMMA TunnelEntered ==
  ASSUME RemoteTypeOK, Starting, NEW t \in Tunnel, StartTunnel(t)
  PROVE  /\ tunnels' \in [Tunnel -> TunnelEntry]
         /\ \A u \in Tunnel : u # t => tunnels'[u] = tunnels[u]
         /\ tunnels[t] = NoTunnel /\ tunnels'[t] # NoTunnel
         /\ tunnels'[t].mode = remotePlan.tunnel[t].mode /\ tunnels'[t].mode # "off"
         /\ tunnels'[t].port = remotePlan.tunnel[t].port
         /\ tunnels'[t].to = entries[Target(t)] /\ tunnels'[t].to.port # Nobody
PROOF
<1> DEFINE plan == remotePlan.tunnel[t]
           new(state, url) ==
             [mode |-> plan.mode, target |-> Target(t), port |-> plan.port,
              to |-> entries[Target(t)], state |-> state, url |-> url]
<1>1. /\ tunnels \in [Tunnel -> TunnelEntry] /\ entries \in [Entry -> EntryPlan]
      /\ remotePlan \in Plan
  BY DEF RemoteTypeOK
<1>2. /\ t \in todo /\ reconciling = "start"
      /\ StartListener(t) \/ StartLan(t) \/ StartProcess(t)
  BY DEF StartTunnel
<1>3. /\ tunnels[t] = NoTunnel /\ plan.mode # "off" /\ entries[Target(t)].port # Nobody
  BY <1>2 DEF Starting
<1>4. plan \in TunnelPlan /\ Target(t) \in Entry
  BY <1>1, <1>3, PlanTyped DEF Target
<1>5. /\ plan.mode \in Mode /\ plan.port \in Port \cup {Nobody}
      /\ entries[Target(t)] \in EntryPlan
  BY <1>1, <1>4 DEF TunnelPlan
<1>6. \A state \in {"running", "error"}, url \in BOOLEAN :
        /\ new(state, url) \in TunnelEntry
        /\ new(state, url).mode = plan.mode /\ new(state, url).port = plan.port
        /\ new(state, url).to = entries[Target(t)]
  BY <1>4, <1>5 DEF TunnelEntry
<1>7. \E state \in {"running", "error"}, url \in BOOLEAN :
        tunnels' = [tunnels EXCEPT ![t] = new(state, url)]
  BY <1>2 DEF StartListener, StartLan, StartProcess, Started
<1>8. NoTunnel.mode = "off" BY DEF NoTunnel
<1> HIDE DEF new
<1>9. PICK state \in {"running", "error"}, url \in BOOLEAN :
        tunnels' = [tunnels EXCEPT ![t] = new(state, url)]
  BY <1>7
<1>10. tunnels' \in [Tunnel -> TunnelEntry] /\ tunnels'[t] = new(state, url)
  BY <1>1, <1>6, <1>9
<1>11. \A u \in Tunnel : u # t => tunnels'[u] = tunnels[u] BY <1>1, <1>9
<1> QED BY <1>3, <1>6, <1>8, <1>10, <1>11

\* The drain task and the owner task change no more of a tunnel than its state and URL.
LEMMA TunnelKept ==
  ASSUME RemoteTypeOK, ProcessesOfQuick, NEW t \in Tunnel, UrlRead(t) \/ ChildExits(t)
  PROVE  /\ tunnels' \in [Tunnel -> TunnelEntry]
         /\ \A u \in Tunnel :
              /\ tunnels'[u].mode = tunnels[u].mode /\ tunnels'[u].port = tunnels[u].port
              /\ tunnels'[u].to = tunnels[u].to
              /\ tunnels[u] = NoTunnel => tunnels'[u] = NoTunnel
PROOF
<1>1. tunnels \in [Tunnel -> TunnelEntry] /\ tunnels[t] \in TunnelEntry BY DEF RemoteTypeOK
<1>2. SUFFICES \E n \in TunnelEntry :
        /\ tunnels' = [tunnels EXCEPT ![t] = n]
        /\ n.mode = tunnels[t].mode /\ n.port = tunnels[t].port /\ n.to = tunnels[t].to
        /\ tunnels[t] # NoTunnel
  BY <1>1
<1>3. tunnels[t].mode = "quick" BY DEF UrlRead, ChildExits, ProcessesOfQuick
<1>4. tunnels[t] # NoTunnel BY <1>3 DEF NoTunnel
<1>5. CASE UrlRead(t)
  <2> DEFINE n == [tunnels[t] EXCEPT !.url = TRUE]
  <2>1. tunnels' = [tunnels EXCEPT ![t] = n] BY <1>1, <1>5 DEF UrlRead
  <2>2. n \in TunnelEntry BY <1>1 DEF TunnelEntry
  <2> QED BY <1>1, <1>4, <2>1, <2>2 DEF TunnelEntry
<1>6. CASE ChildExits(t)
  <2> DEFINE n == [tunnels[t] EXCEPT !.state = "error", !.url = FALSE]
  <2>1. tunnels' = [tunnels EXCEPT ![t] = n] BY <1>1, <1>6 DEF ChildExits
  <2>2. n \in TunnelEntry BY <1>1 DEF TunnelEntry
  <2> QED BY <1>1, <1>4, <2>1, <2>2 DEF TunnelEntry
<1> QED BY <1>5, <1>6

-----------------------------------------------------------------------------
(* The invariant is inductive, part by part.                                *)

\* Every step keeps the types.
LEMMA RemoteTypeStep ==
  ASSUME RemoteTypeOK, Starting, ProcessesOfQuick, [RemoteNext]_remoteVars
  PROVE  RemoteTypeOK'
PROOF
<1> USE RemoteAssumption
       DEF RemoteTypeOK
<1>1. ASSUME NEW plan \in Plan, Reconcile(plan) PROVE RemoteTypeOK'
  <2>1. holder' \in [Port -> Listener] BY <1>1, AbortedServer DEF Reconcile
  <2>2. entries' \in [Entry -> EntryPlan]
    <3>1. Unbound \in EntryPlan BY DEF Unbound, EntryPlan
    <3> QED BY <1>1, <3>1 DEF Reconcile
  <2>3. /\ remotePlan' = plan /\ plansSaved' \in 0..MaxPlan /\ reconciling' = "bind"
        /\ todo' \subseteq Entry /\ made' = {}
        /\ UNCHANGED <<tunnels, tunnelProc, remoteDeaths>>
    BY <1>1 DEF Reconcile
  <2> QED BY <2>1, <2>2, <2>3
<1>2. CASE InsertEntries
  <2>1. remotePlan.entry \in [Entry -> EntryPlan] BY PlanTyped
  <2> QED BY <1>2, <2>1 DEF InsertEntries, Wanted
<1>3. CASE PlanTunnels
  <2>1. holder' \in [Port -> Listener] BY <1>3, AbortedServer DEF PlanTunnels
  <2>2. NoTunnel \in TunnelEntry BY DEF NoTunnel, TunnelEntry, Mode, Unbound, EntryPlan
  <2>3. tunnels' \in [Tunnel -> TunnelEntry] BY <1>3, <2>2 DEF PlanTunnels
  <2>4. tunnelProc' \in [Tunnel -> [now : {"none", "up", "exited"}, dying : BOOLEAN]]
    BY <1>3 DEF PlanTunnels
  <2>5. /\ reconciling' = "start" /\ todo' \subseteq Tunnel
        /\ UNCHANGED <<remotePlan, plansSaved, made, entries, remoteDeaths>>
    BY <1>3 DEF PlanTunnels
  <2> QED BY <2>1, <2>3, <2>4, <2>5
<1>4. CASE Reconciled
  BY <1>4 DEF Reconciled
<1>5. ASSUME NEW e \in Entry, BindEntry(e) PROVE RemoteTypeOK'
  <2>1. remotePlan.entry[e] \in EntryPlan BY PlanTyped
  <2>2. [by |-> e, rev |-> Wanted(remotePlan, e).rev, aborted |-> FALSE] \in Listener
    BY <2>1 DEF Wanted, EntryPlan, Listener
  <2>3. holder' \in [Port -> Listener] BY <1>5, <2>2 DEF BindEntry
  <2>4. /\ todo' \subseteq Entry \cup Tunnel /\ made' \subseteq Entry \cup Tunnel
        /\ UNCHANGED <<remotePlan, plansSaved, reconciling, entries, tunnels, tunnelProc>>
    BY <1>5 DEF BindEntry
  <2>5. remoteDeaths' \in 0..MaxDeath BY <1>5, RemoteAssumption DEF BindEntry, TriesRunOut
  <2> QED BY <2>3, <2>4, <2>5
<1>6. ASSUME NEW t \in Tunnel, StartTunnel(t) PROVE RemoteTypeOK'
  <2>1. tunnels' \in [Tunnel -> TunnelEntry] BY <1>6, TunnelEntered
  <2>2. /\ t \in todo /\ reconciling = "start" /\ todo' \subseteq Entry \cup Tunnel
        /\ UNCHANGED <<remotePlan, plansSaved, reconciling, made, entries>>
        /\ StartListener(t) \/ StartLan(t) \/ StartProcess(t)
    BY <1>6 DEF StartTunnel
  <2>3. holder' \in [Port -> Listener]
    <3>1. Target(t) \in Entry BY <2>2, PlanTyped DEF Starting, Target
    <3>2. [by |-> t, rev |-> entries[Target(t)].rev, aborted |-> FALSE] \in Listener
      BY <3>1 DEF Listener, EntryPlan
    <3> QED BY <2>2, <3>2 DEF StartListener, StartLan, StartProcess
  <2>4. tunnelProc' \in [Tunnel -> [now : {"none", "up", "exited"}, dying : BOOLEAN]]
    <3>1. [tunnelProc[t] EXCEPT !.now = "up"] \in [now : {"none", "up", "exited"}, dying : BOOLEAN]
      OBVIOUS
    <3>2. UNCHANGED tunnelProc \/ tunnelProc' = [tunnelProc EXCEPT ![t].now = "up"]
      BY <2>2 DEF StartListener, StartLan, StartProcess
    <3> QED BY <3>1, <3>2
  <2>5. remoteDeaths' \in 0..MaxDeath
    <3> DEFINE Counted == \/ remoteDeaths' = remoteDeaths
                          \/ remoteDeaths < MaxDeath /\ remoteDeaths' = remoteDeaths + 1
    <3>1. CASE StartListener(t) BY <3>1 DEF StartListener
    <3>2. CASE StartProcess(t) BY <3>2 DEF StartProcess
    <3>3. CASE StartLan(t)
      <4>1. ASSUME NEW p, TriesRunOut(p) PROVE Counted BY <4>1 DEF TriesRunOut
      <4>2. Counted BY <3>3, <4>1 DEF StartLan
      <4>3. remoteDeaths \in 0..MaxDeath /\ MaxDeath \in Nat BY RemoteAssumption
      <4> QED BY <4>2, <4>3
    <3> QED BY <2>2, <3>1, <3>2, <3>3
  <2> QED BY <2>1, <2>2, <2>3, <2>4, <2>5
<1>7. ASSUME NEW p \in Port, DropListener(p) PROVE RemoteTypeOK'
  <2>1. Free \in Listener BY DEF Free, Listener
  <2> QED BY <1>7, <2>1 DEF DropListener
<1>8. ASSUME NEW p \in Port, ServerFails(p) PROVE RemoteTypeOK'
  <2>1. Free \in Listener BY DEF Free, Listener
  <2> QED BY <1>8, <2>1 DEF ServerFails
<1>9. ASSUME NEW t \in Tunnel, UrlRead(t) PROVE RemoteTypeOK'
  <2>1. tunnels' \in [Tunnel -> TunnelEntry] BY <1>9, TunnelKept
  <2> QED BY <1>9, <2>1 DEF UrlRead
<1>10. ASSUME NEW t \in Tunnel, ChildExits(t) PROVE RemoteTypeOK'
  <2>1. tunnels' \in [Tunnel -> TunnelEntry] BY <1>10, TunnelKept
  <2>2. [tunnelProc[t] EXCEPT !.now = "exited"] \in [now : {"none", "up", "exited"}, dying : BOOLEAN]
    OBVIOUS
  <2>3. tunnelProc' \in [Tunnel -> [now : {"none", "up", "exited"}, dying : BOOLEAN]]
    BY <1>10, <2>2 DEF ChildExits
  <2>4. /\ remoteDeaths' \in 0..MaxDeath
        /\ UNCHANGED <<remotePlan, plansSaved, reconciling, todo, made, entries, holder>>
    BY <1>10 DEF ChildExits
  <2> QED BY <2>1, <2>3, <2>4
<1>11. ASSUME NEW t \in Tunnel, ChildKilled(t) PROVE RemoteTypeOK'
  BY <1>11 DEF ChildKilled
<1>12. CASE UNCHANGED <<remotePlan, plansSaved, reconciling, todo, made, entries, tunnels,
                        holder, tunnelProc, remoteDeaths>>
  BY <1>12
<1> HIDE DEF RemoteTypeOK
<1> QED
  <2>1. CASE UNCHANGED remoteVars
    BY <2>1, <1>12 DEF remoteVars
  <2> QED BY <1>1, <1>2, <1>3, <1>4, <1>5, <1>6, <1>7, <1>8, <1>9, <1>10, <1>11, <1>12, <2>1
       DEF RemoteNext, ReconcileStep

\* What differs from a new configuration is taken out first.
LEMMA MapFollowsPlanStep ==
  ASSUME RemoteTypeOK, MapFollowsPlan, Binding, [RemoteNext]_remoteVars
  PROVE  MapFollowsPlan'
PROOF
<1> USE DEF MapFollowsPlan
<1>1. ASSUME NEW plan \in Plan, Reconcile(plan) PROVE MapFollowsPlan'
  BY <1>1 DEF Reconcile, Removed
<1>2. CASE InsertEntries
  BY <1>2 DEF InsertEntries, Binding
<1>3. CASE UNCHANGED <<remotePlan, entries>>
  BY <1>3
<1> HIDE DEF MapFollowsPlan
<1> QED
  <2>1. ASSUME PlanTunnels \/ Reconciled
       PROVE  UNCHANGED <<remotePlan, entries>>
    BY <2>1 DEF PlanTunnels, Reconciled
  <2>2. ASSUME NEW e \in Entry,
         BindEntry(e)
       PROVE  UNCHANGED <<remotePlan, entries>>
    BY <2>2 DEF BindEntry
  <2>3. ASSUME NEW t \in Tunnel,
         StartTunnel(t) \/ UrlRead(t) \/ ChildExits(t) \/ ChildKilled(t)
       PROVE  UNCHANGED <<remotePlan, entries>>
    BY <2>3 DEF StartTunnel, UrlRead, ChildExits, ChildKilled
  <2>4. ASSUME NEW p \in Port,
         DropListener(p) \/ ServerFails(p)
       PROVE  UNCHANGED <<remotePlan, entries>>
    BY <2>4 DEF DropListener, ServerFails
  <2>5. CASE UNCHANGED remoteVars
    BY <2>5, <1>3 DEF remoteVars
  <2> QED BY <1>1, <1>2, <1>3, <2>1, <2>2, <2>3, <2>4, <2>5 DEF RemoteNext, ReconcileStep

\* An entrypoint is bound once, and entered with the others.
LEMMA BindingStep ==
  ASSUME RemoteTypeOK, Binding, [RemoteNext]_remoteVars
  PROVE  Binding'
PROOF
<1> USE DEF RemoteTypeOK, Binding
<1>1. ASSUME NEW plan \in Plan, Reconcile(plan) PROVE Binding'
  BY <1>1 DEF Reconcile
<1>2. CASE InsertEntries
  BY <1>2 DEF InsertEntries
<1>3. CASE PlanTunnels
  BY <1>3 DEF PlanTunnels
<1>4. CASE Reconciled
  BY <1>4 DEF Reconciled
<1>5. ASSUME NEW e \in Entry, BindEntry(e) PROVE Binding'
  BY <1>5 DEF BindEntry
<1>6. ASSUME NEW t \in Tunnel, StartTunnel(t) PROVE Binding'
  BY <1>6 DEF StartTunnel
<1>7. CASE UNCHANGED <<reconciling, todo, made, entries, remotePlan>>
  BY <1>7
<1> HIDE DEF RemoteTypeOK, Binding
<1> QED
  <2>1. ASSUME NEW p \in Port,
         DropListener(p) \/ ServerFails(p)
       PROVE  UNCHANGED <<reconciling, todo, made, entries, remotePlan>>
    BY <2>1 DEF DropListener, ServerFails
  <2>2. ASSUME NEW t \in Tunnel,
         UrlRead(t) \/ ChildExits(t) \/ ChildKilled(t)
       PROVE  UNCHANGED <<reconciling, todo, made, entries, remotePlan>>
    BY <2>2 DEF UrlRead, ChildExits, ChildKilled
  <2>3. CASE UNCHANGED remoteVars
    BY <2>3, <1>7 DEF remoteVars
  <2> QED BY <1>1, <1>2, <1>3, <1>4, <1>5, <1>6, <1>7, <2>1, <2>2, <2>3 DEF RemoteNext, ReconcileStep

\* The targets stay bound while tunnels are started.
LEMMA StartingStep ==
  ASSUME RemoteTypeOK, Starting, ProcessesOfQuick, [RemoteNext]_remoteVars
  PROVE  Starting'
PROOF
<1> USE DEF Starting, Target
<1>1. ASSUME NEW plan \in Plan, Reconcile(plan) PROVE Starting'
  BY <1>1 DEF Reconcile
<1>2. CASE InsertEntries
  BY <1>2 DEF InsertEntries
<1>3. CASE PlanTunnels
  BY <1>3 DEF PlanTunnels, Desired, RemoteTypeOK
<1>4. CASE Reconciled
  BY <1>4 DEF Reconciled
<1>5. ASSUME NEW e \in Entry, BindEntry(e) PROVE Starting'
  BY <1>5 DEF BindEntry
<1>6. ASSUME NEW t \in Tunnel, StartTunnel(t) PROVE Starting'
  <2>1. \A u \in Tunnel : u # t => tunnels'[u] = tunnels[u] BY <1>6, TunnelEntered
  <2> QED BY <1>6, <2>1 DEF StartTunnel
<1>7. ASSUME NEW t \in Tunnel, UrlRead(t) PROVE Starting'
  <2>1. \A u \in Tunnel : tunnels[u] = NoTunnel => tunnels'[u] = NoTunnel BY <1>7, TunnelKept
  <2> QED BY <1>7, <2>1 DEF UrlRead
<1>8. ASSUME NEW t \in Tunnel, ChildExits(t) PROVE Starting'
  <2>1. \A u \in Tunnel : tunnels[u] = NoTunnel => tunnels'[u] = NoTunnel BY <1>8, TunnelKept
  <2> QED BY <1>8, <2>1 DEF ChildExits
<1>9. CASE UNCHANGED <<reconciling, todo, tunnels, remotePlan, entries>>
  BY <1>9
<1> HIDE DEF Starting, Target
<1> QED
  <2>1. ASSUME NEW p \in Port,
         DropListener(p) \/ ServerFails(p)
       PROVE  UNCHANGED <<reconciling, todo, tunnels, remotePlan, entries>>
    BY <2>1 DEF DropListener, ServerFails
  <2>2. ASSUME NEW t \in Tunnel,
         ChildKilled(t)
       PROVE  UNCHANGED <<reconciling, todo, tunnels, remotePlan, entries>>
    BY <2>2 DEF ChildKilled
  <2>3. CASE UNCHANGED remoteVars
    BY <2>3, <1>9 DEF remoteVars
  <2> QED BY <1>1, <1>2, <1>3, <1>4, <1>5, <1>6, <1>7, <1>8, <1>9, <2>1, <2>2, <2>3
       DEF RemoteNext, ReconcileStep

\* What is not as desired is torn down, what is started is.
LEMMA TunnelsAsDesiredStep ==
  ASSUME RemoteTypeOK, Starting, ProcessesOfQuick, TunnelsAsDesired, [RemoteNext]_remoteVars
  PROVE  TunnelsAsDesired'
PROOF
<1> USE DEF TunnelsAsDesired, Target
<1>1. ASSUME NEW plan \in Plan, Reconcile(plan) PROVE TunnelsAsDesired'
  BY <1>1 DEF Reconcile
<1>2. CASE InsertEntries
  BY <1>2 DEF InsertEntries
<1>3. CASE PlanTunnels
  <2>1. /\ UNCHANGED <<remotePlan, entries>>
        /\ \A t \in Tunnel : tunnels'[t] # NoTunnel => tunnels'[t] = tunnels[t] /\ Kept(t)
    BY <1>3 DEF PlanTunnels
  <2> QED BY <2>1 DEF Kept, Desired, AsDesired
<1>4. CASE Reconciled
  BY <1>4 DEF Reconciled
<1>5. ASSUME NEW t \in Tunnel, StartTunnel(t) PROVE TunnelsAsDesired'
  <2>1. /\ \A u \in Tunnel : u # t => tunnels'[u] = tunnels[u]
        /\ tunnels'[t].mode = remotePlan.tunnel[t].mode /\ tunnels'[t].mode # "off"
        /\ tunnels'[t].port = remotePlan.tunnel[t].port
        /\ tunnels'[t].to = entries[Target(t)] /\ tunnels'[t].to.port # Nobody
    BY <1>5, TunnelEntered
  <2>2. reconciling = "start" /\ UNCHANGED <<remotePlan, reconciling, entries>>
    BY <1>5 DEF StartTunnel
  <2> QED BY <2>1, <2>2
<1>6. ASSUME NEW t \in Tunnel, UrlRead(t) PROVE TunnelsAsDesired'
  <2>1. \A u \in Tunnel :
          /\ tunnels'[u].mode = tunnels[u].mode /\ tunnels'[u].port = tunnels[u].port
          /\ tunnels'[u].to = tunnels[u].to
          /\ tunnels[u] = NoTunnel => tunnels'[u] = NoTunnel
    BY <1>6, TunnelKept
  <2>2. UNCHANGED <<reconciling, remotePlan, entries, holder>>
    BY <1>6 DEF UrlRead
  <2> QED BY <2>1, <2>2
<1>7. ASSUME NEW t \in Tunnel, ChildExits(t) PROVE TunnelsAsDesired'
  <2>1. \A u \in Tunnel :
          /\ tunnels'[u].mode = tunnels[u].mode /\ tunnels'[u].port = tunnels[u].port
          /\ tunnels'[u].to = tunnels[u].to
          /\ tunnels[u] = NoTunnel => tunnels'[u] = NoTunnel
    BY <1>7, TunnelKept
  <2>2. UNCHANGED <<reconciling, remotePlan, entries, holder>>
    BY <1>7 DEF ChildExits
  <2> QED BY <2>1, <2>2
<1>8. CASE UNCHANGED <<reconciling, tunnels, remotePlan, entries>>
  BY <1>8
<1> HIDE DEF TunnelsAsDesired, Target
<1> QED
  <2>1. ASSUME NEW e \in Entry,
         BindEntry(e)
       PROVE  UNCHANGED <<reconciling, tunnels, remotePlan, entries>>
    BY <2>1 DEF BindEntry
  <2>2. ASSUME NEW p \in Port,
         DropListener(p) \/ ServerFails(p)
       PROVE  UNCHANGED <<reconciling, tunnels, remotePlan, entries>>
    BY <2>2 DEF DropListener, ServerFails
  <2>3. ASSUME NEW t \in Tunnel,
         ChildKilled(t)
       PROVE  UNCHANGED <<reconciling, tunnels, remotePlan, entries>>
    BY <2>3 DEF ChildKilled
  <2>4. CASE UNCHANGED remoteVars
    BY <2>4, <1>8 DEF remoteVars
  <2> QED BY <1>1, <1>2, <1>3, <1>4, <1>5, <1>6, <1>7, <1>8, <2>1, <2>2, <2>3, <2>4
       DEF RemoteNext, ReconcileStep

\* A tunnel loses its process with its entry.
LEMMA ProcessesOfQuickStep ==
  ASSUME RemoteTypeOK, Starting, ProcessesOfQuick, [RemoteNext]_remoteVars
  PROVE  ProcessesOfQuick'
PROOF
<1> USE DEF ProcessesOfQuick
<1>1. CASE PlanTunnels
  BY <1>1 DEF PlanTunnels, RemoteTypeOK
<1>2. ASSUME NEW t \in Tunnel, StartTunnel(t) PROVE ProcessesOfQuick'
  <2>1. /\ \A u \in Tunnel : u # t => tunnels'[u] = tunnels[u]
        /\ tunnels[t] = NoTunnel /\ tunnels'[t].mode = remotePlan.tunnel[t].mode
    BY <1>2, TunnelEntered
  <2>2. tunnelProc[t].now = "none" BY <2>1 DEF NoTunnel
  <2>3. \/ UNCHANGED tunnelProc
        \/ remotePlan.tunnel[t].mode = "quick" /\ tunnelProc' = [tunnelProc EXCEPT ![t].now = "up"]
    BY <1>2 DEF StartTunnel, StartListener, StartLan, StartProcess
  <2> QED BY <2>1, <2>2, <2>3 DEF RemoteTypeOK
<1>3. ASSUME NEW t \in Tunnel, UrlRead(t) PROVE ProcessesOfQuick'
  <2>1. \A u \in Tunnel :
          /\ tunnels'[u].mode = tunnels[u].mode /\ tunnels'[u].port = tunnels[u].port
          /\ tunnels'[u].to = tunnels[u].to
          /\ tunnels[u] = NoTunnel => tunnels'[u] = NoTunnel
    BY <1>3, TunnelKept
  <2> QED BY <1>3, <2>1 DEF UrlRead, RemoteTypeOK
<1>4. ASSUME NEW t \in Tunnel, ChildExits(t) PROVE ProcessesOfQuick'
  <2>1. \A u \in Tunnel :
          /\ tunnels'[u].mode = tunnels[u].mode /\ tunnels'[u].port = tunnels[u].port
          /\ tunnels'[u].to = tunnels[u].to
          /\ tunnels[u] = NoTunnel => tunnels'[u] = NoTunnel
    BY <1>4, TunnelKept
  <2> QED BY <1>4, <2>1 DEF ChildExits, RemoteTypeOK
<1>5. ASSUME NEW t \in Tunnel, ChildKilled(t) PROVE ProcessesOfQuick'
  BY <1>5 DEF ChildKilled, RemoteTypeOK
<1>6. CASE UNCHANGED <<tunnels, tunnelProc>>
  BY <1>6
<1> HIDE DEF ProcessesOfQuick
<1> QED
  <2>1. ASSUME NEW plan \in Plan,
         Reconcile(plan)
       PROVE  UNCHANGED <<tunnels, tunnelProc>>
    BY <2>1 DEF Reconcile
  <2>2. ASSUME InsertEntries \/ Reconciled
       PROVE  UNCHANGED <<tunnels, tunnelProc>>
    BY <2>2 DEF InsertEntries, Reconciled
  <2>3. ASSUME NEW e \in Entry,
         BindEntry(e)
       PROVE  UNCHANGED <<tunnels, tunnelProc>>
    BY <2>3 DEF BindEntry
  <2>4. ASSUME NEW p \in Port,
         DropListener(p) \/ ServerFails(p)
       PROVE  UNCHANGED <<tunnels, tunnelProc>>
    BY <2>4 DEF DropListener, ServerFails
  <2>5. CASE UNCHANGED remoteVars
    BY <2>5, <1>6 DEF remoteVars
  <2> QED BY <1>1, <1>2, <1>3, <1>4, <1>5, <1>6, <2>1, <2>2, <2>3, <2>4, <2>5
       DEF RemoteNext, ReconcileStep

\* Whoever leaves the map is aborted, whoever is bound is about to enter it.
LEMMA EntryListensStep ==
  ASSUME RemoteTypeOK, MapFollowsPlan, Binding, Starting, EntryListens,
         [RemoteNext]_remoteVars
  PROVE  EntryListens'
PROOF
<1> USE DEF EntryListens
<1>1. ASSUME NEW plan \in Plan, Reconcile(plan) PROVE EntryListens'
  <2>1. \A p \in Port :
          /\ holder'[p].by = holder[p].by /\ holder'[p].rev = holder[p].rev
          /\ ~holder'[p].aborted => ~holder[p].aborted /\ holder[p].by \notin Removed(plan)
    BY <1>1, AbortedServer DEF Reconcile, RemoteTypeOK
  <2>2. made = {} BY <1>1 DEF Reconcile, Binding
  <2>3. \A e \in Entry : e \notin Removed(plan) => entries'[e] = entries[e]
    BY <1>1 DEF Reconcile
  <2> QED BY <2>1, <2>2, <2>3
<1>2. CASE InsertEntries
  <2>1. \A e \in Entry : entries'[e] = IF e \in made THEN Wanted(remotePlan, e) ELSE entries[e]
    BY <1>2 DEF InsertEntries
  <2>2. \A e \in made : entries[e].port = Nobody BY DEF Binding, Unbound
  <2>3. \A p \in Port : p # Nobody BY RemoteAssumption
  <2>4. UNCHANGED <<remotePlan, holder>> BY <1>2 DEF InsertEntries
  <2> QED BY <2>1, <2>2, <2>3, <2>4
<1>3. CASE PlanTunnels
  <2>1. \A p \in Port :
          /\ holder'[p].by = holder[p].by /\ holder'[p].rev = holder[p].rev
          /\ ~holder'[p].aborted =>
               /\ ~holder[p].aborted
               /\ holder[p].by \notin {t \in Tunnel : tunnels[t] # NoTunnel /\ ~Kept(t)}
    BY <1>3, AbortedServer DEF PlanTunnels, RemoteTypeOK
  <2>2. UNCHANGED <<remotePlan, made, entries>> BY <1>3 DEF PlanTunnels
  <2> QED BY <2>1, <2>2
<1>4. ASSUME NEW e \in Entry, BindEntry(e) PROVE EntryListens'
  <2> DEFINE port == Wanted(remotePlan, e).port
  <2>1. UNCHANGED <<remotePlan, entries>> /\ made \subseteq made' BY <1>4 DEF BindEntry
  <2>2. CASE UNCHANGED holder BY <2>1, <2>2
  <2>3. CASE /\ made' = made \cup {e}
             /\ holder' = [holder EXCEPT ![port] =
                  [by |-> e, rev |-> Wanted(remotePlan, e).rev, aborted |-> FALSE]]
    <3>1. Wanted(remotePlan, e) \in EntryPlan BY PlanTyped DEF RemoteTypeOK, Wanted
    <3>2. port \in Port => Wanted(remotePlan, e) = [port |-> port, rev |-> Wanted(remotePlan, e).rev]
      BY <3>1 DEF EntryPlan
    <3>3. \A q \in Port : q # port => holder'[q] = holder[q]
      BY <2>3 DEF RemoteTypeOK
    <3>4. port \in Port => holder'[port].by = e /\ holder'[port].rev = Wanted(remotePlan, e).rev
      BY <2>3 DEF RemoteTypeOK
    <3> HIDE DEF port
    <3> QED BY <2>1, <2>3, <3>2, <3>3, <3>4
  <2> QED BY <1>4, <2>2, <2>3 DEF BindEntry
<1>5. ASSUME NEW t \in Tunnel, StartTunnel(t) PROVE EntryListens'
  <2>1. UNCHANGED <<remotePlan, made, entries>> BY <1>5 DEF StartTunnel
  <2>2. \A p \in Port : holder'[p] = holder[p] \/ holder'[p].by = t
    <3>1. \/ UNCHANGED holder
          \/ holder' = [holder EXCEPT ![remotePlan.tunnel[t].port] =
               [by |-> t, rev |-> entries[Target(t)].rev, aborted |-> FALSE]]
      BY <1>5 DEF StartTunnel, StartListener, StartLan, StartProcess
    <3> QED BY <3>1 DEF RemoteTypeOK
  <2> QED BY <2>1, <2>2, RemoteAssumption
<1>6. ASSUME NEW p \in Port, DropListener(p) PROVE EntryListens'
  <2>1. \A q \in Port : q # p => holder'[q] = holder[q]
    BY <1>6 DEF DropListener, RemoteTypeOK
  <2>2. holder'[p].by \notin Entry \cup Tunnel
    BY <1>6, RemoteAssumption DEF DropListener, Free, RemoteTypeOK
  <2> QED BY <1>6, <2>1, <2>2 DEF DropListener
<1>7. ASSUME NEW p \in Port, ServerFails(p) PROVE EntryListens'
  <2>1. \A q \in Port : q # p => holder'[q] = holder[q]
    BY <1>7 DEF ServerFails, RemoteTypeOK
  <2>2. holder'[p].by \notin Entry \cup Tunnel
    BY <1>7, RemoteAssumption DEF ServerFails, Free, RemoteTypeOK
  <2> QED BY <1>7, <2>1, <2>2 DEF ServerFails
<1>8. CASE UNCHANGED <<remotePlan, made, entries, holder>>
  BY <1>8
<1> HIDE DEF EntryListens
<1> QED
  <2>1. ASSUME Reconciled
       PROVE  UNCHANGED <<remotePlan, made, entries, holder>>
    BY <2>1 DEF Reconciled
  <2>2. ASSUME NEW t \in Tunnel,
         UrlRead(t) \/ ChildExits(t) \/ ChildKilled(t)
       PROVE  UNCHANGED <<remotePlan, made, entries, holder>>
    BY <2>2 DEF UrlRead, ChildExits, ChildKilled
  <2>3. CASE UNCHANGED remoteVars
    BY <2>3, <1>8 DEF remoteVars
  <2> QED BY <1>1, <1>2, <1>3, <1>4, <1>5, <1>6, <1>7, <1>8, <2>1, <2>2, <2>3
       DEF RemoteNext, ReconcileStep

\* A LAN listener lives as long as its entry.
LEMMA LanListensStep ==
  ASSUME RemoteTypeOK, Starting, ProcessesOfQuick, LanListens, [RemoteNext]_remoteVars
  PROVE  LanListens'
PROOF
<1> USE DEF LanListens
<1>1. ASSUME NEW plan \in Plan, Reconcile(plan) PROVE LanListens'
  <2>1. \A p \in Port :
          /\ holder'[p].by = holder[p].by /\ holder'[p].rev = holder[p].rev
          /\ ~holder'[p].aborted => ~holder[p].aborted /\ holder[p].by \notin Removed(plan)
    BY <1>1, AbortedServer DEF Reconcile, RemoteTypeOK
  <2> QED BY <1>1, <2>1 DEF Reconcile
<1>2. CASE PlanTunnels
  <2>1. \A p \in Port :
          /\ holder'[p].by = holder[p].by /\ holder'[p].rev = holder[p].rev
          /\ ~holder'[p].aborted =>
               /\ ~holder[p].aborted
               /\ holder[p].by \notin {t \in Tunnel : tunnels[t] # NoTunnel /\ ~Kept(t)}
    BY <1>2, AbortedServer DEF PlanTunnels, RemoteTypeOK
  <2>2. \A t \in Tunnel : (tunnels[t] # NoTunnel /\ ~Kept(t)) \/ tunnels'[t] = tunnels[t]
    BY <1>2 DEF PlanTunnels
  <2> QED BY <2>1, <2>2
<1>3. ASSUME NEW e \in Entry, BindEntry(e) PROVE LanListens'
  <2>1. \A p \in Port : holder'[p] = holder[p] \/ holder'[p].by = e
    BY <1>3 DEF BindEntry, RemoteTypeOK
  <2>2. UNCHANGED tunnels BY <1>3 DEF BindEntry
  <2> QED BY <2>1, <2>2, RemoteAssumption
<1>4. ASSUME NEW t \in Tunnel, StartTunnel(t) PROVE LanListens'
  <2>1. /\ \A u \in Tunnel : u # t => tunnels'[u] = tunnels[u]
        /\ tunnels[t] = NoTunnel
        /\ tunnels'[t].mode = remotePlan.tunnel[t].mode
        /\ tunnels'[t].port = remotePlan.tunnel[t].port
        /\ tunnels'[t].to = entries[Target(t)]
    BY <1>4, TunnelEntered
  <2>2. \A p \in Port : holder[p].by = t => holder[p].aborted
    BY <2>1 DEF NoTunnel
  <2>3. CASE UNCHANGED holder
    BY <2>1, <2>2, <2>3
  <2> DEFINE port == remotePlan.tunnel[t].port
  <2>4. CASE /\ remotePlan.tunnel[t].mode = "lan"
             /\ holder' = [holder EXCEPT ![port] =
                  [by |-> t, rev |-> entries[Target(t)].rev, aborted |-> FALSE]]
    <3>1. \A q \in Port : q # port => holder'[q] = holder[q]
      BY <2>4 DEF RemoteTypeOK
    <3>2. port \in Port => holder'[port].by = t /\ holder'[port].rev = entries[Target(t)].rev
      BY <2>4 DEF RemoteTypeOK
    <3> QED BY <2>1, <2>2, <2>4, <3>1, <3>2
  <2> QED BY <1>4, <2>3, <2>4 DEF StartTunnel, StartListener, StartLan, StartProcess
<1>5. ASSUME NEW p \in Port, DropListener(p) PROVE LanListens'
  <2>1. \A q \in Port : q # p => holder'[q] = holder[q]
    BY <1>5 DEF DropListener, RemoteTypeOK
  <2>2. holder'[p].by \notin Entry \cup Tunnel
    BY <1>5, RemoteAssumption DEF DropListener, Free, RemoteTypeOK
  <2> QED BY <1>5, <2>1, <2>2 DEF DropListener
<1>6. ASSUME NEW p \in Port, ServerFails(p) PROVE LanListens'
  <2>1. \A q \in Port : q # p => holder'[q] = holder[q]
    BY <1>6 DEF ServerFails, RemoteTypeOK
  <2>2. holder'[p].by \notin Entry \cup Tunnel
    BY <1>6, RemoteAssumption DEF ServerFails, Free, RemoteTypeOK
  <2> QED BY <1>6, <2>1, <2>2 DEF ServerFails
<1>7. ASSUME NEW t \in Tunnel, UrlRead(t) PROVE LanListens'
  <2>1. \A u \in Tunnel :
          /\ tunnels'[u].mode = tunnels[u].mode /\ tunnels'[u].port = tunnels[u].port
          /\ tunnels'[u].to = tunnels[u].to
          /\ tunnels[u] = NoTunnel => tunnels'[u] = NoTunnel
    BY <1>7, TunnelKept
  <2>2. UNCHANGED <<reconciling, remotePlan, entries, holder>>
    BY <1>7 DEF UrlRead
  <2> QED BY <2>1, <2>2
<1>8. ASSUME NEW t \in Tunnel, ChildExits(t) PROVE LanListens'
  <2>1. \A u \in Tunnel :
          /\ tunnels'[u].mode = tunnels[u].mode /\ tunnels'[u].port = tunnels[u].port
          /\ tunnels'[u].to = tunnels[u].to
          /\ tunnels[u] = NoTunnel => tunnels'[u] = NoTunnel
    BY <1>8, TunnelKept
  <2>2. UNCHANGED <<reconciling, remotePlan, entries, holder>>
    BY <1>8 DEF ChildExits
  <2> QED BY <2>1, <2>2
<1>9. CASE UNCHANGED <<tunnels, holder>>
  BY <1>9
<1> HIDE DEF LanListens
<1> QED
  <2>1. ASSUME InsertEntries \/ Reconciled
       PROVE  UNCHANGED <<tunnels, holder>>
    BY <2>1 DEF InsertEntries, Reconciled
  <2>2. ASSUME NEW t \in Tunnel,
         ChildKilled(t)
       PROVE  UNCHANGED <<tunnels, holder>>
    BY <2>2 DEF ChildKilled
  <2>3. CASE UNCHANGED remoteVars
    BY <2>3, <1>9 DEF remoteVars
  <2> QED BY <1>1, <1>2, <1>3, <1>4, <1>5, <1>6, <1>7, <1>8, <1>9, <2>1, <2>2, <2>3
       DEF RemoteNext, ReconcileStep

LEMMA RemoteInitInv == RemoteInit => RemoteInv
PROOF
<1> SUFFICES ASSUME RemoteInit PROVE RemoteInv OBVIOUS
<1> USE DEF RemoteInit
<1>1. RemoteTypeOK
  <2>1. Unbound \in EntryPlan /\ Free \in Listener BY DEF Unbound, EntryPlan, Free, Listener
  <2>2. NoTunnel \in TunnelEntry BY <2>1 DEF NoTunnel, TunnelEntry, Mode
  <2> QED BY <2>1, <2>2, RemoteAssumption DEF RemoteTypeOK
<1>2. MapFollowsPlan /\ Binding /\ Starting /\ TunnelsAsDesired /\ ProcessesOfQuick
  BY DEF MapFollowsPlan, Binding, Starting, TunnelsAsDesired, ProcessesOfQuick
<1>3. EntryListens /\ LanListens
  BY RemoteAssumption DEF EntryListens, LanListens, Free
<1> QED BY <1>1, <1>2, <1>3 DEF RemoteInv

LEMMA RemoteInvariance == RemoteSpec => []RemoteInv
PROOF
<1>1. RemoteInv /\ [RemoteNext]_remoteVars => RemoteInv'
  BY RemoteTypeStep, MapFollowsPlanStep, BindingStep, StartingStep, TunnelsAsDesiredStep,
     ProcessesOfQuickStep, EntryListensStep, LanListensStep
  DEF RemoteInv
<1> QED BY RemoteInitInv, <1>1, PTL DEF RemoteSpec

\* Types, and that every map and every listener names what the configurations have.
THEOREM RemoteTypeCorrect == RemoteSpec => []RemoteTypeOK
PROOF
<1>1. RemoteInv => RemoteTypeOK BY DEF RemoteInv
<1> QED BY RemoteInvariance, <1>1, PTL

\* For any configurations, in any number and order, and any deaths of servers: what
\* listens after a reconciliation is what the last configuration asks for.
THEOREM NothingStrayListens == RemoteSpec => []NoStrayListener
PROOF
<1>1. RemoteInv => NoStrayListener
  <2> SUFFICES ASSUME RemoteInv, reconciling = "idle", NEW p \in Port,
                      holder[p].by # Nobody, ~holder[p].aborted
               PROVE  \/ \E e \in Entry :
                           /\ holder[p].by = e /\ entries[e] = Wanted(remotePlan, e)
                           /\ entries[e] = [port |-> p, rev |-> holder[p].rev]
                      \/ \E t \in Tunnel :
                           /\ holder[p].by = t /\ ListensAt(remotePlan, t) = p
                           /\ tunnels[t].mode = "lan" /\ tunnels[t].to.rev = holder[p].rev
    BY DEF NoStrayListener
  <2>1. holder[p].by \in Entry \cup Tunnel BY DEF RemoteInv, RemoteTypeOK, Listener
  <2>2. ASSUME NEW e \in Entry, holder[p].by = e
        PROVE  /\ entries[e] = Wanted(remotePlan, e)
               /\ entries[e] = [port |-> p, rev |-> holder[p].rev]
    <3>1. entries[e] = [port |-> p, rev |-> holder[p].rev]
      BY <2>2 DEF RemoteInv, EntryListens, Binding
    <3>2. entries[e] # Unbound BY <3>1, RemoteAssumption DEF Unbound
    <3> QED BY <3>1, <3>2 DEF RemoteInv, MapFollowsPlan
  <2>3. ASSUME NEW t \in Tunnel, holder[p].by = t
        PROVE  /\ ListensAt(remotePlan, t) = p
               /\ tunnels[t].mode = "lan" /\ tunnels[t].to.rev = holder[p].rev
    <3>1. /\ tunnels[t].mode = "lan" /\ tunnels[t].port = p
          /\ tunnels[t].to.rev = holder[p].rev
      BY <2>3 DEF RemoteInv, LanListens
    <3>2. tunnels[t] # NoTunnel BY <3>1 DEF NoTunnel
    <3> QED BY <3>1, <3>2 DEF RemoteInv, TunnelsAsDesired, ListensAt
  <2> QED BY <2>1, <2>2, <2>3
<1> QED BY RemoteInvariance, <1>1, PTL

\* And every tunnel leads to the entrypoint it is configured for, where that one is
\* bound and under the signature it is bound with.
THEOREM TunnelsLeadToTheirTargets == RemoteSpec => []TunnelsFollow
PROOF
<1>1. RemoteInv => TunnelsFollow
  <2> SUFFICES ASSUME RemoteInv, reconciling = "idle", NEW t \in Tunnel, tunnels[t] # NoTunnel
               PROVE  /\ remotePlan.tunnel[t].mode = tunnels[t].mode
                      /\ tunnels[t].to.port # Nobody
                      /\ tunnels[t].to = entries[Target(t)]
                      /\ tunnels[t].to = Wanted(remotePlan, Target(t))
    BY DEF TunnelsFollow
  <2>1. /\ tunnels[t].mode = remotePlan.tunnel[t].mode /\ tunnels[t].mode # "off"
        /\ tunnels[t].to = entries[Target(t)] /\ tunnels[t].to.port # Nobody
    BY DEF RemoteInv, TunnelsAsDesired
  <2>2. Target(t) \in Entry BY <2>1, PlanTyped DEF RemoteInv, RemoteTypeOK, Target
  <2>3. entries[Target(t)] # Unbound BY <2>1 DEF Unbound
  <2> QED BY <2>1, <2>2, <2>3 DEF RemoteInv, MapFollowsPlan
<1> QED BY RemoteInvariance, <1>1, PTL
=============================================================================

------------------------------ MODULE History ------------------------------
(***************************************************************************)
(* What late comers get to see: the Sender of a room, which records what it *)
(* sends, the plugin soumatou, which replays the record to whoever starts   *)
(* watching in the middle, and the plugin reconnect, which rebuilds the     *)
(* screen of a player who asks for the field.                               *)
(*                                                                          *)
(* An untimed match of two players is under way, watched by somebody who    *)
(* was there from the beginning.  Channels keep the order of messages, so   *)
(* a client's screen is what the messages sent to it so far make of it; the *)
(* abstraction of the screen is external (gm messages as Field reads them). *)
(* A reconnecting player is a blank client that has just sent RequestField. *)
(***************************************************************************)
EXTENDS Naturals, Sequences, FiniteSets, SequencesExt

CONSTANTS
  Nobody,        \* Option::None
  OnTime,        \* the observer who watches from the beginning
  Late,          \* clients that join as observers in the middle
  MaxKey,        \* bound: keys of observer slots
  MaxDuels,      \* bound: duels of the match
  FirstAttacker, \* per duel, the seat that was chosen to attack first
  MaxEvents,     \* bound: a duel ends when the engine has run so often
  MaxRetries,    \* bound: answers the engine refuses in one duel
  MaxRequests,   \* bound: requests of players for the field
  MaxQueue       \* bound: clients send only while the mailbox is shorter

ASSUME HistoryAssumption ==
  /\ Nobody \notin Nat \cup {OnTime} \cup Late
  /\ OnTime \notin Nat \cup Late
  /\ Late \cap Nat = {}          \* seats are numbers
  /\ {MaxKey, MaxDuels, MaxEvents, MaxRetries, MaxRequests, MaxQueue} \subseteq Nat
  /\ MaxDuels > 0
  /\ FirstAttacker \in [1..MaxDuels -> {0, 1}]

Seats == {0, 1}
Observer == 2             \* PlayerType::is_observer
Degraded == 255           \* Observer(255), what a recorded TypeChange is read back as
Keys == 0..MaxKey
Watchers == {OnTime} \cup Late
Clients == Seats \cup Watchers
Other(s) == 1 - s
Phases == {"Draw", "Standby", "Main"}

VARIABLES
  masked_messages, \* Sender::masked_messages
  observers,       \* Sender::observers: per key who sits there
  first,           \* the seat that attacks first
  last_response,   \* the seat the engine waits for
  last_select,     \* duel.last_select_message, by number
  gate,            \* per seat: the gate lets a Response through
  attachment,      \* what reconnect knows of the duel
  engine,          \* the engine's duel
  questions,       \* questions of the engine so far
  queue,           \* the mailbox
  views,           \* per client: its screen
  joined,          \* late clients that have sent their JoinGame
  requests         \* requests for the field so far

vars == <<masked_messages, observers, first, last_response, last_select, gate, attachment, engine,
          questions, queue, views, joined, requests>>

\* A duel in the engine: what a field shows, and whether an answer was set.
NewEngine == [duel |-> 0, turn |-> Nobody, phase |-> "None", reversed |-> FALSE, events |-> 0,
              retries |-> 0, ended |-> FALSE]

\* A client that has seen nothing.  `pos` is the place it was told, `prompt` the number
\* of the question on its screen.
Blank == [role |-> Nobody, pos |-> Nobody, turn |-> Nobody, phase |-> "None", reversed |-> FALSE,
          prompt |-> Nobody]

\* `known`: a handler has asked for the attachment, which creates it with its defaults.
NoAttachment == [known |-> FALSE, turn |-> Nobody, phase |-> "Draw", reversed |-> FALSE]

ToCore(s) == IF first = 0 THEN s ELSE Other(s)
ToSeat(p) == IF first = 0 THEN p ELSE Other(p)

-----------------------------------------------------------------------------
(* Messages and what they do to a screen.                                   *)
Message(kind, arg) == [kind |-> kind, arg |-> arg]

Shown(view, m) ==
  CASE m.kind = "TypeChange"  -> [view EXCEPT !.pos = m.arg]
    [] m.kind = "Start"       -> [Blank EXCEPT !.role = m.arg, !.pos = view.pos]
    [] m.kind = "NewTurn"     -> [view EXCEPT !.turn = m.arg]
    [] m.kind = "NewPhase"    -> [view EXCEPT !.phase = m.arg]
    [] m.kind = "ReverseDeck" -> [view EXCEPT !.reversed = ~@]
    [] m.kind = "Select"      -> [view EXCEPT !.prompt = m.arg]
    [] m.kind \in {"Waiting", "Win"} -> [view EXCEPT !.prompt = Nobody]
    [] m.kind = "Retry" /\ view.role \in Seats -> [view EXCEPT !.prompt = m.arg]
    [] OTHER                  -> view

After(view, messages) == FoldLeft(Shown, view, messages)

\* SendTarget: the clients it stands for.
Observers == {observers[k] : k \in Keys} \ {Nobody}
AllPlayer == Seats
All == Seats \cup Observers

\* A message that is sent: to whom, and whether a copy is recorded.
Sent(kind, arg, to) == [message |-> Message(kind, arg), to |-> to, recorded |-> TRUE]

\* A prompt is not recorded (send_game_message).
Asks(id, s) == [Sent("Select", id, {s}) EXCEPT !.recorded = FALSE]

\* What each of `sends` in turn makes of the screen of c.
Reached(c, view, sends) ==
  FoldLeft(LAMBDA v, x : IF c \in x.to THEN Shown(v, x.message) ELSE v, view, sends)

\* The copy of a TypeChange loses its place, everything else is kept as masked.
Copy(m) == IF m.kind = "TypeChange" THEN [m EXCEPT !.arg = Degraded] ELSE m

Recorded(record, sends) ==
  FoldLeft(LAMBDA r, x : IF x.recorded THEN Append(r, Copy(x.message)) ELSE r, record, sends)

\* Sender::send and Sender::send_game_message for each of `sends` in turn.
Send(sends) ==
  /\ views' = [c \in Clients |-> Reached(c, views[c], sends)]
  /\ masked_messages' = Recorded(masked_messages, sends)

-----------------------------------------------------------------------------
\* The lobby has been left: DuelStart was sent to everybody.
Init ==
  /\ masked_messages = <<Message("HsPlayerEnter", Nobody), Message("DuelStart", Nobody)>>
  /\ observers = [k \in Keys |-> IF k = 0 THEN OnTime ELSE Nobody]
  /\ first = 0                    \* until DuelStart
  /\ last_response = Nobody
  /\ last_select = Nobody
  /\ gate = [s \in Seats |-> FALSE]
  /\ attachment = NoAttachment
  /\ engine = [NewEngine EXCEPT !.ended = TRUE]
  /\ questions = 0
  /\ queue = <<[type |-> "DuelStart", duel |-> 1]>>
  /\ views = [c \in Clients |-> IF c = OnTime THEN [Blank EXCEPT !.pos = 0] ELSE Blank]
  /\ joined = {}
  /\ requests = 0

-----------------------------------------------------------------------------
(* The clients.                                                             *)
Post(request) == Len(queue) < MaxQueue /\ queue' = Append(queue, request)
Server == <<masked_messages, observers, first, last_response, last_select, gate, attachment,
            engine, questions>>

PlayerAnswers(s) ==
  /\ views[s].prompt # Nobody
  /\ Post([type |-> "Response", from |-> s])
  /\ views' = [views EXCEPT ![s].prompt = Nobody]
  /\ UNCHANGED <<Server, joined, requests>>

\* The client of a player is replaced by one that knows nothing.
PlayerReconnects(s) ==
  /\ requests < MaxRequests
  /\ requests' = requests + 1
  /\ Post([type |-> "RequestField", from |-> s])
  /\ views' = [views EXCEPT ![s] = Blank]
  /\ UNCHANGED <<Server, joined>>

LateJoins(c) ==
  /\ c \in Late \ joined
  /\ joined' = joined \cup {c}
  /\ Post([type |-> "JoinGame", client |-> c])
  /\ UNCHANGED <<Server, views, requests>>

LateLeaves(k) ==
  /\ observers[k] \in Late
  /\ \A i \in DOMAIN queue : queue[i] # [type |-> "LeaveGame", key |-> k]
  /\ Post([type |-> "LeaveGame", key |-> k])
  /\ UNCHANGED <<Server, views, joined, requests>>

-----------------------------------------------------------------------------
(* The actor.                                                               *)
Request == Head(queue)
Receive(type) == queue # <<>> /\ Request.type = type
Done(more) == queue' = Tail(queue) \o more

\* An observer joins at a stage after Begin: its own messages first, the replay as a
\* command behind whatever the mailbox holds.
OnJoinGame ==
  /\ Receive("JoinGame")
  /\ \E k \in Keys :
       /\ observers[k] = Nobody
       /\ observers' = [observers EXCEPT ![k] = Request.client]
       /\ Send(<<Sent("JoinGame", Nobody, {Request.client}), Sent("TypeChange", k, {Request.client})>>)
       /\ Done(<<[type |-> "soumatou", key |-> k]>>)
  /\ UNCHANGED <<first, last_response, last_select, gate, attachment, engine, questions, joined,
                 requests>>

OnLeaveGame ==
  /\ Receive("LeaveGame")
  /\ observers' = [observers EXCEPT ![Request.key] = Nobody]
  /\ Done(<<>>)
  /\ UNCHANGED <<masked_messages, first, last_response, last_select, gate, attachment, engine,
                 questions, views, joined, requests>>

\* directed_keys.
Directed == {"SelectHand", "SelectTp", "HandResult", "ChangeSide", "DeckCount", "JoinGame",
             "TypeChange", "LeaveGame", "TimeLimit", "TeammateSurrender"}

\* Mutant of Replayed: no copy of Start is replayed.
NoStart(m) == m.kind \notin Directed /\ m.kind \notin {"Select", "Start"}

\* What soumatou passes on.
Replayed(m) ==
  /\ m.kind \notin Directed
  /\ m.kind # "Select"                              \* waiting_for() is nobody
  /\ m.kind = "Start" => m.arg = Observer

\* The record from the first DuelStart on.
FromDuelStart(record) ==
  LET starts == {i \in DOMAIN record : record[i].kind = "DuelStart"} IN
  IF starts = {} THEN <<>>
  ELSE SubSeq(record, CHOOSE i \in starts : \A j \in starts : i <= j, Len(record))

\* The screen after what passes of a record.
Replay(view, record) ==
  FoldLeft(LAMBDA v, m : IF Replayed(m) THEN Shown(v, m) ELSE v, view, record)

\* send_without_record: whoever holds the key now gets the history.
OnSoumatou ==
  /\ Receive("soumatou")
  /\ LET c == observers[Request.key]
     IN views' = IF c = Nobody THEN views
                 ELSE [views EXCEPT ![c] = Replay(@, FromDuelStart(masked_messages))]
  /\ Done(<<>>)
  /\ UNCHANGED <<masked_messages, observers, first, last_response, last_select, gate, attachment,
                 engine, questions, joined, requests>>

\* The first attacker has been chosen anew; a copy of Start for each seat, one for the
\* observers.
OnDuelStart ==
  /\ Receive("DuelStart")
  /\ first' = FirstAttacker[Request.duel]
  /\ engine' = [NewEngine EXCEPT !.duel = Request.duel]
  /\ LET core(s) == IF first' = 0 THEN s ELSE Other(s) IN
     Send(<<Sent("Start", 0, {core(0)}), Sent("Start", 1, {core(1)}),
            Sent("Start", Observer, Observers)>>)
  /\ Done(<<[type |-> "Evolve"]>>)
  /\ UNCHANGED <<observers, last_response, last_select, gate, attachment, questions, joined,
                 requests>>

\* set_waiting and the question: Waiting for the other, the question for its player.
Waits(s, id) == <<Sent("Waiting", Nobody, {Other(s)}), Asks(id, s)>>

\* What the engine may tell before it stops, and what reconnect notes of it.
Events ==
  {<<Message("NewTurn", 1), Message("NewPhase", "Main")>>, <<Message("ReverseDeck", Nobody)>>}

Noted(a, e) ==
  CASE e.kind = "NewTurn"     -> [a EXCEPT !.known = TRUE, !.turn = e.arg]
    [] e.kind = "NewPhase"    -> [a EXCEPT !.known = TRUE, !.phase = e.arg]
    [] e.kind = "ReverseDeck" -> [a EXCEPT !.known = TRUE, !.reversed = ~@]
    [] OTHER                  -> a

Told(d, e) ==
  CASE e.kind = "NewTurn"     -> [d EXCEPT !.turn = e.arg]
    [] e.kind = "NewPhase"    -> [d EXCEPT !.phase = e.arg]
    [] e.kind = "ReverseDeck" -> [d EXCEPT !.reversed = ~@]
    [] OTHER                  -> d

\* A duel opens with its first turn and its Draw phase; from then on the engine tells
\* something and stops: with a question, or with a Win.
Opening == <<Message("NewTurn", 0), Message("NewPhase", "Draw")>>

OnEvolve ==
  /\ Receive("Evolve")
  /\ ~engine.ended
  /\ \E e \in Events, p \in Seats :
       LET events == (IF engine.turn = Nobody THEN Opening ELSE <<>>) \o e
           wins == engine.events + 1 = MaxEvents
           told == FoldLeft(Told, engine, events)
           news == [i \in DOMAIN events |-> Sent(events[i].kind, events[i].arg, All)]
           s == ToSeat(p)
       IN
       /\ attachment' = FoldLeft(Noted, attachment, events)
       /\ engine' = [told EXCEPT !.events = @ + 1, !.ended = wins]
       /\ IF wins
          THEN /\ Send(news \o <<Sent("Win", Nobody, All)>>)
               /\ Done(<<[type |-> "RecreateDuel", duel |-> engine.duel + 1]>>)
               /\ UNCHANGED <<gate, last_response, last_select, questions>>
          ELSE /\ Send(news \o Waits(s, questions + 1))
               /\ questions' = questions + 1
               /\ last_response' = s
               /\ last_select' = questions + 1
               /\ gate' = [gate EXCEPT ![s] = TRUE]
               /\ Done(<<>>)
  /\ UNCHANGED <<observers, first, joined, requests>>

\* Retry: Waiting again, and a message that brings the last question back to its player.
OnRetry ==
  /\ Receive("Evolve")
  /\ ~engine.ended
  /\ engine.retries < MaxRetries
  /\ last_response # Nobody
  /\ engine.turn # Nobody
  /\ engine' = [engine EXCEPT !.retries = @ + 1]
  /\ gate' = [gate EXCEPT ![last_response] = TRUE]
  /\ Send(<<Sent("Waiting", Nobody, {Other(last_response)}), Sent("Retry", last_select, {last_response})>>)
  /\ Done(<<>>)
  /\ UNCHANGED <<observers, first, last_response, last_select, attachment, questions, joined,
                 requests>>

\* The gate drops an answer nobody waits for.
OnResponse ==
  /\ Receive("Response")
  /\ IF gate[Request.from] /\ ~engine.ended
     THEN /\ gate' = [gate EXCEPT ![Request.from] = FALSE]
          /\ Done(<<[type |-> "Evolve"]>>)
     ELSE UNCHANGED gate /\ Done(<<>>)
  /\ UNCHANGED <<masked_messages, observers, first, last_response, last_select, attachment, engine,
                 questions, views, joined, requests>>

\* Mutant of Reset: the deck of the next duel is drawn as this one's was.
KeepsReversed == [attachment EXCEPT !.known = TRUE, !.phase = "Standby", !.turn = 0]

\* on_recreate_duel of reconnect.
Reset == [known |-> TRUE, phase |-> "Standby", turn |-> 0, reversed |-> FALSE]

\* The players side and are ready again: a DuelStart for each of them.
OnRecreateDuel ==
  /\ Receive("RecreateDuel")
  /\ Request.duel <= MaxDuels
  /\ attachment' = Reset
  /\ gate' = [s \in Seats |-> FALSE]
  /\ Send(<<Sent("ChangeSide", Nobody, AllPlayer), Sent("WaitingSide", Nobody, Observers),
            Sent("DuelStart", Nobody, {0}), Sent("DuelStart", Nobody, {1})>>)
  /\ Done(<<[type |-> "DuelStart", duel |-> Request.duel]>>)
  /\ UNCHANGED <<observers, first, last_response, last_select, engine, questions, joined, requests>>

\* Mutant of AskedLast: the question goes to whoever attacks first.
AskedFirst(s) == ToSeat(0) = s

\* The question is repeated to the one it was put to.
AskedLast(s) == (IF last_response = Nobody THEN ToSeat(0) ELSE last_response) = s

\* on_request_field_single: nothing before reconnect has noted anything; then the duel as
\* it stands, outside the record, and the last question if it was this player's.
OnRequestField ==
  /\ Receive("RequestField")
  /\ LET s == Request.from
         screen == <<Message("DuelStart", Nobody), Message("Start", ToCore(s)), Message("NewTurn", 0)>>
           \o (IF attachment.turn = 1 THEN <<Message("NewTurn", 1)>> ELSE <<>>)
           \o <<Message("NewPhase", attachment.phase), Message("ReloadField", Nobody)>>
           \o (IF attachment.reversed THEN <<Message("ReverseDeck", Nobody)>> ELSE <<>>)
           \o <<Message("TimeLimit", Nobody), Message("FieldFinish", Nobody)>>
           \o (IF last_select # Nobody /\ AskedLast(s) THEN <<Message("Select", last_select)>> ELSE <<>>)
     IN views' = IF attachment.known THEN [views EXCEPT ![s] = After(@, screen)] ELSE views
  /\ Done(<<>>)
  /\ UNCHANGED <<masked_messages, observers, first, last_response, last_select, gate, attachment,
                 engine, questions, joined, requests>>

Actor ==
  \/ OnJoinGame \/ OnLeaveGame \/ OnSoumatou \/ OnDuelStart \/ OnEvolve \/ OnRetry \/ OnResponse
  \/ OnRecreateDuel \/ OnRequestField

Next ==
  \/ Actor
  \/ \E s \in Seats : PlayerAnswers(s) \/ PlayerReconnects(s)
  \/ \E c \in Late : LateJoins(c)
  \/ \E k \in Keys : LateLeaves(k)

Spec == Init /\ [][Next]_vars

-----------------------------------------------------------------------------
(* Properties.                                                              *)

Places == Seats \cup {Nobody}

\* Every variable has its type.
TypeOK ==
  /\ observers \in [Keys -> Watchers \cup {Nobody}]
  /\ first \in Seats
  /\ last_response \in Places
  /\ last_select \in Nat \cup {Nobody}
  /\ gate \in [Seats -> BOOLEAN]
  /\ attachment \in [known : BOOLEAN, turn : Places, phase : Phases, reversed : BOOLEAN]
  /\ engine \in [duel : Nat, turn : Places, phase : Phases \cup {"None"}, reversed : BOOLEAN,
                 events : Nat, retries : Nat, ended : BOOLEAN]
  /\ questions \in Nat
  /\ views \in [Clients -> [role : Seats \cup {Observer, Nobody}, pos : Keys \cup {Degraded, Nobody},
                            turn : Places, phase : Phases \cup {"None"}, reversed : BOOLEAN,
                            prompt : Nat \cup {Nobody}]]
  /\ joined \subseteq Late
  /\ requests \in Nat

Replaying(k) == \E i \in DOMAIN queue : queue[i] = [type |-> "soumatou", key |-> k]

\* Somebody who starts watching in the middle sees, once the history has been sent, what
\* one who was there from the beginning sees: messages that reach him live before the
\* history, a history sent twice because a slot changed hands, and the duels before this
\* one do not show.
CatchesUp ==
  \A k \in Keys : observers[k] \in Late /\ ~Replaying(k) =>
    [views[observers[k]] EXCEPT !.pos = Nobody] = [views[OnTime] EXCEPT !.pos = Nobody]

\* An observer keeps the place it was told: no replayed message gives it another one.
PlaceKept == \A k \in Keys : observers[k] # Nobody => views[observers[k]].pos = k

\* The screen of a player who has a duel on it shows the duel the engine plays, from his
\* side of the table, also when it was rebuilt by RequestField in the middle of a turn or
\* of a later duel.
PlayersSeeTheDuel ==
  \A s \in Seats :
    views[s].role # Nobody /\ engine.turn # Nobody /\ ~engine.ended =>
      /\ views[s].role = ToCore(s)
      /\ <<views[s].turn, views[s].phase, views[s].reversed>>
           = <<engine.turn, engine.phase, engine.reversed>>

\* A question is not lost with the screen it was on: at rest the player whose gate is open
\* has the engine's question before him.
QuestionOnScreen ==
  queue = <<>> => \A s \in Seats :
    gate[s] /\ ~engine.ended => views[s].prompt = questions

\* Whoever watches sees the same duel from the place he was given, however late he came.
SameScreen == TypeOK /\ CatchesUp /\ PlaceKept
=============================================================================

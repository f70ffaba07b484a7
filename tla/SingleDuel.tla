----------------------------- MODULE SingleDuel -----------------------------
(***************************************************************************)
(* The match played in a room: the SingleDuel actor from the HsStart that   *)
(* ends the lobby (see Room) to the end of its loop, with the plugins that  *)
(* are enabled by default and touch the match: time_limit and terminate.    *)
(*                                                                          *)
(* The actor takes one request at a time from its mailbox.  Handlers move   *)
(* the match on by queueing further requests of their own (MessageEx,       *)
(* Evolve, Command), so whatever the clients and the timer send meanwhile   *)
(* is handled in the middle of a chain such as                              *)
(*   TpResult -> FirstShuffle, DuelInit -> DuelStart -> Evolve              *)
(*   DuelEnd -> GenerateReplay, JudgeContinueMatch -> RecreateDuel/MatchEnd *)
(*                                                                          *)
(* The engine is external: `process` may ask either player, refuse the last *)
(* answer (Retry) or declare a winner.  A client reads its stoc messages in *)
(* order and at its own pace, answers a prompt at most once, may surrender  *)
(* while its screen shows a duel, and may leave at any time.                *)
(***************************************************************************)
EXTENDS Naturals, Sequences, FiniteSets

CONSTANTS
  None,         \* Option::None
  MatchMode,    \* host_info.mode = Match: up to three duels, else one
  Timed,        \* host_info.time_limit > 0
  HasObservers, \* somebody watches and stays
  TerminateWhenMatchEnd, \* terminate plugin: terminate_when_match_end
  MaxAsks,      \* bound: prompts and retries of the engine in one duel
  MaxQueue,     \* bound: clients send only while the mailbox is shorter
  MaxLate       \* bound: clients that come to a seat left empty

Seats == {0, 1}            \* PlayerIndex::Player1, Player2

Other(s) == 1 - s          \* PlayerIndex(index.0 ^ 1)

ASSUME SingleDuelAssumption ==
  /\ None \notin Nat
  /\ {MatchMode, Timed, HasObservers, TerminateWhenMatchEnd} \subseteq BOOLEAN
  /\ MaxAsks \in Nat
  /\ MaxQueue \in Nat
  /\ MaxLate \in Nat
  /\ MaxLate > 0 => HasObservers   \* one who finds no empty slot joins the observers

Stages == {"Finger", "Firstgo", "Dueling", "Siding"}   \* Begin is Room's, End is never set
Gates == {"None", "Any", "HandResult", "TpResult", "TimeConfirm", "Response", "UpdateDeck"}

VARIABLES
  running,          \* the loop has not been left
  panicked,         \* ... it was left through unreachable!()
  queue,            \* the mailbox
  stage,            \* duel.stage
  players,          \* duel.players
  host_player,      \* the seat of duel.host_player, None when the host watches
  first_attack_player, first_attack_decider,
  duel_winner,      \* who won each duel so far, None for a draw
  last_response,    \* the seat the engine waits for
  client_responses, \* length of duel.client_responses
  match_kill,       \* match_kill_card_code > 0
  core,             \* the engine's duel
  timers,           \* timer tasks alive, and whether timer_task names one
  clients,          \* per seat: the client's side of the connection
  stoc,             \* per seat: messages on their way to the client
  late              \* latecomers so far

duel == <<stage, players, host_player, first_attack_player, first_attack_decider,
          duel_winner, last_response, client_responses, match_kill, core, timers>>
outside == <<clients, stoc, late>>
vars == <<running, panicked, queue, duel, outside>>

\* A slot of duel.players; `here` is Some(_).
PlayerRecords == [here : BOOLEAN, ready : BOOLEAN, state : Gates, hand : BOOLEAN]
EmptySlot == [here |-> FALSE, ready |-> FALSE, state |-> "None", hand |-> FALSE]

\* new_core_duel: nothing loaded, not started, not ended.  `first` is the seat whose
\* deck went to its first player, `input` an answer set but not processed; `asks`,
\* `accepted` and `ends` count its prompts, the answers it took and the DuelEnds it
\* was given.
NewCore == [loaded |-> [s \in Seats |-> 0], first |-> None, started |-> FALSE, ended |-> FALSE,
            asks |-> 0, input |-> FALSE, accepted |-> 0, ends |-> 0]

NoClient == [online |-> FALSE, owes |-> "None", dueling |-> FALSE]
NewClient == [online |-> TRUE, owes |-> "None", dueling |-> FALSE]

-----------------------------------------------------------------------------
(* PlayerTransformer: seats and core players (0 attacks first, 1 second).   *)
FirstAttacker == IF first_attack_player = None THEN 0 ELSE first_attack_player

\* Mutant of ToCore: the index goes up by one where it is flipped.
NextIndex(s) == IF FirstAttacker = 0 THEN s ELSE s + 1

ToCore(s) == IF FirstAttacker = 0 THEN s ELSE Other(s)

\* Mutant of ToSeat: who chose the first attacker is taken for the first attacker.
ByDecider(p) == IF p = None THEN None ELSE IF first_attack_decider = 0 THEN p ELSE Other(p)

ToSeat(p) == IF p = None THEN None ELSE IF FirstAttacker = 0 THEN p ELSE Other(p)

Present(s) == players[s].here
Missing == {s \in Seats : ~Present(s)}

\* Requests.  DuelEnd carries the winner as a core player.
Ctos(type, s) == [type |-> type, from |-> s]
Ex(type)      == [type |-> type]
DuelEnd(winner) == [type |-> "DuelEnd", winner |-> winner]

Requests ==
  [type : {"HandResult", "TpResult", "Response", "TimeConfirm", "UpdateDeck",
           "Surrender", "LeaveGame"}, from : Seats]
  \cup [type : {"DuelEnd"}, winner : Seats \cup {None}]
  \cup [type : {"Timeout"}, player : Seats]
  \cup [type : {"JoinGame", "FirstShuffle", "DuelInit", "DuelStart", "GenerateReplay",
                "JudgeContinueMatch", "RecreateDuel", "MatchEnd", "Evolve",
                "timer_tick", "terminate"}]

StocMessages == {"SelectHand", "SelectTp", "Start", "TimeLimit", "Select", "Win",
                 "ChangeSide", "SideError"}

\* Sender::send: `news[s]` to whoever sits in s; dummies swallow it.
Send(news) == stoc' = [s \in Seats |-> IF players'[s].here THEN stoc[s] \o news[s] ELSE <<>>]
ToAll(message) == [s \in Seats |-> <<message>>]
ToOne(s, messages) == [t \in Seats |-> IF t = s THEN messages ELSE <<>>]

-----------------------------------------------------------------------------
\* What on_hs_start leaves: stage Finger, both asked for a hand.
Init ==
  /\ running = TRUE
  /\ panicked = FALSE
  /\ queue = <<>>
  /\ stage = "Finger"
  /\ players = [s \in Seats |->
       [here |-> TRUE, ready |-> TRUE, state |-> "HandResult", hand |-> FALSE]]
  /\ host_player \in Seats \cup (IF HasObservers THEN {None} ELSE {})
  /\ first_attack_player = None
  /\ first_attack_decider = None
  /\ duel_winner = <<>>
  /\ last_response = None
  /\ client_responses = 0
  /\ match_kill = FALSE
  /\ core = NewCore
  /\ timers = [alive |-> 0, handle |-> FALSE]
  /\ clients = [s \in Seats |-> NewClient]
  /\ stoc = [s \in Seats |-> <<"SelectHand">>]
  /\ late = 0

-----------------------------------------------------------------------------
(* The clients.  Once the room is gone nothing they do matters here.        *)
Post(request) == running /\ Len(queue) < MaxQueue /\ queue' = Append(queue, request)

\* The client of seat s takes the next message off its connection.  A TimeLimit
\* is confirmed at once; a prompt waits for the user; Win clears the table.
ClientReads(s) ==
  /\ clients[s].online
  /\ stoc[s] # <<>>
  /\ LET message == Head(stoc[s]) IN
     /\ clients' = [clients EXCEPT ![s] =
          CASE message = "SelectHand" -> [@ EXCEPT !.owes = "HandResult"]
            [] message = "SelectTp"   -> [@ EXCEPT !.owes = "TpResult"]
            [] message = "Select"     -> [@ EXCEPT !.owes = "Response"]
            [] message \in {"ChangeSide", "SideError"} -> [@ EXCEPT !.owes = "UpdateDeck"]
            [] message = "Start"      -> [@ EXCEPT !.dueling = TRUE]
            [] message = "Win"        -> [@ EXCEPT !.dueling = FALSE, !.owes = "None"]
            [] OTHER                  -> @]
     /\ IF message = "TimeLimit" THEN Post(Ctos("TimeConfirm", s))
                                 ELSE running /\ UNCHANGED queue
  /\ stoc' = [stoc EXCEPT ![s] = Tail(@)]
  /\ UNCHANGED <<running, panicked, duel, late>>

\* The user answers the prompt on the screen.
ClientAnswers(s) ==
  /\ clients[s].online
  /\ clients[s].owes # "None"
  /\ Post(Ctos(clients[s].owes, s))
  /\ clients' = [clients EXCEPT ![s].owes = "None"]
  /\ UNCHANGED <<running, panicked, duel, stoc, late>>

\* The user gives up the duel on the screen.
ClientSurrenders(s) ==
  /\ clients[s].online
  /\ clients[s].dueling
  /\ Post(Ctos("Surrender", s))
  /\ clients' = [clients EXCEPT ![s].dueling = FALSE]
  /\ UNCHANGED <<running, panicked, duel, stoc, late>>

\* The connection ends; the bridge reports it.
ClientLeaves(s) ==
  /\ clients[s].online
  /\ Post(Ctos("LeaveGame", s))
  /\ clients' = [clients EXCEPT ![s] = NoClient]
  /\ UNCHANGED <<running, panicked, duel, stoc, late>>

\* A client who connected during the match (plugin soumatou accepts them at any
\* stage) sends its JoinGame.
StrangerJoins ==
  /\ late < MaxLate
  /\ late' = late + 1
  /\ Post(Ex("JoinGame"))
  /\ UNCHANGED <<running, panicked, duel, clients, stoc>>

\* One second of a timer task.  At most one tick waits in the mailbox: the
\* actor empties it many times a second.
TimerTicks ==
  /\ timers.alive > 0
  /\ \A i \in DOMAIN queue : queue[i].type # "timer_tick"
  /\ Post(Ex("timer_tick"))
  /\ UNCHANGED <<running, panicked, duel, outside>>

-----------------------------------------------------------------------------
(* The actor loop.                                                          *)
Request == Head(queue)

Receive(type) == running /\ queue # <<>> /\ Request.type = type

Done(more) == queue' = Tail(queue) \o more

\* AllowMessage::allowed, asked only for somebody who is in a slot.
AlwaysAllowed == {"Chat", "Surrender", "LeaveGame", "RequestField"}
Allowed(s, type) ==
  \/ ~Present(s)
  \/ type \in AlwaysAllowed
  \/ players[s].state = "Any"
  \/ players[s].state = type

\* A message the gate refuses is dropped.
Refused ==
  /\ running /\ queue # <<>> /\ "from" \in DOMAIN Request
  /\ ~Allowed(Request.from, Request.type)
  /\ Done(<<>>)
  /\ UNCHANGED <<running, panicked, duel, outside>>

ReceiveFrom(type) == Receive(type) /\ Allowed(Request.from, type)

\* A handler that returns early, or has nothing to do but queue what follows.
Chain(more) == Done(more) /\ UNCHANGED <<running, panicked, duel, outside>>
Ignored == Chain(<<>>)

\* The loop breaks: whatever is left in the mailbox is dropped.
Break ==
  /\ running' = FALSE
  /\ queue' = <<>>
  /\ UNCHANGED <<panicked, duel, outside>>

Steady == UNCHANGED <<running, panicked, clients, late>>

-----------------------------------------------------------------------------
(* Who attacks first.                                                       *)

\* Mutant of Deciding: the other player's gate is opened.
OtherDecides(ps, decider) ==
  [s \in Seats |-> IF ps[s].here
                   THEN [ps[s] EXCEPT !.state = IF s = decider THEN "None" ELSE "TpResult"]
                   ELSE ps[s]]

\* The gates on_hand_result and on_update_deck leave when `decider` may choose.
Deciding(ps, decider) ==
  [s \in Seats |-> IF ps[s].here
                   THEN [ps[s] EXCEPT !.state = IF s = decider THEN "TpResult" ELSE "None"]
                   ELSE ps[s]]

OnHandResult ==
  /\ ReceiveFrom("HandResult")
  /\ LET shown == [players EXCEPT ![Request.from].hand = Present(Request.from)] IN
     \/ /\ \E s \in Seats : ~shown[s].hand
        /\ players' = shown
        /\ UNCHANGED <<stage, first_attack_decider, stoc>>
     \/ /\ \A s \in Seats : shown[s].hand
        /\ \/ /\ players' = [s \in Seats |->
                              [shown[s] EXCEPT !.hand = FALSE, !.state = "HandResult"]]
              /\ Send(ToAll("SelectHand"))
              /\ UNCHANGED <<stage, first_attack_decider>>
           \/ \E winner \in Seats :
              /\ players' = Deciding(shown, winner)
              /\ first_attack_decider' = winner
              /\ stage' = "Firstgo"
              /\ Send(ToOne(winner, <<"SelectTp">>))
  /\ Done(<<>>)
  /\ Steady
  /\ UNCHANGED <<host_player, first_attack_player, duel_winner, last_response,
                 client_responses, match_kill, core, timers>>

\* The gate stays at TpResult until the engine asks for something else.
OnTpResult ==
  /\ ReceiveFrom("TpResult")
  /\ first_attack_player' \in {Request.from, Other(Request.from)}
  /\ stage' = "Dueling"
  /\ Done(<<Ex("FirstShuffle"), Ex("DuelInit")>>)
  /\ Steady
  /\ UNCHANGED <<players, host_player, first_attack_decider, duel_winner, last_response,
                 client_responses, match_kill, core, timers, stoc>>

-----------------------------------------------------------------------------
(* The duel starts.                                                         *)

OnFirstShuffle == Receive("FirstShuffle") /\ Ignored

\* Mutant of Loaded: the first attacker's deck is loaded for both.
FirstTwice ==
  [s \in Seats |-> IF s = FirstAttacker /\ ~core.ended THEN 2 ELSE core.loaded[s]]

\* Loads the first attacker's deck, then the other's, up to the first empty
\* slot; DuelStart follows whatever was loaded.  An ended core loads nothing.
Loaded ==
  LET first == FirstAttacker
      seats == CASE core.ended \/ ~Present(first) -> {}
                 [] ~Present(Other(first))        -> {first}
                 [] OTHER                         -> Seats
  IN  [s \in Seats |-> IF s \in seats /\ core.loaded[s] < 2 THEN core.loaded[s] + 1
                                                            ELSE core.loaded[s]]

OnDuelInit ==
  /\ Receive("DuelInit")
  /\ core' = [core EXCEPT !.loaded = Loaded, !.first = FirstAttacker]
  /\ Done(<<Ex("DuelStart")>>)
  /\ Steady
  /\ UNCHANGED <<stage, players, host_player, first_attack_player, first_attack_decider,
                 duel_winner, last_response, client_responses, match_kill, timers, stoc>>

\* Without a first attacker the observers' copy of Start is unreachable!().
OnDuelStartPanics ==
  /\ Receive("DuelStart")
  /\ first_attack_player = None
  /\ running' = FALSE
  /\ panicked' = TRUE
  /\ queue' = <<>>
  /\ UNCHANGED <<duel, outside>>

\* A second timer takes the place of the first without stopping it.
OnDuelStart ==
  /\ Receive("DuelStart")
  /\ first_attack_player # None
  /\ core' = [core EXCEPT !.started = ~core.ended]
  /\ timers' = IF Timed THEN [alive |-> timers.alive + 1, handle |-> TRUE] ELSE timers
  /\ Done(<<Ex("Evolve")>>)
  /\ UNCHANGED players
  /\ Send(ToAll("Start"))
  /\ Steady
  /\ UNCHANGED <<stage, host_player, first_attack_player, first_attack_decider,
                 duel_winner, last_response, client_responses, match_kill>>

-----------------------------------------------------------------------------
(* Evolve: the engine runs until it needs an answer, refuses one or ends.   *)

\* Mutant of SetWaiting: TimeLimit is sent to the first slot only.
LimitToFirst(s) ==
  /\ last_response' = s
  /\ players' = IF Present(s)
                THEN [players EXCEPT ![s].state = IF Timed THEN "TimeConfirm" ELSE "Response"]
                ELSE players
  /\ Send(ToOne(s, IF Timed /\ s = 0 THEN <<"TimeLimit", "Select">> ELSE <<"Select">>))

\* set_waiting: this one gets the prompt; with a time limit it has to confirm the
\* TimeLimit message before it may answer.  The other's copy of TimeLimit names
\* somebody else and is not confirmed.
SetWaiting(s) ==
  /\ last_response' = s
  /\ players' = IF Present(s)
                THEN [players EXCEPT ![s].state = IF Timed THEN "TimeConfirm" ELSE "Response"]
                ELSE players
  /\ Send(ToOne(s, IF Timed THEN <<"TimeLimit", "Select">> ELSE <<"Select">>))

\* What the engine did with the answer it was given, if any.
Accepted == IF core.input THEN core.accepted + 1 ELSE core.accepted

Evolving == Receive("Evolve") /\ core.started /\ ~core.ended

OnEvolveEnded == Receive("Evolve") /\ (core.ended \/ ~core.started) /\ Ignored

\* A select message: waiting_for() is some player.
OnEvolveSelect ==
  /\ Evolving
  /\ core.asks < MaxAsks
  /\ \E s \in Seats :
       /\ core' = [core EXCEPT !.asks = @ + 1, !.input = FALSE, !.accepted = Accepted]
       /\ SetWaiting(s)
  /\ Done(<<>>)
  /\ Steady
  /\ UNCHANGED <<stage, host_player, first_attack_player, first_attack_decider, duel_winner,
                 client_responses, match_kill, timers>>

\* Mutant of WithoutLast: the refused answer stays in the replay.
WithLast(n) == n

\* client_responses.pop()
WithoutLast(n) == IF n = 0 THEN 0 ELSE n - 1

\* Retry: the refused answer leaves the replay, the same player is asked again.
OnEvolveRetry ==
  /\ Evolving
  /\ core.input
  /\ core.asks < MaxAsks
  /\ core' = [core EXCEPT !.asks = @ + 1, !.input = FALSE]
  /\ client_responses' = WithoutLast(client_responses)
  /\ IF last_response # None THEN SetWaiting(last_response)
                             ELSE UNCHANGED <<players, last_response, stoc>>
  /\ Done(<<>>)
  /\ Steady
  /\ UNCHANGED <<stage, host_player, first_attack_player, first_attack_decider, duel_winner,
                 match_kill, timers>>

\* gm::Win, perhaps after a gm::MatchKill.
OnEvolveWin ==
  /\ Evolving
  /\ \E winner \in Seats \cup {None} : Done(<<DuelEnd(winner)>>)
  /\ match_kill' \in {match_kill, TRUE}
  /\ core' = [core EXCEPT !.input = FALSE, !.accepted = Accepted]
  /\ UNCHANGED players
  /\ Send(ToAll("Win"))
  /\ Steady
  /\ UNCHANGED <<stage, host_player, first_attack_player, first_attack_decider, duel_winner,
                 last_response, client_responses, timers>>

\* The gate after an answer.
Closed(s) == IF Present(s) THEN [players EXCEPT ![s].state = "None"] ELSE players

OnResponse ==
  /\ ReceiveFrom("Response")
  /\ LET s == Request.from IN
     IF core.ended THEN Ignored
     ELSE /\ client_responses' = client_responses + 1
          /\ core' = [core EXCEPT !.input = TRUE]
          /\ players' = Closed(s)
          /\ Done(<<Ex("Evolve")>>)
          /\ Steady
          /\ UNCHANGED <<stage, host_player, first_attack_player, first_attack_decider,
                         duel_winner, last_response, match_kill, timers, stoc>>

OnTimeConfirm ==
  /\ ReceiveFrom("TimeConfirm")
  /\ LET s == Request.from IN
     IF ~Timed \/ last_response # s \/ ~Present(s) THEN Ignored
     ELSE /\ players' = [players EXCEPT ![s].state = "Response"]
          /\ Done(<<>>)
          /\ Steady
          /\ UNCHANGED <<stage, host_player, first_attack_player, first_attack_decider,
                         duel_winner, last_response, client_responses, match_kill, core,
                         timers, stoc>>
-----------------------------------------------------------------------------
(* The duel ends.                                                           *)

OnSurrender ==
  /\ ReceiveFrom("Surrender")
  /\ IF core.ended THEN Ignored
     ELSE /\ Done(<<DuelEnd(ToCore(Other(Request.from)))>>)
          /\ UNCHANGED players
          /\ Send(ToAll("Win"))
          /\ Steady
          /\ UNCHANGED <<stage, host_player, first_attack_player, first_attack_decider,
                         duel_winner, last_response, client_responses, match_kill, core, timers>>

\* The opponent of whoever leaves an unfinished duel wins it.  A leaving host is
\* succeeded by the other player; the room ends when there is none, and when
\* nobody is left at all.
OnLeaveGame ==
  /\ ReceiveFrom("LeaveGame")
  /\ LET s == Request.from
         left == [players EXCEPT ![s] = EmptySlot]
         deserted == host_player = s /\ ~Present(Other(s))
         nobody == ~HasObservers /\ \A t \in Seats : ~left[t].here
     IN
     \/ (deserted \/ nobody) /\ Break
     \/ /\ ~deserted /\ ~nobody
        /\ players' = left
        /\ host_player' = IF host_player = s THEN Other(s) ELSE host_player
        /\ IF core.ended
           THEN Done(<<>>) /\ Send([t \in Seats |-> <<>>])
           ELSE Done(<<DuelEnd(ToCore(Other(s)))>>) /\ Send(ToAll("Win"))
        /\ Steady
        /\ UNCHANGED <<stage, first_attack_player, first_attack_decider, duel_winner,
                       last_response, client_responses, match_kill, core, timers>>

\* The winner is translated with the first attacker known now.  The timer that
\* timer_task names is stopped.
OnDuelEnd ==
  /\ Receive("DuelEnd")
  /\ duel_winner' = Append(duel_winner, ToSeat(Request.winner))
  /\ core' = [core EXCEPT !.ended = TRUE, !.ends = @ + 1]
  /\ timers' = IF timers.handle THEN [alive |-> timers.alive - 1, handle |-> FALSE] ELSE timers
  /\ Done(<<Ex("GenerateReplay"), Ex("JudgeContinueMatch")>>)
  /\ Steady
  /\ UNCHANGED <<stage, players, host_player, first_attack_player, first_attack_decider,
                 last_response, client_responses, match_kill, stoc>>

\* A replay is made and sent: nothing this module tells apart.
OnGenerateReplay == Receive("GenerateReplay") /\ Ignored

EndCount == IF MatchMode THEN 3 ELSE 1
Wins(s) == Cardinality({i \in DOMAIN duel_winner : duel_winner[i] = s})

\* Mutant of Decided: a majority has to be exceeded.
Exceeded == Len(duel_winner) > EndCount \/ \E s \in Seats : Wins(s) > (EndCount + 1) \div 2

Decided == Len(duel_winner) >= EndCount \/ \E s \in Seats : Wins(s) >= (EndCount + 1) \div 2

\* Mutant of MustEnd: nobody looks whether a player has left.
LeftUnnoticed == Decided \/ match_kill

\* The three handlers of JudgeContinueMatch, any of which may end the match.
MustEnd == Decided \/ match_kill \/ Missing # {}

OnJudgeContinueMatch ==
  /\ Receive("JudgeContinueMatch")
  /\ Chain(IF MustEnd
           THEN <<Ex("MatchEnd")>> ELSE <<Ex("RecreateDuel")>>)

OnMatchEnd ==
  /\ Receive("MatchEnd")
  /\ Chain(IF TerminateWhenMatchEnd THEN <<Ex("terminate")>> ELSE <<>>)

OnTerminate == Receive("terminate") /\ Break

-----------------------------------------------------------------------------
(* Between two duels of a match.                                            *)

\* A slot at the start of siding.
ToSide(slot) == IF slot.here THEN [slot EXCEPT !.state = "UpdateDeck", !.ready = FALSE] ELSE slot

\* last_response, hand and match_kill keep their values.
OnRecreateDuel ==
  /\ Receive("RecreateDuel")
  /\ players' = [s \in Seats |-> ToSide(players[s])]
  /\ stage' = "Siding"
  /\ core' = NewCore
  /\ client_responses' = 0
  /\ first_attack_player' = None
  /\ first_attack_decider' =
       LET last == duel_winner[Len(duel_winner)] IN
       IF duel_winner # <<>> /\ last # None THEN Other(last)
       ELSE IF first_attack_decider = None THEN 1 ELSE Other(first_attack_decider)
  /\ Done(<<>>)
  /\ Send(ToAll("ChangeSide"))
  /\ Steady
  /\ UNCHANGED <<host_player, duel_winner, last_response, match_kill, timers>>

\* Before the first duel has ended a deck is stored unchecked; afterwards it must
\* be the old one up to the side, and the last player to send it starts the duel.
OnUpdateDeck ==
  /\ ReceiveFrom("UpdateDeck")
  /\ LET s == Request.from
         sided == [players EXCEPT ![s].ready = TRUE]
         decider == IF first_attack_decider = None THEN 0 ELSE first_attack_decider
     IN
     IF ~Present(s) \/ players[s].ready \/ duel_winner = <<>> THEN Ignored
     ELSE /\ \/ UNCHANGED <<stage, players>> /\ Send(ToOne(s, <<"SideError">>))
             \/ /\ \E t \in Seats : ~sided[t].ready
                /\ players' = sided
                /\ UNCHANGED <<stage, stoc>>
             \/ /\ \A t \in Seats : sided[t].ready
                /\ players' = Deciding(sided, decider)
                /\ stage' = "Firstgo"
                /\ Send(ToOne(decider, <<"SelectTp">>))
          /\ Done(<<>>)
          /\ Steady
          /\ UNCHANGED <<host_player, first_attack_player, first_attack_decider, duel_winner,
                         last_response, client_responses, match_kill, core, timers>>

\* A latecomer takes the first empty slot if there is one, else watches.
OnJoinGame ==
  /\ Receive("JoinGame")
  /\ IF Missing = {} THEN Ignored
     ELSE LET s == CHOOSE t \in Missing : \A u \in Missing : t <= u IN
          /\ players' = [players EXCEPT ![s] =
                           [here |-> TRUE, ready |-> FALSE, state |-> "Any", hand |-> FALSE]]
          /\ clients' = [clients EXCEPT ![s] = NewClient]
          /\ Done(<<>>)
          /\ UNCHANGED <<running, panicked, stage, host_player, first_attack_player,
                         first_attack_decider, duel_winner, last_response, client_responses,
                         match_kill, core, timers, stoc, late>>

-----------------------------------------------------------------------------
(* time_limit: seconds are not counted, any tick may be the last.           *)
OnTimerTick ==
  /\ Receive("timer_tick")
  /\ \/ Ignored
     \/ /\ Timed /\ last_response # None /\ Present(last_response)
        /\ Chain(<<[type |-> "Timeout", player |-> last_response]>>)

\* Unlike a surrender, a timeout does not ask whether the duel is over.
OnTimeout ==
  /\ Receive("Timeout")
  /\ last_response' = None
  /\ Done(<<DuelEnd(ToCore(Other(Request.player)))>>)
  /\ UNCHANGED players
  /\ Send(ToAll("Win"))
  /\ Steady
  /\ UNCHANGED <<stage, host_player, first_attack_player, first_attack_decider, duel_winner,
                 client_responses, match_kill, core, timers>>

-----------------------------------------------------------------------------
Actor ==
  \/ Refused \/ OnHandResult \/ OnTpResult \/ OnFirstShuffle \/ OnDuelInit
  \/ OnDuelStartPanics \/ OnDuelStart \/ OnEvolveEnded \/ OnEvolveSelect
  \/ OnEvolveRetry \/ OnEvolveWin \/ OnResponse \/ OnTimeConfirm \/ OnSurrender
  \/ OnLeaveGame \/ OnDuelEnd \/ OnGenerateReplay \/ OnJudgeContinueMatch
  \/ OnMatchEnd \/ OnTerminate \/ OnRecreateDuel \/ OnUpdateDeck \/ OnJoinGame
  \/ OnTimerTick \/ OnTimeout

Client(s) == ClientReads(s) \/ ClientAnswers(s) \/ ClientSurrenders(s) \/ ClientLeaves(s)

Next == Actor \/ TimerTicks \/ StrangerJoins \/ \E s \in Seats : Client(s)

Spec == Init /\ [][Next]_vars

\* The actor is a task of a fair scheduler.  Clients, timers and latecomers owe nothing.
FairSpec == Spec /\ WF_vars(Actor)
-----------------------------------------------------------------------------
(* Properties.                                                              *)

\* Every variable has its type.
TypeOK ==
  /\ running \in BOOLEAN
  /\ panicked \in BOOLEAN
  /\ queue \in Seq(Requests)
  /\ stage \in Stages
  /\ players \in [Seats -> PlayerRecords]
  /\ host_player \in Seats \cup {None}
  /\ first_attack_player \in Seats \cup {None}
  /\ first_attack_decider \in Seats \cup {None}
  /\ duel_winner \in Seq(Seats \cup {None})
  /\ last_response \in Seats \cup {None}
  /\ client_responses \in Nat
  /\ match_kill \in BOOLEAN
  /\ core \in [loaded : [Seats -> 0..2], first : Seats \cup {None}, started : BOOLEAN,
               ended : BOOLEAN, asks : Nat, input : BOOLEAN, accepted : Nat, ends : Nat]
  /\ timers \in [alive : Nat, handle : BOOLEAN]
  /\ clients \in [Seats -> [online : BOOLEAN, dueling : BOOLEAN,
                            owes : {"None", "HandResult", "TpResult", "Response", "UpdateDeck"}]]
  /\ stoc \in [Seats -> Seq(StocMessages)]
  /\ late \in 0..MaxLate

Waited(s) == players[s].state \in {"TimeConfirm", "Response"}
Evolves == {i \in DOMAIN queue : queue[i].type = "Evolve"}

\* The engine has one answer outstanding at most: either an Evolve is queued, or
\* one seat's gate is open for its answer.
OneOutstanding ==
  /\ Cardinality(Evolves) + Cardinality({s \in Seats : Waited(s)}) <= 1
  /\ \A s \in Seats : Waited(s) => last_response \in {s, None}

\* The replay holds the answers the engine took and the one it is about to
\* process, and none that it refused.
ReplayExact == client_responses = core.accepted + (IF core.input THEN 1 ELSE 0)

\* While the stage is Siding somebody still has to hand in a deck: the stage is
\* never left behind with everybody ready.
SidingWaits == stage = "Siding" => \E s \in Seats : ~players[s].ready

\* The engine plays with both decks, each loaded once: whoever leaves, joins or
\* gives up between TpResult and DuelStart, no duel starts on half a table.
EnginePlaysBothDecks == core.started => \A s \in Seats : core.loaded[s] = 1

\* The seat the engine knows as its player p: core player 0 is whoever's deck it was
\* given first.
EngineSeat(p) == CASE p = None -> None [] p = 0 -> core.first [] OTHER -> Other(core.first)

\* Who loses by the request that is handled: who surrenders, leaves, or is out of time.
Loser == IF Request.type = "Timeout" THEN Request.player ELSE Request.from

\* The winner of a duel goes to the mailbox as a core player and comes back as a seat,
\* with the first attacker looked up anew each time.  Whatever happens in between, the
\* duel is recorded for the seat the engine has played as that core player, and whoever
\* surrenders, leaves or runs out of time has it put down to the opponent.
WinnerIsTheEngines ==
  [][core.started /\ queue # <<>> =>
       /\ duel_winner' # duel_winner =>
            Request.type = "DuelEnd"
              /\ duel_winner' = Append(duel_winner, EngineSeat(Request.winner))
       /\ Request.type \in {"Surrender", "LeaveGame", "Timeout"} =>
            \A w \in Seats \cup {None} :
              queue' = Append(Tail(queue), DuelEnd(w)) => EngineSeat(w) = Other(Loser)]_vars

\* The room is at rest: nothing to handle, nothing on its way to a client.
AtRest == running /\ queue = <<>> /\ \A s \in Seats : stoc[s] = <<>>

\* A prompt of the duel on a client's screen can be answered: once the room has
\* come to rest the gate lets the answer through.
PromptAnswerable ==
  AtRest => \A s \in Seats :
    clients[s].owes \in {"HandResult", "TpResult", "Response"} => Allowed(s, clients[s].owes)

\* The two players and the room never wait for one another: at rest with both
\* seated, one of them has a prompt whose answer the gate lets through.
SomebodyCanMove ==
  AtRest /\ Missing = {} /\ late = 0 /\ TerminateWhenMatchEnd =>
    \E s \in Seats : clients[s].owes # "None" /\ Allowed(s, clients[s].owes)

\* The rule of the match, best of EndCount: enough duels, or a majority.
MatchOver == Len(duel_winner) >= EndCount \/ \E s \in Seats : 2 * Wins(s) > EndCount

\* A match that is over is not continued: "RecreateDuel ... Sent when the match
\* should continue."
NotContinuedWhenOver ==
  [][running /\ queue # <<>> /\ Request.type = "RecreateDuel" => ~MatchOver]_vars

\* A match that is over ends the room, whatever the clients and the timer go on
\* sending.
MatchOverEnds == (MatchOver /\ TerminateWhenMatchEnd) ~> ~running

\* When a player is gone while a duel is being set up or played, the match and
\* the room end: the opponent does not wait for ever.
AbandonedDuelEnds ==
  (Missing # {} /\ ~core.ended /\ stage # "Siding" /\ TerminateWhenMatchEnd) ~> ~running

\* One answer at a time is given to the engine, and each that it took is in the replay once.
AcceptedOnce == OneOutstanding /\ ReplayExact

\* The room never waits for a player who is not asked, in siding or in a duel.
NobodyWaitsInVain == SidingWaits /\ SomebodyCanMove

-----------------------------------------------------------------------------
(* What the comments of the code say and the code does not do.              *)

\* ygocore_handlers.rs: "we still need to break it so that we wouldn't repeatly
\* count the winner": a duel is counted once.
OneWinnerPerDuel == core.ends <= 1

=============================================================================

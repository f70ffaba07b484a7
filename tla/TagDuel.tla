------------------------------ MODULE TagDuel ------------------------------
(***************************************************************************)
(* The two-against-two duel: the TagDuel actor from the HsStart that ends   *)
(* the lobby to the end of its loop, with the plugins time_limit and        *)
(* terminate.  A room of mode Tag plays one duel.                           *)
(*                                                                          *)
(* A team has one field and two decks.  Only one member of each team plays  *)
(* at a time: the engine swaps a team's decks whenever a turn of that team  *)
(* starts, except on turn 1, and tells the server nothing of who is playing *)
(* but the core player (0 attacks first, 1 second).  The server follows the *)
(* swaps by rotating current_turn_player on every NewTurn, and translates   *)
(* core players to seats with it.                                           *)
(*                                                                          *)
(* The engine is external: `process` may start a turn and then ask either   *)
(* player, refuse the last answer (Retry) or declare a winner.  A client    *)
(* answers a prompt at any time, and may do so before it has confirmed the  *)
(* time limit; it may surrender when it has been shown the duel and may     *)
(* leave.  Once it has read the Win it sends nothing more; as nothing makes *)
(* it send anything, and it may not have read it yet, no Win is modelled.   *)
(***************************************************************************)
EXTENDS Naturals, Sequences, FiniteSets

CONSTANTS
  None,         \* Option::None
  Timed,        \* host_info.time_limit > 0
  HasObservers, \* somebody watches and stays
  Hosts,        \* bound: where the host may be, see host_player
  TerminateWhenMatchEnd, \* terminate plugin: terminate_when_match_end
  MaxTurns,     \* bound: turns of the duel
  MaxQueue,     \* bound: clients send what is no answer only while the mailbox is shorter
  MaxQuitters   \* bound: clients that surrender or leave

ASSUME TagDuelAssumption ==
  /\ None \notin Nat
  /\ {Timed, HasObservers, TerminateWhenMatchEnd} \subseteq BOOLEAN
  /\ Hosts \subseteq 0..3 \cup (IF HasObservers THEN {None} ELSE {})
  /\ {MaxTurns, MaxQueue, MaxQuitters} \subseteq Nat

Seats == 0..3              \* PlayerIndex
Teams == {1, 2}            \* TeamIndex
CorePlayers == {0, 1}      \* CorePlayer::FirstAttackPlayer, SecondAttackPlayer

SitsOut == [core_player \in CorePlayers |-> IF core_player = 0 THEN 2 ELSE 5]

Gates == {"None", "Any", "HandResult", "TpResult", "TimeConfirm", "Response"}

-----------------------------------------------------------------------------
(* Seats, teams and core players.                                           *)
Leader(team) == IF team = 1 THEN 0 ELSE 2
Member(team) == IF team = 1 THEN {0, 1} ELSE {2, 3}
Leaders == {Leader(team) : team \in Teams}
OtherTeam(team) == 3 - team
Team(seat) == IF seat < 2 THEN 1 ELSE 2
Teammate(seat) == IF seat % 2 = 0 THEN seat + 1 ELSE seat - 1

\* Who of the other team plays while `seat` does.  The second team is one swap
\* behind: during a turn of the first team it is still the one before.
Opponent(seat, first) ==
  IF first = 1 THEN (IF seat < 2 THEN 3 - seat ELSE seat - 2)
               ELSE (IF seat < 2 THEN seat + 2 ELSE 3 - seat)

FirstOr1(first) == IF first = None THEN 1 ELSE first

\* PlayerTransformer.
TeamToCore(team, first) == IF team = FirstOr1(first) THEN 0 ELSE 1

ToSeat(core_player, first, current) ==
  IF current = None THEN None
  ELSE IF (Team(current) = FirstOr1(first)) = (core_player = 0) THEN current
  ELSE Opponent(current, FirstOr1(first))

\* Who sits out is None (2) in the first and Rule (5) in the second team.
ToCore(seat, first, current) ==
  LET own == TeamToCore(Team(seat), first) IN
  IF current = None \/ seat \in {current, Opponent(current, FirstOr1(first))} THEN own
  ELSE SitsOut[own]

\* Mutant of Rotated: the turn passes to the one who plays against us now.
Alternates(core_player, first, current) ==
  IF current = None \/ (current = Leader(FirstOr1(first)) /\ core_player = 0)
  THEN Leader(FirstOr1(first))
  ELSE Opponent(current, FirstOr1(first))

\* rotate_turn_player: at the NewTurn of turn 1 the leader keeps the turn.
Rotated(core_player, first, current) ==
  IF current = None \/ (current = Leader(FirstOr1(first)) /\ core_player = 0)
  THEN Leader(FirstOr1(first))
  ELSE Opponent(Teammate(current), FirstOr1(first))

-----------------------------------------------------------------------------
VARIABLES
  running,          \* the loop has not been left
  queue,            \* the mailbox
  stage,            \* duel.stage
  players,          \* duel.players
  host_player,      \* the seat of duel.host_player, None when the host watches
  first_attack_team,
  current_turn_player,
  surrender,        \* duel.surrender
  duel_winner,
  last_response,    \* the seat the engine waits for
  core,             \* the engine's duel
  timer,            \* a timer task ticks
  clients           \* per seat: the client's side of the connection

duel == <<stage, players, host_player, first_attack_team, current_turn_player, surrender,
          duel_winner, last_response, core, timer>>
vars == <<running, queue, duel, clients>>

\* A slot of duel.players; `here` is Some(_).
EmptySlot == [here |-> FALSE, state |-> "None", hand |-> FALSE]

\* new_core_duel.  `table` and `tag` name, per core player, the seats whose decks are
\* in play and put aside; `input` is an answer set but not processed.
NewCore == [table |-> [p \in CorePlayers |-> None], tag |-> [p \in CorePlayers |-> None],
            started |-> FALSE, ended |-> FALSE, turns |-> 0, input |-> FALSE]

\* `dueling`: the duel was shown to the client.  `gaveUp`: the user has surrendered.
NoClient == [online |-> FALSE, owes |-> "None", dueling |-> FALSE, gaveUp |-> FALSE]

Present(s) == players[s].here

Ctos(type, s) == [type |-> type, from |-> s]
Ex(type)      == [type |-> type]
DuelEnd(winner, reason) == [type |-> "DuelEnd", winner |-> winner, reason |-> reason]

Requests ==
  [type : {"HandResult", "TpResult", "Response", "TimeConfirm", "Surrender", "LeaveGame"},
   from : Seats]
  \cup [type : {"DuelEnd"}, winner : CorePlayers \cup {None},
        reason : {"Win", "Surrender", "Leave", "Timeout"}]
  \cup [type : {"Timeout"}, player : Seats]
  \cup [type : {"FirstShuffle", "DuelInit", "DuelStart", "GenerateReplay",
                "JudgeContinueMatch", "MatchEnd", "Evolve", "timer_tick", "terminate"}]

\* What on_hs_start leaves: only the leaders are asked for a hand, the gates of
\* their teammates stay as they were in the lobby.
Init ==
  /\ running = TRUE
  /\ queue = <<>>
  /\ stage = "Finger"
  /\ players = [s \in Seats |-> [here |-> TRUE, hand |-> FALSE,
                                 state |-> IF s \in Leaders THEN "HandResult" ELSE "Any"]]
  /\ host_player \in Hosts
  /\ first_attack_team = None
  /\ current_turn_player = None
  /\ surrender = [s \in Seats |-> FALSE]
  /\ duel_winner = <<>>
  /\ last_response = None
  /\ core = NewCore
  /\ timer = FALSE
  /\ clients = [s \in Seats |-> [online |-> TRUE, dueling |-> FALSE, gaveUp |-> FALSE,
                                 owes |-> IF s \in Leaders THEN "HandResult" ELSE "None"]]

-----------------------------------------------------------------------------
(* The clients.                                                             *)
Send(request) == running /\ queue' = Append(queue, request)
Post(request) == Len(queue) < MaxQueue /\ Send(request)

\* The prompt is answered; the confirmed TimeLimit is followed by the question itself.
ClientAnswers(s) ==
  /\ clients[s].online
  /\ clients[s].owes # "None"
  /\ Send(Ctos(clients[s].owes, s))
  /\ clients' = [clients EXCEPT ![s].owes = IF @ = "TimeConfirm" THEN "Response" ELSE "None"]
  /\ UNCHANGED <<running, duel>>

\* The question is answered before its TimeLimit is confirmed: the gate drops it.
ClientAnswersEarly(s) ==
  /\ clients[s].online
  /\ clients[s].owes = "TimeConfirm"
  /\ Post(Ctos("Response", s))
  /\ UNCHANGED <<running, duel, clients>>

Quits(s) == ~clients[s].online \/ clients[s].gaveUp
MayQuit(s) == Cardinality({t \in Seats \ {s} : Quits(t)}) < MaxQuitters

ClientSurrenders(s) ==
  /\ clients[s].online
  /\ clients[s].dueling
  /\ ~clients[s].gaveUp
  /\ MayQuit(s)
  /\ Post(Ctos("Surrender", s))
  /\ clients' = [clients EXCEPT ![s].gaveUp = TRUE]
  /\ UNCHANGED <<running, duel>>

ClientLeaves(s) ==
  /\ clients[s].online
  /\ MayQuit(s)
  /\ Post(Ctos("LeaveGame", s))
  /\ clients' = [clients EXCEPT ![s] = NoClient]
  /\ UNCHANGED <<running, duel>>

\* At most one tick waits in the mailbox: the actor empties it many times a second.
TimerTicks ==
  /\ timer
  /\ \A i \in DOMAIN queue : queue[i].type # "timer_tick"
  /\ Post(Ex("timer_tick"))
  /\ UNCHANGED <<running, duel, clients>>

\* What a message sent to the seats of S does to their clients.
Prompted(cs, S, prompt) ==
  [s \in Seats |-> IF s \in S /\ cs[s].online THEN [cs[s] EXCEPT !.owes = prompt] ELSE cs[s]]
Seated(cs) == [s \in Seats |-> IF cs[s].online THEN [cs[s] EXCEPT !.dueling = TRUE] ELSE cs[s]]

-----------------------------------------------------------------------------
(* The actor loop.                                                          *)
Request == Head(queue)

Receive(type) == running /\ queue # <<>> /\ Request.type = type

Done(more) == queue' = Tail(queue) \o more

\* AllowMessage::allowed, asked only for somebody who is in a slot.
Allowed(s, type) ==
  \/ ~Present(s)
  \/ type \in {"Surrender", "LeaveGame"}
  \/ players[s].state \in {"Any", type}

Refused ==
  /\ running /\ queue # <<>> /\ "from" \in DOMAIN Request
  /\ ~Allowed(Request.from, Request.type)
  /\ Done(<<>>)
  /\ UNCHANGED <<running, duel, clients>>

ReceiveFrom(type) == Receive(type) /\ Allowed(Request.from, type)

Chain(more) == Done(more) /\ UNCHANGED <<running, duel, clients>>
Ignored == Chain(<<>>)

\* The loop breaks: whatever is left in the mailbox is dropped.
Break ==
  /\ running' = FALSE
  /\ queue' = <<>>
  /\ UNCHANGED <<duel, clients>>

-----------------------------------------------------------------------------
(* Who attacks first.                                                       *)

\* The gates of the leaders once `decider` may choose.
Deciding(ps, decider) ==
  [s \in Seats |-> IF s \in Leaders /\ ps[s].here
                   THEN [ps[s] EXCEPT !.state = IF s = decider THEN "TpResult" ELSE "None"]
                   ELSE ps[s]]

OnHandResult ==
  /\ ReceiveFrom("HandResult")
  /\ LET shown == [players EXCEPT ![Request.from].hand = Present(Request.from)] IN
     \/ /\ \E s \in Leaders : ~shown[s].hand
        /\ players' = shown
        /\ UNCHANGED <<stage, clients>>
     \/ /\ \A s \in Leaders : shown[s].hand
        /\ \/ /\ players' = [s \in Seats |-> IF s \in Leaders
                               THEN [shown[s] EXCEPT !.hand = FALSE, !.state = "HandResult"]
                               ELSE shown[s]]
              /\ clients' = Prompted(clients, Leaders, "HandResult")
              /\ UNCHANGED stage
           \/ \E winner \in Leaders :
              /\ players' = Deciding(shown, winner)
              /\ clients' = Prompted(clients, {winner}, "TpResult")
              /\ stage' = "Firstgo"
  /\ Done(<<>>)
  /\ UNCHANGED <<running, host_player, first_attack_team, current_turn_player, surrender,
                 duel_winner, last_response, core, timer>>

\* The choice is of whoever sends it, for his team.
OnTpResult ==
  /\ ReceiveFrom("TpResult")
  /\ \E first \in Teams :
       /\ first_attack_team' = first
       /\ current_turn_player' = Leader(first)
  /\ stage' = "Dueling"
  /\ Done(<<Ex("FirstShuffle"), Ex("DuelInit")>>)
  /\ UNCHANGED <<running, players, host_player, surrender, duel_winner, last_response, core,
                 timer, clients>>

-----------------------------------------------------------------------------
(* The duel starts.                                                         *)

OnFirstShuffle == Receive("FirstShuffle") /\ Ignored

\* Whose deck is in play first: the second team's member, because the engine
\* swaps the second team at the start of turn 2.
Starter(core_player, first) ==
  IF core_player = 0 THEN Leader(FirstOr1(first))
                     ELSE Teammate(Leader(OtherTeam(FirstOr1(first))))

\* A team is loaded when both its slots are filled; the first that is not stops
\* the loop.  DuelStart follows whatever was loaded.
OnDuelInit ==
  /\ Receive("DuelInit")
  /\ LET first == FirstOr1(first_attack_team)
         full(team) == \A s \in Member(team) : Present(s)
         loaded == CASE core.ended \/ ~full(first)  -> {}
                     [] ~full(OtherTeam(first))     -> {0}
                     [] OTHER                       -> CorePlayers
         starter(p) == Starter(p, first_attack_team)
     IN  core' = [core EXCEPT
           !.table = [p \in CorePlayers |-> IF p \in loaded THEN starter(p) ELSE @[p]],
           !.tag = [p \in CorePlayers |-> IF p \in loaded THEN Teammate(starter(p)) ELSE @[p]]]
  /\ Done(<<Ex("DuelStart")>>)
  /\ UNCHANGED <<running, stage, players, host_player, first_attack_team, current_turn_player,
                 surrender, duel_winner, last_response, timer, clients>>

OnDuelStart ==
  /\ Receive("DuelStart")
  /\ core' = [core EXCEPT !.started = ~core.ended]
  /\ timer' = Timed
  /\ clients' = Seated(clients)
  /\ Done(<<Ex("Evolve")>>)
  /\ UNCHANGED <<running, stage, players, host_player, first_attack_team, current_turn_player,
                 surrender, duel_winner, last_response>>

-----------------------------------------------------------------------------
(* Evolve: the engine runs until it needs an answer, refuses one or ends.   *)
Evolving == Receive("Evolve") /\ core.started /\ ~core.ended

OnEvolveEnded == Receive("Evolve") /\ (core.ended \/ ~core.started) /\ Ignored

\* The engine starts a turn: the sides alternate, and from turn 2 on the side
\* whose turn it is swaps its decks.
TurnOf(c) == c.turns % 2
Turned(c) ==
  LET p == TurnOf(c) IN
  IF c.turns = 0 THEN [c EXCEPT !.turns = 1]
  ELSE [c EXCEPT !.turns = @ + 1, !.table[p] = c.tag[p], !.tag[p] = c.table[p]]

\* set_waiting: only the player whose copy of TimeLimit names him confirms it, and
\* with a time limit he must do so before his answer is let through.
Waiting(seat) ==
  /\ last_response' = seat
  /\ players' = IF Present(seat)
                THEN [players EXCEPT ![seat].state = IF Timed THEN "TimeConfirm" ELSE "Response"]
                ELSE players
  /\ clients' = Prompted(clients, {seat}, IF Timed THEN "TimeConfirm" ELSE "Response")

\* No NewTurn, or one: `engine` is the duel as the engine leaves it, `current` the
\* current_turn_player on_new_turn leaves.
Ran(engine, current) ==
  \/ engine = core /\ current = current_turn_player
  \/ /\ core.turns < MaxTurns
     /\ engine = Turned(core)
     /\ current = Rotated(TurnOf(core), first_attack_team, current_turn_player)

OnEvolveSelect ==
  /\ Evolving
  /\ \E engine \in {core, Turned(core)}, current \in Seats \cup {None} :
       /\ Ran(engine, current)
       /\ engine.turns > 0        \* nobody is asked before the first turn
       /\ current_turn_player' = current
       /\ core' = [engine EXCEPT !.input = FALSE]
       /\ \E p \in CorePlayers : Waiting(ToSeat(p, first_attack_team, current))
  /\ Done(<<>>)
  /\ UNCHANGED <<running, stage, host_player, first_attack_team, surrender, duel_winner, timer>>

\* Retry: the player who answered is asked again, if he translates to a core player
\* and back to a seat.
OnEvolveRetry ==
  /\ Evolving
  /\ core.input
  /\ core' = [core EXCEPT !.input = FALSE]
  /\ LET p == IF last_response = None THEN SitsOut[0]
              ELSE ToCore(last_response, first_attack_team, current_turn_player) IN
     IF p \in CorePlayers THEN Waiting(ToSeat(p, first_attack_team, current_turn_player))
                          ELSE UNCHANGED <<players, last_response, clients>>
  /\ Done(<<>>)
  /\ UNCHANGED <<running, stage, host_player, first_attack_team, current_turn_player, surrender,
                 duel_winner, timer>>

OnEvolveWin ==
  /\ Evolving
  /\ \E engine \in {core, Turned(core)}, current \in Seats \cup {None} :
       /\ Ran(engine, current)
       /\ current_turn_player' = current
       /\ core' = [engine EXCEPT !.input = FALSE]
  /\ \E winner \in CorePlayers \cup {None} : Done(<<DuelEnd(winner, "Win")>>)
  /\ UNCHANGED <<running, stage, players, host_player, first_attack_team, surrender, duel_winner,
                 last_response, timer, clients>>

\* Mutant of Closed: a second answer is let through.
LeftOpen(s) == players

\* The gate after an answer.
Closed(s) == IF Present(s) THEN [players EXCEPT ![s].state = "None"] ELSE players

OnResponse ==
  /\ ReceiveFrom("Response")
  /\ IF core.ended THEN Ignored
     ELSE /\ core' = [core EXCEPT !.input = TRUE]
          /\ players' = Closed(Request.from)
          /\ Done(<<Ex("Evolve")>>)
          /\ UNCHANGED <<running, stage, host_player, first_attack_team, current_turn_player,
                         surrender, duel_winner, last_response, timer, clients>>

OnTimeConfirm ==
  /\ ReceiveFrom("TimeConfirm")
  /\ LET s == Request.from IN
     IF ~Timed \/ last_response # s \/ ~Present(s) THEN Ignored
     ELSE /\ players' = [players EXCEPT ![s].state = "Response"]
          /\ Done(<<>>)
          /\ UNCHANGED <<running, stage, host_player, first_attack_team, current_turn_player,
                         surrender, duel_winner, last_response, core, timer, clients>>

-----------------------------------------------------------------------------
(* The duel ends.                                                           *)

\* The team of `s` has lost.
Lost(s, reason) == DuelEnd(TeamToCore(OtherTeam(Team(s)), first_attack_team), reason)

\* Mutant of Agreed: one of the team suffices.
Alone(s) == TRUE

Agreed(s) == surrender[Teammate(s)]

\* The first of a team to give up is noted, the second ends the duel.
OnSurrender ==
  /\ ReceiveFrom("Surrender")
  /\ LET s == Request.from IN
     IF core.ended \/ surrender[s] THEN Ignored
     ELSE /\ IF Agreed(s)
             THEN /\ Done(<<Lost(s, "Surrender")>>)
                  /\ UNCHANGED surrender
             ELSE /\ surrender' = [surrender EXCEPT ![s] = TRUE]
                  /\ Done(<<>>)
          /\ UNCHANGED <<running, stage, players, host_player, first_attack_team,
                         current_turn_player, duel_winner, last_response, core, timer, clients>>

\* Whoever leaves an unfinished duel loses it for his team.  A leaving host is
\* succeeded by the first player left.
OnLeaveGame ==
  /\ ReceiveFrom("LeaveGame")
  /\ LET s == Request.from
         left == [players EXCEPT ![s] = EmptySlot]
         heirs == {t \in Seats \ {s} : Present(t)}
         deserted == host_player = s /\ heirs = {}
         nobody == ~HasObservers /\ \A t \in Seats : ~left[t].here
     IN
     \/ (deserted \/ nobody) /\ Break
     \/ /\ ~deserted /\ ~nobody
        /\ players' = left
        /\ host_player' = IF host_player = s THEN CHOOSE t \in heirs : \A u \in heirs : t <= u
                                             ELSE host_player
        /\ Done(IF core.ended THEN <<>> ELSE <<Lost(s, "Leave")>>)
        /\ UNCHANGED <<running, stage, first_attack_team, current_turn_player, surrender,
                       duel_winner, last_response, core, timer, clients>>

\* The winner is translated with the first team known now.
OnDuelEnd ==
  /\ Receive("DuelEnd")
  /\ duel_winner' = Append(duel_winner,
       IF Request.winner = None \/ first_attack_team = None THEN None
       ELSE IF Request.winner = 0 THEN first_attack_team ELSE OtherTeam(first_attack_team))
  /\ core' = [core EXCEPT !.ended = TRUE]
  /\ timer' = FALSE
  /\ Done(<<Ex("GenerateReplay"), Ex("JudgeContinueMatch")>>)
  /\ UNCHANGED <<running, stage, players, host_player, first_attack_team, current_turn_player,
                 surrender, last_response, clients>>

\* The replay is made and sent: its owners are swapped back when the second team
\* attacked first.
OnGenerateReplay == Receive("GenerateReplay") /\ Ignored

\* end_count is 1: one duel is always enough.
OnJudgeContinueMatch == Receive("JudgeContinueMatch") /\ Chain(<<Ex("MatchEnd")>>)

OnMatchEnd ==
  /\ Receive("MatchEnd")
  /\ Chain(IF TerminateWhenMatchEnd THEN <<Ex("terminate")>> ELSE <<>>)

OnTerminate == Receive("terminate") /\ Break

\* time_limit: seconds are not counted, any tick may be the last.
OnTimerTick ==
  /\ Receive("timer_tick")
  /\ \/ Ignored
     \/ /\ Timed /\ last_response # None /\ Present(last_response)
        /\ Chain(<<[type |-> "Timeout", player |-> last_response]>>)

OnTimeout ==
  /\ Receive("Timeout")
  /\ last_response' = None
  /\ Done(<<Lost(Request.player, "Timeout")>>)
  /\ UNCHANGED <<running, stage, players, host_player, first_attack_team, current_turn_player,
                 surrender, duel_winner, core, timer, clients>>

-----------------------------------------------------------------------------
Actor ==
  \/ Refused \/ OnHandResult \/ OnTpResult \/ OnFirstShuffle \/ OnDuelInit \/ OnDuelStart
  \/ OnEvolveEnded \/ OnEvolveSelect \/ OnEvolveRetry \/ OnEvolveWin \/ OnResponse
  \/ OnTimeConfirm \/ OnSurrender \/ OnLeaveGame \/ OnDuelEnd \/ OnGenerateReplay
  \/ OnJudgeContinueMatch \/ OnMatchEnd \/ OnTerminate \/ OnTimerTick \/ OnTimeout

Client(s) == \/ ClientAnswers(s) \/ ClientAnswersEarly(s)
             \/ ClientSurrenders(s) \/ ClientLeaves(s)

Next == Actor \/ TimerTicks \/ \E s \in Seats : Client(s)

Spec == Init /\ [][Next]_vars

-----------------------------------------------------------------------------
(* Properties.                                                              *)

\* Every variable has its type.
TypeOK ==
  /\ running \in BOOLEAN
  /\ queue \in Seq(Requests)
  /\ stage \in {"Finger", "Firstgo", "Dueling"}
  /\ players \in [Seats -> [here : BOOLEAN, state : Gates, hand : BOOLEAN]]
  /\ host_player \in Seats \cup {None}
  /\ first_attack_team \in Teams \cup {None}
  /\ current_turn_player \in Seats \cup {None}
  /\ surrender \in [Seats -> BOOLEAN]
  /\ duel_winner \in Seq(Teams \cup {None})
  /\ last_response \in Seats \cup {None}
  /\ core \in [table : [CorePlayers -> Seats \cup {None}], tag : [CorePlayers -> Seats \cup {None}],
               started : BOOLEAN, ended : BOOLEAN, turns : Nat, input : BOOLEAN]
  /\ timer \in BOOLEAN
  /\ clients \in [Seats -> [online : BOOLEAN, dueling : BOOLEAN, gaveUp : BOOLEAN,
                            owes : {"None", "HandResult", "TpResult", "TimeConfirm", "Response"}]]

\* The server and the engine agree who plays: a core player translates to the seat
\* whose deck the engine has in play, in every turn and whichever team began.
DeckInPlay ==
  core.started => \A p \in CorePlayers :
    ToSeat(p, first_attack_team, current_turn_player) = core.table[p]

\* The question the engine waits for is with a player whose deck is in play: a
\* swap never leaves the gate of somebody who sits the turn out open.
AskedPlays ==
  \A s \in Seats : core.started /\ players[s].state \in {"TimeConfirm", "Response"} =>
    s \in {core.table[p] : p \in CorePlayers}

\* A duel is given up by a team, never by one of its members alone.
SurrenderIsMutual ==
  \A i \in DOMAIN queue : queue[i].type = "DuelEnd" /\ queue[i].reason = "Surrender" =>
    \E team \in Teams : /\ queue[i].winner = TeamToCore(OtherTeam(team), first_attack_team)
                        /\ \A s \in Member(team) : ~clients[s].online \/ clients[s].gaveUp

\* The engine has one answer outstanding at most.
OneOutstanding ==
  Cardinality({i \in DOMAIN queue : queue[i].type = "Evolve"})
    + Cardinality({s \in Seats : players[s].state \in {"TimeConfirm", "Response"}}) <= 1

\* At rest a team of four has somebody whose answer the gate lets through: the
\* players and the room never all wait for one another.
SomebodyCanMove ==
  running /\ queue = <<>> /\ TerminateWhenMatchEnd /\ (\A s \in Seats : Present(s)) =>
    \E s \in Seats : clients[s].owes # "None" /\ Allowed(s, clients[s].owes)

\* Whoever is asked can answer: the one gate that is open is that of a player whose deck
\* is in play, and it is never closed to all of them.
TheRightOneIsAsked == TypeOK /\ AskedPlays /\ OneOutstanding /\ SomebodyCanMove
=============================================================================

--------------------------- MODULE TagDuelProofs ---------------------------
(***************************************************************************)
(* Theorems about TagDuel, for every number of turns, questions, leavers    *)
(* and waiting messages: the server follows the engine's exchange of        *)
(* partners, a team is given up by both of its members, the engine's        *)
(* question reaches the player whose deck is in play, whoever watches sees  *)
(* what he may and no more, and the replay file holds the table.            *)
(***************************************************************************)
EXTENDS MCTagDuel, TLAPS, SequenceTheorems, FiniteSetTheorems

CtosTypes == {"HandResult", "TpResult", "Response", "TimeConfirm", "Surrender", "LeaveGame"}
StartTypes == {"DuelInit", "DuelStart"}

-----------------------------------------------------------------------------
(* The inductive invariant.                                                 *)

GaveUp(s) == ~clients[s].online \/ clients[s].gaveUp

\* A message in the mailbox fits the state of the room: its sender sits there, a leaver
\* sends no more, a choice is waited for, a start is due.
MessageOK(r) ==
  /\ r.type \in CtosTypes => Present(r.from)
  /\ r.type = "LeaveGame" => ~clients[r.from].online
  /\ r.type \in {"HandResult", "TpResult"} => r.from \in Leaders
  /\ r.type = "TpResult" => stage = "Firstgo" /\ \A s \in Seats : clients[s].owes # "TpResult"
  /\ r.type \in StartTypes => stage = "Dueling" /\ ~core.started
  /\ r.type = "Surrender" => stage = "Dueling" /\ GaveUp(r.from)
  /\ r.type = "DuelEnd" /\ r.reason = "Surrender" =>
       /\ stage = "Dueling"
       /\ \E team \in Teams : /\ r.winner = TeamToCore(OtherTeam(team), first_attack_team)
                              /\ \A s \in Member(team) : GaveUp(s)

\* What may stand before what.
PairOK(r, t) ==
  /\ r.type = "LeaveGame" /\ t.type \in CtosTypes => t.from # r.from
  /\ ~(r.type = "TpResult" /\ t.type = "TpResult")
  /\ ~(r.type \in StartTypes /\ t.type \in StartTypes)

Waits(r) == \E i \in DOMAIN queue : queue[i] = r

Mailbox ==
  /\ \A r \in Requests : Waits(r) => MessageOK(r)
  /\ \A i, j \in DOMAIN queue : i < j => PairOK(queue[i], queue[j])

\* The clients and the gates at each stage: one choice of the first attacker is asked
\* for and taken, and only the leaders ever play the hand game.
Stages ==
  /\ \A s \in Seats : /\ ~Present(s) => players[s] = EmptySlot /\ ~clients[s].online
                      /\ clients[s].owes \in {"HandResult", "TpResult"} => s \in Leaders
                      /\ clients[s].owes = "TpResult" => stage = "Firstgo"
                      /\ clients[s].dueling => stage = "Dueling"
                      /\ surrender[s] => GaveUp(s)
  /\ \A s, t \in Seats : clients[s].owes = "TpResult" /\ clients[t].owes = "TpResult" => s = t
  /\ \A s \in Leaders : /\ players[s].state # "Any"
                        /\ stage # "Finger" => players[s].state # "HandResult"
  /\ stage = "Dueling" => first_attack_team \in Teams
  /\ core.started => stage = "Dueling"

\* Both tables are laid.
Dealt == \A p \in CorePlayers : /\ core.table[p] = Starter(p, first_attack_team)
                                /\ core.tag[p] = Teammate(Starter(p, first_attack_team))

\* No duel starts on half a table: an empty seat has ended it, or is about to.
Starts ==
  /\ running /\ (\E s \in Seats : ~Present(s)) =>
       core.ended \/ \E i \in DOMAIN queue : queue[i].type = "DuelEnd"
  /\ \A i \in DOMAIN queue : queue[i].type = "DuelStart" =>
       Dealt \/ core.ended \/ \E j \in DOMAIN queue : j < i /\ queue[j].type = "DuelEnd"

\* The turn is with the first team in odd turns and at first with its leader, and the
\* decks are where the server believes them to be.
Parity ==
  /\ current_turn_player \in Seats
  /\ core.turns <= 1 => current_turn_player = Leader(first_attack_team)
  /\ core.turns > 0 => ((Team(current_turn_player) = first_attack_team) <=> (core.turns % 2 = 1))

InStep ==
  /\ stage = "Dueling" /\ ~core.started =>
       core.turns = 0 /\ current_turn_player = Leader(first_attack_team)
  /\ stage # "Dueling" => core.turns = 0
  /\ core.started =>
       /\ Parity
       /\ \A p \in CorePlayers :
            /\ core.table[p] = ToSeat(p, first_attack_team, current_turn_player)
            /\ core.tag[p] = Teammate(core.table[p])

IInv == TypeOK /\ Mailbox /\ Stages /\ Starts /\ InStep

-----------------------------------------------------------------------------
(* Lemmas about requests and the mailbox.                                   *)

\* What each type of request carries.
LEMMA RequestFields ==
  ASSUME NEW r \in Requests
  PROVE  /\ r.type \in CtosTypes => r.from \in Seats
         /\ r.type = "DuelEnd" => r.winner \in CorePlayers \cup {None}
         /\ r.type = "Timeout" => r.player \in Seats
         /\ "from" \in DOMAIN r => r.type \in CtosTypes
  BY DEF Requests, CtosTypes

\* The requests the handlers and the clients queue are requests.
LEMMA RequestsTyped ==
  /\ \A type \in CtosTypes, s \in Seats : Ctos(type, s) \in Requests
  /\ \A type \in {"FirstShuffle", "DuelInit", "DuelStart", "GenerateReplay",
                  "JudgeContinueMatch", "MatchEnd", "Evolve", "timer_tick", "terminate"} :
       Ex(type) \in Requests
  /\ \A winner \in CorePlayers \cup {None}, reason \in {"Win", "Surrender", "Leave", "Timeout"} :
       DuelEnd(winner, reason) \in Requests
  /\ \A s \in Seats : [type |-> "Timeout", player |-> s] \in Requests
  BY DEF Requests, CtosTypes, Ctos, Ex, DuelEnd

\* Whoever has lost, the message says so in core players.
LEMMA LostTyped ==
  ASSUME NEW s \in Seats, NEW reason \in {"Win", "Surrender", "Leave", "Timeout"}
  PROVE  Lost(s, reason) \in Requests
  BY RequestsTyped DEF Lost, TeamToCore, CorePlayers

\* The head of the mailbox and the rest of it.
LEMMA RequestTyped ==
  ASSUME TypeOK, queue # <<>>
  PROVE  /\ Request \in Requests /\ Request = queue[1] /\ 1 \in DOMAIN queue
         /\ Tail(queue) \in Seq(Requests) /\ Len(Tail(queue)) = Len(queue) - 1
         /\ \A i \in 1..(Len(queue) - 1) : Tail(queue)[i] = queue[i + 1]
  BY HeadTailProperties DEF TypeOK, Request

\* What a handler leaves in the mailbox: the rest of it, and behind it what it queued.
LEMMA AfterDone ==
  ASSUME TypeOK, queue # <<>>, NEW more \in Seq(Requests), Done(more)
  PROVE  /\ queue' \in Seq(Requests)
         /\ Len(queue) \in Nat /\ Len(queue) > 0
         /\ Len(queue') = Len(queue) - 1 + Len(more)
         /\ \A i \in DOMAIN queue' :
              \/ i < Len(queue) /\ i + 1 \in DOMAIN queue /\ queue'[i] = queue[i + 1]
              \/ /\ i >= Len(queue) /\ i - Len(queue) + 1 \in DOMAIN more
                 /\ queue'[i] = more[i - Len(queue) + 1]
<1> DEFINE rest == Tail(queue)
<1>1. /\ rest \in Seq(Requests) /\ Len(rest) = Len(queue) - 1 /\ Len(queue) \in Nat \ {0}
      /\ \A i \in 1..Len(rest) : rest[i] = queue[i + 1]
  BY RequestTyped DEF TypeOK
<1>2. queue' = rest \o more
  BY DEF Done
<1>3. /\ queue' \in Seq(Requests) /\ Len(queue') = Len(rest) + Len(more)
      /\ \A i \in 1..(Len(rest) + Len(more)) :
           queue'[i] = IF i <= Len(rest) THEN rest[i] ELSE more[i - Len(rest)]
  BY <1>1, <1>2, ConcatProperties
<1>4. DOMAIN queue' = 1..Len(queue') /\ DOMAIN queue = 1..Len(queue) /\ DOMAIN more = 1..Len(more)
  BY <1>3 DEF TypeOK
<1>5. ASSUME NEW i \in DOMAIN queue'
      PROVE  \/ i < Len(queue) /\ i + 1 \in DOMAIN queue /\ queue'[i] = queue[i + 1]
             \/ /\ i >= Len(queue) /\ i - Len(queue) + 1 \in DOMAIN more
                /\ queue'[i] = more[i - Len(queue) + 1]
  <2>0. Len(more) \in Nat /\ Len(rest) \in Nat
    BY <1>1
  <2>1. CASE i <= Len(rest)
    BY <1>1, <1>3, <1>4, <1>5, <2>0, <2>1
  <2>2. CASE ~(i <= Len(rest))
    BY <1>1, <1>3, <1>4, <1>5, <2>0, <2>2
  <2> QED
    BY <2>1, <2>2
<1> HIDE DEF rest
<1> QED
  BY <1>1, <1>3, <1>5

\* What a client leaves in the mailbox.
LEMMA AfterSend ==
  ASSUME TypeOK, NEW r \in Requests, Send(r)
  PROVE  /\ running /\ queue' \in Seq(Requests)
         /\ Len(queue) \in Nat
         /\ \A i \in DOMAIN queue' :
              \/ i \in DOMAIN queue /\ queue'[i] = queue[i]
              \/ i = Len(queue) + 1 /\ queue'[i] = r
         /\ \A i \in DOMAIN queue : i \in DOMAIN queue' /\ i <= Len(queue) /\ queue'[i] = queue[i]
<1>1. queue \in Seq(Requests) /\ queue' = Append(queue, r) /\ running
  BY DEF TypeOK, Send
<1> QED
  BY <1>1, AppendProperties

\* No request, one and two make a queue.
LEMMA Queues ==
  /\ <<>> \in Seq(Requests)
  /\ \A r \in Requests : <<r>> \in Seq(Requests) /\ DOMAIN <<r>> = {1} /\ Len(<<r>>) = 1
  /\ \A r, t \in Requests : <<r, t>> \in Seq(Requests) /\ DOMAIN <<r, t>> = {1, 2} /\ Len(<<r, t>>) = 2
  OBVIOUS

-----------------------------------------------------------------------------
(* How the invariant of the mailbox is kept.                                *)

\* It is kept by a handler if what was behind the request still fits, and what it queues
\* fits behind that.
LEMMA MailboxKept ==
  ASSUME TypeOK, Mailbox, queue # <<>>, NEW more \in Seq(Requests), Done(more),
         \A r \in Requests : MessageOK(r) /\ PairOK(Request, r) => MessageOK(r)',
         \A r \in Requests : (\E i \in DOMAIN more : more[i] = r) => MessageOK(r)',
         \A i \in DOMAIN more, r \in Requests :
           MessageOK(r) /\ PairOK(Request, r) => PairOK(r, more[i]),
         \A i, j \in DOMAIN more : i < j => PairOK(more[i], more[j])
  PROVE  Mailbox'
<1>1. /\ Len(queue) \in Nat /\ Len(queue) > 0
      /\ queue' \in Seq(Requests)
      /\ \A i \in DOMAIN queue' :
           \/ i < Len(queue) /\ i + 1 \in DOMAIN queue /\ queue'[i] = queue[i + 1]
           \/ /\ i >= Len(queue) /\ i - Len(queue) + 1 \in DOMAIN more
              /\ queue'[i] = more[i - Len(queue) + 1]
  BY AfterDone
<1>2. Request = queue[1] /\ 1 \in DOMAIN queue
  BY RequestTyped
<1>3. DOMAIN queue = 1..Len(queue) /\ DOMAIN queue' \subseteq Nat
  BY <1>1 DEF TypeOK
<1>4. \A i \in DOMAIN queue : i > 1 => /\ queue[i] \in Requests /\ MessageOK(queue[i])
                                       /\ PairOK(Request, queue[i])
  <2> SUFFICES ASSUME NEW i \in DOMAIN queue, i > 1
               PROVE  queue[i] \in Requests /\ MessageOK(queue[i]) /\ PairOK(Request, queue[i])
    OBVIOUS
  <2>1. queue[i] \in Requests
    BY DEF TypeOK
  <2>2. Waits(queue[i])
    BY DEF Waits
  <2>3. MessageOK(queue[i])
    BY <2>1, <2>2 DEF Mailbox
  <2>4. PairOK(Request, queue[i])
    BY <1>2, <1>3 DEF Mailbox
  <2> QED
    BY <2>1, <2>3, <2>4
<1>5. \A r \in Requests : Waits(r)' => MessageOK(r)'
  <2> SUFFICES ASSUME NEW r \in Requests, NEW i \in DOMAIN queue', queue'[i] = r
               PROVE  MessageOK(r)'
    BY DEF Waits
  <2>1. CASE i < Len(queue)
    BY <1>1, <1>3, <1>4, <2>1
  <2>2. CASE ~(i < Len(queue))
    BY <1>1, <1>3, <2>2
  <2> QED
    BY <2>1, <2>2
<1>6. ASSUME NEW i \in DOMAIN queue', NEW j \in DOMAIN queue', i < j
      PROVE  PairOK(queue'[i], queue'[j])
  <2>1. CASE j < Len(queue)
    BY <1>1, <1>3, <1>6, <2>1 DEF Mailbox
  <2>2. CASE i < Len(queue) /\ ~(j < Len(queue))
    <3>1. queue'[i] = queue[i + 1] /\ i + 1 \in DOMAIN queue /\ i + 1 > 1
      BY <1>1, <1>3, <2>2
    <3>2. queue'[i] \in Requests /\ MessageOK(queue'[i]) /\ PairOK(Request, queue'[i])
      BY <1>4, <3>1
    <3>3. PICK n \in DOMAIN more : queue'[j] = more[n]
      BY <1>1, <2>2
    <3> QED
      BY <3>2, <3>3
  <2>3. CASE ~(i < Len(queue))
    <3>1. /\ i - Len(queue) + 1 \in DOMAIN more /\ queue'[i] = more[i - Len(queue) + 1]
          /\ j - Len(queue) + 1 \in DOMAIN more /\ queue'[j] = more[j - Len(queue) + 1]
      BY <1>1, <1>3, <1>6, <2>3
    <3>2. i - Len(queue) + 1 < j - Len(queue) + 1
      BY <1>1, <1>3, <1>6
    <3> QED
      BY <3>1, <3>2
  <2> QED
    BY <1>3, <1>6, <2>1, <2>2, <2>3
<1>7. \A i, j \in DOMAIN queue' : i < j => PairOK(queue'[i], queue'[j])
  BY <1>6
<1> QED
  BY <1>5, <1>7 DEF Mailbox, PairOK

\* It is kept by a client if what it sends fits behind all that is queued.
LEMMA MailboxSent ==
  ASSUME TypeOK, Mailbox, NEW r \in Requests, Send(r),
         \A t \in Requests : MessageOK(t) => MessageOK(t)',
         MessageOK(r)',
         \A t \in Requests : MessageOK(t) => PairOK(t, r)
  PROVE  Mailbox'
<1>1. /\ Len(queue) \in Nat /\ queue' \in Seq(Requests)
      /\ \A i \in DOMAIN queue' :
           \/ i \in DOMAIN queue /\ queue'[i] = queue[i]
           \/ i = Len(queue) + 1 /\ queue'[i] = r
  BY AfterSend
<1>2. \A i \in DOMAIN queue : queue[i] \in Requests /\ MessageOK(queue[i]) /\ i <= Len(queue) /\ i \in Nat
  BY DEF TypeOK, Mailbox, Waits
<1>3. \A t \in Requests : Waits(t)' => MessageOK(t)'
  BY <1>1, <1>2 DEF Waits
<1>4. \A i, j \in DOMAIN queue' : i < j => PairOK(queue'[i], queue'[j])
  <2> SUFFICES ASSUME NEW i \in DOMAIN queue', NEW j \in DOMAIN queue', i < j
               PROVE  PairOK(queue'[i], queue'[j])
    OBVIOUS
  <2>1. CASE j \in DOMAIN queue
    BY <1>1, <1>2, <2>1 DEF Mailbox
  <2>2. CASE j = Len(queue) + 1 /\ queue'[j] = r
    BY <1>1, <1>2, <2>2
  <2> QED
    BY <1>1, <2>1, <2>2
<1> QED
  BY <1>3, <1>4 DEF Mailbox, PairOK

\* No start on half a table, after a handler of anything but the end of the duel.
LEMMA StartsKept ==
  ASSUME TypeOK, Starts, queue # <<>>, running, NEW more \in Seq(Requests), Done(more),
         Request.type # "DuelEnd",
         core.ended => core.ended',
         (\E i \in DOMAIN queue : queue[i].type = "DuelStart") => (Dealt => Dealt'),
         (\E s \in Seats : ~Present(s)') =>
           \/ \E s \in Seats : ~Present(s)
           \/ core.ended'
           \/ \E i \in DOMAIN more : more[i].type = "DuelEnd",
         \A i \in DOMAIN more : more[i].type # "DuelStart"
  PROVE  Starts'
<1>1. /\ Len(queue) \in Nat /\ Len(queue) > 0 /\ Len(more) \in Nat
      /\ queue' \in Seq(Requests) /\ Len(queue') = Len(queue) - 1 + Len(more)
      /\ \A i \in DOMAIN queue' :
           \/ i < Len(queue) /\ i + 1 \in DOMAIN queue /\ queue'[i] = queue[i + 1]
           \/ /\ i >= Len(queue) /\ i - Len(queue) + 1 \in DOMAIN more
              /\ queue'[i] = more[i - Len(queue) + 1]
  BY AfterDone
<1>2. Request = queue[1]
  BY RequestTyped
<1>3. DOMAIN queue = 1..Len(queue) /\ DOMAIN queue' = 1..Len(queue') /\ DOMAIN more = 1..Len(more)
  BY <1>1 DEF TypeOK
<1>4. ASSUME NEW j \in DOMAIN queue, queue[j].type = "DuelEnd"
      PROVE  j - 1 \in DOMAIN queue' /\ queue'[j - 1].type = "DuelEnd"
  BY <1>1, <1>2, <1>3, <1>4
<1>5. ASSUME NEW i \in DOMAIN more
      PROVE  i + Len(queue) - 1 \in DOMAIN queue' /\ queue'[i + Len(queue) - 1] = more[i]
  <2>1. i + Len(queue) - 1 \in DOMAIN queue' /\ ~(i + Len(queue) - 1 < Len(queue))
    BY <1>1, <1>3, <1>5
  <2>2. (i + Len(queue) - 1) - Len(queue) + 1 = i
    BY <1>1, <1>3, <1>5
  <2> QED
    BY <1>1, <2>1, <2>2
<1>6. ASSUME (\E s \in Seats : ~Present(s)')
      PROVE  core.ended' \/ \E i \in DOMAIN queue' : queue'[i].type = "DuelEnd"
  BY <1>4, <1>5, <1>6 DEF Starts
<1>7. ASSUME NEW i \in DOMAIN queue', queue'[i].type = "DuelStart"
      PROVE  Dealt' \/ core.ended' \/ \E j \in DOMAIN queue' : j < i /\ queue'[j].type = "DuelEnd"
  <2>1. i + 1 \in DOMAIN queue /\ queue[i + 1].type = "DuelStart"
    BY <1>1, <1>7
  <2>2. CASE Dealt \/ core.ended
    BY <2>1, <2>2
  <2>3. CASE ~(Dealt \/ core.ended)
    <3>1. PICK j \in DOMAIN queue : j < i + 1 /\ queue[j].type = "DuelEnd"
      BY <2>1, <2>3 DEF Starts
    <3>2. j - 1 \in DOMAIN queue' /\ queue'[j - 1].type = "DuelEnd" /\ j - 1 < i
      BY <1>3, <1>4, <3>1
    <3> QED
      BY <3>2
  <2> QED
    BY <2>2, <2>3
<1> QED
  BY <1>6, <1>7 DEF Starts

\* The same after a client's message.
LEMMA StartsSent ==
  ASSUME TypeOK, Starts, NEW r \in Requests, Send(r), r.type # "DuelStart",
         UNCHANGED <<players, core, first_attack_team>>
  PROVE  Starts'
<1>1. /\ running
      /\ \A i \in DOMAIN queue' :
           \/ i \in DOMAIN queue /\ queue'[i] = queue[i]
           \/ i = Len(queue) + 1 /\ queue'[i] = r
      /\ \A i \in DOMAIN queue : i \in DOMAIN queue' /\ queue'[i] = queue[i]
  BY AfterSend
<1>2. Dealt' = Dealt /\ \A s \in Seats : Present(s)' = Present(s)
  BY DEF Dealt, Starter, FirstOr1, Present
<1>3. (\E s \in Seats : ~Present(s)') =>
        core.ended' \/ \E i \in DOMAIN queue' : queue'[i].type = "DuelEnd"
  BY <1>1, <1>2 DEF Starts
<1>4. ASSUME NEW i \in DOMAIN queue', queue'[i].type = "DuelStart"
      PROVE  Dealt' \/ core.ended' \/ \E j \in DOMAIN queue' : j < i /\ queue'[j].type = "DuelEnd"
  <2>1. i \in DOMAIN queue /\ queue[i].type = "DuelStart"
    BY <1>1, <1>4
  <2> QED
    BY <1>1, <1>2, <2>1 DEF Starts
<1> QED
  BY <1>3, <1>4 DEF Starts

-----------------------------------------------------------------------------
(* Type correctness.                                                        *)

Demands == {"None", "HandResult", "TpResult", "TimeConfirm", "Response"}
ClientRecords == [online : BOOLEAN, dueling : BOOLEAN, gaveUp : BOOLEAN, owes : Demands]

\* What messages do to the clients leaves clients.
LEMMA ClientsTyped ==
  ASSUME TypeOK
  PROVE  /\ \A S \in SUBSET Seats, prompt \in Demands :
              Prompted(clients, S, prompt) \in [Seats -> ClientRecords]
         /\ Seated(clients) \in [Seats -> ClientRecords]
  BY ZenonT(60) DEF TypeOK, Prompted, Seated, ClientRecords, Demands

\* Seats and teams translate to one another.
LEMMA SeatsTyped ==
  /\ \A first \in Teams \cup {None} : FirstOr1(first) \in Teams
  /\ \A team \in Teams : OtherTeam(team) \in Teams /\ Leader(team) \in Seats /\ Leader(team) \in Leaders
  /\ \A seat \in Seats : Team(seat) \in Teams /\ Teammate(seat) \in Seats
  /\ \A seat \in Seats, first \in Teams : Opponent(seat, first) \in Seats
  BY DEF FirstOr1, Teams, OtherTeam, Leader, Leaders, Seats, Team, Teammate, Opponent

\* A translated core player is a seat, and so is who has the turn next.
LEMMA TranslationTyped ==
  ASSUME NEW p, NEW first \in Teams \cup {None}, NEW current \in Seats \cup {None}
  PROVE  /\ ToSeat(p, first, current) \in Seats \cup {None}
         /\ current \in Seats => ToSeat(p, first, current) \in Seats
         /\ Rotated(p, first, current) \in Seats
         /\ Starter(p, first) \in Seats
  BY SeatsTyped, TagDuelAssumption DEF ToSeat, Rotated, Starter

\* The engine's duel after it has run.
LEMMA TurnedTyped ==
  ASSUME TypeOK
  PROVE  /\ Turned(core).table \in [CorePlayers -> Seats \cup {None}]
         /\ Turned(core).tag \in [CorePlayers -> Seats \cup {None}]
         /\ Turned(core).turns \in Nat
         /\ Turned(core) = [core EXCEPT !.turns = Turned(core).turns, !.table = Turned(core).table,
                                        !.tag = Turned(core).tag]
         /\ TurnOf(core) \in CorePlayers
<1>1. /\ core.turns \in Nat
      /\ core.table \in [CorePlayers -> Seats \cup {None}]
      /\ core.tag \in [CorePlayers -> Seats \cup {None}]
  BY DEF TypeOK
<1>2. TurnOf(core) \in CorePlayers
  BY <1>1 DEF TurnOf, CorePlayers
<1>3. CASE core.turns = 0
  BY <1>1, <1>2, <1>3 DEF Turned, TypeOK
<1>4. CASE core.turns # 0
  BY <1>1, <1>2, <1>4 DEF Turned, TypeOK
<1> QED
  BY <1>3, <1>4

\* Types hold at the start.
LEMMA TypeInit == Init => TypeOK
<1> SUFFICES ASSUME Init PROVE TypeOK
  OBVIOUS
<1>1. players \in [Seats -> [here : BOOLEAN, state : Gates, hand : BOOLEAN]]
  BY DEF Init, Gates
<1>2. clients \in [Seats -> [online : BOOLEAN, dueling : BOOLEAN, gaveUp : BOOLEAN,
                            owes : {"None", "HandResult", "TpResult", "TimeConfirm", "Response"}]]
  BY DEF Init
<1>3. core \in [table : [CorePlayers -> Seats \cup {None}], tag : [CorePlayers -> Seats \cup {None}],
               started : BOOLEAN, ended : BOOLEAN, turns : Nat, input : BOOLEAN]
  BY DEF Init, NewCore
<1>4. host_player \in Seats \cup {None}
  BY TagDuelAssumption DEF Init, Seats
<1>5. queue \in Seq(Requests) /\ duel_winner \in Seq(Teams \cup {None})
  BY DEF Init
<1> QED
  BY <1>1, <1>2, <1>3, <1>4, <1>5 DEF Init, TypeOK

\* Clients and the timer keep types.
LEMMA TypeOutside ==
  ASSUME TypeOK, TimerTicks \/ \E s \in Seats : Client(s)
  PROVE  TypeOK'
<1>1. CASE TimerTicks
  <2>1. queue' \in Seq(Requests)
    BY <1>1, AfterSend, RequestsTyped DEF TimerTicks, Post
  <2> QED
    BY <1>1, <2>1 DEF TimerTicks, TypeOK, duel
<1>2. ASSUME NEW s \in Seats, ClientAnswers(s) PROVE TypeOK'
  <2>1. clients[s].owes \in CtosTypes
    BY <1>2 DEF ClientAnswers, TypeOK, CtosTypes
  <2>2. queue' \in Seq(Requests)
    BY <1>2, <2>1, AfterSend, RequestsTyped DEF ClientAnswers
  <2> QED
    BY <1>2, <2>2, SMTT(30) DEF ClientAnswers, TypeOK, duel
<1>3. ASSUME NEW s \in Seats, ClientAnswersEarly(s) PROVE TypeOK'
  <2>1. queue' \in Seq(Requests)
    BY <1>3, AfterSend, RequestsTyped DEF ClientAnswersEarly, Post, CtosTypes
  <2> QED
    BY <1>3, <2>1 DEF ClientAnswersEarly, TypeOK, duel
<1>4. ASSUME NEW s \in Seats, ClientSurrenders(s) PROVE TypeOK'
  <2>1. queue' \in Seq(Requests)
    BY <1>4, AfterSend, RequestsTyped DEF ClientSurrenders, Post, CtosTypes
  <2> QED
    BY <1>4, <2>1, ZenonT(60) DEF ClientSurrenders, TypeOK, duel
<1>5. ASSUME NEW s \in Seats, ClientLeaves(s) PROVE TypeOK'
  <2>1. queue' \in Seq(Requests)
    BY <1>5, AfterSend, RequestsTyped DEF ClientLeaves, Post, CtosTypes
  <2> QED
    BY <1>5, <2>1 DEF ClientLeaves, TypeOK, duel, NoClient
<1> QED
  BY <1>1, <1>2, <1>3, <1>4, <1>5 DEF Client

\* A handler that only passes something on keeps types.
LEMMA TypeChain ==
  ASSUME TypeOK, queue # <<>>, NEW more \in Seq(Requests), Chain(more)
  PROVE  TypeOK'
<1>1. queue' \in Seq(Requests)
  BY AfterDone DEF Chain
<1> QED
  BY <1>1 DEF Chain, TypeOK, duel

\* So does what is done to a single slot.
LEMMA SlotTyped ==
  ASSUME TypeOK, NEW s \in Seats
  PROVE  /\ \A gate \in Gates : [players EXCEPT ![s].state = gate]
                               \in [Seats -> [here : BOOLEAN, state : Gates, hand : BOOLEAN]]
         /\ [players EXCEPT ![s] = EmptySlot]
              \in [Seats -> [here : BOOLEAN, state : Gates, hand : BOOLEAN]]
<1>1. EmptySlot \in [here : BOOLEAN, state : Gates, hand : BOOLEAN]
  BY DEF EmptySlot, Gates
<1> QED
  BY <1>1 DEF TypeOK

\* So does the end of the loop.
LEMMA TypeBreak ==
  ASSUME TypeOK, Break
  PROVE  TypeOK'
  BY Queues DEF Break, TypeOK, duel

\* The gates after a question.
LEMMA WaitingTyped ==
  ASSUME TypeOK, NEW seat \in Seats \cup {None}, Waiting(seat)
  PROVE  /\ last_response' \in Seats \cup {None}
         /\ players' \in [Seats -> [here : BOOLEAN, state : Gates, hand : BOOLEAN]]
         /\ clients' \in [Seats -> ClientRecords]
<1>1. clients' \in [Seats -> ClientRecords]
  BY SMTT(30) DEF Waiting, TypeOK, Prompted, ClientRecords, Demands
<1> QED
  BY <1>1, ZenonT(60) DEF Waiting, TypeOK, Gates

\* Whose Evolve left a duel: the engine's after the run, and the turn.
LEMMA RanTyped ==
  ASSUME TypeOK, NEW engine \in {core, Turned(core)}, NEW current \in Seats \cup {None}
  PROVE  /\ engine.table \in [CorePlayers -> Seats \cup {None}]
         /\ engine.tag \in [CorePlayers -> Seats \cup {None}]
         /\ engine.turns \in Nat
         /\ engine = [core EXCEPT !.turns = engine.turns, !.table = engine.table, !.tag = engine.tag]
<1>1. CASE engine = core
  BY <1>1 DEF TypeOK
<1>2. CASE engine = Turned(core)
  BY <1>2, TurnedTyped
<1> QED
  BY <1>1, <1>2

\* The successor of a leaving host is somebody who stays.
LEMMA HeirIsSeated ==
  ASSUME NEW S \in SUBSET Seats, S # {}
  PROVE  (CHOOSE t \in S : \A u \in S : t <= u) \in S
<1>1. \E t \in S : \A u \in S : t <= u
  <2>1. CASE 0 \in S
    BY <2>1 DEF Seats
  <2>2. CASE 0 \notin S /\ 1 \in S
    BY <2>2 DEF Seats
  <2>3. CASE 0 \notin S /\ 1 \notin S /\ 2 \in S
    BY <2>3 DEF Seats
  <2>4. CASE 0 \notin S /\ 1 \notin S /\ 2 \notin S
    <3>1. \A u \in S : u = 3
      BY <2>4 DEF Seats
    <3> QED
      BY <3>1
  <2> QED
    BY <2>1, <2>2, <2>3, <2>4
<1> QED
  BY <1>1

\* Every handler keeps types.
LEMMA TypeActor ==
  ASSUME TypeOK, Actor
  PROVE  TypeOK'
<1>0. running /\ queue # <<>>
  BY DEF Actor, Refused, Receive, ReceiveFrom, OnHandResult, OnTpResult, OnFirstShuffle, OnDuelInit,
         OnDuelStart, OnEvolveEnded, OnEvolveSelect, OnEvolveRetry, OnEvolveWin, Evolving, OnResponse,
         OnTimeConfirm, OnSurrender, OnLeaveGame, OnDuelEnd, OnGenerateReplay, OnJudgeContinueMatch,
         OnMatchEnd, OnTerminate, OnTimerTick, OnTimeout
<1>r. Request \in Requests
  BY <1>0, RequestTyped
<1>d. \A more \in Seq(Requests) : Done(more) => queue' \in Seq(Requests)
  BY <1>0, AfterDone
<1>n. <<>> \in Seq(Requests)
  BY Queues
<1>e. \A type \in {"FirstShuffle", "DuelInit", "DuelStart", "GenerateReplay",
                   "JudgeContinueMatch", "MatchEnd", "Evolve", "timer_tick", "terminate"} :
        <<Ex(type)>> \in Seq(Requests)
  BY RequestsTyped, Queues
<1>i. Ignored => TypeOK'
  BY <1>0, <1>n, TypeChain DEF Ignored
<1>1. CASE Refused
  BY <1>1, <1>d, <1>n DEF Refused, TypeOK, duel
<1>2. CASE OnHandResult
  <2>1. queue' \in Seq(Requests)
    BY <1>2, <1>d, <1>n DEF OnHandResult
  <2>2. Request.from \in Seats
    BY <1>2, <1>r, RequestFields DEF OnHandResult, ReceiveFrom, Receive, CtosTypes
  <2> DEFINE shown == [players EXCEPT ![Request.from].hand = Present(Request.from)]
  <2>3. shown \in [Seats -> [here : BOOLEAN, state : Gates, hand : BOOLEAN]]
    BY <2>2, ZenonT(60) DEF TypeOK, Present
  <2>4. Leaders \subseteq Seats /\ \A s \in Leaders : {s} \in SUBSET Seats
    BY DEF Leaders, Leader, Teams, Seats
  <2>5. clients' \in [Seats -> ClientRecords]
    <3>1. clients \in [Seats -> ClientRecords]
      BY DEF TypeOK, ClientRecords, Demands
    <3>2. \A S \in SUBSET Seats : /\ Prompted(clients, S, "HandResult") \in [Seats -> ClientRecords]
                                  /\ Prompted(clients, S, "TpResult") \in [Seats -> ClientRecords]
      BY ClientsTyped DEF Demands
    <3> QED
      BY <1>2, <2>4, <3>1, <3>2 DEF OnHandResult
  <2>6. players' \in [Seats -> [here : BOOLEAN, state : Gates, hand : BOOLEAN]]
    <3>1. CASE players' = shown
      BY <2>3, <3>1
    <3>2. CASE players' = [s \in Seats |-> IF s \in Leaders
                             THEN [shown[s] EXCEPT !.hand = FALSE, !.state = "HandResult"]
                             ELSE shown[s]]
      <4> HIDE DEF shown
      <4> QED BY <2>3, <3>2 DEF Gates
    <3>3. CASE \E winner \in Leaders : players' = Deciding(shown, winner)
      <4> HIDE DEF shown
      <4> QED BY <2>3, <3>3 DEF Gates, Deciding
    <3> QED
      BY <1>2, <3>1, <3>2, <3>3 DEF OnHandResult
  <2>7. stage' \in {"Finger", "Firstgo", "Dueling"}
    BY <1>2 DEF OnHandResult, TypeOK
  <2> QED
    BY <1>2, <2>1, <2>5, <2>6, <2>7 DEF OnHandResult, TypeOK, ClientRecords, Demands
<1>3. CASE OnTpResult
  <2>1. <<Ex("FirstShuffle"), Ex("DuelInit")>> \in Seq(Requests)
    BY RequestsTyped, Queues
  <2>2. queue' \in Seq(Requests)
    BY <1>3, <2>1, <1>d DEF OnTpResult
  <2>3. first_attack_team' \in Teams /\ current_turn_player' \in Seats
    BY <1>3, SeatsTyped DEF OnTpResult
  <2> QED
    BY <1>3, <2>2, <2>3 DEF OnTpResult, TypeOK
<1>4. CASE OnFirstShuffle
  BY <1>4, <1>i DEF OnFirstShuffle
<1>5. CASE OnDuelInit
  <2>1. queue' \in Seq(Requests)
    BY <1>5, <1>d, <1>e DEF OnDuelInit
  <2>2. \A p \in CorePlayers : /\ Starter(p, first_attack_team) \in Seats
                               /\ Teammate(Starter(p, first_attack_team)) \in Seats
    BY TranslationTyped, SeatsTyped DEF TypeOK
  <2>3. PICK loaded : core' = [core EXCEPT
           !.table = [p \in CorePlayers |-> IF p \in loaded THEN Starter(p, first_attack_team) ELSE @[p]],
           !.tag = [p \in CorePlayers |->
                      IF p \in loaded THEN Teammate(Starter(p, first_attack_team)) ELSE @[p]]]
    BY <1>5 DEF OnDuelInit
  <2>4. core' \in [table : [CorePlayers -> Seats \cup {None}], tag : [CorePlayers -> Seats \cup {None}],
                   started : BOOLEAN, ended : BOOLEAN, turns : Nat, input : BOOLEAN]
    BY <2>2, <2>3 DEF TypeOK
  <2> QED
    BY <1>5, <2>1, <2>4 DEF OnDuelInit, TypeOK
<1>6. CASE OnDuelStart
  <2>1. queue' \in Seq(Requests)
    BY <1>6, <1>d, <1>e DEF OnDuelStart
  <2>2. clients' \in [Seats -> ClientRecords]
    BY <1>6, ClientsTyped DEF OnDuelStart
  <2> QED
    BY <1>6, <2>1, <2>2, TagDuelAssumption DEF OnDuelStart, TypeOK, ClientRecords, Demands
<1>7. CASE OnEvolveEnded
  BY <1>7, <1>i DEF OnEvolveEnded
<1>8. CASE OnEvolveSelect
  <2>1. queue' \in Seq(Requests)
    BY <1>8, <1>d, <1>n DEF OnEvolveSelect
  <2>2. PICK engine \in {core, Turned(core)}, current \in Seats \cup {None} :
          /\ Ran(engine, current)
          /\ current_turn_player' = current
          /\ core' = [engine EXCEPT !.input = FALSE]
          /\ \E p \in CorePlayers : Waiting(ToSeat(p, first_attack_team, current))
    BY <1>8 DEF OnEvolveSelect
  <2>3. PICK p \in CorePlayers : Waiting(ToSeat(p, first_attack_team, current))
    BY <2>2
  <2>4. ToSeat(p, first_attack_team, current) \in Seats \cup {None}
    BY TranslationTyped DEF TypeOK
  <2>5. /\ last_response' \in Seats \cup {None}
        /\ players' \in [Seats -> [here : BOOLEAN, state : Gates, hand : BOOLEAN]]
        /\ clients' \in [Seats -> ClientRecords]
    BY <2>3, <2>4, WaitingTyped
  <2>6. core' \in [table : [CorePlayers -> Seats \cup {None}], tag : [CorePlayers -> Seats \cup {None}],
                   started : BOOLEAN, ended : BOOLEAN, turns : Nat, input : BOOLEAN]
    <3>1. core' = [core EXCEPT !.turns = engine.turns, !.table = engine.table, !.tag = engine.tag,
                               !.input = FALSE]
      BY <2>2, RanTyped DEF TypeOK
    <3> QED
      BY <3>1, RanTyped DEF TypeOK
  <2> QED
    BY <1>8, <2>1, <2>2, <2>5, <2>6 DEF OnEvolveSelect, TypeOK, ClientRecords, Demands
<1>9. CASE OnEvolveRetry
  <2>1. queue' \in Seq(Requests)
    BY <1>9, <1>d, <1>n DEF OnEvolveRetry
  <2>2. \A p \in CorePlayers : ToSeat(p, first_attack_team, current_turn_player) \in Seats \cup {None}
    BY TranslationTyped DEF TypeOK
  <2>3. /\ last_response' \in Seats \cup {None}
        /\ players' \in [Seats -> [here : BOOLEAN, state : Gates, hand : BOOLEAN]]
        /\ clients' \in [Seats -> ClientRecords]
    <3>1. CASE UNCHANGED <<players, last_response, clients>>
      BY <3>1 DEF TypeOK, ClientRecords, Demands
    <3>2. CASE \E p \in CorePlayers : Waiting(ToSeat(p, first_attack_team, current_turn_player))
      BY <2>2, <3>2, WaitingTyped
    <3> QED
      BY <1>9, <3>1, <3>2 DEF OnEvolveRetry
  <2> QED
    BY <1>9, <2>1, <2>3 DEF OnEvolveRetry, TypeOK, ClientRecords, Demands
<1>10. CASE OnEvolveWin
  <2>1. queue' \in Seq(Requests)
    BY <1>10, <1>d, RequestsTyped, Queues DEF OnEvolveWin
  <2>2. PICK engine \in {core, Turned(core)}, current \in Seats \cup {None} :
          /\ current_turn_player' = current
          /\ core' = [engine EXCEPT !.input = FALSE]
    BY <1>10 DEF OnEvolveWin
  <2>3. core' \in [table : [CorePlayers -> Seats \cup {None}], tag : [CorePlayers -> Seats \cup {None}],
                   started : BOOLEAN, ended : BOOLEAN, turns : Nat, input : BOOLEAN]
    <3>1. core' = [core EXCEPT !.turns = engine.turns, !.table = engine.table, !.tag = engine.tag,
                               !.input = FALSE]
      BY <2>2, RanTyped DEF TypeOK
    <3> QED
      BY <3>1, RanTyped DEF TypeOK
  <2> QED
    BY <1>10, <2>1, <2>2, <2>3 DEF OnEvolveWin, TypeOK
<1>11. CASE OnResponse
  <2>1. CASE core.ended
    BY <1>11, <1>i, <2>1 DEF OnResponse
  <2>2. CASE ~core.ended
    <3>1. queue' \in Seq(Requests)
      BY <1>11, <2>2, <1>d, <1>e DEF OnResponse
    <3>2. Request.from \in Seats
      BY <1>11, <1>r, RequestFields DEF OnResponse, ReceiveFrom, Receive, CtosTypes
    <3>3. players' \in [Seats -> [here : BOOLEAN, state : Gates, hand : BOOLEAN]]
      <4>1. \/ players' = players
            \/ players' = [players EXCEPT ![Request.from].state = "None"]
        BY <1>11, <2>2 DEF OnResponse, Closed
      <4>2. "None" \in Gates
        BY DEF Gates
      <4>3. players \in [Seats -> [here : BOOLEAN, state : Gates, hand : BOOLEAN]]
        BY DEF TypeOK
      <4> QED
        BY <3>2, <4>1, <4>2, <4>3, SlotTyped
    <3>4. core' \in [table : [CorePlayers -> Seats \cup {None}], tag : [CorePlayers -> Seats \cup {None}],
                     started : BOOLEAN, ended : BOOLEAN, turns : Nat, input : BOOLEAN]
      BY <1>11, <2>2 DEF OnResponse, TypeOK
    <3> QED
      BY <1>11, <2>2, <3>1, <3>3, <3>4 DEF OnResponse, TypeOK
  <2> QED
    BY <2>1, <2>2
<1>12. CASE OnTimeConfirm
  <2>1. CASE Ignored
    BY <1>i, <2>1
  <2>2. CASE ~Ignored
    <3>1. queue' \in Seq(Requests)
      BY <1>12, <2>2, <1>d, <1>n DEF OnTimeConfirm
    <3>2. Request.from \in Seats
      BY <1>12, <1>r, RequestFields DEF OnTimeConfirm, ReceiveFrom, Receive, CtosTypes
    <3>3. players' \in [Seats -> [here : BOOLEAN, state : Gates, hand : BOOLEAN]]
      <4>1. players' = [players EXCEPT ![Request.from].state = "Response"]
        BY <1>12, <2>2 DEF OnTimeConfirm
      <4>2. "Response" \in Gates
        BY DEF Gates
      <4> QED
        BY <3>2, <4>1, <4>2, SlotTyped
    <3> QED
      BY <1>12, <2>2, <3>1, <3>3 DEF OnTimeConfirm, TypeOK
  <2> QED
    BY <2>1, <2>2
<1>13. CASE OnSurrender
  <2>1. Request.from \in Seats
    BY <1>13, <1>r, RequestFields DEF OnSurrender, ReceiveFrom, Receive, CtosTypes
  <2>2. CASE Ignored
    BY <1>i, <2>2
  <2>3. CASE ~Ignored
    <3>1. queue' \in Seq(Requests)
      BY <1>13, <2>1, <2>3, <1>d, <1>n, LostTyped, Queues DEF OnSurrender
    <3>2. surrender' \in [Seats -> BOOLEAN]
      BY <1>13, <2>3 DEF OnSurrender, TypeOK
    <3> QED
      BY <1>13, <2>3, <3>1, <3>2 DEF OnSurrender, TypeOK
  <2> QED
    BY <2>2, <2>3
<1>14. CASE OnLeaveGame
  <2>1. Request.from \in Seats
    BY <1>14, <1>r, RequestFields DEF OnLeaveGame, ReceiveFrom, Receive, CtosTypes
  <2>2. CASE Break
    BY <2>2, TypeBreak
  <2>3. CASE ~Break
    <3>1. queue' \in Seq(Requests)
      BY <1>14, <2>1, <2>3, <1>d, <1>n, LostTyped, Queues DEF OnLeaveGame
    <3>3. players' \in [Seats -> [here : BOOLEAN, state : Gates, hand : BOOLEAN]]
      BY <1>14, <2>1, <2>3, SlotTyped DEF OnLeaveGame
    <3>4. host_player' \in Seats \cup {None}
      <4> DEFINE heirs == {t \in Seats \ {Request.from} : Present(t)}
      <4>1. \/ host_player' = host_player
            \/ heirs # {} /\ host_player' = CHOOSE t \in heirs : \A u \in heirs : t <= u
        BY <1>14, <2>3 DEF OnLeaveGame
      <4>2. heirs \in SUBSET Seats
        OBVIOUS
      <4> HIDE DEF heirs
      <4> QED
        BY <4>1, <4>2, HeirIsSeated DEF TypeOK
    <3> QED
      BY <1>14, <2>3, <3>1, <3>3, <3>4 DEF OnLeaveGame, TypeOK
  <2> QED
    BY <2>2, <2>3
<1>15. CASE OnDuelEnd
  <2>1. queue' \in Seq(Requests)
    BY <1>15, <1>d, RequestsTyped, Queues DEF OnDuelEnd
  <2>2. duel_winner' \in Seq(Teams \cup {None})
    BY <1>15, SeatsTyped, AppendProperties DEF OnDuelEnd, TypeOK
  <2> QED
    BY <1>15, <2>1, <2>2 DEF OnDuelEnd, TypeOK
<1>16. CASE OnGenerateReplay
  BY <1>16, <1>i DEF OnGenerateReplay
<1>17. CASE OnJudgeContinueMatch
  BY <1>0, <1>17, <1>e, TypeChain DEF OnJudgeContinueMatch
<1>18. CASE OnMatchEnd
  BY <1>0, <1>18, <1>e, <1>n, TypeChain DEF OnMatchEnd
<1>19. CASE OnTerminate
  BY <1>19, TypeBreak DEF OnTerminate
<1>20. CASE OnTimerTick
  <2>1. CASE Ignored
    BY <1>i, <2>1
  <2>2. CASE ~Ignored
    <3>1. last_response \in Seats
      BY <1>20, <2>2 DEF OnTimerTick, TypeOK
    <3>2. <<[type |-> "Timeout", player |-> last_response]>> \in Seq(Requests)
      BY <3>1, RequestsTyped, Queues
    <3> QED
      BY <1>0, <1>20, <2>2, <3>2, TypeChain DEF OnTimerTick
  <2> QED
    BY <2>1, <2>2
<1>21. CASE OnTimeout
  <2>1. Request.player \in Seats
    BY <1>21, <1>r, RequestFields DEF OnTimeout, Receive
  <2>2. queue' \in Seq(Requests)
    BY <1>21, <2>1, <1>d, LostTyped, Queues DEF OnTimeout
  <2> QED
    BY <1>21, <2>2 DEF OnTimeout, TypeOK
<1> QED
  BY <1>1, <1>2, <1>3, <1>4, <1>5, <1>6, <1>7, <1>8, <1>9, <1>10, <1>11, <1>12, <1>13, <1>14, <1>15,
     <1>16, <1>17, <1>18, <1>19, <1>20, <1>21 DEF Actor

\* Every variable of TagDuel has its type in every reachable state.
THEOREM TypeCorrect == Spec => []TypeOK
<1>1. Init => TypeOK
  BY TypeInit
<1>2. TypeOK /\ [Next]_vars => TypeOK'
  <2>1. CASE UNCHANGED vars
    BY <2>1 DEF vars, duel, TypeOK
  <2>2. ASSUME TypeOK, Next PROVE TypeOK'
    BY <2>2, TypeActor, TypeOutside DEF Next
  <2> QED
    BY <2>1, <2>2
<1> QED
  BY <1>1, <1>2, PTL DEF Spec
-----------------------------------------------------------------------------
(* What the invariant says of the parts a step does not disturb.            *)

\* The clients go on: nobody comes back, nobody takes a surrender back and nobody is asked
\* who begins.
ClientsGoOn ==
  \A s \in Seats : /\ ~clients[s].online => ~clients'[s].online
                   /\ GaveUp(s) => GaveUp(s)'
                   /\ clients'[s].owes = "TpResult" => clients[s].owes = "TpResult"

\* A message that fitted the room fits it after a step of this kind.
LEMMA MessageKept ==
  ASSUME NEW r \in Requests, MessageOK(r), ClientsGoOn,
         UNCHANGED <<stage, first_attack_team>>,
         r.type \in CtosTypes => Present(r.from)',
         r.type \in StartTypes => core.started' = core.started
  PROVE  MessageOK(r)'
<1>1. r.type \in CtosTypes => r.from \in Seats
  BY RequestFields
<1>2. r.type = "LeaveGame" => ~clients'[r.from].online
  BY <1>1 DEF MessageOK, ClientsGoOn, CtosTypes
<1>3. r.type = "Surrender" => stage' = "Dueling" /\ GaveUp(r.from)'
  BY <1>1 DEF MessageOK, ClientsGoOn, CtosTypes
<1>4. r.type = "TpResult" => stage' = "Firstgo" /\ \A s \in Seats : clients'[s].owes # "TpResult"
  BY DEF MessageOK, ClientsGoOn
<1>5. \A team \in Teams : /\ TeamToCore(OtherTeam(team), first_attack_team')
                               = TeamToCore(OtherTeam(team), first_attack_team)
                          /\ Member(team) \subseteq Seats
  BY DEF Member, Seats
<1>6. r.type = "DuelEnd" /\ r.reason = "Surrender" =>
        /\ stage' = "Dueling"
        /\ \E team \in Teams : /\ r.winner = TeamToCore(OtherTeam(team), first_attack_team')
                               /\ \A s \in Member(team) : GaveUp(s)'
  BY <1>5 DEF MessageOK, ClientsGoOn
<1> QED
  BY <1>2, <1>3, <1>4, <1>6 DEF MessageOK, StartTypes

\* A message without demands on the room.
Neutral(r) == /\ r.type \notin CtosTypes \cup StartTypes
              /\ ~(r.type = "DuelEnd" /\ r.reason = "Surrender")

\* It fits any room and behind any message.
LEMMA NeutralFits ==
  ASSUME NEW r \in Requests, Neutral(r)
  PROVE  MessageOK(r)' /\ \A t \in Requests : PairOK(t, r)
  BY DEF Neutral, MessageOK, PairOK, CtosTypes, StartTypes

\* The mailbox after a handler that queues such messages only.
LEMMA MailboxNeutral ==
  ASSUME TypeOK, Mailbox, queue # <<>>, NEW more \in Seq(Requests), Done(more),
         \A i \in DOMAIN more : Neutral(more[i]),
         \A r \in Requests : MessageOK(r) /\ PairOK(Request, r) => MessageOK(r)'
  PROVE  Mailbox'
<1>1. \A i \in DOMAIN more : more[i] \in Requests
  OBVIOUS
<1>2. \A i \in DOMAIN more : MessageOK(more[i])' /\ \A t \in Requests : PairOK(t, more[i])
  BY <1>1, NeutralFits
<1>3. \A r \in Requests : (\E i \in DOMAIN more : more[i] = r) => MessageOK(r)'
  BY <1>2
<1> QED
  BY <1>1, <1>2, <1>3, MailboxKept

\* Clients that are asked something, or shown the duel, go on.
LEMMA AskedGoOn ==
  ASSUME TypeOK
  PROVE  /\ UNCHANGED clients => ClientsGoOn
         /\ clients' = Seated(clients) => ClientsGoOn
         /\ \A S \in SUBSET Seats, prompt \in Demands \ {"TpResult"} :
              clients' = Prompted(clients, S, prompt) => ClientsGoOn
<1>1. clients \in [Seats -> ClientRecords]
  BY DEF TypeOK, ClientRecords, Demands
<1>2. UNCHANGED clients => ClientsGoOn
  BY DEF ClientsGoOn, GaveUp
<1>3. clients' = Seated(clients) => ClientsGoOn
  BY <1>1 DEF ClientsGoOn, GaveUp, Seated, ClientRecords
<1>4. ASSUME NEW S \in SUBSET Seats, NEW prompt \in Demands \ {"TpResult"},
             clients' = Prompted(clients, S, prompt)
      PROVE  ClientsGoOn
  BY <1>1, <1>4 DEF ClientsGoOn, GaveUp, Prompted, ClientRecords
<1> QED
  BY <1>2, <1>3, <1>4

\* A question only opens a gate and asks a client.
LEMMA WaitingKeeps ==
  ASSUME TypeOK, NEW seat \in Seats \cup {None}, Waiting(seat)
  PROVE  /\ ClientsGoOn
         /\ \A s \in Seats : /\ Present(s)' = Present(s)
                             /\ players'[s].hand = players[s].hand
                             /\ \/ players'[s] = players[s]
                                \/ Present(s) /\ players'[s].state \in {"TimeConfirm", "Response"}
         /\ \A s \in Seats : /\ clients'[s].online = clients[s].online
                             /\ clients'[s].dueling = clients[s].dueling
                             /\ clients'[s].gaveUp = clients[s].gaveUp
                             /\ \/ clients'[s].owes = clients[s].owes
                                \/ clients'[s].owes \in {"TimeConfirm", "Response"}
<1> DEFINE gate == IF Timed THEN "TimeConfirm" ELSE "Response"
<1>1. gate \in {"TimeConfirm", "Response"} /\ gate \in Demands \ {"TpResult"}
  BY DEF Demands
<1>2. /\ players \in [Seats -> [here : BOOLEAN, state : Gates, hand : BOOLEAN]]
      /\ clients \in [Seats -> ClientRecords]
  BY DEF TypeOK, ClientRecords, Demands
<1>3. \/ players' = players
      \/ Present(seat) /\ players' = [players EXCEPT ![seat].state = gate]
  BY DEF Waiting
<1>4. clients' = Prompted(clients, {seat}, gate)
  BY DEF Waiting
<1> HIDE DEF gate
<1>5. clients' = [s \in Seats |-> IF s \in {seat} /\ clients[s].online
                                  THEN [clients[s] EXCEPT !.owes = gate] ELSE clients[s]]
  BY <1>4 DEF Prompted
<1>6. \A s \in Seats : /\ clients'[s].online = clients[s].online
                       /\ clients'[s].dueling = clients[s].dueling
                       /\ clients'[s].gaveUp = clients[s].gaveUp
                       /\ \/ clients'[s].owes = clients[s].owes
                          \/ clients'[s].owes \in {"TimeConfirm", "Response"}
  BY <1>1, <1>2, <1>5 DEF ClientRecords
<1>7. ClientsGoOn
  BY <1>6 DEF ClientsGoOn, GaveUp
<1>8. \A s \in Seats : /\ Present(s)' = Present(s)
                       /\ players'[s].hand = players[s].hand
                       /\ \/ players'[s] = players[s]
                          \/ Present(s) /\ players'[s].state \in {"TimeConfirm", "Response"}
  BY <1>1, <1>2, <1>3 DEF Present
<1> QED
  BY <1>6, <1>7, <1>8

-----------------------------------------------------------------------------
(* The mailbox.                                                             *)

\* Who is asked about nothing new and sits where he sat: messages keep fitting.
LEMMA RoomKept ==
  ASSUME ClientsGoOn, UNCHANGED <<stage, first_attack_team>>, core.started' = core.started,
         \A s \in Seats : Present(s)' = Present(s)
  PROVE  \A r \in Requests : MessageOK(r) => MessageOK(r)'
<1> SUFFICES ASSUME NEW r \in Requests, MessageOK(r) PROVE MessageOK(r)'
  OBVIOUS
<1>1. r.type \in CtosTypes => Present(r.from)'
  BY RequestFields DEF MessageOK
<1> QED
  BY <1>1, MessageKept

\* Everything queued beyond the starts and the surrenders is without demands.
LEMMA NeutralMessages ==
  /\ \A i \in DOMAIN <<>> : Neutral(<<>>[i])
  /\ \A type \in {"FirstShuffle", "GenerateReplay", "JudgeContinueMatch", "MatchEnd", "Evolve",
                  "timer_tick", "terminate"} : Neutral(Ex(type))
  /\ \A winner, reason : reason # "Surrender" => Neutral(DuelEnd(winner, reason))
  /\ \A s : Neutral([type |-> "Timeout", player |-> s])
  BY DEF Neutral, Ex, DuelEnd, CtosTypes, StartTypes

\* A queue of one or two of them.
LEMMA NeutralQueues ==
  /\ \A i \in DOMAIN <<>> : Neutral(<<>>[i])
  /\ \A r : Neutral(r) => \A i \in DOMAIN <<r>> : Neutral(<<r>>[i])
  /\ \A r, t : Neutral(r) /\ Neutral(t) => \A i \in DOMAIN <<r, t>> : Neutral(<<r, t>>[i])
  OBVIOUS

\* A handler that only passes something without demands on.
LEMMA MailboxChain ==
  ASSUME TypeOK, Mailbox, queue # <<>>, NEW more \in Seq(Requests), Chain(more),
         \A i \in DOMAIN more : Neutral(more[i])
  PROVE  Mailbox'
<1>1. /\ Done(more) /\ ClientsGoOn
      /\ UNCHANGED <<stage, first_attack_team, core, players>>
  BY AskedGoOn DEF Chain, duel
<1>2. \A s \in Seats : Present(s)' = Present(s)
  BY <1>1 DEF Present
<1>3. \A r \in Requests : MessageOK(r) => MessageOK(r)'
  BY <1>1, <1>2, RoomKept
<1> QED
  BY <1>1, <1>3, MailboxNeutral

\* After the loop nothing waits.
LEMMA MailboxBreak == ASSUME Break PROVE Mailbox'
  BY DEF Break, Mailbox, Waits

\* The stage at which a message that a gate has let through is handled.
LEMMA HandledInStage ==
  ASSUME IInv, queue # <<>>
  PROVE  /\ MessageOK(Request)
         /\ Request.type \in CtosTypes => Request.from \in Seats /\ Present(Request.from)
         /\ Request.type = "HandResult" /\ Allowed(Request.from, "HandResult") => stage = "Finger"
<1>1. Request \in Requests /\ Waits(Request)
  BY RequestTyped DEF IInv, Waits
<1>2. MessageOK(Request)
  BY <1>1 DEF IInv, Mailbox
<1>3. Request.type \in CtosTypes => Request.from \in Seats /\ Present(Request.from)
  BY <1>1, <1>2, RequestFields DEF MessageOK
<1>4. ASSUME Request.type = "HandResult", Allowed(Request.from, "HandResult")
      PROVE  stage = "Finger"
  <2>1. Request.from \in Leaders /\ Present(Request.from)
    BY <1>2, <1>3, <1>4 DEF MessageOK, CtosTypes
  <2>2. players[Request.from].state = "HandResult"
    BY <1>4, <2>1 DEF Allowed, IInv, Stages
  <2> QED
    BY <2>1, <2>2 DEF IInv, Stages
<1> QED
  BY <1>2, <1>3, <1>4

\* The hand game keeps everybody in his seat and asks the leaders only.
LEMMA HandGame ==
  ASSUME IInv, OnHandResult
  PROVE  /\ stage = "Finger" /\ stage' \in {"Finger", "Firstgo"}
         /\ \A s \in Seats : /\ Present(s)' = Present(s)
                             /\ clients'[s].online = clients[s].online
                             /\ clients'[s].dueling = clients[s].dueling
                             /\ clients'[s].gaveUp = clients[s].gaveUp
                             /\ clients'[s].owes \in {"HandResult", "TpResult"} => s \in Leaders
                             /\ clients'[s].owes = "TpResult" => stage' = "Firstgo"
                             /\ ~Present(s) => players'[s] = players[s]
         /\ \A s, t \in Seats : clients'[s].owes = "TpResult" /\ clients'[t].owes = "TpResult" => s = t
         /\ \A s \in Leaders : /\ players'[s].state # "Any"
                               /\ stage' = "Firstgo" => players'[s].state # "HandResult"
         /\ queue # <<>> /\ Done(<<>>)
         /\ UNCHANGED <<running, first_attack_team, current_turn_player, surrender, core>>
<1> DEFINE from == Request.from
           shown == [players EXCEPT ![from].hand = Present(from)]
<1>0. /\ queue # <<>> /\ Done(<<>>) /\ Request.type = "HandResult" /\ Allowed(from, "HandResult")
      /\ UNCHANGED <<running, first_attack_team, current_turn_player, surrender, core>>
  BY DEF OnHandResult, ReceiveFrom, Receive
<1>1. stage = "Finger" /\ from \in Seats /\ Present(from)
  BY <1>0, HandledInStage DEF CtosTypes
<1>2. /\ players \in [Seats -> [here : BOOLEAN, state : Gates, hand : BOOLEAN]]
      /\ clients \in [Seats -> ClientRecords]
  BY DEF IInv, TypeOK, ClientRecords, Demands
<1>3. \A s \in Seats : clients[s].owes # "TpResult"
  BY <1>1 DEF IInv, Stages
<1>4. \A s \in Seats : /\ shown[s].here = players[s].here /\ shown[s].state = players[s].state
                       /\ ~Present(s) => shown[s] = players[s] /\ ~shown[s].hand
  BY <1>1, <1>2 DEF Present, IInv, Stages, EmptySlot
<1>5. shown \in [Seats -> [here : BOOLEAN, state : Gates, hand : BOOLEAN]]
  BY <1>1, <1>2 DEF Present
<1>6. Leaders \subseteq Seats
  BY DEF Leaders, Leader, Seats, Teams
<1>7. \/ /\ players' = shown /\ UNCHANGED <<stage, clients>>
      \/ /\ \A s \in Leaders : shown[s].hand
         /\ players' = [s \in Seats |-> IF s \in Leaders
                          THEN [shown[s] EXCEPT !.hand = FALSE, !.state = "HandResult"]
                          ELSE shown[s]]
         /\ clients' = Prompted(clients, Leaders, "HandResult")
         /\ UNCHANGED stage
      \/ /\ \A s \in Leaders : shown[s].hand
         /\ stage' = "Firstgo"
         /\ \E winner \in Leaders : /\ players' = Deciding(shown, winner)
                                    /\ clients' = Prompted(clients, {winner}, "TpResult")
  BY DEF OnHandResult
<1> HIDE DEF shown
<1>8. CASE players' = shown /\ UNCHANGED <<stage, clients>>
  BY <1>0, <1>1, <1>2, <1>3, <1>4, <1>6, <1>8 DEF IInv, Stages, Present
<1>9. CASE /\ \A s \in Leaders : shown[s].hand
           /\ players' = [s \in Seats |-> IF s \in Leaders
                            THEN [shown[s] EXCEPT !.hand = FALSE, !.state = "HandResult"]
                            ELSE shown[s]]
           /\ clients' = Prompted(clients, Leaders, "HandResult")
           /\ UNCHANGED stage
  <2>1. \A s \in Leaders : Present(s)
    BY <1>4, <1>6, <1>9
  <2>2. \A s \in Seats : /\ clients'[s].online = clients[s].online
                         /\ clients'[s].dueling = clients[s].dueling
                         /\ clients'[s].gaveUp = clients[s].gaveUp
                         /\ clients'[s].owes \in {"HandResult", "TpResult"} => s \in Leaders
                         /\ clients'[s].owes # "TpResult"
    BY <1>2, <1>3, <1>9 DEF Prompted, ClientRecords, IInv, Stages
  <2>3. \A s \in Seats : /\ Present(s)' = Present(s)
                         /\ ~Present(s) => players'[s] = players[s]
                         /\ s \in Leaders => players'[s].state = "HandResult"
    BY <1>4, <1>5, <1>6, <1>9, <2>1 DEF Present
  <2> QED
    BY <1>0, <1>1, <1>6, <1>9, <2>2, <2>3
<1>10. CASE /\ \A s \in Leaders : shown[s].hand
            /\ stage' = "Firstgo"
            /\ \E winner \in Leaders : /\ players' = Deciding(shown, winner)
                                       /\ clients' = Prompted(clients, {winner}, "TpResult")
  <2>0. PICK winner \in Leaders : /\ players' = Deciding(shown, winner)
                                  /\ clients' = Prompted(clients, {winner}, "TpResult")
    BY <1>10
  <2>1. \A s \in Leaders : Present(s)
    BY <1>4, <1>6, <1>10
  <2>2. \A s \in Seats : /\ clients'[s].online = clients[s].online
                         /\ clients'[s].dueling = clients[s].dueling
                         /\ clients'[s].gaveUp = clients[s].gaveUp
                         /\ clients'[s].owes \in {"HandResult", "TpResult"} => s \in Leaders
                         /\ clients'[s].owes = "TpResult" => s = winner
    BY <1>2, <1>3, <2>0 DEF Prompted, ClientRecords, IInv, Stages
  <2>3. \A s \in Seats : /\ Present(s)' = Present(s)
                         /\ ~Present(s) => players'[s] = players[s]
                         /\ s \in Leaders => players'[s].state \in {"TpResult", "None"}
    BY <1>4, <1>5, <1>6, <2>0, <2>1 DEF Present, Deciding
  <2> QED
    BY <1>0, <1>1, <1>6, <1>10, <2>2, <2>3
<1> QED
  BY <1>7, <1>8, <1>9, <1>10

\* The mailbox keeps its invariant when a handler has run.
LEMMA MailboxActor ==
  ASSUME IInv, Actor
  PROVE  Mailbox'
<1>0. /\ TypeOK /\ Mailbox
      /\ queue # <<>>
  BY DEF IInv, Actor, Refused, Receive, ReceiveFrom, OnHandResult, OnTpResult, OnFirstShuffle,
         OnDuelInit, OnDuelStart, OnEvolveEnded, OnEvolveSelect, OnEvolveRetry, OnEvolveWin, Evolving,
         OnResponse, OnTimeConfirm, OnSurrender, OnLeaveGame, OnDuelEnd, OnGenerateReplay,
         OnJudgeContinueMatch, OnMatchEnd, OnTerminate, OnTimerTick, OnTimeout
<1>r. /\ Request \in Requests /\ MessageOK(Request)
      /\ Request.type \in CtosTypes => Request.from \in Seats /\ Present(Request.from)
  BY <1>0, RequestTyped, HandledInStage
<1>p. players \in [Seats -> [here : BOOLEAN, state : Gates, hand : BOOLEAN]]
  BY <1>0 DEF TypeOK
<1>n. <<>> \in Seq(Requests) /\ \A i \in DOMAIN <<>> : Neutral(<<>>[i])
  BY Queues, NeutralQueues
<1>i. Ignored => Mailbox'
  BY <1>0, <1>n, MailboxChain DEF Ignored
<1>u. UNCHANGED <<stage, first_attack_team, core, players, clients>> =>
        \A r \in Requests : MessageOK(r) => MessageOK(r)'
  BY <1>0, AskedGoOn, RoomKept DEF Present
<1>1. CASE Refused
  BY <1>0, <1>1, <1>n, <1>u, MailboxNeutral DEF Refused, duel
<1>2. CASE OnHandResult
  <2>1. /\ stage = "Finger" /\ Done(<<>>)
        /\ \A s \in Seats : /\ Present(s)' = Present(s)
                            /\ clients'[s].online = clients[s].online
                            /\ clients'[s].gaveUp = clients[s].gaveUp
        /\ UNCHANGED <<first_attack_team, core>>
    BY <1>2, HandGame
  <2>2. ASSUME NEW r \in Requests, MessageOK(r) PROVE MessageOK(r)'
    <3>1. r.type \in CtosTypes => r.from \in Seats /\ Present(r.from)'
      BY <2>1, <2>2, RequestFields DEF MessageOK
    <3>2. /\ r.type \notin StartTypes \cup {"TpResult", "Surrender"}
          /\ ~(r.type = "DuelEnd" /\ r.reason = "Surrender")
      BY <2>1, <2>2 DEF MessageOK
    <3>3. r.type = "LeaveGame" => ~clients'[r.from].online
      BY <2>1, <2>2, <3>1 DEF MessageOK, CtosTypes
    <3> QED
      BY <2>2, <3>1, <3>2, <3>3 DEF MessageOK
  <2> QED
    BY <1>0, <1>n, <2>1, <2>2, MailboxNeutral
<1>3. CASE OnTpResult
  <2>1. /\ Request.type = "TpResult" /\ stage = "Firstgo" /\ stage' = "Dueling"
        /\ \A s \in Seats : clients[s].owes # "TpResult"
        /\ UNCHANGED <<core, players, clients>>
        /\ Done(<<Ex("FirstShuffle"), Ex("DuelInit")>>)
    BY <1>3, <1>r DEF OnTpResult, ReceiveFrom, Receive, MessageOK
  <2>2. ~core.started
    BY <2>1 DEF IInv, Stages
  <2>3. ASSUME NEW r \in Requests, MessageOK(r), PairOK(Request, r) PROVE MessageOK(r)'
    <3>1. /\ r.type \notin StartTypes \cup {"TpResult", "Surrender"}
          /\ ~(r.type = "DuelEnd" /\ r.reason = "Surrender")
      BY <2>1, <2>3 DEF MessageOK, PairOK
    <3> QED
      BY <2>1, <2>3, <3>1 DEF MessageOK, Present
  <2>4. /\ Ex("FirstShuffle") \in Requests /\ Ex("DuelInit") \in Requests
        /\ <<Ex("FirstShuffle"), Ex("DuelInit")>> \in Seq(Requests)
    BY RequestsTyped, Queues
  <2>5. Neutral(Ex("FirstShuffle")) /\ Ex("DuelInit").type = "DuelInit"
    BY NeutralMessages DEF Ex
  <2>6. MessageOK(Ex("FirstShuffle"))' /\ MessageOK(Ex("DuelInit"))'
    BY <2>1, <2>2, <2>4, <2>5, NeutralFits DEF MessageOK, CtosTypes, StartTypes
  <2>7. \A r \in Requests : MessageOK(r) =>
          PairOK(r, Ex("FirstShuffle")) /\ PairOK(r, Ex("DuelInit"))
    BY <2>1, <2>4, <2>5, NeutralFits DEF MessageOK, PairOK, CtosTypes, StartTypes
  <2>8. PairOK(Ex("FirstShuffle"), Ex("DuelInit"))
    BY DEF PairOK, Ex, StartTypes
  <2> DEFINE more == <<Ex("FirstShuffle"), Ex("DuelInit")>>
  <2>9. /\ DOMAIN more = {1, 2} /\ more[1] = Ex("FirstShuffle") /\ more[2] = Ex("DuelInit")
    BY <2>4, Queues
  <2> HIDE DEF more
  <2>10. \A r \in Requests : (\E i \in DOMAIN more : more[i] = r) => MessageOK(r)'
    BY <2>6, <2>9
  <2>11. \A i \in DOMAIN more, r \in Requests : MessageOK(r) => PairOK(r, more[i])
    BY <2>7, <2>9
  <2>12. \A i, j \in DOMAIN more : i < j => PairOK(more[i], more[j])
    BY <2>8, <2>9
  <2>13. Done(more) /\ more \in Seq(Requests)
    BY <2>1, <2>4 DEF more
  <2> QED
    BY <1>0, <2>3, <2>10, <2>11, <2>12, <2>13, MailboxKept
<1>4. CASE OnFirstShuffle
  BY <1>4, <1>i DEF OnFirstShuffle
<1>5. CASE OnDuelInit
  <2>1. /\ Request.type = "DuelInit" /\ Done(<<Ex("DuelStart")>>)
        /\ UNCHANGED <<stage, first_attack_team, players, clients>>
    BY <1>5 DEF OnDuelInit, Receive
  <2>2. core'.started = core.started
    BY <1>0, <1>5 DEF OnDuelInit, TypeOK
  <2>3. stage = "Dueling" /\ ~core.started
    BY <1>r, <2>1 DEF MessageOK, StartTypes
  <2>4. \A r \in Requests : MessageOK(r) => MessageOK(r)'
    BY <1>0, <2>1, <2>2, AskedGoOn, RoomKept DEF Present
  <2> DEFINE more == <<Ex("DuelStart")>>
  <2>5. more \in Seq(Requests) /\ DOMAIN more = {1} /\ more[1] = Ex("DuelStart")
    BY RequestsTyped, Queues
  <2>6. MessageOK(Ex("DuelStart"))'
    BY <2>1, <2>2, <2>3 DEF MessageOK, Ex, CtosTypes
  <2>7. \A r \in Requests : PairOK(Request, r) => PairOK(r, Ex("DuelStart"))
    BY <2>1 DEF PairOK, Ex, CtosTypes, StartTypes
  <2>8. Done(more)
    BY <2>1
  <2> HIDE DEF more
  <2>9. \A r \in Requests : (\E i \in DOMAIN more : more[i] = r) => MessageOK(r)'
    BY <2>5, <2>6
  <2>10. \A i \in DOMAIN more, r \in Requests : PairOK(Request, r) => PairOK(r, more[i])
    BY <2>5, <2>7
  <2>11. \A i, j \in DOMAIN more : i < j => PairOK(more[i], more[j])
    BY <2>5
  <2> QED
    BY <1>0, <2>4, <2>5, <2>8, <2>9, <2>10, <2>11, MailboxKept
<1>6. CASE OnDuelStart
  <2>1. /\ Request.type = "DuelStart" /\ Done(<<Ex("Evolve")>>) /\ clients' = Seated(clients)
        /\ UNCHANGED <<stage, first_attack_team, players>>
    BY <1>6 DEF OnDuelStart, Receive
  <2>2. ClientsGoOn
    BY <1>0, <2>1, AskedGoOn
  <2>3. ASSUME NEW r \in Requests, MessageOK(r), PairOK(Request, r) PROVE MessageOK(r)'
    <3>1. r.type \notin StartTypes
      BY <2>1, <2>3 DEF PairOK, StartTypes
    <3>2. r.type \in CtosTypes => Present(r.from)'
      BY <2>1, <2>3 DEF MessageOK, Present
    <3> QED
      BY <2>1, <2>2, <2>3, <3>1, <3>2, MessageKept
  <2> QED
    BY <1>0, <2>1, <2>3, RequestsTyped, Queues, NeutralMessages, NeutralQueues, MailboxNeutral
<1>7. CASE OnEvolveEnded
  BY <1>7, <1>i DEF OnEvolveEnded
<1>8. CASE OnEvolveSelect
  <2>1. PICK engine \in {core, Turned(core)}, current \in Seats \cup {None} :
          /\ core' = [engine EXCEPT !.input = FALSE]
          /\ \E p \in CorePlayers : Waiting(ToSeat(p, first_attack_team, current))
    BY <1>8 DEF OnEvolveSelect
  <2>2. core'.started = core.started
    BY <1>0, <2>1, RanTyped, ZenonT(60) DEF TypeOK
  <2>3. ClientsGoOn /\ \A s \in Seats : Present(s)' = Present(s)
    BY <1>0, <2>1, WaitingKeeps, TranslationTyped DEF TypeOK
  <2>4. \A r \in Requests : MessageOK(r) => MessageOK(r)'
    BY <1>8, <2>2, <2>3, RoomKept DEF OnEvolveSelect
  <2> QED
    BY <1>0, <1>8, <1>n, <2>4, MailboxNeutral DEF OnEvolveSelect
<1>9. CASE OnEvolveRetry
  <2>1. \/ UNCHANGED <<players, clients>>
        \/ \E p \in CorePlayers : Waiting(ToSeat(p, first_attack_team, current_turn_player))
    BY <1>9 DEF OnEvolveRetry
  <2>2. core'.started = core.started
    BY <1>0, <1>9 DEF OnEvolveRetry, TypeOK
  <2>3. ClientsGoOn /\ \A s \in Seats : Present(s)' = Present(s)
    <3>1. CASE UNCHANGED <<players, clients>>
      BY <1>0, <3>1, AskedGoOn DEF Present
    <3>2. CASE \E p \in CorePlayers : Waiting(ToSeat(p, first_attack_team, current_turn_player))
      BY <1>0, <3>2, WaitingKeeps, TranslationTyped DEF TypeOK
    <3> QED
      BY <2>1, <3>1, <3>2
  <2>4. \A r \in Requests : MessageOK(r) => MessageOK(r)'
    BY <1>9, <2>2, <2>3, RoomKept DEF OnEvolveRetry
  <2> QED
    BY <1>0, <1>9, <1>n, <2>4, MailboxNeutral DEF OnEvolveRetry
<1>10. CASE OnEvolveWin
  <2>1. PICK engine \in {core, Turned(core)} : core' = [engine EXCEPT !.input = FALSE]
    BY <1>10 DEF OnEvolveWin
  <2>2. core'.started = core.started
    BY <1>0, <2>1, TranslationTyped, RanTyped, ZenonT(60) DEF TypeOK
  <2>3. \A r \in Requests : MessageOK(r) => MessageOK(r)'
    BY <1>0, <1>10, <2>2, AskedGoOn, RoomKept DEF OnEvolveWin, Present
  <2>4. PICK winner \in CorePlayers \cup {None} : Done(<<DuelEnd(winner, "Win")>>)
    BY <1>10 DEF OnEvolveWin
  <2> QED
    BY <1>0, <2>3, <2>4, RequestsTyped, Queues, NeutralMessages, NeutralQueues, MailboxNeutral
<1>11. CASE OnResponse
  <2>1. CASE Ignored
    BY <1>i, <2>1
  <2>2. CASE ~Ignored
    <3>1. /\ Done(<<Ex("Evolve")>>) /\ core' = [core EXCEPT !.input = TRUE]
          /\ players' = Closed(Request.from)
          /\ UNCHANGED <<stage, first_attack_team, clients>>
      BY <1>11, <2>2 DEF OnResponse
    <3>2. core'.started = core.started /\ \A s \in Seats : Present(s)' = Present(s)
      BY <1>0, <1>p, <3>1 DEF TypeOK, Closed, Present
    <3>3. \A r \in Requests : MessageOK(r) => MessageOK(r)'
      BY <1>0, <3>1, <3>2, AskedGoOn, RoomKept
    <3> QED
      BY <1>0, <3>1, <3>3, RequestsTyped, Queues, NeutralMessages, NeutralQueues, MailboxNeutral
  <2> QED
    BY <2>1, <2>2
<1>12. CASE OnTimeConfirm
  <2>1. CASE Ignored
    BY <1>i, <2>1
  <2>2. CASE ~Ignored
    <3>1. /\ Done(<<>>) /\ players' = [players EXCEPT ![Request.from].state = "Response"]
          /\ UNCHANGED <<stage, first_attack_team, core, clients>>
      BY <1>12, <2>2 DEF OnTimeConfirm
    <3>2. \A s \in Seats : Present(s)' = Present(s)
      BY <1>p, <3>1 DEF Present
    <3>3. \A r \in Requests : MessageOK(r) => MessageOK(r)'
      BY <1>0, <3>1, <3>2, AskedGoOn, RoomKept
    <3> QED
      BY <1>0, <1>n, <3>1, <3>3, MailboxNeutral
  <2> QED
    BY <2>1, <2>2
<1>13. CASE OnSurrender
  <2> DEFINE s == Request.from
  <2>1. Request.type = "Surrender" /\ s \in Seats
    BY <1>13, <1>r DEF OnSurrender, ReceiveFrom, Receive, CtosTypes
  <2>2. stage = "Dueling" /\ GaveUp(s)
    BY <1>r, <2>1 DEF MessageOK
  <2>3. CASE Ignored
    BY <1>i, <2>3
  <2>4. CASE ~Ignored
    <3>1. /\ UNCHANGED <<stage, first_attack_team, core, players, clients>>
          /\ \/ surrender[Teammate(s)] /\ Done(<<Lost(s, "Surrender")>>)
             \/ Done(<<>>)
      BY <1>13, <2>4 DEF OnSurrender, Agreed
    <3>2. CASE Done(<<>>)
      BY <1>0, <1>n, <1>u, <3>1, <3>2, MailboxNeutral
    <3>3. CASE surrender[Teammate(s)] /\ Done(<<Lost(s, "Surrender")>>)
      <4>1. Teammate(s) \in Seats /\ Team(s) \in Teams
        BY <2>1, SeatsTyped
      <4>2. \A t \in Member(Team(s)) : GaveUp(t)
        <5>1. Member(Team(s)) = {s, Teammate(s)}
          BY <2>1 DEF Member, Team, Teammate, Seats
        <5> QED
          BY <2>2, <3>3, <4>1, <5>1 DEF IInv, Stages
      <4>3. \A t : GaveUp(t)' = GaveUp(t)
        BY <3>1 DEF GaveUp
      <4>0. Lost(s, "Surrender") \in Requests
        BY <2>1, LostTyped
      <4>m. PICK lost \in Requests : lost = Lost(s, "Surrender")
        BY <4>0
      <4>t. PICK team \in Teams : team = Team(s)
        BY <4>1
      <4>4. /\ lost.type = "DuelEnd"
            /\ lost.winner = TeamToCore(OtherTeam(team), first_attack_team)
        BY <4>m, <4>t DEF Lost, DuelEnd
      <4>5. MessageOK(lost)'
        <5>1. \A u \in Member(team) : GaveUp(u)'
          BY <4>2, <4>3, <4>t
        <5> QED
          BY <2>2, <3>1, <4>4, <5>1 DEF MessageOK, CtosTypes, StartTypes
      <4>6. \A t \in Requests : PairOK(t, lost)
        BY <4>4 DEF PairOK, CtosTypes, StartTypes
      <4> DEFINE more == <<lost>>
      <4>8. more \in Seq(Requests) /\ DOMAIN more = {1} /\ more[1] = lost /\ Done(more)
        BY <3>3, <4>m, Queues
      <4> HIDE DEF more, s
      <4>9. \A r \in Requests : (\E i \in DOMAIN more : more[i] = r) => MessageOK(r)'
        BY <4>5, <4>8
      <4>10. \A i \in DOMAIN more, r \in Requests : PairOK(r, more[i])
        BY <4>6, <4>8
      <4>11. \A i, j \in DOMAIN more : i < j => PairOK(more[i], more[j])
        BY <4>8
      <4>12. \A r \in Requests : MessageOK(r) => MessageOK(r)'
        BY <1>u, <3>1
      <4> QED
        BY <1>0, <4>8, <4>9, <4>10, <4>11, <4>12, MailboxKept
    <3> QED
      BY <3>1, <3>2, <3>3
  <2> QED
    BY <2>3, <2>4
<1>14. CASE OnLeaveGame
  <2> DEFINE s == Request.from
  <2>1. Request.type = "LeaveGame" /\ s \in Seats
    BY <1>14, <1>r DEF OnLeaveGame, ReceiveFrom, Receive, CtosTypes
  <2>2. CASE Break
    BY <2>2, MailboxBreak
  <2>3. CASE ~Break
    <3>1. /\ players' = [players EXCEPT ![s] = EmptySlot]
          /\ Done(IF core.ended THEN <<>> ELSE <<Lost(s, "Leave")>>)
          /\ UNCHANGED <<stage, first_attack_team, core, clients>>
      BY <1>14, <2>3 DEF OnLeaveGame
    <3>2. \A t \in Seats : t # s => Present(t)' = Present(t)
      BY <1>p, <3>1 DEF Present
    <3>3. ASSUME NEW r \in Requests, MessageOK(r), PairOK(Request, r) PROVE MessageOK(r)'
      <4>1. r.type \in CtosTypes => r.from \in Seats /\ r.from # s /\ Present(r.from)
        BY <2>1, <3>3, RequestFields DEF PairOK, MessageOK
      <4> QED
        BY <1>0, <3>1, <3>2, <3>3, <4>1, AskedGoOn, MessageKept
    <3>4. Lost(s, "Leave") \in Requests /\ Neutral(Lost(s, "Leave"))
      BY <2>1, LostTyped, NeutralMessages DEF Lost
    <3> HIDE DEF s
    <3>5. /\ <<Lost(s, "Leave")>> \in Seq(Requests)
          /\ \A i \in DOMAIN <<Lost(s, "Leave")>> : Neutral(<<Lost(s, "Leave")>>[i])
      BY <3>4, Queues, NeutralQueues
    <3>6. CASE core.ended
      BY <1>0, <1>n, <3>1, <3>3, <3>6, MailboxNeutral
    <3>7. CASE ~core.ended
      BY <1>0, <3>1, <3>3, <3>5, <3>7, MailboxNeutral
    <3> QED
      BY <3>6, <3>7
  <2> QED
    BY <2>2, <2>3
<1>15. CASE OnDuelEnd
  <2>1. /\ Done(<<Ex("GenerateReplay"), Ex("JudgeContinueMatch")>>)
        /\ UNCHANGED <<stage, first_attack_team, players, clients>>
    BY <1>15 DEF OnDuelEnd
  <2>2. core'.started = core.started
    BY <1>0, <1>15 DEF OnDuelEnd, TypeOK
  <2>3. \A r \in Requests : MessageOK(r) => MessageOK(r)'
    BY <1>0, <2>1, <2>2, AskedGoOn, RoomKept DEF Present
  <2> QED
    BY <1>0, <2>1, <2>3, RequestsTyped, Queues, NeutralMessages, NeutralQueues, MailboxNeutral
<1>16. CASE OnGenerateReplay
  BY <1>16, <1>i DEF OnGenerateReplay
<1>17. CASE OnJudgeContinueMatch
  BY <1>0, <1>17, RequestsTyped, Queues, NeutralMessages, NeutralQueues, MailboxChain
     DEF OnJudgeContinueMatch
<1>18. CASE OnMatchEnd
  BY <1>0, <1>18, <1>n, RequestsTyped, Queues, NeutralMessages, NeutralQueues, MailboxChain
     DEF OnMatchEnd
<1>19. CASE OnTerminate
  BY <1>19, MailboxBreak DEF OnTerminate
<1>20. CASE OnTimerTick
  <2>1. CASE Ignored
    BY <1>i, <2>1
  <2>2. CASE ~Ignored
    <3>1. last_response \in Seats /\ Chain(<<[type |-> "Timeout", player |-> last_response]>>)
      BY <1>0, <1>20, <2>2 DEF OnTimerTick, TypeOK
    <3> QED
      BY <1>0, <3>1, RequestsTyped, Queues, NeutralMessages, NeutralQueues, MailboxChain
  <2> QED
    BY <2>1, <2>2
<1>21. CASE OnTimeout
  <2>1. Request.player \in Seats
    BY <1>21, <1>r, RequestFields DEF OnTimeout, Receive
  <2>2. Lost(Request.player, "Timeout") \in Requests /\ Neutral(Lost(Request.player, "Timeout"))
    BY <2>1, LostTyped, NeutralMessages DEF Lost
  <2>3. Done(<<Lost(Request.player, "Timeout")>>)
    BY <1>21 DEF OnTimeout
  <2>4. \A r \in Requests : MessageOK(r) => MessageOK(r)'
    BY <1>21, <1>u DEF OnTimeout
  <2> QED
    BY <1>0, <2>2, <2>3, <2>4, Queues, NeutralQueues, MailboxNeutral
<1> QED
  BY <1>1, <1>2, <1>3, <1>4, <1>5, <1>6, <1>7, <1>8, <1>9, <1>10, <1>11, <1>12, <1>13, <1>14, <1>15,
     <1>16, <1>17, <1>18, <1>19, <1>20, <1>21 DEF Actor
\* The mailbox keeps its invariant when a client or the timer has sent something.
LEMMA MailboxOutside ==
  ASSUME IInv, TimerTicks \/ \E s \in Seats : Client(s)
  PROVE  Mailbox'
<1>0. TypeOK /\ Mailbox /\ Stages
  BY DEF IInv
<1>c. clients \in [Seats -> ClientRecords]
  BY <1>0 DEF TypeOK, ClientRecords, Demands
<1>k. ASSUME ClientsGoOn, UNCHANGED duel
      PROVE  \A t \in Requests : MessageOK(t) => MessageOK(t)'
  BY <1>k, RoomKept DEF duel, Present
<1>1. CASE TimerTicks
  <2>1. Send(Ex("timer_tick")) /\ UNCHANGED duel /\ ClientsGoOn
    BY <1>0, <1>1, AskedGoOn DEF TimerTicks, Post
  <2>2. PICK r \in Requests : r = Ex("timer_tick")
    BY RequestsTyped
  <2>3. MessageOK(r)' /\ \A t \in Requests : PairOK(t, r)
    BY <2>2, NeutralMessages, NeutralFits
  <2> QED
    BY <1>0, <1>k, <2>1, <2>2, <2>3, MailboxSent
<1>2. ASSUME NEW s \in Seats, ClientAnswers(s) PROVE Mailbox'
  <2>1. /\ clients[s].online /\ clients[s].owes \in {"HandResult", "TpResult", "TimeConfirm", "Response"}
        /\ clients' = [clients EXCEPT ![s].owes = IF @ = "TimeConfirm" THEN "Response" ELSE "None"]
        /\ UNCHANGED duel
    BY <1>2, <1>c DEF ClientAnswers, ClientRecords, Demands
  <2>2. PICK r \in Requests : r = Ctos(clients[s].owes, s)
    BY <2>1, RequestsTyped DEF CtosTypes
  <2>3. Send(r) /\ r.from = s /\ r.type = clients[s].owes
    BY <1>2, <2>2 DEF ClientAnswers, Ctos
  <2>4. \A t \in Seats : /\ clients'[t].online = clients[t].online
                         /\ clients'[t].gaveUp = clients[t].gaveUp
                         /\ t # s => clients'[t] = clients[t]
    BY <1>c, <2>1 DEF ClientRecords
  <2>5. clients'[s].owes # "TpResult"
    BY <1>c, <2>1 DEF ClientRecords
  <2>6. ClientsGoOn
    BY <2>4, <2>5 DEF ClientsGoOn, GaveUp
  <2>7. Present(s)
    BY <1>0, <2>1 DEF Stages
  <2>8. MessageOK(r)'
    <3>1. Present(s)'
      BY <2>1, <2>7 DEF Present, duel
    <3>2. r.type \in {"HandResult", "TpResult"} => s \in Leaders
      BY <1>0, <2>3 DEF Stages
    <3>3. r.type = "TpResult" => stage' = "Firstgo" /\ \A t \in Seats : clients'[t].owes # "TpResult"
      <4> SUFFICES ASSUME clients[s].owes = "TpResult"
                   PROVE  stage' = "Firstgo" /\ \A t \in Seats : clients'[t].owes # "TpResult"
        BY <2>3
      <4>1. stage' = "Firstgo"
        BY <1>0, <2>1 DEF Stages, duel
      <4>2. \A t \in Seats : t # s => clients[t].owes # "TpResult"
        BY <1>0 DEF Stages
      <4> QED
        BY <2>4, <2>5, <4>1, <4>2
    <3> QED
      BY <2>1, <2>3, <3>1, <3>2, <3>3 DEF MessageOK, StartTypes
  <2>9. ASSUME NEW t \in Requests, MessageOK(t) PROVE PairOK(t, r)
    <3>1. t.type = "LeaveGame" => t.from # s
      BY <2>1, <2>9 DEF MessageOK
    <3>2. ~(t.type = "TpResult" /\ r.type = "TpResult")
      BY <2>3, <2>9 DEF MessageOK
    <3> QED
      BY <2>1, <2>3, <3>1, <3>2 DEF PairOK, StartTypes
  <2> QED
    BY <1>0, <1>k, <2>1, <2>3, <2>6, <2>8, <2>9, MailboxSent
<1>3. ASSUME NEW s \in Seats, ClientAnswersEarly(s) PROVE Mailbox'
  <2>1. /\ clients[s].online /\ UNCHANGED <<duel, clients>> /\ Send(Ctos("Response", s))
        /\ ClientsGoOn
    BY <1>0, <1>3, AskedGoOn DEF ClientAnswersEarly, Post
  <2>2. PICK r \in Requests : r = Ctos("Response", s)
    BY RequestsTyped DEF CtosTypes
  <2>3. r.from = s /\ r.type = "Response"
    BY <2>2 DEF Ctos
  <2>4. Present(s) /\ Present(s)'
    BY <1>0, <2>1 DEF Stages, Present, duel
  <2>5. MessageOK(r)'
    BY <2>3, <2>4 DEF MessageOK, StartTypes
  <2>6. \A t \in Requests : MessageOK(t) => PairOK(t, r)
    BY <2>1, <2>3 DEF MessageOK, PairOK, StartTypes
  <2> QED
    BY <1>0, <1>k, <2>1, <2>2, <2>5, <2>6, MailboxSent
<1>4. ASSUME NEW s \in Seats, ClientSurrenders(s) PROVE Mailbox'
  <2>1. /\ clients[s].online /\ clients[s].dueling /\ Send(Ctos("Surrender", s))
        /\ clients' = [clients EXCEPT ![s].gaveUp = TRUE] /\ UNCHANGED duel
    BY <1>4 DEF ClientSurrenders, Post
  <2>2. PICK r \in Requests : r = Ctos("Surrender", s)
    BY RequestsTyped DEF CtosTypes
  <2>3. r.from = s /\ r.type = "Surrender"
    BY <2>2 DEF Ctos
  <2>4. Present(s) /\ Present(s)' /\ stage' = "Dueling"
    BY <1>0, <2>1 DEF Stages, Present, duel
  <2>5. ClientsGoOn /\ GaveUp(s)'
    BY <1>c, <2>1 DEF ClientsGoOn, GaveUp, ClientRecords
  <2>6. MessageOK(r)'
    BY <2>3, <2>4, <2>5 DEF MessageOK, StartTypes
  <2>7. \A t \in Requests : MessageOK(t) => PairOK(t, r)
    BY <2>1, <2>3 DEF MessageOK, PairOK, StartTypes
  <2> QED
    BY <1>0, <1>k, <2>1, <2>2, <2>5, <2>6, <2>7, MailboxSent
<1>5. ASSUME NEW s \in Seats, ClientLeaves(s) PROVE Mailbox'
  <2>1. /\ clients[s].online /\ Send(Ctos("LeaveGame", s))
        /\ clients' = [clients EXCEPT ![s] = NoClient] /\ UNCHANGED duel
    BY <1>5 DEF ClientLeaves, Post
  <2>2. PICK r \in Requests : r = Ctos("LeaveGame", s)
    BY RequestsTyped DEF CtosTypes
  <2>3. r.from = s /\ r.type = "LeaveGame"
    BY <2>2 DEF Ctos
  <2>4. Present(s) /\ Present(s)'
    BY <1>0, <2>1 DEF Stages, Present, duel
  <2>5. ClientsGoOn /\ ~clients'[s].online
    BY <1>c, <2>1 DEF ClientsGoOn, GaveUp, NoClient
  <2>6. MessageOK(r)'
    BY <2>3, <2>4, <2>5 DEF MessageOK, StartTypes
  <2>7. \A t \in Requests : MessageOK(t) => PairOK(t, r)
    BY <2>1, <2>3 DEF MessageOK, PairOK, StartTypes
  <2> QED
    BY <1>0, <1>k, <2>1, <2>2, <2>5, <2>6, <2>7, MailboxSent
<1> QED
  BY <1>1, <1>2, <1>3, <1>4, <1>5 DEF Client

-----------------------------------------------------------------------------
(* The stages.                                                              *)

\* A step that leaves stages, seats and clients alone, and the gates of the leaders shut.
LEMMA StagesSame ==
  ASSUME TypeOK, Stages, UNCHANGED <<stage, first_attack_team, surrender, clients>>,
         core'.started = core.started,
         \A s \in Seats : \/ players'[s] = players[s]
                          \/ /\ Present(s)' = Present(s) /\ Present(s)
                             /\ players'[s].state \notin {"Any", "HandResult"}
  PROVE  Stages'
<1>1. Leaders \subseteq Seats
  BY DEF Leaders, Leader, Seats, Teams
<1>2. \A s \in Seats : ~Present(s)' => players'[s] = EmptySlot /\ ~Present(s)
  BY DEF Stages, Present
<1>3. \A s \in Leaders : /\ players'[s].state # "Any"
                         /\ stage # "Finger" => players'[s].state # "HandResult"
  BY <1>1 DEF Stages
<1>4. \A s \in Seats : GaveUp(s)' = GaveUp(s)
  BY DEF GaveUp
<1> QED
  BY <1>2, <1>3, <1>4 DEF Stages

\* The stages after a handler.
LEMMA StagesActor ==
  ASSUME IInv, Actor
  PROVE  Stages'
<1>0. TypeOK /\ Stages /\ queue # <<>>
  BY DEF IInv, Actor, Refused, Receive, ReceiveFrom, OnHandResult, OnTpResult, OnFirstShuffle,
         OnDuelInit, OnDuelStart, OnEvolveEnded, OnEvolveSelect, OnEvolveRetry, OnEvolveWin, Evolving,
         OnResponse, OnTimeConfirm, OnSurrender, OnLeaveGame, OnDuelEnd, OnGenerateReplay,
         OnJudgeContinueMatch, OnMatchEnd, OnTerminate, OnTimerTick, OnTimeout
<1>r. /\ Request \in Requests /\ MessageOK(Request)
      /\ Request.type \in CtosTypes => Request.from \in Seats /\ Present(Request.from)
  BY <1>0, RequestTyped, HandledInStage
<1>p. players \in [Seats -> [here : BOOLEAN, state : Gates, hand : BOOLEAN]]
  BY <1>0 DEF TypeOK
<1>c. clients \in [Seats -> ClientRecords]
  BY <1>0 DEF TypeOK, ClientRecords, Demands
<1>l. Leaders \subseteq Seats
  BY DEF Leaders, Leader, Seats, Teams
<1>u. UNCHANGED <<duel, clients>> => Stages'
  BY <1>0, StagesSame DEF duel
<1>ch. \A more : Chain(more) => Stages'
  BY <1>u DEF Chain
<1>i. Ignored => Stages'
  BY <1>ch DEF Ignored
<1>b. Break => Stages'
  BY <1>u DEF Break
<1>1. CASE Refused
  BY <1>1, <1>u DEF Refused
<1>2. CASE OnHandResult
  <2>1. /\ stage = "Finger" /\ stage' \in {"Finger", "Firstgo"}
        /\ \A s \in Seats : /\ Present(s)' = Present(s)
                            /\ clients'[s].online = clients[s].online
                            /\ clients'[s].dueling = clients[s].dueling
                            /\ clients'[s].gaveUp = clients[s].gaveUp
                            /\ clients'[s].owes \in {"HandResult", "TpResult"} => s \in Leaders
                            /\ clients'[s].owes = "TpResult" => stage' = "Firstgo"
                            /\ ~Present(s) => players'[s] = players[s]
        /\ \A s, t \in Seats : clients'[s].owes = "TpResult" /\ clients'[t].owes = "TpResult" => s = t
        /\ \A s \in Leaders : /\ players'[s].state # "Any"
                              /\ stage' = "Firstgo" => players'[s].state # "HandResult"
        /\ UNCHANGED <<surrender, core>>
    BY <1>2, HandGame
  <2>2. \A s \in Seats : GaveUp(s)' = GaveUp(s)
    BY <2>1 DEF GaveUp
  <2>3. \A s \in Seats : /\ ~Present(s)' => players'[s] = EmptySlot /\ ~clients'[s].online
                         /\ clients'[s].dueling => stage' = "Dueling"
                         /\ surrender'[s] => GaveUp(s)'
    BY <1>0, <2>1, <2>2 DEF Stages
  <2>4. stage' # "Dueling" /\ ~core'.started
    BY <1>0, <2>1 DEF Stages
  <2> QED
    BY <2>1, <2>3, <2>4 DEF Stages
<1>3. CASE OnTpResult
  <2>1. /\ stage = "Firstgo" /\ stage' = "Dueling" /\ first_attack_team' \in Teams
        /\ \A s \in Seats : clients[s].owes # "TpResult"
        /\ UNCHANGED <<core, players, clients, surrender>>
    BY <1>3, <1>r DEF OnTpResult, ReceiveFrom, Receive, MessageOK
  <2>2. \A s \in Seats : Present(s)' = Present(s) /\ GaveUp(s)' = GaveUp(s)
    BY <2>1 DEF Present, GaveUp
  <2> QED
    BY <1>0, <2>1, <2>2 DEF Stages
<1>4. CASE OnFirstShuffle
  BY <1>4, <1>i DEF OnFirstShuffle
<1>5. CASE OnDuelInit
  <2>1. core'.started = core.started
    BY <1>0, <1>5 DEF OnDuelInit, TypeOK
  <2> QED
    BY <1>0, <1>5, <2>1, StagesSame DEF OnDuelInit
<1>6. CASE OnDuelStart
  <2>1. /\ stage = "Dueling" /\ clients' = Seated(clients)
        /\ UNCHANGED <<stage, first_attack_team, players, surrender>>
    BY <1>6, <1>r DEF OnDuelStart, Receive, MessageOK, StartTypes
  <2>2. \A s \in Seats : /\ clients'[s].online = clients[s].online
                         /\ clients'[s].gaveUp = clients[s].gaveUp
                         /\ clients'[s].owes = clients[s].owes
    BY <1>c, <2>1 DEF Seated, ClientRecords
  <2>3. \A s \in Seats : Present(s)' = Present(s) /\ GaveUp(s)' = GaveUp(s)
    BY <2>1, <2>2 DEF Present, GaveUp
  <2> QED
    BY <1>0, <2>1, <2>2, <2>3 DEF Stages
<1>7. CASE OnEvolveEnded
  BY <1>7, <1>i DEF OnEvolveEnded
<1>w. ASSUME NEW seat \in Seats \cup {None}, Waiting(seat), core'.started = core.started,
             UNCHANGED <<stage, first_attack_team, surrender>>
      PROVE  Stages'
  <2>1. /\ \A s \in Seats : /\ Present(s)' = Present(s)
                            /\ players'[s].hand = players[s].hand
                            /\ \/ players'[s] = players[s]
                               \/ Present(s) /\ players'[s].state \in {"TimeConfirm", "Response"}
        /\ \A s \in Seats : /\ clients'[s].online = clients[s].online
                            /\ clients'[s].dueling = clients[s].dueling
                            /\ clients'[s].gaveUp = clients[s].gaveUp
                            /\ \/ clients'[s].owes = clients[s].owes
                               \/ clients'[s].owes \in {"TimeConfirm", "Response"}
    BY <1>0, <1>w, WaitingKeeps
  <2>2. \A s \in Seats : GaveUp(s)' = GaveUp(s)
    BY <2>1 DEF GaveUp
  <2>3. \A s \in Seats : /\ ~Present(s)' => players'[s] = EmptySlot /\ ~clients'[s].online
                         /\ clients'[s].owes \in {"HandResult", "TpResult"} => s \in Leaders
                         /\ clients'[s].owes = "TpResult" => stage' = "Firstgo"
                         /\ clients'[s].dueling => stage' = "Dueling"
                         /\ surrender'[s] => GaveUp(s)'
    BY <1>0, <1>w, <2>1, <2>2 DEF Stages
  <2>4. \A s \in Leaders : /\ players'[s].state # "Any"
                           /\ stage' # "Finger" => players'[s].state # "HandResult"
    BY <1>0, <1>l, <1>w, <2>1 DEF Stages
  <2>5. \A s, t \in Seats : clients'[s].owes = "TpResult" /\ clients'[t].owes = "TpResult" => s = t
    BY <1>0, <2>1 DEF Stages
  <2> QED
    BY <1>0, <1>w, <2>3, <2>4, <2>5 DEF Stages
<1>8. CASE OnEvolveSelect
  <2>1. PICK engine \in {core, Turned(core)}, current \in Seats \cup {None} :
          /\ core' = [engine EXCEPT !.input = FALSE]
          /\ \E p \in CorePlayers : Waiting(ToSeat(p, first_attack_team, current))
    BY <1>8 DEF OnEvolveSelect
  <2>2. core'.started = core.started
    BY <1>0, <2>1, RanTyped, ZenonT(60) DEF TypeOK
  <2>3. PICK p \in CorePlayers : Waiting(ToSeat(p, first_attack_team, current))
    BY <2>1
  <2>4. ToSeat(p, first_attack_team, current) \in Seats \cup {None}
    BY <1>0, TranslationTyped DEF TypeOK
  <2> QED
    BY <1>8, <1>w, <2>2, <2>3, <2>4 DEF OnEvolveSelect
<1>9. CASE OnEvolveRetry
  <2>1. core'.started = core.started
    BY <1>0, <1>9 DEF OnEvolveRetry, TypeOK
  <2>2. CASE UNCHANGED <<players, clients>>
    BY <1>0, <1>9, <2>1, <2>2, StagesSame DEF OnEvolveRetry
  <2>3. CASE \E p \in CorePlayers : Waiting(ToSeat(p, first_attack_team, current_turn_player))
    <3>1. PICK p \in CorePlayers : Waiting(ToSeat(p, first_attack_team, current_turn_player))
      BY <2>3
    <3>2. ToSeat(p, first_attack_team, current_turn_player) \in Seats \cup {None}
      BY <1>0, TranslationTyped DEF TypeOK
    <3> QED
      BY <1>9, <1>w, <2>1, <3>1, <3>2 DEF OnEvolveRetry
  <2> QED
    BY <1>9, <2>2, <2>3 DEF OnEvolveRetry
<1>10. CASE OnEvolveWin
  <2>1. PICK engine \in {core, Turned(core)} : core' = [engine EXCEPT !.input = FALSE]
    BY <1>10 DEF OnEvolveWin
  <2>2. core'.started = core.started
    BY <1>0, <2>1, TranslationTyped, RanTyped, ZenonT(60) DEF TypeOK
  <2> QED
    BY <1>0, <1>10, <2>2, StagesSame DEF OnEvolveWin
<1>11. CASE OnResponse
  <2>1. CASE Ignored
    BY <1>i, <2>1
  <2>2. CASE ~Ignored
    <3>1. /\ core' = [core EXCEPT !.input = TRUE] /\ players' = Closed(Request.from)
          /\ UNCHANGED <<stage, first_attack_team, surrender, clients>>
      BY <1>11, <2>2 DEF OnResponse
    <3>2. core'.started = core.started
      BY <1>0, <3>1 DEF TypeOK
    <3>3. \A s \in Seats : \/ players'[s] = players[s]
                           \/ /\ Present(s)' = Present(s) /\ Present(s)
                              /\ players'[s].state \notin {"Any", "HandResult"}
      BY <1>p, <3>1 DEF Closed, Present
    <3> QED
      BY <1>0, <3>1, <3>2, <3>3, StagesSame
  <2> QED
    BY <2>1, <2>2
<1>12. CASE OnTimeConfirm
  <2>1. CASE Ignored
    BY <1>i, <2>1
  <2>2. CASE ~Ignored
    <3>1. /\ players' = [players EXCEPT ![Request.from].state = "Response"] /\ Present(Request.from)
          /\ UNCHANGED <<stage, first_attack_team, surrender, core, clients>>
      BY <1>12, <2>2 DEF OnTimeConfirm
    <3>2. \A s \in Seats : \/ players'[s] = players[s]
                           \/ /\ Present(s)' = Present(s) /\ Present(s)
                              /\ players'[s].state \notin {"Any", "HandResult"}
      BY <1>p, <3>1 DEF Present
    <3> QED
      BY <1>0, <3>1, <3>2, StagesSame
  <2> QED
    BY <2>1, <2>2
<1>13. CASE OnSurrender
  <2>1. CASE Ignored
    BY <1>i, <2>1
  <2>2. CASE ~Ignored
    <3>1. /\ UNCHANGED <<stage, first_attack_team, core, players, clients>>
          /\ \/ UNCHANGED surrender
             \/ surrender' = [surrender EXCEPT ![Request.from] = TRUE]
      BY <1>13, <2>2 DEF OnSurrender
    <3>2. GaveUp(Request.from) /\ Request.from \in Seats
      BY <1>13, <1>r DEF OnSurrender, ReceiveFrom, Receive, MessageOK, CtosTypes
    <3>3. \A s \in Seats : GaveUp(s)' = GaveUp(s) /\ Present(s)' = Present(s)
      BY <3>1 DEF GaveUp, Present
    <3>4. surrender \in [Seats -> BOOLEAN]
      BY <1>0 DEF TypeOK
    <3>5. \A s \in Seats : surrender'[s] => surrender[s] \/ s = Request.from
      BY <3>1, <3>4
    <3>6. \A s \in Seats : surrender'[s] => GaveUp(s)'
      BY <1>0, <3>2, <3>3, <3>5 DEF Stages
    <3> QED
      BY <1>0, <3>1, <3>3, <3>6 DEF Stages
  <2> QED
    BY <2>1, <2>2
<1>14. CASE OnLeaveGame
  <2>1. Request.type = "LeaveGame" /\ Request.from \in Seats
    BY <1>14, <1>r DEF OnLeaveGame, ReceiveFrom, Receive, CtosTypes
  <2>2. CASE Break
    BY <1>b, <2>2
  <2>3. CASE ~Break
    <3>1. /\ players' = [players EXCEPT ![Request.from] = EmptySlot]
          /\ UNCHANGED <<stage, first_attack_team, surrender, core, clients>>
      BY <1>14, <2>3 DEF OnLeaveGame
    <3>2. ~clients[Request.from].online
      BY <1>r, <2>1 DEF MessageOK
    <3>3. /\ players'[Request.from] = EmptySlot
          /\ \A s \in Seats : s # Request.from => players'[s] = players[s]
      BY <1>p, <2>1, <3>1
    <3>4. \A s \in Seats : /\ ~Present(s)' => players'[s] = EmptySlot /\ ~clients'[s].online
                           /\ GaveUp(s)' = GaveUp(s)
      BY <1>0, <3>1, <3>2, <3>3 DEF Stages, Present, GaveUp
    <3>5. \A s \in Leaders : /\ players'[s].state # "Any"
                             /\ stage' # "Finger" => players'[s].state # "HandResult"
      BY <1>0, <1>l, <3>1, <3>3 DEF Stages, EmptySlot
    <3> QED
      BY <1>0, <3>1, <3>4, <3>5 DEF Stages
  <2> QED
    BY <2>2, <2>3
<1>15. CASE OnDuelEnd
  <2>1. core'.started = core.started
    BY <1>0, <1>15 DEF OnDuelEnd, TypeOK
  <2> QED
    BY <1>0, <1>15, <2>1, StagesSame DEF OnDuelEnd
<1>16. CASE OnGenerateReplay
  BY <1>16, <1>i DEF OnGenerateReplay
<1>17. CASE OnJudgeContinueMatch
  BY <1>17, <1>ch DEF OnJudgeContinueMatch
<1>18. CASE OnMatchEnd
  BY <1>18, <1>ch DEF OnMatchEnd
<1>19. CASE OnTerminate
  BY <1>19, <1>b DEF OnTerminate
<1>20. CASE OnTimerTick
  BY <1>20, <1>i, <1>ch DEF OnTimerTick
<1>21. CASE OnTimeout
  BY <1>0, <1>21, StagesSame DEF OnTimeout
<1> QED
  BY <1>1, <1>2, <1>3, <1>4, <1>5, <1>6, <1>7, <1>8, <1>9, <1>10, <1>11, <1>12, <1>13, <1>14, <1>15,
     <1>16, <1>17, <1>18, <1>19, <1>20, <1>21 DEF Actor

\* A client by itself comes no nearer to the duel.
ClientsRecede ==
  \A s \in Seats : /\ clients'[s].online => clients[s].online
                   /\ clients'[s].dueling => clients[s].dueling
                   /\ clients'[s].owes \in {"HandResult", "TpResult"} => clients'[s].owes = clients[s].owes
                   /\ GaveUp(s) => GaveUp(s)'

\* The stages after a client's step or a tick.
LEMMA StagesOutside ==
  ASSUME IInv, TimerTicks \/ \E s \in Seats : Client(s)
  PROVE  Stages'
<1>0. TypeOK /\ Stages
  BY DEF IInv
<1>c. clients \in [Seats -> ClientRecords]
  BY <1>0 DEF TypeOK, ClientRecords, Demands
<1>1. UNCHANGED duel
  BY DEF TimerTicks, Client, ClientAnswers, ClientAnswersEarly, ClientSurrenders, ClientLeaves
<1>2. ClientsRecede
  <2>1. CASE UNCHANGED clients
    BY <2>1 DEF GaveUp, ClientsRecede
  <2>2. ASSUME NEW s \in Seats,
               clients' = [clients EXCEPT ![s].owes = IF @ = "TimeConfirm" THEN "Response" ELSE "None"]
        PROVE  ClientsRecede
    BY <1>c, <2>2 DEF GaveUp, ClientRecords, ClientsRecede
  <2>3. ASSUME NEW s \in Seats, clients' = [clients EXCEPT ![s].gaveUp = TRUE] PROVE ClientsRecede
    BY <1>c, <2>3 DEF GaveUp, ClientRecords, ClientsRecede
  <2>4. ASSUME NEW s \in Seats, clients' = [clients EXCEPT ![s] = NoClient] PROVE ClientsRecede
    BY <1>c, <2>4 DEF GaveUp, ClientRecords, NoClient, ClientsRecede
  <2> QED
    BY <2>1, <2>2, <2>3, <2>4
       DEF TimerTicks, Client, ClientAnswers, ClientAnswersEarly, ClientSurrenders, ClientLeaves
<1>3. \A s \in Seats : Present(s)' = Present(s)
  BY <1>1 DEF duel, Present
<1> QED
  BY <1>0, <1>1, <1>2, <1>3 DEF Stages, duel, ClientsRecede

-----------------------------------------------------------------------------
(* The start.                                                               *)

\* Most handlers disturb neither seats nor tables.
LEMMA StartsSame ==
  ASSUME TypeOK, Starts, queue # <<>>, running, NEW more \in Seq(Requests), Done(more),
         Request.type # "DuelEnd",
         \A i \in DOMAIN more : more[i].type # "DuelStart",
         \A s \in Seats : Present(s)' = Present(s),
         core'.ended = core.ended, core'.table = core.table, core'.tag = core.tag,
         first_attack_team' = first_attack_team
  PROVE  Starts'
<1>1. Dealt => Dealt'
  BY DEF Dealt, Starter, FirstOr1
<1> QED
  BY <1>1, StartsKept

\* The tables are laid when both teams are complete, and a DuelEnd stands before the
\* start when one is not.
LEMMA StartsDuelInit ==
  ASSUME IInv, OnDuelInit
  PROVE  Starts'
<1>0. /\ TypeOK /\ Mailbox /\ Starts /\ queue # <<>> /\ running
      /\ Request.type = "DuelInit" /\ Done(<<Ex("DuelStart")>>)
      /\ UNCHANGED <<running, players, first_attack_team>>
  BY DEF IInv, OnDuelInit, Receive
<1>1. Request \in Requests /\ Request = queue[1] /\ 1 \in DOMAIN queue
  BY <1>0, RequestTyped
<1> DEFINE start == Ex("DuelStart")
<1>2. /\ start \in Requests /\ start.type = "DuelStart" /\ <<start>> \in Seq(Requests)
      /\ DOMAIN <<start>> = {1} /\ <<start>>[1] = start /\ Len(<<start>>) = 1
  BY RequestsTyped, Queues DEF Ex
<1> HIDE DEF start
<1>3. Done(<<start>>)
  BY <1>0 DEF start
<1>4. /\ Len(queue) \in Nat /\ Len(queue) > 0
      /\ queue' \in Seq(Requests) /\ Len(queue') = Len(queue)
      /\ \A i \in DOMAIN queue' :
           \/ i < Len(queue) /\ i + 1 \in DOMAIN queue /\ queue'[i] = queue[i + 1]
           \/ i >= Len(queue) /\ i - Len(queue) + 1 \in {1}
  <2>1. PICK more \in Seq(Requests) : more = <<start>>
    BY <1>2
  <2>2. Done(more) /\ Len(more) = 1 /\ DOMAIN more = {1}
    BY <1>2, <1>3, <2>1
  <2>3. /\ Len(queue) \in Nat /\ Len(queue) > 0
        /\ queue' \in Seq(Requests) /\ Len(queue') = Len(queue) - 1 + 1
        /\ \A i \in DOMAIN queue' :
             \/ i < Len(queue) /\ i + 1 \in DOMAIN queue /\ queue'[i] = queue[i + 1]
             \/ i >= Len(queue) /\ i - Len(queue) + 1 \in {1}
    BY <1>0, <2>2, AfterDone
  <2> QED
    BY <2>3
<1>5. DOMAIN queue = 1..Len(queue) /\ DOMAIN queue' = 1..Len(queue)
  BY <1>0, <1>4 DEF TypeOK
<1>6. ASSUME NEW j \in DOMAIN queue, queue[j].type = "DuelEnd"
      PROVE  j - 1 \in DOMAIN queue' /\ queue'[j - 1].type = "DuelEnd" /\ j - 1 < Len(queue)
  BY <1>0, <1>1, <1>4, <1>5, <1>6
<1>7. ASSUME NEW i \in DOMAIN queue', queue'[i].type = "DuelStart"
      PROVE  i = Len(queue)
  <2>1. SUFFICES ASSUME i < Len(queue) PROVE FALSE
    BY <1>4, <1>5
  <2>2. i + 1 \in DOMAIN queue /\ queue[i + 1].type = "DuelStart" /\ 1 < i + 1
    BY <1>4, <1>5, <1>7, <2>1
  <2>3. PairOK(queue[1], queue[i + 1])
    BY <1>0, <1>1, <2>2 DEF Mailbox
  <2> QED
    BY <1>0, <1>1, <2>2, <2>3 DEF PairOK, StartTypes
<1>8. core'.ended = core.ended /\ \A s \in Seats : Present(s)' = Present(s)
  BY <1>0 DEF OnDuelInit, Present, TypeOK
<1>9. core.ended \/ (\E i \in DOMAIN queue : queue[i].type = "DuelEnd") \/ Dealt'
  <2> SUFFICES ASSUME ~core.ended, ~(\E i \in DOMAIN queue : queue[i].type = "DuelEnd")
               PROVE  Dealt'
    OBVIOUS
  <2>1. \A s \in Seats : Present(s)
    BY <1>0 DEF Starts
  <2>2. \A team \in Teams : Member(team) \subseteq Seats
    BY DEF Member, Seats
  <2>3. FirstOr1(first_attack_team) \in Teams /\ OtherTeam(FirstOr1(first_attack_team)) \in Teams
    BY <1>0, SeatsTyped DEF TypeOK
  <2>4. /\ \A s \in Member(FirstOr1(first_attack_team)) : Present(s)
        /\ \A s \in Member(OtherTeam(FirstOr1(first_attack_team))) : Present(s)
    BY <2>1, <2>2, <2>3
  <2>5. core' = [core EXCEPT
          !.table = [p \in CorePlayers |-> Starter(p, first_attack_team)],
          !.tag = [p \in CorePlayers |-> Teammate(Starter(p, first_attack_team))]]
    BY <2>4 DEF OnDuelInit
  <2>6. /\ core'.table = [p \in CorePlayers |-> Starter(p, first_attack_team)]
        /\ core'.tag = [p \in CorePlayers |-> Teammate(Starter(p, first_attack_team))]
    BY <1>0, <2>5 DEF TypeOK
  <2>7. \A p \in CorePlayers : Starter(p, first_attack_team)' = Starter(p, first_attack_team)
    BY <1>0 DEF Starter, FirstOr1
  <2> QED
    BY <1>0, <2>6, <2>7 DEF Dealt
<1>10. (\E s \in Seats : ~Present(s)') =>
         core'.ended \/ \E i \in DOMAIN queue' : queue'[i].type = "DuelEnd"
  <2> SUFFICES ASSUME \E s \in Seats : ~Present(s)'
               PROVE  core'.ended \/ \E i \in DOMAIN queue' : queue'[i].type = "DuelEnd"
    OBVIOUS
  <2>1. \E s \in Seats : ~Present(s)
    BY <1>8
  <2>2. core.ended \/ \E j \in DOMAIN queue : queue[j].type = "DuelEnd"
    BY <1>0, <2>1 DEF Starts
  <2> QED
    BY <1>6, <1>8, <2>2
<1>11. \A i \in DOMAIN queue' : queue'[i].type = "DuelStart" =>
         Dealt' \/ core'.ended \/ \E j \in DOMAIN queue' : j < i /\ queue'[j].type = "DuelEnd"
  BY <1>6, <1>7, <1>8, <1>9
<1> QED
  BY <1>10, <1>11 DEF Starts

\* The start after a handler.
LEMMA StartsActor ==
  ASSUME IInv, Actor
  PROVE  Starts'
<1>0. TypeOK /\ Mailbox /\ Stages /\ Starts /\ queue # <<>> /\ running
  BY DEF IInv, Actor, Refused, Receive, ReceiveFrom, OnHandResult, OnTpResult, OnFirstShuffle,
         OnDuelInit, OnDuelStart, OnEvolveEnded, OnEvolveSelect, OnEvolveRetry, OnEvolveWin, Evolving,
         OnResponse, OnTimeConfirm, OnSurrender, OnLeaveGame, OnDuelEnd, OnGenerateReplay,
         OnJudgeContinueMatch, OnMatchEnd, OnTerminate, OnTimerTick, OnTimeout
<1>r. /\ Request \in Requests /\ MessageOK(Request)
      /\ Request.type \in CtosTypes => Request.from \in Seats /\ Present(Request.from)
      /\ "from" \in DOMAIN Request => Request.type \in CtosTypes
      /\ Request.type = "Timeout" => Request.player \in Seats
  BY <1>0, RequestTyped, HandledInStage, RequestFields
<1>w. ASSUME NEW i \in DOMAIN queue, queue[i].type = "DuelStart"
      PROVE  stage = "Dueling" /\ ~core.started
  <2>1. queue[i] \in Requests /\ Waits(queue[i])
    BY <1>0 DEF TypeOK, Waits
  <2> QED
    BY <1>0, <1>w, <2>1 DEF Mailbox, MessageOK, StartTypes
<1>e. <<>> \in Seq(Requests) /\ \A i \in DOMAIN <<>> : <<>>[i].type # "DuelStart"
  BY Queues
<1>o. ASSUME NEW r \in Requests, r.type # "DuelStart"
      PROVE  <<r>> \in Seq(Requests) /\ \A i \in DOMAIN <<r>> : <<r>>[i].type # "DuelStart"
  BY <1>o, Queues
<1>b. Break => Starts'
  BY DEF Break, Starts
<1>k. ASSUME NEW more \in Seq(Requests), Done(more), Request.type # "DuelEnd",
             \A i \in DOMAIN more : more[i].type # "DuelStart",
             \A s \in Seats : Present(s)' = Present(s),
             UNCHANGED <<core, first_attack_team>>
      PROVE  Starts'
  BY <1>0, <1>k, StartsSame
<1>ch. ASSUME NEW more \in Seq(Requests), Chain(more), Request.type # "DuelEnd",
              \A i \in DOMAIN more : more[i].type # "DuelStart"
       PROVE  Starts'
  BY <1>ch, <1>k DEF Chain, duel, Present
<1>i. Ignored /\ Request.type # "DuelEnd" => Starts'
  BY <1>e, <1>ch DEF Ignored
<1>1. CASE Refused
  BY <1>1, <1>e, <1>k, <1>r DEF Refused, CtosTypes, duel, Present
<1>2. CASE OnHandResult
  <2>1. /\ \A s \in Seats : Present(s)' = Present(s)
        /\ Done(<<>>) /\ UNCHANGED <<core, first_attack_team>>
    BY <1>2, HandGame
  <2> QED
    BY <1>2, <1>e, <1>k, <2>1 DEF OnHandResult, ReceiveFrom, Receive
<1>3. CASE OnTpResult
  <2>1. /\ Request.type = "TpResult" /\ UNCHANGED <<core, players>>
        /\ Done(<<Ex("FirstShuffle"), Ex("DuelInit")>>)
    BY <1>3 DEF OnTpResult, ReceiveFrom, Receive
  <2>2. stage = "Firstgo"
    BY <1>r, <2>1 DEF MessageOK
  <2>3. ~(\E i \in DOMAIN queue : queue[i].type = "DuelStart")
    BY <1>w, <2>2
  <2>4. PICK a \in Requests, b \in Requests : a = Ex("FirstShuffle") /\ b = Ex("DuelInit")
    BY RequestsTyped
  <2>5. a.type # "DuelStart" /\ b.type # "DuelStart"
    BY <2>4 DEF Ex
  <2>6. /\ <<a, b>> \in Seq(Requests) /\ Done(<<a, b>>)
        /\ \A i \in DOMAIN <<a, b>> : <<a, b>>[i].type # "DuelStart"
    BY <2>1, <2>4, <2>5, Queues
  <2>7. \A s \in Seats : Present(s)' = Present(s)
    BY <2>1 DEF Present
  <2> QED
    BY <1>0, <2>1, <2>3, <2>6, <2>7, StartsKept
<1>4. CASE OnFirstShuffle
  BY <1>4, <1>i DEF OnFirstShuffle, Receive
<1>5. CASE OnDuelInit
  BY <1>5, StartsDuelInit
<1>6. CASE OnDuelStart
  <2>1. /\ Request.type = "DuelStart" /\ Done(<<Ex("Evolve")>>)
        /\ UNCHANGED <<players, first_attack_team>>
        /\ core' = [core EXCEPT !.started = ~core.ended]
    BY <1>6 DEF OnDuelStart, Receive
  <2>2. core'.ended = core.ended /\ core'.table = core.table /\ core'.tag = core.tag
    BY <1>0, <2>1 DEF TypeOK
  <2>3. PICK r \in Requests : r = Ex("Evolve")
    BY RequestsTyped
  <2>4. Done(<<r>>) /\ r.type # "DuelStart"
    BY <2>1, <2>3 DEF Ex
  <2>5. \A s \in Seats : Present(s)' = Present(s)
    BY <2>1 DEF Present
  <2> QED
    BY <1>0, <1>o, <2>1, <2>2, <2>4, <2>5, StartsSame
<1>7. CASE OnEvolveEnded
  BY <1>7, <1>i DEF OnEvolveEnded, Receive
<1>8. CASE OnEvolveSelect
  <2>1. PICK engine \in {core, Turned(core)}, current \in Seats \cup {None} :
          /\ core' = [engine EXCEPT !.input = FALSE]
          /\ \E p \in CorePlayers : Waiting(ToSeat(p, first_attack_team, current))
    BY <1>8 DEF OnEvolveSelect
  <2>2. core'.ended = core.ended
    BY <1>0, <2>1, RanTyped DEF TypeOK
  <2>3. PICK p \in CorePlayers : Waiting(ToSeat(p, first_attack_team, current))
    BY <2>1
  <2>4. ToSeat(p, first_attack_team, current) \in Seats \cup {None}
    BY <1>0, TranslationTyped DEF TypeOK
  <2>5. \A s \in Seats : Present(s)' = Present(s)
    BY <1>0, <2>3, <2>4, WaitingKeeps
  <2>6. Request.type = "Evolve" /\ core.started /\ Done(<<>>)
    BY <1>8 DEF OnEvolveSelect, Evolving, Receive
  <2>7. ~(\E i \in DOMAIN queue : queue[i].type = "DuelStart")
    BY <1>w, <2>6
  <2> QED
    BY <1>0, <1>e, <2>2, <2>5, <2>6, <2>7, StartsKept
<1>9. CASE OnEvolveRetry
  <2>1. /\ core'.ended = core.ended /\ core'.table = core.table /\ core'.tag = core.tag
        /\ Request.type = "Evolve" /\ Done(<<>>) /\ first_attack_team' = first_attack_team
    BY <1>0, <1>9 DEF OnEvolveRetry, TypeOK, Evolving, Receive
  <2>2. \A s \in Seats : Present(s)' = Present(s)
    <3>1. CASE UNCHANGED players
      BY <3>1 DEF Present
    <3>2. CASE \E p \in CorePlayers : Waiting(ToSeat(p, first_attack_team, current_turn_player))
      <4>1. PICK p \in CorePlayers : Waiting(ToSeat(p, first_attack_team, current_turn_player))
        BY <3>2
      <4>2. ToSeat(p, first_attack_team, current_turn_player) \in Seats \cup {None}
        BY <1>0, TranslationTyped DEF TypeOK
      <4> QED
        BY <1>0, <4>1, <4>2, WaitingKeeps
    <3> QED
      BY <1>9, <3>1, <3>2 DEF OnEvolveRetry
  <2> QED
    BY <1>0, <1>e, <2>1, <2>2, StartsSame
<1>10. CASE OnEvolveWin
  <2>1. PICK engine \in {core, Turned(core)} : core' = [engine EXCEPT !.input = FALSE]
    BY <1>10 DEF OnEvolveWin
  <2>2. core'.ended = core.ended
    BY <1>0, <2>1, TranslationTyped, RanTyped DEF TypeOK
  <2>3. /\ Request.type = "Evolve" /\ core.started /\ UNCHANGED players
        /\ \E winner \in CorePlayers \cup {None} : Done(<<DuelEnd(winner, "Win")>>)
    BY <1>10 DEF OnEvolveWin, Evolving, Receive
  <2>4. PICK winner \in CorePlayers \cup {None} : Done(<<DuelEnd(winner, "Win")>>)
    BY <2>3
  <2>5. PICK r \in Requests : r = DuelEnd(winner, "Win")
    BY RequestsTyped
  <2>6. Done(<<r>>) /\ r.type # "DuelStart"
    BY <2>4, <2>5 DEF DuelEnd
  <2>7. ~(\E i \in DOMAIN queue : queue[i].type = "DuelStart")
    BY <1>w, <2>3
  <2>8. \A s \in Seats : Present(s)' = Present(s)
    BY <2>3 DEF Present
  <2> QED
    BY <1>0, <1>o, <2>2, <2>3, <2>6, <2>7, <2>8, StartsKept
<1>11. CASE OnResponse
  <2>1. Request.type = "Response"
    BY <1>11 DEF OnResponse, ReceiveFrom, Receive
  <2>2. CASE Ignored
    BY <1>i, <2>1, <2>2
  <2>3. CASE ~Ignored
    <3>1. /\ core' = [core EXCEPT !.input = TRUE] /\ players' = Closed(Request.from)
          /\ Done(<<Ex("Evolve")>>) /\ first_attack_team' = first_attack_team
      BY <1>11, <2>3 DEF OnResponse
    <3>2. core'.ended = core.ended /\ core'.table = core.table /\ core'.tag = core.tag
      BY <1>0, <3>1 DEF TypeOK
    <3>3. \A s \in Seats : Present(s)' = Present(s)
      BY <1>0, <3>1 DEF Closed, Present, TypeOK
    <3>4. PICK r \in Requests : r = Ex("Evolve")
      BY RequestsTyped
    <3>5. Done(<<r>>) /\ r.type # "DuelStart"
      BY <3>1, <3>4 DEF Ex
    <3> QED
      BY <1>0, <1>o, <2>1, <3>1, <3>2, <3>3, <3>5, StartsSame
  <2> QED
    BY <2>2, <2>3
<1>12. CASE OnTimeConfirm
  <2>1. Request.type = "TimeConfirm"
    BY <1>12 DEF OnTimeConfirm, ReceiveFrom, Receive
  <2>2. CASE Ignored
    BY <1>i, <2>1, <2>2
  <2>3. CASE ~Ignored
    <3>1. /\ players' = [players EXCEPT ![Request.from].state = "Response"]
          /\ Done(<<>>) /\ UNCHANGED <<core, first_attack_team>>
      BY <1>12, <2>3 DEF OnTimeConfirm
    <3>2. \A s \in Seats : Present(s)' = Present(s)
      BY <1>0, <3>1 DEF Present, TypeOK
    <3> QED
      BY <1>e, <1>k, <2>1, <3>1, <3>2
  <2> QED
    BY <2>2, <2>3
<1>13. CASE OnSurrender
  <2>1. Request.type = "Surrender" /\ Request.from \in Seats
    BY <1>13, <1>r DEF OnSurrender, ReceiveFrom, Receive, CtosTypes
  <2>2. CASE Ignored
    BY <1>i, <2>1, <2>2
  <2>3. CASE ~Ignored
    <3>1. /\ UNCHANGED <<core, first_attack_team, players>>
          /\ Done(<<>>) \/ Done(<<Lost(Request.from, "Surrender")>>)
      BY <1>13, <2>3 DEF OnSurrender
    <3>2. PICK r \in Requests : r = Lost(Request.from, "Surrender")
      BY <2>1, LostTyped
    <3>3. r.type # "DuelStart" /\ (Done(<<>>) \/ Done(<<r>>))
      BY <3>1, <3>2 DEF Lost, DuelEnd
    <3>4. \A s \in Seats : Present(s)' = Present(s)
      BY <3>1 DEF Present
    <3> QED
      BY <1>e, <1>k, <1>o, <2>1, <3>1, <3>3, <3>4
  <2> QED
    BY <2>2, <2>3
<1>14. CASE OnLeaveGame
  <2>1. Request.type = "LeaveGame" /\ Request.from \in Seats
    BY <1>14, <1>r DEF OnLeaveGame, ReceiveFrom, Receive, CtosTypes
  <2>2. CASE Break
    BY <1>b, <2>2
  <2>3. CASE ~Break
    <3>1. /\ UNCHANGED <<core, first_attack_team>>
          /\ Done(IF core.ended THEN <<>> ELSE <<Lost(Request.from, "Leave")>>)
      BY <1>14, <2>3 DEF OnLeaveGame
    <3>2. Dealt => Dealt'
      BY <3>1 DEF Dealt, Starter, FirstOr1
    <3>3. CASE core.ended
      BY <1>0, <1>e, <2>1, <3>1, <3>2, <3>3, StartsKept
    <3>4. CASE ~core.ended
      <4>1. PICK r \in Requests : r = Lost(Request.from, "Leave")
        BY <2>1, LostTyped
      <4>2. r.type = "DuelEnd" /\ Done(<<r>>)
        BY <3>1, <3>4, <4>1 DEF Lost, DuelEnd
      <4>3. <<r>> \in Seq(Requests) /\ \E i \in DOMAIN <<r>> : <<r>>[i].type = "DuelEnd"
        BY <4>2, Queues
      <4> QED
        BY <1>0, <1>o, <2>1, <3>1, <3>2, <4>2, <4>3, StartsKept
    <3> QED
      BY <3>3, <3>4
  <2> QED
    BY <2>2, <2>3
<1>15. CASE OnDuelEnd
  <2>1. core'.ended
    BY <1>0, <1>15 DEF OnDuelEnd, TypeOK
  <2> QED
    BY <2>1 DEF Starts
<1>16. CASE OnGenerateReplay
  BY <1>16, <1>i DEF OnGenerateReplay, Receive
<1>17. CASE OnJudgeContinueMatch
  <2>1. Request.type # "DuelEnd" /\ Chain(<<Ex("MatchEnd")>>)
    BY <1>17 DEF OnJudgeContinueMatch, Receive
  <2>2. PICK r \in Requests : r = Ex("MatchEnd")
    BY RequestsTyped
  <2>3. Chain(<<r>>) /\ r.type # "DuelStart"
    BY <2>1, <2>2 DEF Ex
  <2> QED
    BY <1>ch, <1>o, <2>1, <2>3
<1>18. CASE OnMatchEnd
  <2>1. Request.type # "DuelEnd" /\ (Chain(<<>>) \/ Chain(<<Ex("terminate")>>))
    BY <1>18 DEF OnMatchEnd, Receive
  <2>2. PICK r \in Requests : r = Ex("terminate")
    BY RequestsTyped
  <2>3. (Chain(<<>>) \/ Chain(<<r>>)) /\ r.type # "DuelStart"
    BY <2>1, <2>2 DEF Ex
  <2> QED
    BY <1>ch, <1>e, <1>o, <2>1, <2>3
<1>19. CASE OnTerminate
  BY <1>19, <1>b DEF OnTerminate
<1>20. CASE OnTimerTick
  <2>1. Request.type # "DuelEnd"
    BY <1>20 DEF OnTimerTick, Receive
  <2>2. CASE Ignored
    BY <1>i, <2>1, <2>2
  <2>3. CASE ~Ignored
    <3>1. last_response \in Seats /\ Chain(<<[type |-> "Timeout", player |-> last_response]>>)
      BY <1>0, <1>20, <2>3 DEF OnTimerTick, TypeOK
    <3>2. PICK r \in Requests : r = [type |-> "Timeout", player |-> last_response]
      BY <3>1, RequestsTyped
    <3>3. Chain(<<r>>) /\ r.type # "DuelStart"
      BY <3>1, <3>2
    <3> QED
      BY <1>ch, <1>o, <2>1, <3>3
  <2> QED
    BY <2>2, <2>3
<1>21. CASE OnTimeout
  <2>1. /\ Request.type = "Timeout" /\ Done(<<Lost(Request.player, "Timeout")>>)
        /\ UNCHANGED <<core, first_attack_team, players>>
    BY <1>21 DEF OnTimeout, Receive
  <2>2. PICK r \in Requests : r = Lost(Request.player, "Timeout")
    BY <1>r, <2>1, LostTyped
  <2>3. Done(<<r>>) /\ r.type # "DuelStart"
    BY <2>1, <2>2 DEF Lost, DuelEnd
  <2>4. \A s \in Seats : Present(s)' = Present(s)
    BY <2>1 DEF Present
  <2> QED
    BY <1>k, <1>o, <2>1, <2>3, <2>4
<1> QED
  BY <1>1, <1>2, <1>3, <1>4, <1>5, <1>6, <1>7, <1>8, <1>9, <1>10, <1>11, <1>12, <1>13, <1>14, <1>15,
     <1>16, <1>17, <1>18, <1>19, <1>20, <1>21 DEF Actor

\* The start after a client's step or a tick.
LEMMA StartsOutside ==
  ASSUME IInv, TimerTicks \/ \E s \in Seats : Client(s)
  PROVE  Starts'
<1>0. TypeOK /\ Starts
  BY DEF IInv
<1>1. UNCHANGED <<players, core, first_attack_team>>
  BY DEF TimerTicks, Client, ClientAnswers, ClientAnswersEarly, ClientSurrenders, ClientLeaves, duel
<1>2. \E r \in Requests : Send(r) /\ r.type # "DuelStart"
  <2>1. CASE TimerTicks
    <3>1. Send(Ex("timer_tick")) /\ Ex("timer_tick") \in Requests
      BY <2>1, RequestsTyped DEF TimerTicks, Post
    <3> QED
      BY <3>1 DEF Ex
  <2>2. ASSUME NEW s \in Seats, Client(s) PROVE \E type \in CtosTypes : Send(Ctos(type, s))
    <3>1. CASE ClientAnswers(s)
      <4>1. clients[s].owes \in CtosTypes
        BY <1>0, <3>1 DEF ClientAnswers, TypeOK, CtosTypes
      <4> QED
        BY <3>1, <4>1 DEF ClientAnswers
    <3>2. CASE ~ClientAnswers(s)
      BY <2>2, <3>2 DEF Client, ClientAnswersEarly, ClientSurrenders, ClientLeaves, Post, CtosTypes
    <3> QED
      BY <3>1, <3>2
  <2>3. ASSUME NEW s \in Seats, NEW type \in CtosTypes, Send(Ctos(type, s))
        PROVE  \E r \in Requests : Send(r) /\ r.type # "DuelStart"
    <3>1. Ctos(type, s) \in Requests /\ Ctos(type, s).type = type
      BY RequestsTyped DEF Ctos
    <3> QED
      BY <2>3, <3>1 DEF CtosTypes
  <2> QED
    BY <2>1, <2>2, <2>3
<1> QED
  BY <1>0, <1>1, <1>2, StartsSent

-----------------------------------------------------------------------------
(* The engine and the server in step.                                       *)

\* Seats are exchanged in pairs: the next to play is the one opposite the teammate, and
\* the one who sat opposite is opposite him.
LEMMA Rotations ==
  ASSUME NEW first \in Teams, NEW c \in Seats
  PROVE  /\ Teammate(c) \in Seats /\ Teammate(Teammate(c)) = c
         /\ Opponent(c, first) \in Seats
         /\ Opponent(Teammate(c), first) \in Seats
         /\ Team(Opponent(Teammate(c), first)) = OtherTeam(Team(c))
         /\ Teammate(Opponent(c, first)) = Opponent(Teammate(c), first)
         /\ Opponent(Opponent(Teammate(c), first), first) = c
<1>1. c \in {0, 1, 2, 3} /\ first \in {1, 2}
  BY DEF Seats, Teams
<1>2. CASE c = 0
  BY <1>1, <1>2 DEF Teammate, Opponent, Team, OtherTeam, Seats
<1>3. CASE c = 1
  BY <1>1, <1>3 DEF Teammate, Opponent, Team, OtherTeam, Seats
<1>4. CASE c = 2
  BY <1>1, <1>4 DEF Teammate, Opponent, Team, OtherTeam, Seats
<1>5. CASE c = 3
  BY <1>1, <1>5 DEF Teammate, Opponent, Team, OtherTeam, Seats
<1> QED
  BY <1>1, <1>2, <1>3, <1>4, <1>5

\* Known teams need no default.
LEMMA FirstKnown ==
  ASSUME NEW first \in Teams
  PROVE  /\ FirstOr1(first) = first
         /\ Leader(first) \in Seats /\ Team(Leader(first)) = first
  BY TagDuelAssumption DEF FirstOr1, Teams, Leader, Seats, Team

\* The decks on the table at the start are those of the leader of the first team and of
\* whoever the server takes for his opponent.
LEMMA StarterPlays ==
  ASSUME NEW first \in Teams, NEW p \in CorePlayers
  PROVE  ToSeat(p, first, Leader(first)) = Starter(p, first)
<1>1. /\ FirstOr1(first) = first /\ Leader(first) \in Seats /\ Leader(first) # None
      /\ Team(Leader(first)) = first
  BY FirstKnown, TagDuelAssumption DEF Seats
<1>2. CASE p = 0
  BY <1>1, <1>2 DEF ToSeat, Starter
<1>3. CASE p = 1
  <2>1. Opponent(Leader(first), first) = Teammate(Leader(OtherTeam(first)))
    BY DEF Opponent, Teammate, Leader, OtherTeam, Teams
  <2> QED
    BY <1>1, <1>3, <2>1 DEF ToSeat, Starter
<1> QED
  BY <1>2, <1>3 DEF CorePlayers

\* What of the state InStep looks at.
LEMMA InStepSame ==
  ASSUME InStep, UNCHANGED <<stage, first_attack_team, current_turn_player>>,
         core'.started = core.started, core'.turns = core.turns,
         core'.table = core.table, core'.tag = core.tag
  PROVE  InStep'
  BY DEF InStep, Parity

\* The table and the translation after a turn has started.
InPlay(table, tag, turns, first, current) ==
  /\ current \in Seats
  /\ turns <= 1 => current = Leader(first)
  /\ turns > 0 => ((Team(current) = first) <=> (turns % 2 = 1))
  /\ \A p \in CorePlayers : /\ table[p] = ToSeat(p, first, current)
                            /\ tag[p] = Teammate(table[p])

\* The rotation of the server and the exchange of the engine go together.
LEMMA RotationFollows ==
  ASSUME NEW first \in Teams, NEW current, NEW turns \in Nat,
         NEW table \in [CorePlayers -> Seats \cup {None}],
         NEW tag \in [CorePlayers -> Seats \cup {None}],
         InPlay(table, tag, turns, first, current), turns > 0
  PROVE  InPlay([table EXCEPT ![turns % 2] = tag[turns % 2]],
                [tag EXCEPT ![turns % 2] = table[turns % 2]], turns + 1, first,
                Rotated(turns % 2, first, current))
<1> DEFINE next == Opponent(Teammate(current), first)
           table2 == [table EXCEPT ![turns % 2] = tag[turns % 2]]
           tag2 == [tag EXCEPT ![turns % 2] = table[turns % 2]]
<1>1. /\ current \in Seats /\ current # None /\ first \in {1, 2}
      /\ (Team(current) = first) <=> (turns % 2 = 1)
      /\ \A p \in CorePlayers : /\ table[p] = ToSeat(p, first, current)
                                /\ tag[p] = Teammate(table[p])
  BY TagDuelAssumption DEF InPlay, Seats, Teams
<1>2. /\ next \in Seats /\ next # None /\ Team(next) = OtherTeam(Team(current))
      /\ Teammate(Opponent(current, first)) = next
      /\ Opponent(next, first) = current
      /\ Teammate(Teammate(current)) = current
      /\ Opponent(current, first) \in Seats
      /\ Teammate(next) = Opponent(current, first)
  <2>1. /\ next \in Seats /\ Team(next) = OtherTeam(Team(current))
        /\ Teammate(Opponent(current, first)) = next
        /\ Opponent(next, first) = current
        /\ Teammate(Teammate(current)) = current
        /\ Opponent(current, first) \in Seats
    BY <1>1, Rotations
  <2>2. Teammate(Teammate(Opponent(current, first))) = Opponent(current, first)
    BY <2>1, Rotations
  <2> QED
    BY <2>1, <2>2, TagDuelAssumption DEF Seats
<1>3. FirstOr1(first) = first /\ Team(Leader(first)) = first
  BY FirstKnown
<1>4. Team(current) \in {1, 2} /\ OtherTeam(Team(current)) = 3 - Team(current)
  BY DEF Team, OtherTeam
<1>5. Rotated(turns % 2, first, current) = next
  <2>1. ~(current = Leader(first) /\ turns % 2 = 0)
    BY <1>1, <1>3
  <2> QED
    BY <1>1, <1>3, <2>1 DEF Rotated
<1>6. /\ ToSeat(0, first, current) = IF Team(current) = first THEN current ELSE Opponent(current, first)
      /\ ToSeat(1, first, current) = IF Team(current) = first THEN Opponent(current, first) ELSE current
      /\ ToSeat(0, first, next) = IF Team(next) = first THEN next ELSE Opponent(next, first)
      /\ ToSeat(1, first, next) = IF Team(next) = first THEN Opponent(next, first) ELSE next
  BY <1>1, <1>2, <1>3 DEF ToSeat
<1> HIDE DEF next
<1>7. (Team(next) = first) <=> (turns % 2 = 0)
  BY <1>1, <1>2, <1>4
<1>8. ((Team(next) = first) <=> ((turns + 1) % 2 = 1)) /\ ~(turns + 1 <= 1)
  BY <1>7
<1>9. CASE turns % 2 = 0
  <2>1. /\ table2[0] = tag[0] /\ tag2[0] = table[0]
        /\ table2[1] = table[1] /\ tag2[1] = tag[1]
    BY <1>9 DEF CorePlayers
  <2>2. table[0] = Opponent(current, first) /\ table[1] = current
        /\ tag[0] = next /\ tag[1] = Teammate(current)
    BY <1>1, <1>2, <1>6, <1>9 DEF CorePlayers
  <2>3. ToSeat(0, first, next) = next /\ ToSeat(1, first, next) = current
    BY <1>2, <1>6, <1>7, <1>9
  <2>4. \A p \in CorePlayers : table2[p] = ToSeat(p, first, next) /\ tag2[p] = Teammate(table2[p])
    BY <1>2, <2>1, <2>2, <2>3 DEF CorePlayers
  <2> HIDE DEF table2, tag2
  <2>5. InPlay(table2, tag2, turns + 1, first, next)
    BY <1>2, <1>8, <2>4 DEF InPlay
  <2> QED
    BY <1>5, <2>5 DEF table2, tag2
<1>10. CASE turns % 2 = 1
  <2>1. /\ table2[1] = tag[1] /\ tag2[1] = table[1]
        /\ table2[0] = table[0] /\ tag2[0] = tag[0]
    BY <1>10 DEF CorePlayers
  <2>2. table[1] = Opponent(current, first) /\ table[0] = current
        /\ tag[1] = next /\ tag[0] = Teammate(current)
    BY <1>1, <1>2, <1>6, <1>10 DEF CorePlayers
  <2>3. ToSeat(1, first, next) = next /\ ToSeat(0, first, next) = current
    BY <1>2, <1>6, <1>7, <1>10
  <2>4. \A p \in CorePlayers : table2[p] = ToSeat(p, first, next) /\ tag2[p] = Teammate(table2[p])
    BY <1>2, <2>1, <2>2, <2>3 DEF CorePlayers
  <2> HIDE DEF table2, tag2
  <2>5. InPlay(table2, tag2, turns + 1, first, next)
    BY <1>2, <1>8, <2>4 DEF InPlay
  <2> QED
    BY <1>5, <2>5 DEF table2, tag2
<1> QED
  BY <1>9, <1>10

\* A run of the engine, with or without a new turn, keeps the two in step.
LEMMA RanInStep ==
  ASSUME IInv, core.started, NEW engine \in {core, Turned(core)},
         NEW current \in Seats \cup {None}, Ran(engine, current),
         core' = [engine EXCEPT !.input = FALSE], current_turn_player' = current,
         UNCHANGED <<stage, first_attack_team>>
  PROVE  InStep'
<1>0. /\ TypeOK /\ stage = "Dueling" /\ first_attack_team \in Teams
      /\ core.turns \in Nat
      /\ core.table \in [CorePlayers -> Seats \cup {None}]
      /\ core.tag \in [CorePlayers -> Seats \cup {None}]
  BY DEF IInv, Stages, TypeOK
<1>1. InPlay(core.table, core.tag, core.turns, first_attack_team, current_turn_player)
  BY DEF IInv, InStep, Parity, InPlay
<1>2. /\ core'.started /\ core'.table = engine.table /\ core'.tag = engine.tag
      /\ core'.turns = engine.turns
  <2>1. engine = [core EXCEPT !.turns = engine.turns, !.table = engine.table, !.tag = engine.tag]
    BY <1>0, RanTyped
  <2>2. core'.started = core.started
    BY <1>0, <2>1 DEF TypeOK
  <2>3. core'.table = engine.table /\ core'.tag = engine.tag /\ core'.turns = engine.turns
    BY <1>0, <2>1 DEF TypeOK
  <2> QED
    BY <2>2, <2>3
<1>3. InPlay(engine.table, engine.tag, engine.turns, first_attack_team, current)
  <2>1. CASE engine = core /\ current = current_turn_player
    BY <1>1, <2>1
  <2>2. CASE /\ engine = Turned(core)
             /\ current = Rotated(TurnOf(core), first_attack_team, current_turn_player)
    <3>1. CASE core.turns = 0
      <4>1. engine.table = core.table /\ engine.tag = core.tag /\ engine.turns = 1
        BY <1>0, <2>2, <3>1 DEF Turned, TypeOK
      <4>2. current = current_turn_player /\ current_turn_player = Leader(first_attack_team)
        BY <1>0, <1>1, <2>2, <3>1, FirstKnown DEF Rotated, TurnOf, InPlay
      <4>3. Team(current) = first_attack_team
        BY <1>0, <4>2, FirstKnown
      <4> QED
        BY <1>1, <4>1, <4>2, <4>3 DEF InPlay
    <3>2. CASE core.turns > 0
      <4>1. /\ engine.table = [core.table EXCEPT ![TurnOf(core)] = core.tag[TurnOf(core)]]
            /\ engine.tag = [core.tag EXCEPT ![TurnOf(core)] = core.table[TurnOf(core)]]
            /\ engine.turns = core.turns + 1
        BY <1>0, <2>2, <3>2 DEF Turned, TypeOK
      <4>2. TurnOf(core) = core.turns % 2
        BY DEF TurnOf
      <4> QED
        BY <1>0, <1>1, <2>2, <3>2, <4>1, <4>2, RotationFollows
    <3> QED
      BY <1>0, <3>1, <3>2
  <2> QED
    BY <2>1, <2>2 DEF Ran
<1>4. InPlay(core'.table, core'.tag, core'.turns, first_attack_team', current_turn_player')
  BY <1>2, <1>3
<1> QED
  BY <1>0, <1>2, <1>4 DEF InPlay, InStep, Parity

\* The engine and the server after a handler.
LEMMA InStepActor ==
  ASSUME IInv, Actor
  PROVE  InStep'
<1>0. TypeOK /\ Mailbox /\ Stages /\ Starts /\ InStep /\ queue # <<>>
  BY DEF IInv, Actor, Refused, Receive, ReceiveFrom, OnHandResult, OnTpResult, OnFirstShuffle,
         OnDuelInit, OnDuelStart, OnEvolveEnded, OnEvolveSelect, OnEvolveRetry, OnEvolveWin, Evolving,
         OnResponse, OnTimeConfirm, OnSurrender, OnLeaveGame, OnDuelEnd, OnGenerateReplay,
         OnJudgeContinueMatch, OnMatchEnd, OnTerminate, OnTimerTick, OnTimeout
<1>r. Request \in Requests /\ MessageOK(Request) /\ Request = queue[1] /\ 1 \in DOMAIN queue
  BY <1>0, RequestTyped, HandledInStage
<1>u. UNCHANGED <<duel, clients>> => InStep'
  BY <1>0, InStepSame DEF duel
<1>ch. \A more : Chain(more) => InStep'
  BY <1>u DEF Chain
<1>i. Ignored => InStep'
  BY <1>ch DEF Ignored
<1>b. Break => InStep'
  BY <1>u DEF Break
<1>1. CASE Refused
  BY <1>1, <1>u DEF Refused
<1>2. CASE OnHandResult
  <2>1. stage = "Finger" /\ stage' \in {"Finger", "Firstgo"} /\ core' = core
    BY <1>2, HandGame
  <2> QED
    BY <1>0, <2>1 DEF InStep, Stages
<1>3. CASE OnTpResult
  <2>1. /\ stage = "Firstgo" /\ stage' = "Dueling" /\ core' = core
        /\ current_turn_player' = Leader(first_attack_team')
    BY <1>3, <1>r DEF OnTpResult, ReceiveFrom, Receive, MessageOK
  <2> QED
    BY <1>0, <2>1 DEF InStep, Stages
<1>4. CASE OnFirstShuffle
  BY <1>4, <1>i DEF OnFirstShuffle
<1>5. CASE OnDuelInit
  <2>1. stage = "Dueling" /\ ~core.started
    BY <1>5, <1>r DEF OnDuelInit, Receive, MessageOK, StartTypes
  <2>2. /\ core'.started = core.started /\ core'.turns = core.turns
        /\ UNCHANGED <<stage, first_attack_team, current_turn_player>>
    BY <1>0, <1>5 DEF OnDuelInit, TypeOK
  <2> QED
    BY <1>0, <2>1, <2>2 DEF InStep
<1>6. CASE OnDuelStart
  <2>1. stage = "Dueling" /\ ~core.started /\ Request.type = "DuelStart"
    BY <1>6, <1>r DEF OnDuelStart, Receive, MessageOK, StartTypes
  <2>2. /\ core'.started = ~core.ended /\ core'.turns = core.turns
        /\ core'.table = core.table /\ core'.tag = core.tag
        /\ UNCHANGED <<stage, first_attack_team, current_turn_player>>
    BY <1>0, <1>6 DEF OnDuelStart, TypeOK
  <2>3. core.turns = 0 /\ current_turn_player = Leader(first_attack_team)
    BY <1>0, <2>1 DEF InStep
  <2>4. first_attack_team \in Teams
    BY <1>0, <2>1 DEF Stages
  <2>5. CASE core.ended
    BY <1>0, <2>1, <2>2, <2>3, <2>5 DEF InStep
  <2>6. CASE ~core.ended
    <3>1. DOMAIN queue \subseteq Nat \ {0}
      BY <1>0 DEF TypeOK
    <3>2. Dealt
      BY <1>0, <1>r, <2>1, <2>6, <3>1 DEF Starts
    <3>3. \A p \in CorePlayers :
            /\ core.table[p] = ToSeat(p, first_attack_team, current_turn_player)
            /\ core.tag[p] = Teammate(core.table[p])
      BY <2>3, <2>4, <3>2, StarterPlays DEF Dealt
    <3>4. Parity
      BY <2>3, <2>4, FirstKnown DEF Parity
    <3>5. Parity' /\ \A p \in CorePlayers :
            /\ core'.table[p] = ToSeat(p, first_attack_team', current_turn_player')
            /\ core'.tag[p] = Teammate(core'.table[p])
      BY <2>2, <3>3, <3>4 DEF Parity
    <3> QED
      BY <2>1, <2>2, <2>6, <3>5 DEF InStep
  <2> QED
    BY <2>5, <2>6
<1>7. CASE OnEvolveEnded
  BY <1>7, <1>i DEF OnEvolveEnded
<1>8. CASE OnEvolveSelect
  <2>1. PICK engine \in {core, Turned(core)}, current \in Seats \cup {None} :
          /\ Ran(engine, current)
          /\ current_turn_player' = current
          /\ core' = [engine EXCEPT !.input = FALSE]
    BY <1>8 DEF OnEvolveSelect
  <2> QED
    BY <1>8, <2>1, RanInStep DEF OnEvolveSelect, Evolving
<1>9. CASE OnEvolveRetry
  <2>1. /\ core'.started = core.started /\ core'.turns = core.turns
        /\ core'.table = core.table /\ core'.tag = core.tag
        /\ UNCHANGED <<stage, first_attack_team, current_turn_player>>
    BY <1>0, <1>9 DEF OnEvolveRetry, TypeOK
  <2> QED
    BY <1>0, <2>1, InStepSame
<1>10. CASE OnEvolveWin
  <2>1. PICK engine \in {core, Turned(core)}, current \in Seats \cup {None} :
          /\ Ran(engine, current)
          /\ current_turn_player' = current
          /\ core' = [engine EXCEPT !.input = FALSE]
    BY <1>10 DEF OnEvolveWin
  <2> QED
    BY <1>10, <2>1, RanInStep DEF OnEvolveWin, Evolving
<1>11. CASE OnResponse
  <2>1. CASE Ignored
    BY <1>i, <2>1
  <2>2. CASE ~Ignored
    <3>1. /\ core'.started = core.started /\ core'.turns = core.turns
          /\ core'.table = core.table /\ core'.tag = core.tag
          /\ UNCHANGED <<stage, first_attack_team, current_turn_player>>
      BY <1>0, <1>11, <2>2 DEF OnResponse, TypeOK
    <3> QED
      BY <1>0, <3>1, InStepSame
  <2> QED
    BY <2>1, <2>2
<1>12. CASE OnTimeConfirm
  BY <1>0, <1>12, <1>i, InStepSame DEF OnTimeConfirm
<1>13. CASE OnSurrender
  BY <1>0, <1>13, <1>i, InStepSame DEF OnSurrender
<1>14. CASE OnLeaveGame
  BY <1>0, <1>14, <1>b, InStepSame DEF OnLeaveGame
<1>15. CASE OnDuelEnd
  <2>1. /\ core'.started = core.started /\ core'.turns = core.turns
        /\ core'.table = core.table /\ core'.tag = core.tag
        /\ UNCHANGED <<stage, first_attack_team, current_turn_player>>
    BY <1>0, <1>15 DEF OnDuelEnd, TypeOK
  <2> QED
    BY <1>0, <2>1, InStepSame
<1>16. CASE OnGenerateReplay
  BY <1>16, <1>i DEF OnGenerateReplay
<1>17. CASE OnJudgeContinueMatch
  BY <1>17, <1>ch DEF OnJudgeContinueMatch
<1>18. CASE OnMatchEnd
  BY <1>18, <1>ch DEF OnMatchEnd
<1>19. CASE OnTerminate
  BY <1>19, <1>b DEF OnTerminate
<1>20. CASE OnTimerTick
  BY <1>20, <1>i, <1>ch DEF OnTimerTick
<1>21. CASE OnTimeout
  BY <1>0, <1>21, InStepSame DEF OnTimeout
<1> QED
  BY <1>1, <1>2, <1>3, <1>4, <1>5, <1>6, <1>7, <1>8, <1>9, <1>10, <1>11, <1>12, <1>13, <1>14, <1>15,
     <1>16, <1>17, <1>18, <1>19, <1>20, <1>21 DEF Actor

\* The engine and the server after a client's step or a tick.
LEMMA InStepOutside ==
  ASSUME IInv, TimerTicks \/ \E s \in Seats : Client(s)
  PROVE  InStep'
<1>1. UNCHANGED duel
  BY DEF TimerTicks, Client, ClientAnswers, ClientAnswersEarly, ClientSurrenders, ClientLeaves
<1> QED
  BY <1>1, InStepSame DEF IInv, duel

-----------------------------------------------------------------------------
(* The invariant.                                                           *)

\* It holds when the lobby has ended.
LEMMA InvariantInit == Init => IInv
<1> SUFFICES ASSUME Init PROVE IInv
  OBVIOUS
<1>1. TypeOK
  BY TypeInit
<1>2. Mailbox /\ Starts
  <2>1. DOMAIN queue = {} /\ \A s \in Seats : Present(s)
    BY DEF Init, Present
  <2>2. Mailbox
    BY <2>1 DEF Mailbox, Waits
  <2>3. Starts
    BY <2>1 DEF Starts
  <2> QED
    BY <2>2, <2>3
<1>3. Stages
  <2>1. Leaders \subseteq Seats
    BY DEF Leaders, Leader, Seats, Teams
  <2>2. \A s \in Seats : /\ Present(s)
                         /\ clients[s].owes \in {"HandResult", "TpResult"} => s \in Leaders
                         /\ clients[s].owes # "TpResult"
                         /\ ~clients[s].dueling /\ ~surrender[s]
                         /\ s \in Leaders => players[s].state = "HandResult"
    BY DEF Init, Present
  <2>3. stage = "Finger" /\ ~core.started
    BY DEF Init, NewCore
  <2> QED
    BY <2>1, <2>2, <2>3 DEF Stages
<1>4. InStep
  BY DEF Init, InStep, NewCore
<1> QED
  BY <1>1, <1>2, <1>3, <1>4 DEF IInv

\* It is kept by every step.
LEMMA InvariantKept == IInv /\ [Next]_vars => IInv'
<1> SUFFICES ASSUME IInv, [Next]_vars PROVE IInv'
  OBVIOUS
<1>1. CASE Actor
  <2>1. TypeOK'
    BY <1>1, TypeActor DEF IInv
  <2> QED
    BY <1>1, <2>1, MailboxActor, StagesActor, StartsActor, InStepActor DEF IInv
<1>2. CASE TimerTicks \/ \E s \in Seats : Client(s)
  <2>1. TypeOK'
    BY <1>2, TypeOutside DEF IInv
  <2> QED
    BY <1>2, <2>1, MailboxOutside, StagesOutside, StartsOutside, InStepOutside DEF IInv
<1>3. CASE UNCHANGED vars
  <2>1. UNCHANGED <<queue, running, stage, players, first_attack_team, current_turn_player,
                    surrender, core, clients>> /\ TypeOK'
    BY <1>3 DEF vars, duel, IInv, TypeOK
  <2>2. Mailbox'
    BY <2>1 DEF IInv, Mailbox, Waits, MessageOK, Present, GaveUp
  <2>3. Stages'
    BY <2>1, StagesSame DEF IInv
  <2>4. Starts'
    BY <2>1 DEF IInv, Starts, Present, Dealt, Starter, FirstOr1
  <2>5. InStep'
    BY <2>1, InStepSame DEF IInv
  <2> QED
    BY <2>1, <2>2, <2>3, <2>4, <2>5 DEF IInv
<1> QED
  BY <1>1, <1>2, <1>3 DEF Next

\* It always holds.
LEMMA Invariant == Spec => []IInv
  BY InvariantInit, InvariantKept, PTL DEF Spec

\* The server and the engine always agree who plays: in every turn of every tag duel a
\* core player translates to the seat whose deck the engine has in play
\* (rotate_turn_player follows the engine's exchange of partners).
THEOREM DeckInPlayAlways == Spec => []DeckInPlay
<1>1. IInv => DeckInPlay
  BY DEF IInv, InStep, DeckInPlay
<1> QED
  BY <1>1, Invariant, PTL

\* No member of a team ever gives the duel up alone: a DuelEnd by surrender names the
\* other team as the winner, and both of the losers have surrendered or left.
THEOREM SurrenderMutualAlways == Spec => []SurrenderIsMutual
<1>1. IInv => SurrenderIsMutual
  <2> SUFFICES ASSUME IInv, NEW i \in DOMAIN queue,
                      queue[i].type = "DuelEnd", queue[i].reason = "Surrender"
               PROVE  \E team \in Teams :
                        /\ queue[i].winner = TeamToCore(OtherTeam(team), first_attack_team)
                        /\ \A s \in Member(team) : ~clients[s].online \/ clients[s].gaveUp
    BY DEF SurrenderIsMutual
  <2>1. queue[i] \in Requests /\ Waits(queue[i])
    BY DEF IInv, TypeOK, Waits
  <2> QED
    BY <2>1 DEF IInv, Mailbox, MessageOK, GaveUp
<1> QED
  BY <1>1, Invariant, PTL

-----------------------------------------------------------------------------
(* The questions: the engine has one answer outstanding, and the players and *)
(* the room do not wait for one another.                                     *)

\* What makes the engine run, now or in a moment.
Runs == {"DuelInit", "DuelStart", "Evolve"}
Has(types) == \E r \in Requests : Waits(r) /\ r.type \in types
Gated(s) == players[s].state \in {"TimeConfirm", "Response"}
Plays(s) == \E p \in CorePlayers : s = core.table[p]
SingleRun == \A i, j \in DOMAIN queue : queue[i].type \in Runs /\ queue[j].type \in Runs => i = j

\* The engine is about to run, or one player whose deck is in play has been asked.
OneRun ==
  /\ SingleRun
  /\ Has(Runs) => stage = "Dueling" /\ \A s \in Seats : ~Gated(s)
  /\ Has({"Evolve"}) => core.started \/ core.ended
  /\ \A s \in Seats : Gated(s) => /\ stage = "Dueling" /\ core.started /\ Plays(s)
                                  /\ players[s].state = "TimeConfirm" => Timed
  /\ \A s, t \in Seats : Gated(s) /\ Gated(t) => s = t
  /\ \A s \in Seats, prompt \in {"TimeConfirm", "Response"} :
       clients[s].owes = prompt \/ Waits(Ctos(prompt, s)) => players[s].state # "Any"

\* A client confirms each question once, while its gate waits for that.
Confirmed ==
  /\ \A s \in Seats :
       /\ clients[s].owes = "TimeConfirm" \/ Waits(Ctos("TimeConfirm", s)) =>
            players[s].state = "TimeConfirm"
       /\ clients[s].owes = "TimeConfirm" => ~Waits(Ctos("TimeConfirm", s))
       /\ ~clients[s].online => clients[s].owes = "None"
  /\ \A i, j \in DOMAIN queue : queue[i].type = "TimeConfirm" /\ queue[j] = queue[i] => i = j

\* The duel has been decided, or will be.
Ending == core.ended \/ Has({"DuelEnd"})
AllHere == \A s \in Seats : clients[s].online

\* The client owes an answer its gate lets through, or has sent it.
Pending(s, prompt) ==
  players[s].state = prompt /\ (clients[s].owes = prompt \/ Waits(Ctos(prompt, s)))

\* The client has confirmed the time limit and has answered behind it.
Follows(s) == \E i, j \in DOMAIN queue :
  i < j /\ queue[i] = Ctos("TimeConfirm", s) /\ queue[j] = Ctos("Response", s)

Confirming(s) ==
  /\ players[s].state = "TimeConfirm"
  /\ \/ clients[s].owes = "TimeConfirm"
     \/ Waits(Ctos("TimeConfirm", s)) /\ clients[s].owes = "Response"
     \/ Follows(s)

\* Somebody is asked for what is missing, or the engine is about to run.
Progress ==
  /\ stage = "Finger" => /\ \E s \in Leaders : ~players[s].hand
                         /\ \A s \in Leaders : players[s].hand \/ Pending(s, "HandResult")
  /\ stage = "Firstgo" => \E s \in Leaders : Pending(s, "TpResult")
  /\ stage = "Dueling" => Has(Runs) \/ \E s \in Seats : Confirming(s) \/ Pending(s, "Response")

\* The room goes on until it ends: a leaver is noticed, a decided duel ends the room, and
\* until then there is progress.
Alive ==
  /\ running => \A s \in Seats : Present(s) /\ ~clients[s].online => Waits(Ctos("LeaveGame", s))
  /\ running /\ TerminateWhenMatchEnd /\ core.ended =>
       Has({"JudgeContinueMatch", "MatchEnd", "terminate"})
  /\ core.input => core.started
  /\ running /\ ~Ending =>
       /\ \A s \in Seats : Gated(s) => last_response = s
       /\ core.input => Plays(last_response)
  /\ running /\ ~Ending /\ AllHere => Progress

-----------------------------------------------------------------------------
(* What a step does to the mailbox.                                         *)

\* What waits behind the request goes on waiting, in its order, and what is queued waits.
LEMMA QueueAfter ==
  ASSUME TypeOK, queue # <<>>, NEW more \in Seq(Requests), Done(more)
  PROVE  /\ \A r : Waits(r) /\ r # Request => Waits(r)'
         /\ \A r : Waits(r)' => Waits(r) \/ \E j \in DOMAIN more : r = more[j]
         /\ \A j \in DOMAIN more : Waits(more[j])'
         /\ \A s : Follows(s) /\ Request # Ctos("TimeConfirm", s) => Follows(s)'
         /\ \A s : Follows(s) => Waits(Ctos("Response", s))'
         /\ Waits(Request)
<1>1. /\ Len(queue) \in Nat /\ Len(queue) > 0 /\ queue' \in Seq(Requests)
      /\ Len(queue') = Len(queue) - 1 + Len(more)
      /\ \A i \in DOMAIN queue' :
           \/ i < Len(queue) /\ i + 1 \in DOMAIN queue /\ queue'[i] = queue[i + 1]
           \/ /\ i >= Len(queue) /\ i - Len(queue) + 1 \in DOMAIN more
              /\ queue'[i] = more[i - Len(queue) + 1]
  BY AfterDone
<1>2. /\ DOMAIN queue = 1..Len(queue) /\ DOMAIN queue' = 1..Len(queue')
      /\ DOMAIN more = 1..Len(more) /\ Len(more) \in Nat
  BY <1>1 DEF TypeOK
<1>3. Request = queue[1] /\ 1 \in DOMAIN queue
  BY RequestTyped
<1>4. \A i \in DOMAIN queue : i # 1 => i - 1 \in DOMAIN queue' /\ queue'[i - 1] = queue[i]
  <2> SUFFICES ASSUME NEW i \in DOMAIN queue, i # 1
               PROVE  i - 1 \in DOMAIN queue' /\ queue'[i - 1] = queue[i]
    OBVIOUS
  <2>1. i \in Nat /\ i > 1 /\ i <= Len(queue)
    BY <1>2
  <2>2. i - 1 \in DOMAIN queue' /\ i - 1 < Len(queue) /\ (i - 1) + 1 = i
    BY <1>1, <1>2, <2>1
  <2> QED
    BY <1>1, <2>2
<1>5. \A j \in DOMAIN more : /\ Len(queue) - 1 + j \in DOMAIN queue'
                             /\ queue'[Len(queue) - 1 + j] = more[j]
  <2> SUFFICES ASSUME NEW j \in DOMAIN more
               PROVE  /\ Len(queue) - 1 + j \in DOMAIN queue'
                      /\ queue'[Len(queue) - 1 + j] = more[j]
    OBVIOUS
  <2>1. Len(queue) - 1 + j \in DOMAIN queue' /\ Len(queue) - 1 + j >= Len(queue)
        /\ (Len(queue) - 1 + j) - Len(queue) + 1 = j
    BY <1>1, <1>2
  <2> QED
    BY <1>1, <2>1
<1>6. \A r : Waits(r) /\ r # Request => Waits(r)'
  BY <1>3, <1>4 DEF Waits
<1>7. \A r : Waits(r)' => Waits(r) \/ \E j \in DOMAIN more : r = more[j]
  BY <1>1 DEF Waits
<1>8. \A j \in DOMAIN more : Waits(more[j])'
  BY <1>5 DEF Waits
<1>9. ASSUME NEW s, Follows(s)
      PROVE  /\ Request # Ctos("TimeConfirm", s) => Follows(s)'
             /\ Waits(Ctos("Response", s))'
  <2>1. PICK i \in DOMAIN queue, j \in DOMAIN queue :
          i < j /\ queue[i] = Ctos("TimeConfirm", s) /\ queue[j] = Ctos("Response", s)
    BY <1>9 DEF Follows
  <2>2. j # 1 /\ j - 1 \in DOMAIN queue' /\ queue'[j - 1] = queue[j]
    BY <1>2, <1>4, <2>1
  <2>3. i # 1 => i - 1 \in DOMAIN queue' /\ queue'[i - 1] = queue[i] /\ i - 1 < j - 1
    BY <1>2, <1>4, <2>1
  <2> QED
    BY <1>3, <2>1, <2>2, <2>3 DEF Follows, Waits
<1> QED
  BY <1>3, <1>6, <1>7, <1>8, <1>9 DEF Waits

\* The engine's runs among them: none is added while another waits.
LEMMA RunsAfter ==
  ASSUME TypeOK, queue # <<>>, SingleRun, NEW more \in Seq(Requests), Done(more),
         \A i, j \in DOMAIN more : more[i].type \in Runs /\ more[j].type \in Runs => i = j,
         \/ Request.type \in Runs
         \/ ~Has(Runs)
         \/ \A i \in DOMAIN more : more[i].type \notin Runs
  PROVE  /\ SingleRun'
         /\ Request.type \in Runs =>
              (Has(Runs)' => \E i \in DOMAIN more : more[i].type \in Runs)
<1>1. /\ Len(queue) \in Nat /\ Len(queue) > 0 /\ queue' \in Seq(Requests)
      /\ \A i \in DOMAIN queue' :
           \/ i < Len(queue) /\ i + 1 \in DOMAIN queue /\ queue'[i] = queue[i + 1]
           \/ /\ i >= Len(queue) /\ i - Len(queue) + 1 \in DOMAIN more
              /\ queue'[i] = more[i - Len(queue) + 1]
  BY AfterDone
<1>2. /\ DOMAIN queue = 1..Len(queue) /\ DOMAIN queue' = 1..Len(queue')
      /\ DOMAIN more = 1..Len(more) /\ Len(more) \in Nat /\ Len(queue') \in Nat
  BY <1>1 DEF TypeOK
<1>3. Request = queue[1] /\ 1 \in DOMAIN queue
  BY RequestTyped
<1>4. Request.type \in Runs => \A i \in DOMAIN queue : i # 1 => queue[i].type \notin Runs
  BY <1>3 DEF SingleRun
<1>5. ~Has(Runs) => \A i \in DOMAIN queue : queue[i].type \notin Runs
  BY DEF Has, Waits, TypeOK
<1>6. ASSUME NEW i \in DOMAIN queue', NEW j \in DOMAIN queue',
             queue'[i].type \in Runs, queue'[j].type \in Runs
      PROVE  i = j
  <2>1. CASE i < Len(queue) /\ j < Len(queue)
    <3>1. /\ i + 1 \in DOMAIN queue /\ queue'[i] = queue[i + 1]
          /\ j + 1 \in DOMAIN queue /\ queue'[j] = queue[j + 1]
      BY <1>1, <1>2, <2>1
    <3>2. i + 1 = j + 1
      BY <1>6, <3>1 DEF SingleRun
    <3> QED
      BY <1>2, <3>2
  <2>2. CASE ~(i < Len(queue)) /\ ~(j < Len(queue))
    <3>1. /\ i - Len(queue) + 1 \in DOMAIN more /\ queue'[i] = more[i - Len(queue) + 1]
          /\ j - Len(queue) + 1 \in DOMAIN more /\ queue'[j] = more[j - Len(queue) + 1]
      BY <1>1, <1>2, <2>2
    <3>2. i - Len(queue) + 1 = j - Len(queue) + 1
      BY <1>6, <3>1
    <3> QED
      BY <1>1, <1>2, <3>2
  <2>3. ASSUME NEW m \in DOMAIN queue', NEW n \in DOMAIN queue', m < Len(queue), ~(n < Len(queue)),
               queue'[m].type \in Runs, queue'[n].type \in Runs
        PROVE  FALSE
    <3>1. m + 1 \in DOMAIN queue /\ queue'[m] = queue[m + 1] /\ m + 1 # 1
      BY <1>1, <1>2, <2>3
    <3>2. PICK k \in DOMAIN more : queue'[n] = more[k]
      BY <1>1, <2>3
    <3> QED
      BY <1>4, <1>5, <2>3, <3>1, <3>2
  <2> QED
    BY <1>6, <2>1, <2>2, <2>3
<1>7. SingleRun'
  BY <1>6 DEF SingleRun
<1>8. ASSUME Request.type \in Runs, Has(Runs)'
      PROVE  \E i \in DOMAIN more : more[i].type \in Runs
  <2>1. PICK i \in DOMAIN queue' : queue'[i].type \in Runs
    BY <1>8 DEF Has, Waits
  <2>2. CASE i < Len(queue)
    <3>1. i + 1 \in DOMAIN queue /\ queue'[i] = queue[i + 1] /\ i + 1 # 1
      BY <1>1, <1>2, <2>2
    <3> QED
      BY <1>4, <1>8, <2>1, <3>1
  <2>3. CASE ~(i < Len(queue))
    BY <1>1, <2>1, <2>3
  <2> QED
    BY <2>2, <2>3
<1> QED
  BY <1>7, <1>8

\* A client adds to the end of the mailbox.
LEMMA QueueSent ==
  ASSUME TypeOK, NEW r \in Requests, Send(r)
  PROVE  /\ \A t : Waits(t)' <=> Waits(t) \/ t = r
         /\ \A s : Follows(s) => Follows(s)'
         /\ \A s : Waits(Ctos("TimeConfirm", s)) /\ r = Ctos("Response", s) => Follows(s)'
         /\ SingleRun /\ r.type \notin Runs => SingleRun'
         /\ running
<1>1. /\ running /\ queue' \in Seq(Requests) /\ Len(queue) \in Nat
      /\ \A i \in DOMAIN queue' : \/ i \in DOMAIN queue /\ queue'[i] = queue[i]
                                  \/ i = Len(queue) + 1 /\ queue'[i] = r
      /\ \A i \in DOMAIN queue : i \in DOMAIN queue' /\ i <= Len(queue) /\ queue'[i] = queue[i]
  BY AfterSend
<1>2. Len(queue) + 1 \in DOMAIN queue' /\ queue'[Len(queue) + 1] = r
  BY AppendProperties DEF Send, TypeOK
<1>3. \A t : Waits(t)' <=> Waits(t) \/ t = r
  BY <1>1, <1>2 DEF Waits
<1>4. \A s : Follows(s) => Follows(s)'
  BY <1>1 DEF Follows
<1>5. DOMAIN queue \subseteq Nat
  BY DEF TypeOK
<1>6. \A s : Waits(Ctos("TimeConfirm", s)) /\ r = Ctos("Response", s) => Follows(s)'
  <2> SUFFICES ASSUME NEW s, NEW i \in DOMAIN queue, queue[i] = Ctos("TimeConfirm", s),
                      r = Ctos("Response", s)
               PROVE  Follows(s)'
    BY DEF Waits
  <2>1. i < Len(queue) + 1 /\ i \in DOMAIN queue' /\ queue'[i] = queue[i]
    BY <1>1, <1>5
  <2> QED
    BY <1>2, <2>1 DEF Follows
<1>7. SingleRun /\ r.type \notin Runs => SingleRun'
  BY <1>1 DEF SingleRun
<1> QED
  BY <1>1, <1>3, <1>4, <1>6, <1>7

-----------------------------------------------------------------------------
(* What a handler has to respect.                                           *)

\* One engine's run or one question remains, if a handler asks nobody and runs nothing.
LEMMA OneRunKept ==
  ASSUME TypeOK, OneRun, queue # <<>>, NEW more \in Seq(Requests), Done(more),
         \A i \in DOMAIN more : more[i].type \notin Runs \cup {"TimeConfirm", "Response"},
         \/ stage' = stage /\ core'.started = core.started
         \/ ~Has(Runs) /\ \A s \in Seats : ~Gated(s),
         core.ended => core'.ended,
         \A s \in Seats : Gated(s)' =>
           /\ Gated(s) /\ core'.table = core.table
           /\ players'[s].state = "TimeConfirm" => players[s].state = "TimeConfirm",
         \A s \in Seats : players'[s].state = "Any" => players[s].state = "Any",
         \A s \in Seats, prompt \in {"TimeConfirm", "Response"} :
           clients'[s].owes = prompt => clients[s].owes = prompt
  PROVE  OneRun'
<1>1. \A r : Waits(r)' => Waits(r) \/ \E j \in DOMAIN more : r = more[j]
  BY QueueAfter
<1>2. SingleRun'
  BY RunsAfter DEF OneRun
<1>3. Has(Runs)' => Has(Runs)
  BY <1>1 DEF Has
<1>4. Has({"Evolve"})' => Has({"Evolve"})
  BY <1>1 DEF Has, Runs
<1>5. Has({"Evolve"}) => Has(Runs)
  BY DEF Has, Runs
<1>6. \A s \in Seats, prompt \in {"TimeConfirm", "Response"} :
        Waits(Ctos(prompt, s))' => Waits(Ctos(prompt, s))
  BY <1>1 DEF Ctos
<1>7. Has(Runs)' => stage' = "Dueling" /\ \A s \in Seats : ~Gated(s)'
  BY <1>3 DEF OneRun
<1>8. Has({"Evolve"})' => core'.started \/ core'.ended
  BY <1>4, <1>5 DEF OneRun
<1>9. \A s \in Seats : Gated(s)' =>
        /\ stage' = "Dueling" /\ core'.started /\ Plays(s)'
        /\ players'[s].state = "TimeConfirm" => Timed
  BY DEF OneRun, Plays
<1>10. \A s, t \in Seats : Gated(s)' /\ Gated(t)' => s = t
  BY DEF OneRun
<1>11. \A s \in Seats, prompt \in {"TimeConfirm", "Response"} :
         clients'[s].owes = prompt \/ Waits(Ctos(prompt, s))' => players'[s].state # "Any"
  BY <1>6 DEF OneRun
<1> QED
  BY <1>2, <1>7, <1>8, <1>9, <1>10, <1>11 DEF OneRun

\* Whoever queues the end of the duel decides it.
LEMMA EndingQueued ==
  ASSUME TypeOK, queue # <<>>, NEW more \in Seq(Requests), Done(more),
         NEW i \in DOMAIN more, more[i].type = "DuelEnd"
  PROVE  Ending'
<1>1. Waits(more[i])' /\ more[i] \in Requests
  BY QueueAfter
<1> QED
  BY <1>1 DEF Ending, Has

\* A duel that is decided stays so.
LEMMA EndingStays ==
  ASSUME TypeOK, queue # <<>>, NEW more \in Seq(Requests), Done(more),
         core.ended => core'.ended, Request.type = "DuelEnd" => core'.ended
  PROVE  Ending => Ending'
<1>1. \A r : Waits(r) /\ r # Request => Waits(r)'
  BY QueueAfter
<1> QED
  BY <1>1 DEF Ending, Has

\* Somebody is still asked, if a handler leaves the gates and what the clients owe alone
\* and takes no message a gate waits for.
LEMMA ProgressKept ==
  ASSUME TypeOK, Progress, queue # <<>>, NEW more \in Seq(Requests), Done(more),
         stage' = stage, Request.type \notin Runs,
         \A s \in Seats : /\ players'[s].state = players[s].state
                          /\ players'[s].hand = players[s].hand
                          /\ clients'[s].owes = clients[s].owes
                          /\ \A prompt \in Demands :
                               Request = Ctos(prompt, s) => players[s].state # prompt
  PROVE  Progress'
<1>1. \A r : Waits(r) /\ r # Request => Waits(r)'
  BY QueueAfter
<1>2. Leaders \subseteq Seats
  BY DEF Leaders, Leader, Seats, Teams
<1>3. \A s \in Seats, prompt \in Demands : Pending(s, prompt) => Pending(s, prompt)'
  BY <1>1 DEF Pending
<1>4. \A s \in Seats : Confirming(s) => Confirming(s)'
  <2> SUFFICES ASSUME NEW s \in Seats, Confirming(s) PROVE Confirming(s)'
    OBVIOUS
  <2>1. players'[s].state = "TimeConfirm" /\ Request # Ctos("TimeConfirm", s)
    BY DEF Confirming, Demands
  <2>2. Follows(s) => Follows(s)'
    BY <2>1, QueueAfter
  <2> QED
    BY <1>1, <2>1, <2>2 DEF Confirming
<1>5. Has(Runs) => Has(Runs)'
  BY <1>1 DEF Has
<1> QED
  BY <1>2, <1>3, <1>4, <1>5 DEF Progress, Demands

\* The room goes on, if a handler notices leavers, passes the end of the duel on and
\* keeps up the progress.
LEMMA AliveKept ==
  ASSUME TypeOK, Alive, queue # <<>>, running, NEW more \in Seq(Requests), Done(more),
         \A s \in Seats : /\ Present(s)' => Present(s) /\ Request # Ctos("LeaveGame", s)
                          /\ clients'[s].online = clients[s].online,
         core'.ended => core.ended \/ \E i \in DOMAIN more : more[i].type = "JudgeContinueMatch",
         TerminateWhenMatchEnd /\ Request.type \in {"JudgeContinueMatch", "MatchEnd"} =>
           \E i \in DOMAIN more : more[i].type \in {"MatchEnd", "terminate"},
         Request.type # "terminate",
         core.ended => core'.ended, Request.type = "DuelEnd" => core'.ended,
         core'.input => core'.started,
         ~Ending /\ ~Ending' =>
           /\ \A s \in Seats : Gated(s)' => last_response' = s
           /\ core'.input => Plays(last_response)'
           /\ AllHere /\ Progress => Progress'
  PROVE  Alive'
<1>1. /\ \A r : Waits(r) /\ r # Request => Waits(r)'
      /\ \A j \in DOMAIN more : Waits(more[j])'
  BY QueueAfter
<1>2. \A s \in Seats : Present(s)' /\ ~clients'[s].online => Waits(Ctos("LeaveGame", s))'
  BY <1>1 DEF Alive
<1>3. ~Ending' => ~Ending
  BY EndingStays
<1>4. ASSUME TerminateWhenMatchEnd, core'.ended
      PROVE  Has({"JudgeContinueMatch", "MatchEnd", "terminate"})'
  <2>1. CASE \E i \in DOMAIN more : more[i].type \in {"JudgeContinueMatch", "MatchEnd", "terminate"}
    BY <1>1, <2>1 DEF Has
  <2>2. CASE ~\E i \in DOMAIN more : more[i].type \in {"JudgeContinueMatch", "MatchEnd", "terminate"}
    <3>1. core.ended
      BY <1>4, <2>2
    <3>2. PICK r \in Requests : Waits(r) /\ r.type \in {"JudgeContinueMatch", "MatchEnd", "terminate"}
      BY <1>4, <3>1 DEF Alive, Has
    <3>3. r # Request
      BY <1>4, <2>2, <3>2
    <3> QED
      BY <1>1, <3>2, <3>3 DEF Has
  <2> QED
    BY <2>1, <2>2
<1>5. AllHere' => AllHere
  BY DEF AllHere
<1>6. running /\ ~Ending' /\ AllHere' => Progress'
  BY <1>3, <1>5 DEF Alive
<1> QED
  BY <1>2, <1>3, <1>4, <1>6 DEF Alive

\* The room is gone.
LEMMA QuietAfterBreak ==
  ASSUME TypeOK, OneRun, Alive, Break
  PROVE  OneRun' /\ Alive'
<1>1. queue' = <<>> /\ running' = FALSE /\ UNCHANGED <<duel, clients>>
  BY DEF Break
<1>2. \A r : ~Waits(r)'
  BY <1>1 DEF Waits
<1>3. /\ \A types : ~Has(types)'
      /\ SingleRun'
  BY <1>1, <1>2 DEF Has, SingleRun
<1>4. \A s : (Gated(s)' <=> Gated(s)) /\ (Plays(s)' <=> Plays(s))
  BY <1>1 DEF Gated, Plays, duel
<1>5. OneRun'
  BY <1>1, <1>2, <1>3, <1>4 DEF OneRun, duel
<1> QED
  BY <1>1, <1>2, <1>3, <1>4, <1>5 DEF Alive, Ending, duel

-----------------------------------------------------------------------------
(* The handlers, one by one.                                                *)

\* Whoever leaves the gates, the clients and the engine alone.
LEMMA QuietRest ==
  ASSUME IInv, OneRun, Alive, queue # <<>>, running, NEW more \in Seq(Requests), Done(more),
         UNCHANGED <<running, stage, players, core, last_response, clients>>,
         \A i \in DOMAIN more : more[i].type \notin Runs \cup {"TimeConfirm", "Response"},
         TerminateWhenMatchEnd /\ Request.type \in {"JudgeContinueMatch", "MatchEnd"} =>
           \E i \in DOMAIN more : more[i].type \in {"MatchEnd", "terminate"},
         Request.type \notin {"terminate", "DuelEnd", "LeaveGame"},
         ~Ending => /\ Request.type \notin Runs
                    /\ \A s \in Seats, prompt \in Demands :
                         Request = Ctos(prompt, s) => players[s].state # prompt
  PROVE  OneRun' /\ Alive'
<1>1. TypeOK
  BY DEF IInv
<1>2. \A s : (Gated(s)' <=> Gated(s)) /\ (Plays(s)' <=> Plays(s)) /\ (Present(s)' <=> Present(s))
  BY DEF Gated, Plays, Present
<1>3. OneRun'
  BY <1>1, <1>2, OneRunKept
<1>4. ~Ending /\ Progress => Progress'
  BY <1>1, ProgressKept
<1>5. \A s \in Seats : Request # Ctos("LeaveGame", s)
  BY DEF Ctos
<1>6. core.input => core.started
  BY DEF Alive
<1>7. ~Ending => /\ \A s \in Seats : Gated(s)' => last_response' = s
                 /\ core'.input => Plays(last_response)'
  BY <1>2 DEF Alive, Plays
<1>8. Alive'
  BY <1>1, <1>2, <1>4, <1>5, <1>6, <1>7, AliveKept
<1> QED
  BY <1>3, <1>8

\* Whoever only passes something on.
LEMMA QuietChain ==
  ASSUME IInv, OneRun, Alive, queue # <<>>, running, NEW more \in Seq(Requests), Chain(more),
         \A i \in DOMAIN more : more[i].type \notin Runs \cup {"TimeConfirm", "Response"},
         TerminateWhenMatchEnd /\ Request.type \in {"JudgeContinueMatch", "MatchEnd"} =>
           \E i \in DOMAIN more : more[i].type \in {"MatchEnd", "terminate"},
         Request.type \notin {"terminate", "DuelEnd", "LeaveGame"},
         ~Ending => /\ Request.type \notin Runs
                    /\ \A s \in Seats, prompt \in Demands :
                         Request = Ctos(prompt, s) => players[s].state # prompt
  PROVE  OneRun' /\ Alive'
<1>1. Done(more) /\ UNCHANGED <<running, stage, players, core, last_response, clients>>
  BY DEF Chain, duel
<1> QED
  BY <1>1, QuietRest

\* Whoever only drops something.
LEMMA QuietNone ==
  ASSUME IInv, OneRun, Alive, queue # <<>>, running, Chain(<<>>),
         TerminateWhenMatchEnd => Request.type \notin {"JudgeContinueMatch", "MatchEnd"},
         Request.type \notin {"terminate", "DuelEnd", "LeaveGame"},
         ~Ending => /\ Request.type \notin Runs
                    /\ \A s \in Seats, prompt \in Demands :
                         Request = Ctos(prompt, s) => players[s].state # prompt
  PROVE  OneRun' /\ Alive'
<1> DEFINE none == <<>>
<1>1. none \in Seq(Requests) /\ DOMAIN none = {} /\ Chain(none)
  BY Queues
<1> HIDE DEF none
<1> QED
  BY <1>1, QuietChain

\* A message that is refused is none a gate waits for.
LEMMA QuietRefused ==
  ASSUME IInv, OneRun, Alive, Refused
  PROVE  OneRun' /\ Alive'
<1>1. /\ running /\ queue # <<>> /\ "from" \in DOMAIN Request /\ Chain(<<>>)
      /\ ~Allowed(Request.from, Request.type)
  BY DEF Refused, Chain
<1>2. Request \in Requests /\ Request.type \in CtosTypes
  BY <1>1, RequestTyped, RequestFields DEF IInv
<1>3. Request.type \notin {"Surrender", "LeaveGame"}
  BY <1>1 DEF Allowed
<1>4. \A s \in Seats, prompt \in Demands : Request = Ctos(prompt, s) => players[s].state # prompt
  BY <1>1 DEF Allowed, Ctos
<1>5. Request.type \notin Runs \cup {"terminate", "DuelEnd", "LeaveGame", "JudgeContinueMatch", "MatchEnd"}
  BY <1>2, <1>3 DEF CtosTypes, Runs
<1> QED
  BY <1>1, <1>4, <1>5, QuietNone

\* The messages that only lead to others.
LEMMA QuietLinks ==
  ASSUME IInv, OneRun, Alive,
         \/ OnFirstShuffle \/ OnEvolveEnded \/ OnGenerateReplay \/ OnJudgeContinueMatch
         \/ OnMatchEnd \/ OnTimerTick
  PROVE  OneRun' /\ Alive'
<1>1. /\ running /\ queue # <<>> /\ TypeOK
      /\ Request.type \in {"FirstShuffle", "Evolve", "GenerateReplay", "JudgeContinueMatch",
                           "MatchEnd", "timer_tick"}
  BY DEF OnFirstShuffle, OnEvolveEnded, OnGenerateReplay, OnJudgeContinueMatch, OnMatchEnd,
         OnTimerTick, Receive, IInv
<1>2. \A s \in Seats, prompt \in Demands : Request # Ctos(prompt, s)
  BY <1>1 DEF Ctos, Demands
<1>3. Request.type \notin {"terminate", "DuelEnd", "LeaveGame"}
  BY <1>1
<1>4. CASE OnFirstShuffle \/ OnGenerateReplay
  <2>1. Chain(<<>>) /\ Request.type \in {"FirstShuffle", "GenerateReplay"}
    BY <1>4 DEF OnFirstShuffle, OnGenerateReplay, Ignored, Receive
  <2> QED
    BY <1>1, <1>2, <1>3, <2>1, QuietNone DEF Runs
<1>5. CASE OnEvolveEnded
  <2>1. Chain(<<>>) /\ Request.type = "Evolve" /\ (core.ended \/ ~core.started)
    BY <1>5 DEF OnEvolveEnded, Ignored, Receive
  <2>2. Request \in Requests /\ Waits(Request)
    BY <1>1, RequestTyped DEF Waits
  <2>3. Ending
    BY <2>1, <2>2 DEF OneRun, Has, Ending
  <2> QED
    BY <1>1, <1>2, <1>3, <2>1, <2>3, QuietNone
<1>6. CASE OnJudgeContinueMatch
  <2>1. Chain(<<Ex("MatchEnd")>>) /\ Request.type = "JudgeContinueMatch"
    BY <1>6 DEF OnJudgeContinueMatch, Receive
  <2>2. /\ <<Ex("MatchEnd")>> \in Seq(Requests) /\ DOMAIN <<Ex("MatchEnd")>> = {1}
        /\ <<Ex("MatchEnd")>>[1].type = "MatchEnd"
    BY RequestsTyped, Queues DEF Ex
  <2> QED
    BY <1>1, <1>2, <1>3, <2>1, <2>2, QuietChain DEF Runs
<1>7. CASE OnMatchEnd
  <2>1. Request.type = "MatchEnd"
    BY <1>7 DEF OnMatchEnd, Receive
  <2>2. CASE TerminateWhenMatchEnd
    <3>1. Chain(<<Ex("terminate")>>)
      BY <1>7, <2>2 DEF OnMatchEnd
    <3>2. /\ <<Ex("terminate")>> \in Seq(Requests) /\ DOMAIN <<Ex("terminate")>> = {1}
          /\ <<Ex("terminate")>>[1].type = "terminate"
      BY RequestsTyped, Queues DEF Ex
    <3> QED
      BY <1>1, <1>2, <1>3, <2>1, <3>1, <3>2, QuietChain DEF Runs
  <2>3. CASE ~TerminateWhenMatchEnd
    <3>1. Chain(<<>>)
      BY <1>7, <2>3 DEF OnMatchEnd
    <3> QED
      BY <1>1, <1>2, <1>3, <2>1, <2>3, <3>1, QuietNone DEF Runs
  <2> QED
    BY <2>2, <2>3
<1>8. CASE OnTimerTick
  <2>1. Request.type = "timer_tick"
    BY <1>8 DEF OnTimerTick, Receive
  <2>2. CASE Ignored
    BY <1>1, <1>2, <1>3, <2>1, <2>2, QuietNone DEF Runs, Ignored
  <2>3. CASE ~Ignored
    <3> DEFINE out == [type |-> "Timeout", player |-> last_response]
    <3>1. last_response \in Seats /\ Chain(<<out>>)
      BY <1>1, <1>8, <2>3 DEF OnTimerTick, TypeOK
    <3>2. /\ <<out>> \in Seq(Requests) /\ DOMAIN <<out>> = {1} /\ <<out>>[1].type = "Timeout"
      BY <3>1, RequestsTyped, Queues
    <3> HIDE DEF out
    <3> QED
      BY <1>1, <1>2, <1>3, <2>1, <3>1, <3>2, QuietChain DEF Runs
  <2> QED
    BY <2>2, <2>3
<1> QED
  BY <1>4, <1>5, <1>6, <1>7, <1>8

\* The first attacker is chosen: the duel is about to start.
LEMMA QuietTpResult ==
  ASSUME IInv, OneRun, Alive, OnTpResult
  PROVE  OneRun' /\ Alive'
<1> DEFINE more == <<Ex("FirstShuffle"), Ex("DuelInit")>>
<1>1. /\ running /\ queue # <<>> /\ TypeOK /\ Done(more)
      /\ Request.type = "TpResult"
      /\ UNCHANGED <<running, players, core, clients, last_response>> /\ stage' = "Dueling"
  BY DEF OnTpResult, ReceiveFrom, Receive, IInv
<1>2. /\ more \in Seq(Requests) /\ DOMAIN more = {1, 2}
      /\ more[1] = Ex("FirstShuffle") /\ more[2] = Ex("DuelInit")
  BY RequestsTyped, Queues
<1>3. more[1].type = "FirstShuffle" /\ more[2].type = "DuelInit"
  BY <1>2 DEF Ex
<1> HIDE DEF more
<1>4. stage = "Firstgo"
  BY <1>1, HandledInStage DEF MessageOK
<1>5. ~Has(Runs) /\ \A s \in Seats : ~Gated(s)
  BY <1>4 DEF OneRun
<1>6. \A s : (Gated(s)' <=> Gated(s)) /\ (Plays(s)' <=> Plays(s)) /\ (Present(s)' <=> Present(s))
  BY <1>1 DEF Gated, Plays, Present
<1>7. SingleRun'
  BY <1>1, <1>2, <1>3, <1>5, RunsAfter DEF OneRun, Runs
<1>8. \A r : Waits(r)' => Waits(r) \/ r = more[1] \/ r = more[2]
  BY <1>1, <1>2, QueueAfter
<1>9. ~Has({"Evolve"})'
  BY <1>3, <1>5, <1>8 DEF Has, Runs
<1>10. \A s \in Seats, prompt \in {"TimeConfirm", "Response"} :
         Waits(Ctos(prompt, s))' => Waits(Ctos(prompt, s))
  BY <1>3, <1>8 DEF Ctos
<1>11. OneRun'
  BY <1>1, <1>5, <1>6, <1>7, <1>9, <1>10 DEF OneRun
<1>12. Has(Runs)'
  <2>1. Waits(more[2])'
    BY <1>1, <1>2, QueueAfter
  <2> QED
    BY <1>2, <1>3, <2>1 DEF Has, Runs
<1>13. Progress'
  BY <1>1, <1>12 DEF Progress
<1>14. /\ \A s \in Seats : Request # Ctos("LeaveGame", s)
       /\ core.input => core.started
  BY <1>1 DEF Ctos, Alive
<1>15. ~Ending => (core'.input => Plays(last_response)')
  BY <1>1 DEF Alive, Plays
<1>16. Alive'
  BY <1>1, <1>2, <1>5, <1>6, <1>13, <1>14, <1>15, AliveKept
<1> QED
  BY <1>11, <1>16

\* The hand game: whoever has shown no hand is still asked for it, and when it is decided
\* the winner is asked who begins.
LEMMA HandGameGoesOn ==
  ASSUME IInv, OnHandResult, AllHere, Progress
  PROVE  Progress'
<1> DEFINE from == Request.from
           shown == [players EXCEPT ![from].hand = Present(from)]
<1>0. /\ queue # <<>> /\ Done(<<>>) /\ Request.type = "HandResult" /\ Allowed(from, "HandResult")
      /\ stage = "Finger"
  BY HandGame DEF OnHandResult, ReceiveFrom, Receive
<1>1. from \in Seats /\ Present(from)
  BY <1>0, HandledInStage DEF CtosTypes
<1>2. /\ players \in [Seats -> [here : BOOLEAN, state : Gates, hand : BOOLEAN]]
      /\ clients \in [Seats -> ClientRecords] /\ TypeOK
  BY DEF IInv, TypeOK, ClientRecords, Demands
<1>3. /\ Leaders \subseteq Seats /\ \E s \in Leaders : TRUE
      /\ \A s \in Seats : clients[s].online /\ Present(s)
  BY DEF AllHere, IInv, Stages, Leaders, Leader, Teams, Seats
<1>4. \A s \in Seats : /\ shown[s].here = players[s].here /\ shown[s].state = players[s].state
                       /\ s # from => shown[s].hand = players[s].hand
                       /\ shown[from].hand
                       /\ shown[s] \in [here : BOOLEAN, state : Gates, hand : BOOLEAN]
  BY <1>1, <1>2
<1>5. \A r : Waits(r) /\ r # Request => Waits(r)'
  <2> DEFINE none == <<>>
  <2>1. none \in Seq(Requests) /\ Done(none)
    BY <1>0, Queues
  <2> HIDE DEF none
  <2> QED
    BY <1>0, <1>2, <2>1, QueueAfter
<1>6. \A s \in Leaders : s # from => players[s].hand \/ Pending(s, "HandResult")
  BY <1>0 DEF Progress
<1> HIDE DEF shown
<1>7. CASE /\ \E s \in Leaders : ~shown[s].hand
           /\ players' = shown /\ UNCHANGED <<stage, clients>>
  <2>1. \A s \in Leaders : s # from /\ Pending(s, "HandResult") => Pending(s, "HandResult")'
    BY <1>0, <1>3, <1>4, <1>5, <1>7 DEF Pending, Ctos
  <2> QED
    BY <1>0, <1>3, <1>4, <1>6, <1>7, <2>1 DEF Progress
<1>8. CASE /\ players' = [s \in Seats |-> IF s \in Leaders
                            THEN [shown[s] EXCEPT !.hand = FALSE, !.state = "HandResult"]
                            ELSE shown[s]]
           /\ clients' = Prompted(clients, Leaders, "HandResult")
           /\ UNCHANGED stage
  <2>1. \A s \in Leaders : ~players'[s].hand /\ players'[s].state = "HandResult"
    BY <1>3, <1>4, <1>8 DEF Gates
  <2>2. \A s \in Leaders : clients'[s].owes = "HandResult"
    BY <1>2, <1>3, <1>8 DEF Prompted, ClientRecords
  <2> QED
    BY <1>0, <1>3, <1>8, <2>1, <2>2 DEF Progress, Pending
<1>9. ASSUME NEW winner \in Leaders, players' = Deciding(shown, winner),
             clients' = Prompted(clients, {winner}, "TpResult"), stage' = "Firstgo"
      PROVE  Progress'
  <2>1. shown[winner].here
    BY <1>3, <1>4 DEF Present
  <2>2. players'[winner].state = "TpResult"
    BY <1>3, <1>4, <1>9, <2>1 DEF Deciding, Gates
  <2>3. clients'[winner].owes = "TpResult"
    BY <1>2, <1>3, <1>9 DEF Prompted, ClientRecords
  <2> QED
    BY <1>9, <2>2, <2>3 DEF Progress, Pending
<1> QED
  BY <1>7, <1>8, <1>9 DEF OnHandResult, shown, from

\* The gates and the questions of the hand game are its own.
LEMMA HandGameGates ==
  ASSUME IInv, OnHandResult
  PROVE  \A s \in Seats :
           /\ players'[s].state \in {players[s].state, "HandResult", "TpResult", "None"}
           /\ clients'[s].owes \in {clients[s].owes, "HandResult", "TpResult"}
<1> DEFINE from == Request.from
           shown == [players EXCEPT ![from].hand = Present(from)]
<1>0. queue # <<>> /\ Request.type = "HandResult"
  BY DEF OnHandResult, ReceiveFrom, Receive
<1>1. from \in Seats
  BY <1>0, HandledInStage DEF CtosTypes
<1>2. /\ players \in [Seats -> [here : BOOLEAN, state : Gates, hand : BOOLEAN]]
      /\ clients \in [Seats -> ClientRecords] /\ TypeOK
  BY DEF IInv, TypeOK, ClientRecords, Demands
<1>3. \A s \in Seats : /\ shown[s].state = players[s].state
                       /\ shown[s] \in [here : BOOLEAN, state : Gates, hand : BOOLEAN]
  BY <1>1, <1>2 DEF Present
<1>4. \A S : \A prompt \in {"HandResult", "TpResult"} : clients' = Prompted(clients, S, prompt) =>
        \A s \in Seats : clients'[s].owes \in {clients[s].owes, prompt}
  BY <1>2 DEF Prompted, ClientRecords
<1> HIDE DEF shown
<1>5. ASSUME \/ players' = shown
             \/ players' = [s \in Seats |-> IF s \in Leaders
                            THEN [shown[s] EXCEPT !.hand = FALSE, !.state = "HandResult"]
                            ELSE shown[s]]
      PROVE  \A s \in Seats : players'[s].state \in {players[s].state, "HandResult"}
  <2>1. CASE players' = shown
    BY <1>3, <2>1
  <2>2. CASE players' = [s \in Seats |-> IF s \in Leaders
                            THEN [shown[s] EXCEPT !.hand = FALSE, !.state = "HandResult"]
                            ELSE shown[s]]
    BY <1>3, <2>2 DEF Gates
  <2> QED
    BY <1>5, <2>1, <2>2
<1>6. ASSUME NEW winner \in Leaders, players' = Deciding(shown, winner)
      PROVE  \A s \in Seats : players'[s].state \in {players[s].state, "TpResult", "None"}
  BY <1>3, <1>6 DEF Deciding, Gates
<1>7. /\ \/ players' = shown
         \/ players' = [s \in Seats |-> IF s \in Leaders
                            THEN [shown[s] EXCEPT !.hand = FALSE, !.state = "HandResult"]
                            ELSE shown[s]]
         \/ \E winner \in Leaders : players' = Deciding(shown, winner)
      /\ \/ clients' = clients
         \/ \E S : clients' = Prompted(clients, S, "HandResult")
         \/ \E S : clients' = Prompted(clients, S, "TpResult")
  BY DEF OnHandResult, shown, from
<1>8. \A s \in Seats : players'[s].state \in {players[s].state, "HandResult", "TpResult", "None"}
  BY <1>5, <1>6, <1>7
<1>9. \A s \in Seats : clients'[s].owes \in {clients[s].owes, "HandResult", "TpResult"}
  BY <1>4, <1>7
<1> QED
  BY <1>8, <1>9

\* The hand game asks nothing of the engine.
LEMMA QuietHandResult ==
  ASSUME IInv, OneRun, Alive, OnHandResult
  PROVE  OneRun' /\ Alive'
<1> DEFINE none == <<>>
<1>0. none \in Seq(Requests) /\ DOMAIN none = {} /\ TypeOK
  BY Queues DEF IInv
<1>1. /\ Done(none) /\ queue # <<>>
      /\ running /\ Request.type = "HandResult" /\ stage = "Finger"
      /\ UNCHANGED <<running, core, last_response>>
  BY HandGame DEF OnHandResult, ReceiveFrom, Receive
<1> HIDE DEF none
<1>2. ~Has(Runs) /\ \A s \in Seats : ~Gated(s)
  BY <1>1 DEF OneRun
<1>3. \A s \in Seats :
        /\ players'[s].state \in {players[s].state, "HandResult", "TpResult", "None"}
        /\ clients'[s].owes \in {clients[s].owes, "HandResult", "TpResult"}
  BY HandGameGates
<1>4. \A s \in Seats : /\ ~Gated(s)'
                       /\ players'[s].state = "Any" => players[s].state = "Any"
  BY <1>2, <1>3 DEF Gated
<1>5. \A s \in Seats, prompt \in {"TimeConfirm", "Response"} :
        clients'[s].owes = prompt => clients[s].owes = prompt
  BY <1>3
<1>6. OneRun'
  BY <1>0, <1>1, <1>2, <1>4, <1>5, OneRunKept
<1>7. \A s \in Seats : /\ Present(s)' = Present(s) /\ clients'[s].online = clients[s].online
                       /\ Request # Ctos("LeaveGame", s)
  BY <1>1, HandGame DEF Ctos
<1>8. /\ AllHere /\ Progress => Progress'
      /\ core.input => core.started
      /\ ~Ending => (core'.input => Plays(last_response)')
  BY <1>1, HandGameGoesOn DEF Alive, Plays
<1>9. Alive'
  BY <1>0, <1>1, <1>4, <1>7, <1>8, AliveKept
<1> QED
  BY <1>6, <1>9

\* The decks are loaded, or half of them; DuelStart is next.
LEMMA QuietDuelInit ==
  ASSUME IInv, OneRun, Alive, OnDuelInit
  PROVE  OneRun' /\ Alive'
<1> DEFINE more == <<Ex("DuelStart")>>
<1>1. /\ running /\ queue # <<>> /\ TypeOK /\ Done(more) /\ Request.type = "DuelInit"
      /\ UNCHANGED <<running, players, clients, last_response, stage>>
      /\ core'.started = core.started /\ core'.ended = core.ended /\ core'.input = core.input
  BY DEF OnDuelInit, Receive, IInv, TypeOK
<1>2. /\ more \in Seq(Requests) /\ DOMAIN more = {1} /\ more[1] = Ex("DuelStart")
      /\ more[1].type = "DuelStart"
  BY RequestsTyped, Queues DEF Ex
<1> HIDE DEF more
<1>3. Request \in Requests /\ Waits(Request) /\ MessageOK(Request)
  BY <1>1, RequestTyped, HandledInStage DEF Waits
<1>4. /\ stage = "Dueling" /\ ~core.started /\ ~core.input
      /\ \A s \in Seats : ~Gated(s)
  BY <1>1, <1>3 DEF MessageOK, StartTypes, Alive, OneRun, Has, Runs
<1>5. \A s : (Gated(s)' <=> Gated(s)) /\ (Present(s)' <=> Present(s))
  BY <1>1 DEF Gated, Present
<1>6. SingleRun'
  BY <1>1, <1>2, RunsAfter DEF OneRun, Runs
<1>7. \A r : Waits(r)' => Waits(r) \/ r = more[1]
  BY <1>1, <1>2, QueueAfter
<1>8. \A s \in Seats, prompt \in {"TimeConfirm", "Response"} :
        Waits(Ctos(prompt, s))' => Waits(Ctos(prompt, s))
  BY <1>2, <1>7 DEF Ctos
<1>9. Has({"Evolve"})' => Has({"Evolve"})
  BY <1>2, <1>7 DEF Has
<1>10. OneRun'
  BY <1>1, <1>4, <1>5, <1>6, <1>8, <1>9 DEF OneRun
<1>11. Has(Runs)'
  <2>1. Waits(more[1])'
    BY <1>1, <1>2, QueueAfter
  <2> QED
    BY <1>2, <2>1 DEF Has, Runs
<1>12. Progress' /\ \A s \in Seats : Request # Ctos("LeaveGame", s)
  BY <1>1, <1>4, <1>11 DEF Progress, Ctos
<1>13. Alive'
  BY <1>1, <1>2, <1>4, <1>5, <1>12, AliveKept
<1> QED
  BY <1>10, <1>13

\* The duel starts: the engine runs.
LEMMA QuietDuelStart ==
  ASSUME IInv, OneRun, Alive, OnDuelStart
  PROVE  OneRun' /\ Alive'
<1> DEFINE more == <<Ex("Evolve")>>
<1>1. /\ running /\ queue # <<>> /\ TypeOK /\ Done(more) /\ Request.type = "DuelStart"
      /\ UNCHANGED <<running, players, last_response, stage>> /\ clients' = Seated(clients)
      /\ core'.started = ~core.ended /\ core'.ended = core.ended /\ core'.input = core.input
  BY DEF OnDuelStart, Receive, IInv, TypeOK
<1>2. /\ more \in Seq(Requests) /\ DOMAIN more = {1} /\ more[1] = Ex("Evolve")
      /\ more[1].type = "Evolve"
  BY RequestsTyped, Queues DEF Ex
<1> HIDE DEF more
<1>3. Request \in Requests /\ Waits(Request) /\ MessageOK(Request)
  BY <1>1, RequestTyped, HandledInStage DEF Waits
<1>4. /\ stage = "Dueling" /\ ~core.started /\ ~core.input
      /\ \A s \in Seats : ~Gated(s)
  BY <1>1, <1>3 DEF MessageOK, StartTypes, Alive, OneRun, Has, Runs
<1>5. \A s : (Gated(s)' <=> Gated(s)) /\ (Present(s)' <=> Present(s))
  BY <1>1 DEF Gated, Present
<1>6. \A s \in Seats : clients'[s].owes = clients[s].owes /\ clients'[s].online = clients[s].online
  <2>1. clients \in [Seats -> ClientRecords]
    BY <1>1 DEF TypeOK, ClientRecords, Demands
  <2> QED
    BY <1>1, <2>1 DEF Seated, ClientRecords
<1>7. SingleRun'
  BY <1>1, <1>2, RunsAfter DEF OneRun, Runs
<1>8. \A r : Waits(r)' => Waits(r) \/ r = more[1]
  BY <1>1, <1>2, QueueAfter
<1>9. \A s \in Seats, prompt \in {"TimeConfirm", "Response"} :
        Waits(Ctos(prompt, s))' => Waits(Ctos(prompt, s))
  BY <1>2, <1>8 DEF Ctos
<1>10. core'.started \/ core'.ended
  BY <1>1 DEF TypeOK
<1>11. OneRun'
  BY <1>1, <1>4, <1>5, <1>6, <1>7, <1>9, <1>10 DEF OneRun
<1>12. Has(Runs)'
  <2>1. Waits(more[1])'
    BY <1>1, <1>2, QueueAfter
  <2> QED
    BY <1>2, <2>1 DEF Has, Runs
<1>13. Progress' /\ \A s \in Seats : Request # Ctos("LeaveGame", s)
  BY <1>1, <1>4, <1>12 DEF Progress, Ctos
<1>14. Alive'
  BY <1>1, <1>2, <1>4, <1>5, <1>6, <1>13, AliveKept
<1> QED
  BY <1>11, <1>14

\* The engine asks a player whose deck is in play: his gate is the only one that opens.
LEMMA QuietAsked ==
  ASSUME IInv, OneRun, Alive, queue # <<>>, running, Request.type = "Evolve", Done(<<>>),
         UNCHANGED <<running, stage>>, core.started, ~core.ended,
         core'.started, ~core'.ended, ~core'.input,
         NEW seat \in Seats, Waiting(seat), Plays(seat)'
  PROVE  OneRun' /\ Alive'
<1> DEFINE none == <<>>
           gate == IF Timed THEN "TimeConfirm" ELSE "Response"
<1>1. none \in Seq(Requests) /\ DOMAIN none = {} /\ Done(none) /\ TypeOK
  BY Queues DEF IInv
<1>2. Request \in Requests /\ Waits(Request)
  BY <1>1, RequestTyped DEF Waits
<1>3. stage = "Dueling" /\ \A s \in Seats : ~Gated(s)
  BY <1>2 DEF OneRun, Has, Runs
<1>4. /\ players \in [Seats -> [here : BOOLEAN, state : Gates, hand : BOOLEAN]]
      /\ clients \in [Seats -> ClientRecords]
  BY <1>1 DEF TypeOK, ClientRecords, Demands
<1>5. /\ gate \in {"TimeConfirm", "Response"} /\ (gate = "TimeConfirm" => Timed)
      /\ players' = IF Present(seat) THEN [players EXCEPT ![seat].state = gate] ELSE players
      /\ clients' = Prompted(clients, {seat}, gate)
      /\ last_response' = seat
  BY DEF Waiting
<1> HIDE DEF none, gate
<1>6. /\ \A s \in Seats : s # seat \/ ~Present(seat) => players'[s] = players[s]
      /\ Present(seat) => players'[seat].state = gate
  BY <1>4, <1>5
<1>7. /\ \A s \in Seats : /\ clients'[s].online = clients[s].online
                          /\ s # seat \/ ~clients[seat].online => clients'[s].owes = clients[s].owes
      /\ clients[seat].online => clients'[seat].owes = gate
  BY <1>4, <1>5 DEF Prompted, ClientRecords
<1>8. \A s \in Seats : /\ Present(s)' = Present(s)
                       /\ Gated(s)' => s = seat /\ players'[s].state = gate
  BY <1>1, <1>3, <1>5, <1>6, WaitingKeeps DEF Gated
<1>9. \A s \in Seats : clients[s].online => Present(s)
  BY DEF IInv, Stages
<1>10. SingleRun' /\ ~Has(Runs)'
  BY <1>1, RunsAfter DEF OneRun, Runs
<1>11. ~Has({"Evolve"})'
  BY <1>10 DEF Has, Runs
<1>12. \A r : Waits(r)' => Waits(r)
  BY <1>1, QueueAfter
<1>13. \A s \in Seats, prompt \in {"TimeConfirm", "Response"} :
         clients'[s].owes = prompt \/ Waits(Ctos(prompt, s))' => players'[s].state # "Any"
  <2> SUFFICES ASSUME NEW s \in Seats, NEW prompt \in {"TimeConfirm", "Response"},
                      clients'[s].owes = prompt \/ Waits(Ctos(prompt, s))'
               PROVE  players'[s].state # "Any"
    OBVIOUS
  <2>1. CASE s = seat /\ Present(seat)
    BY <1>5, <1>6, <2>1
  <2>2. CASE ~(s = seat /\ Present(seat))
    <3>1. clients'[s].owes = clients[s].owes /\ players'[s] = players[s]
      BY <1>6, <1>7, <1>9, <2>2
    <3> QED
      BY <1>12, <3>1 DEF OneRun
  <2> QED
    BY <2>1, <2>2
<1>14. OneRun'
  BY <1>3, <1>5, <1>8, <1>10, <1>11, <1>13 DEF OneRun
<1>15. ASSUME AllHere PROVE Progress'
  <2>1. clients'[seat].owes = gate /\ players'[seat].state = gate
    BY <1>6, <1>7, <1>9, <1>15 DEF AllHere
  <2>2. Confirming(seat)' \/ Pending(seat, "Response")'
    BY <1>5, <2>1 DEF Confirming, Pending
  <2> QED
    BY <1>3, <2>2 DEF Progress
<1>16. \A s \in Seats : Request # Ctos("LeaveGame", s)
  BY DEF Ctos
<1>17. Alive'
  BY <1>1, <1>5, <1>7, <1>8, <1>15, <1>16, AliveKept
<1> QED
  BY <1>14, <1>17

\* Nobody is asked: the engine has ended the duel, or it will be ended.
LEMMA QuietUnasked ==
  ASSUME IInv, OneRun, Alive, queue # <<>>, running, Request.type = "Evolve",
         NEW more \in Seq(Requests), Done(more),
         \A i \in DOMAIN more : more[i].type = "DuelEnd",
         UNCHANGED <<running, stage, players, clients, last_response>>,
         core'.started = core.started, core'.ended = core.ended, ~core'.input,
         Ending \/ \E i \in DOMAIN more : more[i].type = "DuelEnd"
  PROVE  OneRun' /\ Alive'
<1>1. TypeOK /\ Request \in Requests /\ Waits(Request)
  BY RequestTyped DEF Waits, IInv
<1>2. \A s \in Seats : ~Gated(s)
  BY <1>1 DEF OneRun, Has, Runs
<1>3. \A s : (Gated(s)' <=> Gated(s)) /\ (Present(s)' <=> Present(s))
  BY DEF Gated, Present
<1>4. OneRun'
  BY <1>1, <1>2, <1>3, OneRunKept DEF Runs
<1>5. Ending'
  <2>1. CASE Ending
    BY <1>1, <2>1, EndingStays
  <2>2. CASE \E i \in DOMAIN more : more[i].type = "DuelEnd"
    <3>1. PICK i \in DOMAIN more : more[i].type = "DuelEnd"
      BY <2>2
    <3>2. Waits(more[i])' /\ more[i] \in Requests
      BY <1>1, QueueAfter
    <3> QED
      BY <3>1, <3>2 DEF Ending, Has
  <2> QED
    BY <2>1, <2>2
<1>6. \A s \in Seats : Request # Ctos("LeaveGame", s)
  BY DEF Ctos
<1>7. Alive'
  BY <1>1, <1>3, <1>5, <1>6, AliveKept
<1> QED
  BY <1>4, <1>7

\* What an Evolve finds and leaves of the engine's duel.
LEMMA EngineRan ==
  ASSUME TypeOK, NEW engine \in {core, Turned(core)}, core' = [engine EXCEPT !.input = FALSE]
  PROVE  /\ core'.started = core.started /\ core'.ended = core.ended /\ ~core'.input
<1>1. core \in [table : [CorePlayers -> Seats \cup {None}], tag : [CorePlayers -> Seats \cup {None}],
                started : BOOLEAN, ended : BOOLEAN, turns : Nat, input : BOOLEAN]
  BY DEF TypeOK
<1>2. CASE engine = core
  BY <1>1, <1>2
<1>3. CASE engine = Turned(core)
  <2>1. PICK turns, table, tag : engine = [core EXCEPT !.turns = turns, !.table = table, !.tag = tag]
    BY <1>3, TurnedTyped
  <2> QED
    BY <1>1, <2>1
<1> QED
  BY <1>2, <1>3

\* The engine asks.
LEMMA QuietSelect ==
  ASSUME IInv, OneRun, Alive, OnEvolveSelect, InStep'
  PROVE  OneRun' /\ Alive'
<1>1. /\ queue # <<>> /\ running /\ Request.type = "Evolve" /\ Done(<<>>)
      /\ UNCHANGED <<running, stage, first_attack_team>> /\ core.started /\ ~core.ended /\ TypeOK
  BY DEF OnEvolveSelect, Evolving, Receive, IInv
<1>2. PICK engine \in {core, Turned(core)}, current \in Seats \cup {None} :
        /\ current_turn_player' = current
        /\ core' = [engine EXCEPT !.input = FALSE]
        /\ \E p \in CorePlayers : Waiting(ToSeat(p, first_attack_team, current))
  BY DEF OnEvolveSelect
<1>3. core'.started = core.started /\ core'.ended = core.ended /\ ~core'.input
  BY <1>1, <1>2, EngineRan
<1>4. PICK p \in CorePlayers : Waiting(ToSeat(p, first_attack_team, current))
  BY <1>2
<1>5. current_turn_player' \in Seats /\ core'.table[p] = ToSeat(p, first_attack_team', current_turn_player')
  BY <1>1, <1>3 DEF InStep, Parity
<1>6. PICK seat \in Seats : seat = ToSeat(p, first_attack_team, current)
  <2>1. first_attack_team \in Teams \cup {None} /\ current \in Seats
    BY <1>1, <1>2, <1>5 DEF TypeOK
  <2> QED
    BY <2>1, TranslationTyped
<1>7. seat = core'.table[p]
  BY <1>1, <1>2, <1>5, <1>6
<1>8. Plays(seat)'
  BY <1>7 DEF Plays
<1>9. Waiting(seat)
  BY <1>4, <1>6
<1> QED
  BY <1>1, <1>3, <1>6, <1>8, <1>9, QuietAsked

\* Whoever plays translates to a core player.
LEMMA PlayersTranslate ==
  ASSUME IInv, core.started, NEW s, Plays(s)
  PROVE  /\ s \in Seats
         /\ ToCore(s, first_attack_team, current_turn_player) \in CorePlayers
<1>1. PICK p \in CorePlayers : s = ToSeat(p, first_attack_team, current_turn_player)
  BY DEF Plays, IInv, InStep
<1>2. current_turn_player \in Seats /\ first_attack_team \in Teams \cup {None}
  BY DEF IInv, InStep, Parity, TypeOK
<1>3. s \in Seats
  BY <1>1, <1>2, TranslationTyped
<1>4. s \in {current_turn_player, Opponent(current_turn_player, FirstOr1(first_attack_team))}
  BY <1>1, <1>2 DEF ToSeat, Seats
<1>5. \A team : TeamToCore(team, first_attack_team) \in CorePlayers
  BY DEF TeamToCore, CorePlayers
<1> QED
  BY <1>3, <1>4, <1>5 DEF ToCore

\* The engine refuses an answer: the same player is asked again.
LEMMA QuietRetry ==
  ASSUME IInv, OneRun, Alive, OnEvolveRetry, InStep'
  PROVE  OneRun' /\ Alive'
<1> DEFINE p == IF last_response = None THEN SitsOut[0]
                ELSE ToCore(last_response, first_attack_team, current_turn_player)
<1>1. /\ queue # <<>> /\ running /\ Request.type = "Evolve" /\ Done(<<>>)
      /\ UNCHANGED <<running, stage, first_attack_team, current_turn_player>>
      /\ core.started /\ ~core.ended /\ core.input /\ TypeOK
      /\ core' = [core EXCEPT !.input = FALSE]
  BY DEF OnEvolveRetry, Evolving, Receive, IInv
<1>2. core'.started /\ ~core'.ended /\ ~core'.input /\ core'.table = core.table
      /\ core'.started = core.started /\ core'.ended = core.ended
  BY <1>1 DEF TypeOK
<1>3. CASE p \in CorePlayers
  <2>1. Waiting(ToSeat(p, first_attack_team, current_turn_player))
    BY <1>3 DEF OnEvolveRetry
  <2>2. current_turn_player' \in Seats /\ core'.table[p] = ToSeat(p, first_attack_team', current_turn_player')
    BY <1>2, <1>3 DEF InStep, Parity
  <2>3. first_attack_team \in Teams \cup {None} /\ current_turn_player \in Seats
    BY <1>1, <2>2 DEF TypeOK
  <2> HIDE DEF p
  <2>4. PICK seat \in Seats : seat = ToSeat(p, first_attack_team, current_turn_player)
    BY <2>3, TranslationTyped
  <2>5. PICK q \in CorePlayers : q = p
    BY <1>3
  <2>6. Plays(seat)'
    BY <1>1, <2>2, <2>4, <2>5 DEF Plays
  <2>7. Waiting(seat)
    BY <2>1, <2>4
  <2> QED
    BY <1>1, <1>2, <2>4, <2>6, <2>7, QuietAsked
<1>4. CASE p \notin CorePlayers
  <2>1. UNCHANGED <<players, last_response, clients>>
    BY <1>4 DEF OnEvolveRetry
  <2>2. Ending
    <3> SUFFICES ASSUME ~Ending PROVE FALSE
      OBVIOUS
    <3>1. Plays(last_response)
      BY <1>1 DEF Alive
    <3>2. last_response \in Seats /\ ToCore(last_response, first_attack_team, current_turn_player) \in CorePlayers
      BY <1>1, <3>1, PlayersTranslate
    <3>3. last_response # None
      BY <3>2, TagDuelAssumption DEF Seats
    <3> QED
      BY <1>4, <3>2, <3>3
  <2> DEFINE none == <<>>
  <2>3. none \in Seq(Requests) /\ DOMAIN none = {} /\ Done(none)
    BY <1>1, Queues
  <2> HIDE DEF none, p
  <2> QED
    BY <1>1, <1>2, <2>1, <2>2, <2>3, QuietUnasked
<1> QED
  BY <1>3, <1>4

\* The engine ends the duel.
LEMMA QuietWin ==
  ASSUME IInv, OneRun, Alive, OnEvolveWin
  PROVE  OneRun' /\ Alive'
<1>1. /\ queue # <<>> /\ running /\ Request.type = "Evolve" /\ TypeOK
      /\ UNCHANGED <<running, stage, players, clients, last_response>>
  BY DEF OnEvolveWin, Evolving, Receive, IInv
<1>2. PICK engine \in {core, Turned(core)}, current \in Seats \cup {None} :
        core' = [engine EXCEPT !.input = FALSE]
  BY DEF OnEvolveWin
<1>3. core'.started = core.started /\ core'.ended = core.ended /\ ~core'.input
  BY <1>1, <1>2, EngineRan
<1>4. PICK winner \in CorePlayers \cup {None} : Done(<<DuelEnd(winner, "Win")>>)
  BY DEF OnEvolveWin
<1> DEFINE more == <<DuelEnd(winner, "Win")>>
<1>5. more \in Seq(Requests) /\ DOMAIN more = {1} /\ more[1].type = "DuelEnd" /\ Done(more)
  BY <1>4, RequestsTyped, Queues DEF DuelEnd
<1> HIDE DEF more
<1> QED
  BY <1>1, <1>3, <1>5, QuietUnasked

\* A message of a client is named by its type and its sender, who sits at the table.
LEMMA FromClient ==
  ASSUME IInv, queue # <<>>, Request.type \in CtosTypes
  PROVE  /\ Request.from \in Seats /\ Present(Request.from)
         /\ Request = Ctos(Request.type, Request.from)
         /\ Waits(Ctos(Request.type, Request.from))
<1>1. Request \in Requests /\ Waits(Request)
  BY RequestTyped DEF IInv, Waits
<1>2. Request = Ctos(Request.type, Request.from)
  BY <1>1 DEF Requests, Ctos, CtosTypes
<1> QED
  BY <1>1, <1>2, HandledInStage

\* The gate that has let an answer or a confirmation through was waiting for it.
LEMMA LetThrough ==
  ASSUME IInv, OneRun, queue # <<>>, NEW prompt \in {"TimeConfirm", "Response"},
         Request.type = prompt, Allowed(Request.from, prompt)
  PROVE  /\ Request.from \in Seats /\ Present(Request.from) /\ Request = Ctos(prompt, Request.from)
         /\ players[Request.from].state = prompt
         /\ Gated(Request.from) /\ ~Has(Runs)
<1>1. /\ Request.from \in Seats /\ Present(Request.from) /\ Request = Ctos(prompt, Request.from)
      /\ Waits(Ctos(prompt, Request.from))
  BY FromClient DEF CtosTypes
<1>2. players[Request.from].state = prompt
  BY <1>1 DEF OneRun, Allowed
<1> QED
  BY <1>1, <1>2 DEF OneRun, Gated

\* The answer closes the gate, and the engine runs on.
LEMMA QuietResponse ==
  ASSUME IInv, OneRun, Alive, OnResponse
  PROVE  OneRun' /\ Alive'
<1> DEFINE from == Request.from
           more == <<Ex("Evolve")>>
<1>1. /\ running /\ queue # <<>> /\ TypeOK /\ Request.type = "Response" /\ Allowed(from, "Response")
  BY DEF OnResponse, ReceiveFrom, Receive, IInv
<1>2. /\ from \in Seats /\ Present(from) /\ Request = Ctos("Response", from)
      /\ players[from].state = "Response" /\ Gated(from) /\ ~Has(Runs)
  BY <1>1, LetThrough
<1>3. CASE core.ended
  <2>1. Chain(<<>>) /\ Ending
    BY <1>3 DEF OnResponse, Ignored, Ending
  <2> QED
    BY <1>1, <2>1, QuietNone
<1>4. CASE ~core.ended
  <2>1. /\ core' = [core EXCEPT !.input = TRUE] /\ players' = Closed(from) /\ Done(more)
        /\ UNCHANGED <<running, stage, last_response, clients>>
    BY <1>4 DEF OnResponse
  <2>2. /\ more \in Seq(Requests) /\ DOMAIN more = {1} /\ more[1] = Ex("Evolve")
        /\ more[1].type = "Evolve"
    BY RequestsTyped, Queues DEF Ex
  <2> HIDE DEF more
  <2>3. /\ core'.started = core.started /\ core'.ended = core.ended /\ core'.table = core.table
    BY <1>1, <2>1 DEF TypeOK
  <2>4. /\ stage = "Dueling" /\ core.started /\ Plays(from)
        /\ \A s \in Seats : Gated(s) => s = from
    BY <1>2 DEF OneRun
  <2>5. \A s \in Seats : IF s = from THEN players'[s].state = "None" /\ players'[s].here = players[s].here
                                     ELSE players'[s] = players[s]
    BY <1>1, <1>2, <2>1 DEF Closed, TypeOK
  <2>6. \A s \in Seats : /\ ~Gated(s)' /\ Present(s)' = Present(s)
                         /\ players'[s].state = "Any" => players[s].state = "Any"
    BY <2>4, <2>5 DEF Gated, Present
  <2>7. SingleRun'
    BY <1>1, <1>2, <2>1, <2>2, RunsAfter DEF OneRun
  <2>8. \A r : Waits(r)' => Waits(r) \/ r = more[1]
    BY <1>1, <2>1, <2>2, QueueAfter
  <2>9. \A s \in Seats, prompt \in {"TimeConfirm", "Response"} :
          Waits(Ctos(prompt, s))' => Waits(Ctos(prompt, s))
    BY <2>2, <2>8 DEF Ctos
  <2>10. OneRun'
    BY <2>1, <2>3, <2>4, <2>6, <2>7, <2>9 DEF OneRun
  <2>11. Has(Runs)'
    <3>1. Waits(more[1])'
      BY <1>1, <2>1, <2>2, QueueAfter
    <3> QED
      BY <2>2, <3>1 DEF Has, Runs
  <2>12. Progress' /\ \A s \in Seats : Request # Ctos("LeaveGame", s)
    BY <1>1, <2>1, <2>4, <2>11 DEF Progress, Ctos
  <2>13. ~Ending => Plays(last_response)'
    <3> SUFFICES ASSUME ~Ending PROVE Plays(last_response)'
      OBVIOUS
    <3>1. last_response' = from
      BY <1>1, <1>2, <2>1 DEF Alive
    <3> QED
      BY <2>3, <2>4, <3>1 DEF Plays
  <2>14. Alive'
    BY <1>1, <2>1, <2>2, <2>3, <2>4, <2>6, <2>12, <2>13, AliveKept
  <2> QED
    BY <2>10, <2>14
<1> QED
  BY <1>3, <1>4

\* The confirmed time limit opens the gate for the answer, which the client owes or has
\* sent behind the confirmation.
LEMMA QuietTimeConfirm ==
  ASSUME IInv, OneRun, Confirmed, Alive, OnTimeConfirm
  PROVE  OneRun' /\ Alive'
<1> DEFINE from == Request.from
           none == <<>>
<1>0. none \in Seq(Requests) /\ DOMAIN none = {} /\ TypeOK
  BY Queues DEF IInv
<1>1. /\ running /\ queue # <<>> /\ Request.type = "TimeConfirm" /\ Allowed(from, "TimeConfirm")
  BY DEF OnTimeConfirm, ReceiveFrom, Receive
<1>2. /\ from \in Seats /\ Present(from) /\ Request = Ctos("TimeConfirm", from)
      /\ players[from].state = "TimeConfirm" /\ Gated(from) /\ ~Has(Runs)
  BY <1>1, LetThrough
<1>3. CASE ~Timed \/ last_response # from \/ ~Present(from)
  <2>1. Chain(<<>>) /\ Timed
    BY <1>2, <1>3 DEF OnTimeConfirm, Ignored, OneRun
  <2>2. Ending
    BY <1>1, <1>2, <1>3, <2>1 DEF Alive
  <2> QED
    BY <1>1, <2>1, <2>2, QuietNone
<1>4. CASE ~(~Timed \/ last_response # from \/ ~Present(from))
  <2>1. /\ players' = [players EXCEPT ![from].state = "Response"] /\ Done(none)
        /\ UNCHANGED <<running, stage, last_response, core, clients>>
    BY <1>4 DEF OnTimeConfirm
  <2> HIDE DEF none
  <2>2. \A s \in Seats : IF s = from
                         THEN players'[s].state = "Response" /\ players'[s].here = players[s].here
                         ELSE players'[s] = players[s]
    BY <1>0, <1>2, <2>1 DEF TypeOK
  <2>3. \A s \in Seats : /\ Gated(s)' <=> Gated(s)
                         /\ players'[s].state = "TimeConfirm" => players[s].state = "TimeConfirm"
                         /\ players'[s].state = "Any" => players[s].state = "Any"
                         /\ Present(s)' = Present(s)
    BY <1>2, <2>2 DEF Gated, Present
  <2>4. OneRun'
    BY <1>0, <1>1, <2>1, <2>3, OneRunKept
  <2>5. stage = "Dueling" /\ \A s \in Seats : Gated(s) => s = from
    BY <1>2 DEF OneRun
  <2>6. ASSUME Progress PROVE Progress'
    <3>1. PICK s \in Seats : Confirming(s) \/ Pending(s, "Response")
      BY <1>2, <2>5, <2>6 DEF Progress
    <3>2. s = from /\ Confirming(s)
      BY <1>2, <2>5, <3>1 DEF Confirming, Pending, Gated
    <3>3. clients[s].owes = "Response" \/ Follows(s)
      BY <1>2, <3>2, FromClient, <1>1 DEF Confirming, Confirmed, CtosTypes
    <3>4. Follows(s) => Waits(Ctos("Response", s))'
      BY <1>0, <1>1, <2>1, QueueAfter
    <3>5. Pending(s, "Response")'
      <4>1. players'[s].state = "Response"
        BY <1>2, <2>2, <3>2
      <4> QED
        BY <2>1, <3>3, <3>4, <4>1 DEF Pending
    <3> QED
      BY <1>2, <2>1, <2>5, <3>5 DEF Progress
  <2>7. \A s \in Seats : Request # Ctos("LeaveGame", s)
    BY <1>1 DEF Ctos
  <2>8. core.input => core.started
    BY DEF Alive
  <2>9. ~Ending => /\ \A s \in Seats : Gated(s)' => last_response' = s
                   /\ core'.input => Plays(last_response)'
    BY <1>1, <2>1, <2>3 DEF Alive, Plays
  <2>10. Alive'
    BY <1>0, <1>1, <2>1, <2>3, <2>6, <2>7, <2>8, <2>9, AliveKept
  <2> QED
    BY <2>4, <2>10
<1> QED
  BY <1>3, <1>4

\* A surrender is noted, or it ends the duel.
LEMMA QuietSurrender ==
  ASSUME IInv, OneRun, Alive, OnSurrender
  PROVE  OneRun' /\ Alive'
<1>1. running /\ queue # <<>> /\ Request.type = "Surrender"
  BY DEF OnSurrender, ReceiveFrom, Receive
<1>2. \A s \in Seats, prompt \in Demands : Request # Ctos(prompt, s)
  BY <1>1 DEF Ctos, Demands
<1>3. CASE Ignored
  BY <1>1, <1>2, <1>3, QuietNone DEF Ignored, Runs
<1>4. CASE ~Ignored
  <2>1. UNCHANGED <<running, stage, players, core, last_response, clients>>
    BY <1>4 DEF OnSurrender
  <2>2. PICK more : /\ more = <<>> \/ more = <<Lost(Request.from, "Surrender")>>
                    /\ Done(more)
    BY <1>4 DEF OnSurrender
  <2>3. Request.from \in Seats
    BY <1>1, FromClient DEF CtosTypes
  <2>4. more \in Seq(Requests) /\ \A i \in DOMAIN more : more[i].type = "DuelEnd"
    <3>1. CASE more = <<>>
      BY <3>1, Queues
    <3>2. CASE more = <<Lost(Request.from, "Surrender")>>
      <4>1. Lost(Request.from, "Surrender") \in Requests
            /\ Lost(Request.from, "Surrender").type = "DuelEnd"
        BY <2>3, LostTyped DEF Lost, DuelEnd
      <4> QED
        BY <3>2, <4>1, Queues
    <3> QED
      BY <2>2, <3>1, <3>2
  <2> QED
    BY <1>1, <1>2, <2>1, <2>2, <2>4, QuietRest DEF Runs
<1> QED
  BY <1>3, <1>4

\* The duel is over; the room is told so.
LEMMA QuietDuelEnd ==
  ASSUME IInv, OneRun, Alive, OnDuelEnd
  PROVE  OneRun' /\ Alive'
<1> DEFINE more == <<Ex("GenerateReplay"), Ex("JudgeContinueMatch")>>
<1>1. /\ running /\ queue # <<>> /\ TypeOK /\ Done(more) /\ Request.type = "DuelEnd"
      /\ core' = [core EXCEPT !.ended = TRUE]
      /\ UNCHANGED <<running, stage, players, last_response, clients>>
  BY DEF OnDuelEnd, Receive, IInv
<1>2. /\ more \in Seq(Requests) /\ DOMAIN more = {1, 2}
      /\ more[1] = Ex("GenerateReplay") /\ more[2] = Ex("JudgeContinueMatch")
  BY RequestsTyped, Queues
<1>3. more[1].type = "GenerateReplay" /\ more[2].type = "JudgeContinueMatch"
  BY <1>2 DEF Ex
<1> HIDE DEF more
<1>4. /\ core'.started = core.started /\ core'.ended /\ core'.table = core.table
      /\ core'.input = core.input
  BY <1>1 DEF TypeOK
<1>5. \A s : (Gated(s)' <=> Gated(s)) /\ (Present(s)' <=> Present(s))
  BY <1>1 DEF Gated, Present
<1>6. OneRun'
  BY <1>1, <1>2, <1>3, <1>4, <1>5, OneRunKept DEF Runs
<1>7. Ending' /\ \A s \in Seats : Request # Ctos("LeaveGame", s)
  BY <1>1, <1>4 DEF Ending, Ctos
<1>8. core'.input => core'.started
  BY <1>4 DEF Alive
<1>9. Alive'
  BY <1>1, <1>2, <1>3, <1>4, <1>5, <1>7, <1>8, AliveKept
<1> QED
  BY <1>6, <1>9

\* The player whose time is up loses the duel.
LEMMA QuietTimeout ==
  ASSUME IInv, OneRun, Alive, OnTimeout
  PROVE  OneRun' /\ Alive'
<1> DEFINE more == <<Lost(Request.player, "Timeout")>>
<1>1. /\ running /\ queue # <<>> /\ TypeOK /\ Done(more) /\ Request.type = "Timeout"
      /\ UNCHANGED <<running, stage, players, core, clients>>
  BY DEF OnTimeout, Receive, IInv
<1>2. Request.player \in Seats
  BY <1>1, RequestTyped, RequestFields
<1>3. more \in Seq(Requests) /\ DOMAIN more = {1} /\ more[1].type = "DuelEnd"
  <2>1. Lost(Request.player, "Timeout") \in Requests /\ Lost(Request.player, "Timeout").type = "DuelEnd"
    BY <1>2, LostTyped DEF Lost, DuelEnd
  <2> QED
    BY <2>1, Queues
<1> HIDE DEF more
<1>4. \A s : (Gated(s)' <=> Gated(s)) /\ (Present(s)' <=> Present(s))
  BY <1>1 DEF Gated, Present
<1>5. OneRun'
  BY <1>1, <1>3, <1>4, OneRunKept DEF Runs
<1>6. Ending' /\ \A s \in Seats : Request # Ctos("LeaveGame", s)
  BY <1>1, <1>3, EndingQueued DEF Ctos
<1>7. core.input => core.started
  BY DEF Alive
<1>8. Alive'
  BY <1>1, <1>3, <1>4, <1>6, <1>7, AliveKept
<1> QED
  BY <1>5, <1>8

\* Whoever leaves an unfinished duel loses it; the last one takes the room along.
LEMMA QuietLeave ==
  ASSUME IInv, OneRun, Alive, OnLeaveGame
  PROVE  OneRun' /\ Alive'
<1> DEFINE from == Request.from
<1>1. running /\ queue # <<>> /\ Request.type = "LeaveGame" /\ TypeOK
  BY DEF OnLeaveGame, ReceiveFrom, Receive, IInv
<1>2. from \in Seats /\ Request = Ctos("LeaveGame", from)
  BY <1>1, FromClient DEF CtosTypes
<1>3. CASE Break
  BY <1>1, <1>3, QuietAfterBreak
<1>4. CASE ~Break
  <2>1. /\ players' = [players EXCEPT ![from] = EmptySlot]
        /\ Done(IF core.ended THEN <<>> ELSE <<Lost(from, "Leave")>>)
        /\ UNCHANGED <<running, stage, core, last_response, clients>>
    BY <1>4 DEF OnLeaveGame
  <2>2. \A s \in Seats : IF s = from THEN ~players'[s].here /\ players'[s].state = "None"
                                     ELSE players'[s] = players[s]
    BY <1>1, <1>2, <2>1 DEF TypeOK, EmptySlot
  <2>3. \A s \in Seats : /\ Gated(s)' => Gated(s)
                         /\ Gated(s)' => players'[s] = players[s]
                         /\ players'[s].state = "Any" => players[s].state = "Any"
                         /\ Present(s)' => Present(s) /\ Request # Ctos("LeaveGame", s)
    BY <1>2, <2>2 DEF Gated, Present, Ctos
  <2>4. PICK more : more = IF core.ended THEN <<>> ELSE <<Lost(from, "Leave")>>
    OBVIOUS
  <2>5. /\ more \in Seq(Requests) /\ \A i \in DOMAIN more : more[i].type = "DuelEnd"
        /\ core.ended \/ \E i \in DOMAIN more : more[i].type = "DuelEnd"
    <3>1. CASE core.ended
      BY <2>4, <3>1, Queues
    <3>2. CASE ~core.ended
      <4>1. Lost(from, "Leave") \in Requests /\ Lost(from, "Leave").type = "DuelEnd"
        BY <1>2, LostTyped DEF Lost, DuelEnd
      <4>2. more \in Seq(Requests) /\ DOMAIN more = {1} /\ more[1].type = "DuelEnd"
        BY <2>4, <3>2, <4>1, Queues
      <4> QED
        BY <4>2
    <3> QED
      BY <3>1, <3>2
  <2>6. Done(more)
    BY <2>1, <2>4
  <2>7. OneRun'
    BY <1>1, <2>1, <2>3, <2>5, <2>6, OneRunKept DEF Runs
  <2>8. Ending'
    BY <1>1, <2>1, <2>5, <2>6, EndingQueued DEF Ending
  <2>9. core.input => core.started
    BY DEF Alive
  <2>10. Alive'
    BY <1>1, <2>1, <2>3, <2>5, <2>6, <2>8, <2>9, AliveKept
  <2> QED
    BY <2>7, <2>10
<1> QED
  BY <1>3, <1>4

-----------------------------------------------------------------------------
(* The confirmations.                                                       *)

\* The confirmations after a handler that queues none: it is enough to look at the gates of
\* those whose confirmation is still owed or waits.
LEMMA ConfirmedKept ==
  ASSUME TypeOK, Confirmed, queue # <<>>, NEW more \in Seq(Requests), Done(more),
         \A i \in DOMAIN more : more[i].type # "TimeConfirm",
         \A s \in Seats :
           /\ clients'[s].owes = "TimeConfirm" =>
                clients[s].owes = "TimeConfirm" \/ players[s].state # "TimeConfirm"
           /\ clients'[s].owes = "TimeConfirm" \/ Waits(Ctos("TimeConfirm", s))' =>
                players'[s].state = "TimeConfirm"
           /\ ~clients'[s].online => clients'[s].owes = "None"
  PROVE  Confirmed'
<1>1. /\ Len(queue) \in Nat /\ Len(queue) > 0 /\ queue' \in Seq(Requests)
      /\ \A i \in DOMAIN queue' :
           \/ i < Len(queue) /\ i + 1 \in DOMAIN queue /\ queue'[i] = queue[i + 1]
           \/ /\ i >= Len(queue) /\ i - Len(queue) + 1 \in DOMAIN more
              /\ queue'[i] = more[i - Len(queue) + 1]
  BY AfterDone
<1>2. \A s \in Seats : Waits(Ctos("TimeConfirm", s))' => Waits(Ctos("TimeConfirm", s))
  <2>1. \A s \in Seats, j \in DOMAIN more : Ctos("TimeConfirm", s) # more[j]
    BY DEF Ctos
  <2> QED
    BY <2>1, QueueAfter
<1>3. \A s \in Seats : clients'[s].owes = "TimeConfirm" => ~Waits(Ctos("TimeConfirm", s))'
  BY <1>2 DEF Confirmed
<1>4. DOMAIN queue' \subseteq Nat
  BY <1>1
<1>5. ASSUME NEW i \in DOMAIN queue', NEW j \in DOMAIN queue', queue'[i].type = "TimeConfirm",
             queue'[j] = queue'[i]
      PROVE  i = j
  <2>1. i + 1 \in DOMAIN queue /\ queue'[i] = queue[i + 1]
    BY <1>1, <1>5
  <2>2. j + 1 \in DOMAIN queue /\ queue'[j] = queue[j + 1]
    BY <1>1, <1>5
  <2>3. i + 1 = j + 1
    BY <1>5, <2>1, <2>2 DEF Confirmed
  <2> QED
    BY <1>4, <2>3
<1> QED
  BY <1>3, <1>5 DEF Confirmed

\* They stay with the gates and what the clients owe.
LEMMA ConfirmedRest ==
  ASSUME TypeOK, Confirmed, queue # <<>>, NEW more \in Seq(Requests), Done(more),
         \A i \in DOMAIN more : more[i].type # "TimeConfirm",
         \A s \in Seats : /\ clients'[s].owes = clients[s].owes
                          /\ clients'[s].online = clients[s].online
                          /\ \/ players'[s].state = players[s].state
                             \/ /\ clients[s].owes # "TimeConfirm"
                                /\ ~Waits(Ctos("TimeConfirm", s))'
  PROVE  Confirmed'
<1>1. \A s \in Seats : Waits(Ctos("TimeConfirm", s))' => Waits(Ctos("TimeConfirm", s))
  <2>1. \A s \in Seats, j \in DOMAIN more : Ctos("TimeConfirm", s) # more[j]
    BY DEF Ctos
  <2> QED
    BY <2>1, QueueAfter
<1> QED
  BY <1>1, ConfirmedKept DEF Confirmed

\* A question is asked of somebody who owes no confirmation.
LEMMA ConfirmedWaiting ==
  ASSUME IInv, OneRun, Confirmed, queue # <<>>, Request.type = "Evolve", Done(<<>>),
         NEW seat \in Seats \cup {None}, Waiting(seat)
  PROVE  Confirmed'
<1> DEFINE none == <<>>
           gate == IF Timed THEN "TimeConfirm" ELSE "Response"
<1>1. none \in Seq(Requests) /\ DOMAIN none = {} /\ Done(none) /\ TypeOK
  BY Queues DEF IInv
<1>2. Request \in Requests /\ Waits(Request)
  BY <1>1, RequestTyped DEF Waits
<1>3. \A s \in Seats : /\ players[s].state # "TimeConfirm" /\ clients[s].owes # "TimeConfirm"
                       /\ ~Waits(Ctos("TimeConfirm", s))
  BY <1>2 DEF OneRun, Has, Runs, Gated, Confirmed
<1>4. /\ players \in [Seats -> [here : BOOLEAN, state : Gates, hand : BOOLEAN]]
      /\ clients \in [Seats -> ClientRecords]
  BY <1>1 DEF TypeOK, ClientRecords, Demands
<1>5. /\ gate \in {"TimeConfirm", "Response"}
      /\ players' = IF Present(seat) THEN [players EXCEPT ![seat].state = gate] ELSE players
      /\ clients' = Prompted(clients, {seat}, gate)
  BY DEF Waiting
<1> HIDE DEF none, gate
<1>6. \A s \in Seats :
        /\ clients'[s].online = clients[s].online
        /\ clients'[s].owes \in {clients[s].owes, gate}
        /\ s # seat => clients'[s].owes = clients[s].owes
        /\ ~clients[s].online => clients'[s].owes = clients[s].owes
  BY <1>4, <1>5 DEF Prompted, ClientRecords
<1>7. Present(seat) /\ seat \in Seats => players'[seat].state = gate
  BY <1>4, <1>5
<1>8. \A s \in Seats : clients[s].online => Present(s)
  BY DEF IInv, Stages
<1>9. \A s \in Seats : ~Waits(Ctos("TimeConfirm", s))'
  BY <1>1, <1>3, QueueAfter
<1>10. \A s \in Seats : clients'[s].owes = "TimeConfirm" => players'[s].state = "TimeConfirm"
  <2> SUFFICES ASSUME NEW s \in Seats, clients'[s].owes = "TimeConfirm"
               PROVE  players'[s].state = "TimeConfirm"
    OBVIOUS
  <2>1. s = seat /\ clients[s].online /\ gate = "TimeConfirm"
    BY <1>3, <1>6
  <2> QED
    BY <1>7, <1>8, <2>1
<1> QED
  BY <1>1, <1>3, <1>6, <1>9, <1>10, ConfirmedKept DEF Confirmed

\* Every handler keeps them.
LEMMA ConfirmedActor ==
  ASSUME IInv, OneRun, Confirmed, Actor
  PROVE  Confirmed'
<1> DEFINE none == <<>>
<1>00. /\ TypeOK
       /\ queue # <<>>
  BY DEF IInv, Actor, Refused, Receive, ReceiveFrom, OnHandResult, OnTpResult,
         OnFirstShuffle, OnDuelInit, OnDuelStart, OnEvolveEnded, OnEvolveSelect, OnEvolveRetry,
         OnEvolveWin, Evolving, OnResponse, OnTimeConfirm, OnSurrender, OnLeaveGame, OnDuelEnd,
         OnGenerateReplay, OnJudgeContinueMatch, OnMatchEnd, OnTerminate, OnTimerTick, OnTimeout
<1>0. TypeOK /\ queue # <<>> /\ none \in Seq(Requests) /\ DOMAIN none = {}
  BY <1>00, Queues
<1>1. /\ \A r \in Requests : <<r>> \in Seq(Requests) /\ DOMAIN <<r>> = {1} /\ <<r>>[1] = r
      /\ \A r, t \in Requests : /\ <<r, t>> \in Seq(Requests) /\ DOMAIN <<r, t>> = {1, 2}
                                /\ <<r, t>>[1] = r /\ <<r, t>>[2] = t
  BY Queues
<1>q. /\ players \in [Seats -> [here : BOOLEAN, state : Gates, hand : BOOLEAN]]
      /\ clients \in [Seats -> ClientRecords]
  BY <1>0 DEF TypeOK, ClientRecords, Demands
<1> HIDE DEF none
<1>u. ASSUME UNCHANGED <<players, clients>>, NEW more \in Seq(Requests), Done(more),
             \A i \in DOMAIN more : more[i].type # "TimeConfirm"
      PROVE  Confirmed'
  BY <1>0, <1>u, ConfirmedRest
<1>n. UNCHANGED <<players, clients>> /\ Done(<<>>) => Confirmed'
  BY <1>0, <1>u DEF none
<1>v. ASSUME NEW r \in Requests, UNCHANGED <<players, clients>>, Done(<<r>>), r.type # "TimeConfirm"
      PROVE  Confirmed'
  <2> DEFINE more == <<r>>
  <2>1. more \in Seq(Requests) /\ Done(more) /\ \A i \in DOMAIN more : more[i].type # "TimeConfirm"
    BY <1>1, <1>v
  <2> HIDE DEF more
  <2> QED
    BY <1>u, <1>v, <2>1
<1>w. ASSUME NEW r \in Requests, NEW t \in Requests, UNCHANGED <<players, clients>>, Done(<<r, t>>),
             r.type # "TimeConfirm", t.type # "TimeConfirm"
      PROVE  Confirmed'
  <2> DEFINE more == <<r, t>>
  <2>1. more \in Seq(Requests) /\ Done(more) /\ \A i \in DOMAIN more : more[i].type # "TimeConfirm"
    BY <1>1, <1>w
  <2> HIDE DEF more
  <2> QED
    BY <1>u, <1>w, <2>1
<1>b. ASSUME Break PROVE Confirmed'
  BY <1>b DEF Break, Confirmed, Waits, duel
<1>2. CASE Refused \/ OnFirstShuffle \/ OnEvolveEnded \/ OnGenerateReplay
  BY <1>2, <1>n DEF Refused, OnFirstShuffle, OnEvolveEnded, OnGenerateReplay, Ignored, Chain, duel
<1>3. CASE OnHandResult
  <2>1. stage = "Finger" /\ Done(none) /\ \A s \in Seats : clients'[s].online = clients[s].online
    BY <1>3, HandGame DEF none
  <2>2. \A s \in Seats : /\ players[s].state # "TimeConfirm"
                         /\ clients'[s].owes \in {clients[s].owes, "HandResult", "TpResult"}
    BY <1>3, <2>1, HandGameGates DEF OneRun, Gated
  <2>3. \A s \in Seats : ~Waits(Ctos("TimeConfirm", s))'
    BY <1>0, <2>1, <2>2, QueueAfter DEF Confirmed
  <2>4. \A s \in Seats : clients'[s].owes # "TimeConfirm"
    BY <2>2 DEF Confirmed
  <2>5. \A s \in Seats : ~clients'[s].online => clients'[s].owes = "None"
    <3>1. \A S, prompt : clients' = Prompted(clients, S, prompt) =>
            \A s \in Seats : ~clients[s].online => clients'[s] = clients[s]
      BY <1>q DEF Prompted, ClientRecords
    <3>2. UNCHANGED clients \/ \E S, prompt : clients' = Prompted(clients, S, prompt)
      BY <1>3 DEF OnHandResult
    <3> QED
      BY <2>1, <3>1, <3>2 DEF Confirmed
  <2> QED
    BY <1>0, <2>1, <2>2, <2>3, <2>4, <2>5, ConfirmedKept
<1>4. CASE OnTpResult
  <2>1. UNCHANGED <<players, clients>> /\ Done(<<Ex("FirstShuffle"), Ex("DuelInit")>>)
    BY <1>4 DEF OnTpResult
  <2>2. /\ Ex("FirstShuffle") \in Requests /\ Ex("FirstShuffle").type = "FirstShuffle"
        /\ Ex("DuelInit") \in Requests /\ Ex("DuelInit").type = "DuelInit"
    BY RequestsTyped DEF Ex
  <2> QED
    BY <1>v, <1>w, <2>1, <2>2
<1>5. CASE OnDuelInit
  <2>1. UNCHANGED <<players, clients>> /\ Done(<<Ex("DuelStart")>>)
    BY <1>5 DEF OnDuelInit
  <2>2. Ex("DuelStart") \in Requests /\ Ex("DuelStart").type = "DuelStart"
    BY RequestsTyped DEF Ex
  <2> QED
    BY <1>v, <1>w, <2>1, <2>2
<1>6. CASE OnDuelStart
  <2>1. UNCHANGED players /\ clients' = Seated(clients) /\ Done(<<Ex("Evolve")>>)
    BY <1>6 DEF OnDuelStart
  <2>2. Ex("Evolve") \in Requests /\ Ex("Evolve").type = "Evolve"
    BY RequestsTyped DEF Ex
  <2>3. \A s \in Seats : clients'[s].owes = clients[s].owes /\ clients'[s].online = clients[s].online
    BY <1>q, <2>1 DEF Seated, ClientRecords
  <2> DEFINE more == <<Ex("Evolve")>>
  <2>4. more \in Seq(Requests) /\ Done(more) /\ \A i \in DOMAIN more : more[i].type # "TimeConfirm"
    BY <1>1, <2>1, <2>2
  <2> HIDE DEF more
  <2> QED
    BY <1>0, <2>1, <2>3, <2>4, ConfirmedRest
<1>7. CASE OnEvolveSelect
  <2>1. PICK engine \in {core, Turned(core)}, current \in Seats \cup {None}, p \in CorePlayers :
          Waiting(ToSeat(p, first_attack_team, current))
    BY <1>7 DEF OnEvolveSelect
  <2>2. PICK seat \in Seats \cup {None} : seat = ToSeat(p, first_attack_team, current)
    BY <1>0, TranslationTyped DEF TypeOK
  <2>3. Waiting(seat) /\ Request.type = "Evolve" /\ Done(<<>>)
    BY <1>7, <2>1, <2>2 DEF OnEvolveSelect, Evolving, Receive
  <2> QED
    BY <1>0, <2>3, ConfirmedWaiting
<1>8. CASE OnEvolveRetry
  <2>1. Request.type = "Evolve" /\ Done(<<>>)
    BY <1>8 DEF OnEvolveRetry, Evolving, Receive
  <2>2. CASE UNCHANGED <<players, clients>>
    BY <1>n, <2>1, <2>2
  <2>3. ASSUME NEW p, Waiting(ToSeat(p, first_attack_team, current_turn_player))
        PROVE  Confirmed'
    <3>1. PICK seat \in Seats \cup {None} : seat = ToSeat(p, first_attack_team, current_turn_player)
      BY <1>0, TranslationTyped DEF TypeOK
    <3>2. Waiting(seat)
      BY <2>3, <3>1
    <3> QED
      BY <1>0, <2>1, <3>2, ConfirmedWaiting
  <2> QED
    BY <1>8, <2>2, <2>3 DEF OnEvolveRetry
<1>9. CASE OnEvolveWin
  <2>1. PICK winner \in CorePlayers \cup {None} : Done(<<DuelEnd(winner, "Win")>>)
    BY <1>9 DEF OnEvolveWin
  <2>2. DuelEnd(winner, "Win") \in Requests /\ DuelEnd(winner, "Win").type = "DuelEnd"
    BY RequestsTyped DEF DuelEnd
  <2> QED
    BY <1>9, <1>v, <2>1, <2>2 DEF OnEvolveWin
<1>10. CASE OnResponse
  <2>1. CASE core.ended
    BY <1>10, <1>n, <2>1 DEF OnResponse, Ignored, Chain, duel
  <2>2. CASE ~core.ended
    <3>1. PICK s \in Seats : /\ s = Request.from /\ players[s].state = "Response" /\ Present(s)
      BY <1>0, <1>10, LetThrough DEF OnResponse, ReceiveFrom, Receive
    <3>2. /\ players' = [players EXCEPT ![s].state = "None"] /\ Done(<<Ex("Evolve")>>)
          /\ UNCHANGED clients
      BY <1>10, <2>2, <3>1 DEF OnResponse, Closed
    <3>3. Ex("Evolve") \in Requests /\ Ex("Evolve").type = "Evolve"
      BY RequestsTyped DEF Ex
    <3>4. clients[s].owes # "TimeConfirm" /\ ~Waits(Ctos("TimeConfirm", s))
      BY <3>1 DEF Confirmed
    <3> DEFINE more == <<Ex("Evolve")>>
    <3>5. more \in Seq(Requests) /\ Done(more) /\ \A i \in DOMAIN more : more[i].type # "TimeConfirm"
      BY <1>1, <3>2, <3>3
    <3> HIDE DEF more
    <3>6. ~Waits(Ctos("TimeConfirm", s))'
      <4>1. \A j \in DOMAIN more : Ctos("TimeConfirm", s) # more[j]
        BY <3>5 DEF Ctos
      <4> QED
        BY <1>0, <3>4, <3>5, <4>1, QueueAfter
    <3>7. \A t \in Seats : t # s => players'[t].state = players[t].state
      BY <1>q, <3>2
    <3> QED
      BY <1>0, <3>2, <3>4, <3>5, <3>6, <3>7, ConfirmedRest
  <2> QED
    BY <2>1, <2>2
<1>11. CASE OnTimeConfirm
  <2>1. CASE Ignored
    BY <1>n, <2>1 DEF Ignored, Chain, duel
  <2>2. CASE ~Ignored
    <3>1. PICK s \in Seats : s = Request.from /\ Request = Ctos("TimeConfirm", s)
      BY <1>0, <1>11, LetThrough DEF OnTimeConfirm, ReceiveFrom, Receive
    <3>2. players' = [players EXCEPT ![s].state = "Response"] /\ Done(none) /\ UNCHANGED clients
      BY <1>11, <2>2, <3>1 DEF OnTimeConfirm, none
    <3>3. clients[s].owes # "TimeConfirm"
      <4>1. Waits(Ctos("TimeConfirm", s))
        BY <1>0, <3>1, RequestTyped DEF Waits
      <4> QED
        BY <4>1 DEF Confirmed
    <3>4. ~Waits(Ctos("TimeConfirm", s))'
      <4>1. /\ Len(queue) \in Nat /\ \A i \in DOMAIN queue' :
               i + 1 \in DOMAIN queue /\ queue'[i] = queue[i + 1] /\ i + 1 # 1
        <5>1. /\ Len(queue) \in Nat /\ queue' \in Seq(Requests)
              /\ \A i \in DOMAIN queue' :
                   \/ i < Len(queue) /\ i + 1 \in DOMAIN queue /\ queue'[i] = queue[i + 1]
                   \/ i - Len(queue) + 1 \in DOMAIN none
          BY <1>0, <3>2, AfterDone
        <5> QED
          BY <1>0, <5>1
      <4>2. queue[1] = Ctos("TimeConfirm", s) /\ 1 \in DOMAIN queue
        BY <1>0, <3>1, RequestTyped
      <4>3. queue[1].type = "TimeConfirm"
        BY <4>2 DEF Ctos
      <4> QED
        BY <4>1, <4>2, <4>3 DEF Confirmed, Waits
    <3>5. \A t \in Seats : t # s => players'[t].state = players[t].state
      BY <1>q, <3>2
    <3> QED
      BY <1>0, <3>2, <3>3, <3>4, <3>5, ConfirmedRest
  <2> QED
    BY <2>1, <2>2
<1>12. CASE OnSurrender
  <2>1. CASE Ignored
    BY <1>n, <2>1 DEF Ignored, Chain, duel
  <2>2. CASE ~Ignored
    <3>1. UNCHANGED <<players, clients>>
          /\ (Done(<<>>) \/ Done(<<Lost(Request.from, "Surrender")>>))
      BY <1>12, <2>2 DEF OnSurrender
    <3>2. Request.from \in Seats
      BY <1>0, <1>12, FromClient DEF CtosTypes, OnSurrender, ReceiveFrom, Receive
    <3>3. /\ Lost(Request.from, "Surrender") \in Requests
          /\ Lost(Request.from, "Surrender").type = "DuelEnd"
      BY <3>2, LostTyped DEF Lost, DuelEnd
    <3> QED
      BY <1>n, <1>v, <3>1, <3>3
  <2> QED
    BY <2>1, <2>2
<1>13. CASE OnLeaveGame
  <2>1. CASE Break
    BY <1>b, <2>1
  <2>2. CASE ~Break
    <3>1. PICK s \in Seats : s = Request.from /\ Request = Ctos("LeaveGame", s)
      BY <1>0, <1>13, FromClient DEF OnLeaveGame, ReceiveFrom, Receive, CtosTypes
    <3>2. /\ players' = [players EXCEPT ![s] = EmptySlot] /\ UNCHANGED clients
          /\ Done(IF core.ended THEN <<>> ELSE <<Lost(s, "Leave")>>)
      BY <1>13, <2>2, <3>1 DEF OnLeaveGame
    <3>3. PICK more \in Seq(Requests) :
            Done(more) /\ \A i \in DOMAIN more : more[i].type # "TimeConfirm"
      <4>1. Lost(s, "Leave") \in Requests /\ Lost(s, "Leave").type = "DuelEnd"
        BY LostTyped DEF Lost, DuelEnd
      <4>2. CASE core.ended
        BY <1>0, <3>2, <4>2 DEF none
      <4>3. CASE ~core.ended
        <5> DEFINE more == <<Lost(s, "Leave")>>
        <5>1. /\ more \in Seq(Requests) /\ Done(more)
              /\ \A i \in DOMAIN more : more[i].type # "TimeConfirm"
          BY <1>1, <3>2, <4>1, <4>3
        <5> HIDE DEF more
        <5> QED
          BY <5>1
      <4> QED
        BY <4>2, <4>3
    <3>4. clients[s].owes # "TimeConfirm"
      <4>1. ~clients[s].online
        BY <1>0, <3>1, HandledInStage DEF MessageOK, Ctos
      <4> QED
        BY <4>1 DEF Confirmed
    <3>5. ~Waits(Ctos("TimeConfirm", s))'
      <4>1. \A i \in DOMAIN queue : i # 1 => queue[i] # Ctos("TimeConfirm", s)
        <5>1. queue[1] = Ctos("LeaveGame", s) /\ 1 \in DOMAIN queue /\ DOMAIN queue = 1..Len(queue)
          BY <1>0, <3>1, RequestTyped DEF TypeOK
        <5>2. \A i \in DOMAIN queue : i # 1 => PairOK(queue[1], queue[i])
          BY <5>1 DEF IInv, Mailbox
        <5> QED
          BY <5>1, <5>2 DEF PairOK, Ctos, CtosTypes
      <4>2. \A i \in DOMAIN queue' : \/ /\ i + 1 \in DOMAIN queue /\ i + 1 # 1
                                        /\ queue'[i] = queue[i + 1]
                                     \/ \E j \in DOMAIN more : queue'[i] = more[j]
        <5>1. /\ Len(queue) \in Nat /\ queue' \in Seq(Requests)
              /\ \A i \in DOMAIN queue' :
                   \/ i < Len(queue) /\ i + 1 \in DOMAIN queue /\ queue'[i] = queue[i + 1]
                   \/ /\ i - Len(queue) + 1 \in DOMAIN more
                      /\ queue'[i] = more[i - Len(queue) + 1]
          BY <1>0, <3>3, AfterDone
        <5> QED
          BY <5>1
      <4> QED
        BY <3>3, <4>1, <4>2 DEF Waits, Ctos
    <3>6. \A t \in Seats : t # s => players'[t].state = players[t].state
      BY <1>q, <3>2
    <3> QED
      BY <1>0, <3>2, <3>3, <3>4, <3>5, <3>6, ConfirmedRest
  <2> QED
    BY <2>1, <2>2
<1>14. CASE OnDuelEnd
  <2>1. UNCHANGED <<players, clients>> /\ Done(<<Ex("GenerateReplay"), Ex("JudgeContinueMatch")>>)
    BY <1>14 DEF OnDuelEnd
  <2>2. /\ Ex("GenerateReplay") \in Requests /\ Ex("GenerateReplay").type = "GenerateReplay"
        /\ Ex("JudgeContinueMatch") \in Requests
        /\ Ex("JudgeContinueMatch").type = "JudgeContinueMatch"
    BY RequestsTyped DEF Ex
  <2> QED
    BY <1>v, <1>w, <2>1, <2>2
<1>15. CASE OnJudgeContinueMatch
  <2>1. UNCHANGED <<players, clients>> /\ Done(<<Ex("MatchEnd")>>)
    BY <1>15 DEF OnJudgeContinueMatch, Chain, duel
  <2>2. Ex("MatchEnd") \in Requests /\ Ex("MatchEnd").type = "MatchEnd"
    BY RequestsTyped DEF Ex
  <2> QED
    BY <1>v, <1>w, <2>1, <2>2
<1>16. CASE OnMatchEnd
  <2>1. UNCHANGED <<players, clients>> /\ (Done(<<>>) \/ Done(<<Ex("terminate")>>))
    BY <1>16 DEF OnMatchEnd, Chain, duel
  <2>2. Ex("terminate") \in Requests /\ Ex("terminate").type = "terminate"
    BY RequestsTyped DEF Ex
  <2> QED
    BY <1>n, <1>v, <2>1, <2>2
<1>17. CASE OnTerminate
  BY <1>17, <1>b DEF OnTerminate
<1>18. CASE OnTimerTick
  <2> DEFINE out == [type |-> "Timeout", player |-> last_response]
  <2>1. /\ UNCHANGED <<players, clients>>
        /\ Done(<<>>) \/ (last_response # None /\ Done(<<out>>))
    BY <1>18 DEF OnTimerTick, Ignored, Chain, duel
  <2>2. last_response # None => out \in Requests /\ out.type = "Timeout"
    BY <1>0, RequestsTyped DEF TypeOK
  <2> HIDE DEF out
  <2> QED
    BY <1>n, <1>v, <2>1, <2>2
<1>19. CASE OnTimeout
  <2>1. UNCHANGED <<players, clients>> /\ Done(<<Lost(Request.player, "Timeout")>>)
    BY <1>19 DEF OnTimeout
  <2>2. Request.player \in Seats
    BY <1>0, <1>19, RequestTyped, RequestFields DEF OnTimeout, Receive
  <2>3. Lost(Request.player, "Timeout") \in Requests /\ Lost(Request.player, "Timeout").type = "DuelEnd"
    BY <2>2, LostTyped DEF Lost, DuelEnd
  <2> QED
    BY <1>v, <2>1, <2>3
<1> QED
  BY <1>2, <1>3, <1>4, <1>5, <1>6, <1>7, <1>8, <1>9, <1>10, <1>11, <1>12, <1>13, <1>14, <1>15,
     <1>16, <1>17, <1>18, <1>19 DEF Actor

-----------------------------------------------------------------------------
(* The clients, and all steps together.                                     *)

\* What a client sends it was asked for, a leaver's client owes nothing.
LEMMA SentKept ==
  ASSUME IInv, OneRun, Confirmed, Alive, NEW r \in Requests, Send(r), UNCHANGED <<running, duel>>,
         r.type \notin Runs \cup {"DuelEnd"},
         \A s \in Seats :
           /\ clients'[s].online => clients[s].online
           /\ ~clients'[s].online => /\ ~clients[s].online \/ r = Ctos("LeaveGame", s)
                                     /\ clients'[s].owes = "None"
           /\ \A prompt \in Demands : r = Ctos(prompt, s) =>
                clients[s].owes \in {prompt} \cup (IF prompt = "Response" THEN {"TimeConfirm"} ELSE {})
           /\ \/ clients'[s].owes = clients[s].owes /\ r # Ctos("TimeConfirm", s)
              \/ ~clients'[s].online /\ r # Ctos("TimeConfirm", s)
              \/ /\ r = Ctos(clients[s].owes, s)
                 /\ clients'[s].owes = IF clients[s].owes = "TimeConfirm" THEN "Response" ELSE "None"
  PROVE  OneRun' /\ Confirmed' /\ Alive'
<1>0. TypeOK /\ running
  BY QueueSent DEF IInv
<1>1. /\ \A t : Waits(t)' <=> Waits(t) \/ t = r
      /\ \A s : Follows(s) => Follows(s)'
      /\ \A s : Waits(Ctos("TimeConfirm", s)) /\ r = Ctos("Response", s) => Follows(s)'
      /\ SingleRun'
  BY <1>0, QueueSent DEF OneRun
<1>2. /\ stage' = stage /\ players' = players /\ core' = core /\ last_response' = last_response
      /\ running' = running
  BY DEF duel
<1>3. \A s : (Gated(s)' <=> Gated(s)) /\ (Plays(s)' <=> Plays(s)) /\ (Present(s)' <=> Present(s))
  BY <1>2 DEF Gated, Plays, Present
<1>4. /\ Has(Runs)' <=> Has(Runs)
      /\ Has({"Evolve"})' <=> Has({"Evolve"})
      /\ Has({"DuelEnd"})' <=> Has({"DuelEnd"})
      /\ Has({"JudgeContinueMatch", "MatchEnd", "terminate"}) =>
           Has({"JudgeContinueMatch", "MatchEnd", "terminate"})'
  BY <1>1 DEF Has, Runs
<1>5. \A s \in Seats : players[s].state # "Any" \/
        \A prompt \in {"TimeConfirm", "Response"} :
          clients'[s].owes # prompt /\ ~Waits(Ctos(prompt, s))'
  <2> SUFFICES ASSUME NEW s \in Seats, NEW prompt \in {"TimeConfirm", "Response"},
                      clients'[s].owes = prompt \/ Waits(Ctos(prompt, s))'
               PROVE  players[s].state # "Any"
    OBVIOUS
  <2>1. CASE Waits(Ctos(prompt, s))
    BY <2>1 DEF OneRun
  <2>2. CASE r = Ctos(prompt, s)
    <3>1. clients[s].owes \in {"TimeConfirm", "Response"}
      BY <2>2 DEF Demands
    <3> QED
      BY <3>1 DEF OneRun
  <2>3. CASE clients'[s].owes = prompt
    <3>1. clients[s].owes \in {"TimeConfirm", "Response"}
      BY <2>3
    <3> QED
      BY <3>1 DEF OneRun
  <2> QED
    BY <1>1, <2>1, <2>2, <2>3
<1>6. OneRun'
  BY <1>1, <1>2, <1>3, <1>4, <1>5 DEF OneRun
<1>7. Confirmed'
  <2>1. \A s \in Seats : r = Ctos("TimeConfirm", s) => clients[s].owes = "TimeConfirm"
    BY DEF Demands
  <2>2. \A s \in Seats : clients'[s].owes = "TimeConfirm" =>
                           clients[s].owes = "TimeConfirm" /\ r # Ctos("TimeConfirm", s)
    BY DEF Ctos
  <2>3. \A s \in Seats :
          /\ clients'[s].owes = "TimeConfirm" \/ Waits(Ctos("TimeConfirm", s))' =>
               players'[s].state = "TimeConfirm"
          /\ clients'[s].owes = "TimeConfirm" => ~Waits(Ctos("TimeConfirm", s))'
          /\ ~clients'[s].online => clients'[s].owes = "None"
    BY <1>1, <1>2, <2>1, <2>2 DEF Confirmed
  <2>4. /\ Len(queue) \in Nat
        /\ \A i \in DOMAIN queue' : \/ i \in DOMAIN queue /\ queue'[i] = queue[i]
                                    \/ i = Len(queue) + 1 /\ queue'[i] = r
    BY <1>0, AfterSend
  <2>5. r.type = "TimeConfirm" => \A i \in DOMAIN queue : queue[i] # r
    <3> SUFFICES ASSUME r.type = "TimeConfirm", NEW i \in DOMAIN queue, queue[i] = r PROVE FALSE
      OBVIOUS
    <3>1. PICK s \in Seats : r = Ctos("TimeConfirm", s)
      BY DEF Requests, Ctos
    <3>2. Waits(Ctos("TimeConfirm", s)) /\ clients[s].owes = "TimeConfirm"
      BY <2>1, <3>1 DEF Waits
    <3> QED
      BY <3>2 DEF Confirmed
  <2>6. \A i, j \in DOMAIN queue' : queue'[i].type = "TimeConfirm" /\ queue'[j] = queue'[i] => i = j
    BY <2>4, <2>5 DEF Confirmed
  <2> QED
    BY <2>3, <2>6 DEF Confirmed
<1>8. \A s \in Seats : Present(s)' /\ ~clients'[s].online => Waits(Ctos("LeaveGame", s))'
  BY <1>0, <1>1, <1>3 DEF Alive
<1>9. ASSUME AllHere', Progress PROVE Progress'
  <2>1. \A s \in Seats, prompt \in Demands \ {"TimeConfirm"} : Pending(s, prompt) => Pending(s, prompt)'
    <3> SUFFICES ASSUME NEW s \in Seats, NEW prompt \in Demands \ {"TimeConfirm"}, Pending(s, prompt)
                 PROVE  clients'[s].owes = prompt \/ Waits(Ctos(prompt, s))'
      BY <1>2 DEF Pending
    <3> QED
      BY <1>1, <1>9 DEF Pending, AllHere
  <2>2. \A s \in Seats : Confirming(s) => Confirming(s)'
    <3> SUFFICES ASSUME NEW s \in Seats, Confirming(s) PROVE Confirming(s)'
      OBVIOUS
    <3>1. players'[s].state = "TimeConfirm" /\ clients'[s].online
      BY <1>2, <1>9 DEF Confirming, AllHere
    <3>2. CASE clients[s].owes = "TimeConfirm"
      <4>1. \/ clients'[s].owes = "TimeConfirm"
            \/ clients'[s].owes = "Response" /\ r = Ctos("TimeConfirm", s)
        BY <3>1, <3>2
      <4> QED
        BY <1>1, <3>1, <4>1 DEF Confirming
    <3>3. CASE Waits(Ctos("TimeConfirm", s)) /\ clients[s].owes = "Response"
      <4>1. clients'[s].owes = "Response" \/ r = Ctos("Response", s)
        BY <3>1, <3>3
      <4> QED
        BY <1>1, <3>1, <3>3, <4>1 DEF Confirming
    <3>4. CASE Follows(s)
      BY <1>1, <3>1, <3>4 DEF Confirming
    <3> QED
      BY <3>2, <3>3, <3>4 DEF Confirming
  <2>3. Leaders \subseteq Seats
    BY DEF Leaders, Leader, Seats, Teams
  <2> QED
    BY <1>2, <1>4, <1>9, <2>1, <2>2, <2>3 DEF Progress, Demands
<1>10. AllHere' => AllHere
  BY DEF AllHere
<1>11. Ending' <=> Ending
  BY <1>2, <1>4 DEF Ending
<1>12. running /\ ~Ending => /\ \A s \in Seats : Gated(s)' => last_response' = s
                             /\ core'.input => Plays(last_response)'
  BY <1>2, <1>3 DEF Alive, Plays
<1>13. /\ running /\ TerminateWhenMatchEnd /\ core.ended =>
            Has({"JudgeContinueMatch", "MatchEnd", "terminate"})'
       /\ core.input => core.started
  BY <1>4 DEF Alive
<1>14. running /\ ~Ending /\ AllHere' => Progress'
  BY <1>9, <1>10 DEF Alive
<1>15. Alive'
  BY <1>2, <1>8, <1>11, <1>12, <1>13, <1>14 DEF Alive
<1> QED
  BY <1>6, <1>7, <1>15

\* What happens outside the room leaves the question where it is.
LEMMA QuietOutside ==
  ASSUME IInv, OneRun, Confirmed, Alive, TimerTicks \/ \E s \in Seats : Client(s)
  PROVE  OneRun' /\ Confirmed' /\ Alive'
<1>c. clients \in [Seats -> ClientRecords]
  BY DEF IInv, TypeOK, ClientRecords, Demands
<1>1. CASE TimerTicks
  <2>1. Send(Ex("timer_tick")) /\ UNCHANGED <<running, duel, clients>>
    BY <1>1 DEF TimerTicks, Post
  <2>2. PICK r \in Requests : r = Ex("timer_tick") /\ r.type = "timer_tick"
    BY RequestsTyped DEF Ex
  <2>3. /\ \A s : \A prompt \in Demands : r # Ctos(prompt, s)
        /\ \A s : r # Ctos("TimeConfirm", s)
    BY <2>2 DEF Ctos, Demands
  <2>4. /\ r.type \notin Runs \cup {"DuelEnd"}
        /\ Send(r)
    BY <2>1, <2>2 DEF Runs
  <2> QED
    BY <2>1, <2>3, <2>4, SentKept DEF Confirmed
<1>2. ASSUME NEW s \in Seats, ClientAnswers(s) PROVE OneRun' /\ Confirmed' /\ Alive'
  <2>1. /\ clients[s].online /\ clients[s].owes \in Demands \ {"None"}
        /\ clients' = [clients EXCEPT ![s].owes = IF @ = "TimeConfirm" THEN "Response" ELSE "None"]
        /\ UNCHANGED <<running, duel>>
    BY <1>2, <1>c DEF ClientAnswers, ClientRecords, Demands
  <2>2. PICK r \in Requests : r = Ctos(clients[s].owes, s)
    BY <2>1, RequestsTyped DEF CtosTypes, Demands
  <2>3. Send(r) /\ r.from = s /\ r.type = clients[s].owes
    BY <1>2, <2>2 DEF ClientAnswers, Ctos
  <2>4. \A t \in Seats : /\ clients'[t].online = clients[t].online
                         /\ t # s => clients'[t] = clients[t]
    BY <1>c, <2>1 DEF ClientRecords
  <2>5. clients'[s].owes = IF clients[s].owes = "TimeConfirm" THEN "Response" ELSE "None"
    BY <1>c, <2>1 DEF ClientRecords
  <2>6. \A type, t : r = Ctos(type, t) => t = s /\ type = clients[s].owes
    BY <2>2 DEF Ctos
  <2>7. r.type \notin Runs \cup {"DuelEnd"}
    BY <2>1, <2>3 DEF Demands, Runs
  <2> QED
    BY <2>1, <2>2, <2>3, <2>4, <2>5, <2>6, <2>7, SentKept DEF Confirmed
<1>3. ASSUME NEW s \in Seats, ClientAnswersEarly(s) PROVE OneRun' /\ Confirmed' /\ Alive'
  <2>1. clients[s].owes = "TimeConfirm" /\ UNCHANGED <<running, duel, clients>>
        /\ Send(Ctos("Response", s))
    BY <1>3 DEF ClientAnswersEarly, Post
  <2>2. PICK r \in Requests : r = Ctos("Response", s) /\ r.type = "Response"
    BY RequestsTyped DEF CtosTypes, Ctos
  <2>3. \A type, t : r = Ctos(type, t) => t = s /\ type = "Response"
    BY <2>2 DEF Ctos
  <2> QED
    BY <2>1, <2>2, <2>3, SentKept DEF Confirmed, Runs, Demands
<1>4. ASSUME NEW s \in Seats, ClientSurrenders(s) PROVE OneRun' /\ Confirmed' /\ Alive'
  <2>1. /\ UNCHANGED <<running, duel>> /\ Send(Ctos("Surrender", s))
        /\ clients' = [clients EXCEPT ![s].gaveUp = TRUE]
    BY <1>4 DEF ClientSurrenders, Post
  <2>2. PICK r \in Requests : r = Ctos("Surrender", s) /\ r.type = "Surrender"
    BY RequestsTyped DEF CtosTypes, Ctos
  <2>3. \A type, t : r = Ctos(type, t) => type = "Surrender"
    BY <2>2 DEF Ctos
  <2>4. \A t \in Seats : clients'[t].owes = clients[t].owes /\ clients'[t].online = clients[t].online
    BY <1>c, <2>1 DEF ClientRecords
  <2> QED
    BY <2>1, <2>2, <2>3, <2>4, SentKept DEF Confirmed, Runs, Demands
<1>5. ASSUME NEW s \in Seats, ClientLeaves(s) PROVE OneRun' /\ Confirmed' /\ Alive'
  <2>1. /\ UNCHANGED <<running, duel>> /\ Send(Ctos("LeaveGame", s))
        /\ clients' = [clients EXCEPT ![s] = NoClient]
    BY <1>5 DEF ClientLeaves, Post
  <2>2. PICK r \in Requests : r = Ctos("LeaveGame", s) /\ r.type = "LeaveGame"
    BY RequestsTyped DEF CtosTypes, Ctos
  <2>3. \A type, t : r = Ctos(type, t) => type = "LeaveGame"
    BY <2>2 DEF Ctos
  <2>4. /\ \A t \in Seats : t # s => clients'[t] = clients[t]
        /\ ~clients'[s].online /\ clients'[s].owes = "None"
    BY <1>c, <2>1 DEF ClientRecords, NoClient
  <2> QED
    BY <2>1, <2>2, <2>3, <2>4, SentKept DEF Confirmed, Runs, Demands
<1> QED
  BY <1>1, <1>2, <1>3, <1>4, <1>5 DEF Client

\* At the start the leaders are asked for their hands.
LEMMA QuietInit == Init => OneRun /\ Confirmed /\ Alive
<1> SUFFICES ASSUME Init PROVE OneRun /\ Confirmed /\ Alive
  OBVIOUS
<1>1. /\ queue = <<>> /\ DOMAIN queue = {} /\ stage = "Finger"
      /\ ~core.started /\ ~core.ended /\ ~core.input
  BY DEF Init, NewCore
<1>2. \A s \in Seats : /\ players[s].state = IF s \in Leaders THEN "HandResult" ELSE "Any"
                       /\ ~players[s].hand
                       /\ clients[s].owes = IF s \in Leaders THEN "HandResult" ELSE "None"
                       /\ clients[s].online
  BY DEF Init
<1>3. (\A r : ~Waits(r)) /\ \A types : ~Has(types)
  BY <1>1 DEF Waits, Has
<1>4. \A s \in Seats : ~Gated(s)
  BY <1>2 DEF Gated
<1>5. OneRun
  BY <1>1, <1>2, <1>3, <1>4 DEF OneRun, SingleRun
<1>6. Confirmed
  BY <1>1, <1>2, <1>3 DEF Confirmed
<1>7. Progress
  <2>1. Leaders \subseteq Seats /\ 0 \in Leaders
    BY DEF Leaders, Leader, Seats, Teams
  <2> QED
    BY <1>1, <1>2, <2>1 DEF Progress, Pending
<1> QED
  BY <1>1, <1>2, <1>4, <1>5, <1>6, <1>7 DEF Alive

\* Every step keeps the question where it can be answered.
LEMMA QuietStep ==
  ASSUME IInv, OneRun, Confirmed, Alive, [Next]_vars
  PROVE  OneRun' /\ Confirmed' /\ Alive'
<1>0. IInv'
  BY InvariantKept
<1>1. CASE Actor
  <2>1. Confirmed'
    BY <1>1, ConfirmedActor
  <2>2. InStep'
    BY <1>0 DEF IInv
  <2>3. CASE \/ OnFirstShuffle \/ OnEvolveEnded \/ OnGenerateReplay \/ OnJudgeContinueMatch
             \/ OnMatchEnd \/ OnTimerTick
    BY <2>1, <2>3, QuietLinks
  <2>4. CASE OnTerminate
    BY <2>1, <2>4, QuietAfterBreak DEF OnTerminate, IInv
  <2> QED
    BY <1>1, <2>1, <2>2, <2>3, <2>4, QuietRefused, QuietHandResult, QuietTpResult, QuietDuelInit,
       QuietDuelStart, QuietSelect, QuietRetry, QuietWin, QuietResponse, QuietTimeConfirm,
       QuietSurrender, QuietLeave, QuietDuelEnd, QuietTimeout DEF Actor
<1>2. CASE TimerTicks \/ \E s \in Seats : Client(s)
  BY <1>2, QuietOutside
<1>3. CASE UNCHANGED vars
  <2>1. UNCHANGED <<running, queue, stage, players, last_response, core, clients>>
    BY <1>3 DEF vars, duel
  <2>2. /\ \A r : Waits(r)' <=> Waits(r)
        /\ \A s : Follows(s)' <=> Follows(s)
        /\ \A s : (Gated(s)' <=> Gated(s)) /\ (Plays(s)' <=> Plays(s)) /\ (Present(s)' <=> Present(s))
    BY <2>1 DEF Waits, Follows, Gated, Plays, Present
  <2>3. \A types : Has(types)' <=> Has(types)
    BY <2>2 DEF Has
  <2>4. OneRun' /\ Confirmed'
    BY <2>1, <2>2, <2>3 DEF OneRun, Confirmed, SingleRun
  <2>5. (Progress' <=> Progress) /\ (Ending' <=> Ending) /\ (AllHere' <=> AllHere)
    BY <2>1, <2>2, <2>3 DEF Progress, Pending, Confirming, Ending, AllHere
  <2>6. Plays(last_response)' <=> Plays(last_response)
    BY <2>1 DEF Plays
  <2> QED
    BY <2>1, <2>2, <2>3, <2>4, <2>5, <2>6 DEF Alive
<1> QED
  BY <1>1, <1>2, <1>3 DEF Next

\* The invariant.
LEMMA AskedInvariant == Spec => [](IInv /\ OneRun /\ Confirmed /\ Alive)
<1>1. Init => IInv /\ OneRun /\ Confirmed /\ Alive
  BY InvariantInit, QuietInit
<1>2. IInv /\ OneRun /\ Confirmed /\ Alive /\ [Next]_vars
        => IInv' /\ OneRun' /\ Confirmed' /\ Alive'
  BY InvariantKept, QuietStep
<1> QED
  BY <1>1, <1>2, PTL DEF Spec

-----------------------------------------------------------------------------
(* What follows from it.                                                    *)

\* A set whose members are equal is finite and has one at most.
LEMMA OneAtMost ==
  ASSUME NEW S, \A x, y \in S : x = y
  PROVE  Cardinality(S) \in {0, 1}
<1>1. CASE S = {}
  BY <1>1, FS_EmptySet
<1>2. CASE S # {}
  <2>1. PICK x \in S : S = {x}
    BY <1>2
  <2> QED
    BY <2>1, FS_Singleton
<1> QED
  BY <1>1, <1>2

\* The engine has one answer outstanding at most.
LEMMA OutstandingOnce ==
  ASSUME TypeOK, OneRun
  PROVE  OneOutstanding
<1> DEFINE runs == {i \in DOMAIN queue : queue[i].type = "Evolve"}
           asked == {s \in Seats : players[s].state \in {"TimeConfirm", "Response"}}
<1>1. \A i, j \in runs : i = j
  BY DEF OneRun, SingleRun, Runs
<1>2. \A s, t \in asked : s = t
  BY DEF OneRun, Gated
<1>3. runs # {} => asked = {}
  <2> SUFFICES ASSUME NEW i \in runs PROVE asked = {}
    OBVIOUS
  <2>1. queue[i] \in Requests /\ Waits(queue[i]) /\ queue[i].type = "Evolve"
    BY DEF TypeOK, Waits
  <2>2. Has(Runs)
    BY <2>1 DEF Has, Runs
  <2> QED
    BY <2>2 DEF OneRun, Gated
<1>4. Cardinality(runs) \in {0, 1} /\ Cardinality(asked) \in {0, 1}
  BY <1>1, <1>2, OneAtMost
<1>5. Cardinality(runs) = 0 \/ Cardinality(asked) = 0
  BY <1>3, FS_EmptySet
<1> QED
  BY <1>4, <1>5 DEF OneOutstanding

\* Where nobody has left, somebody can move.
LEMMA NobodyWaits ==
  ASSUME TypeOK, Alive
  PROVE  SomebodyCanMove
<1> SUFFICES ASSUME running, queue = <<>>, TerminateWhenMatchEnd, \A s \in Seats : Present(s)
             PROVE  \E s \in Seats : clients[s].owes # "None" /\ Allowed(s, clients[s].owes)
  BY DEF SomebodyCanMove
<1>1. (\A r : ~Waits(r)) /\ (\A s : ~Follows(s)) /\ \A types : ~Has(types)
  BY DEF Waits, Follows, Has
<1>2. AllHere /\ ~Ending
  BY <1>1 DEF Alive, AllHere, Ending
<1>3. Progress
  BY <1>2 DEF Alive
<1>4. \A s \in Seats, prompt \in {"HandResult", "TpResult", "Response"} : Pending(s, prompt) =>
        clients[s].owes # "None" /\ Allowed(s, clients[s].owes)
  BY <1>1 DEF Pending, Allowed
<1>5. \A s \in Seats : Confirming(s) => clients[s].owes # "None" /\ Allowed(s, clients[s].owes)
  BY <1>1 DEF Confirming, Allowed
<1>6. Leaders \subseteq Seats
  BY DEF Leaders, Leader, Seats, Teams
<1>7. stage \in {"Finger", "Firstgo", "Dueling"}
  BY DEF TypeOK
<1> QED
  BY <1>1, <1>3, <1>4, <1>5, <1>6, <1>7 DEF Progress

\* The question the engine waits for is always with a player whose deck is in play, it is
\* asked once, and as long as all four sit at the table somebody has an answer to give that
\* his gate lets through (set_waiting, the gates, Evolve and its Retry).
THEOREM RightOneAlwaysAsked == Spec => []TheRightOneIsAsked
<1>1. IInv /\ OneRun /\ Confirmed /\ Alive => TheRightOneIsAsked
  <2> SUFFICES ASSUME IInv, OneRun, Alive PROVE TheRightOneIsAsked
    OBVIOUS
  <2>1. TypeOK
    BY DEF IInv
  <2>2. AskedPlays
    BY DEF AskedPlays, OneRun, Gated, Plays
  <2> QED
    BY <2>1, <2>2, OutstandingOnce, NobodyWaits DEF TheRightOneIsAsked
<1> QED
  BY <1>1, AskedInvariant, PTL

-----------------------------------------------------------------------------
(* What the viewers are shown: the rules of hiding, card by card.           *)

\* What a card is.
LEMMA CardFields ==
  ASSUME NEW c \in Cards
  PROVE  /\ c.controller \in {0, 1} /\ c.location \in Locations /\ c.position \in Position
         /\ c.reveal \in BOOLEAN
         /\ c.location = "Grave" => c.position = "Faceup"
         /\ c.location = "Overlay" <=> c.position = "Any"
         /\ c.location = "Overlay" => ~c.reveal
  BY DEF Cards, Sides

\* What the masks hide of a card, field by field, is what its rules let nobody else read:
\* the player of the card sees it, the partner what lies on the table.
LEMMA HiddenIsUnread ==
  ASSUME NEW c \in Cards, NEW v \in Viewers, NEW location
  PROVE  HiddenInfo(c, DefaultQuery(location), v) <=> ~MayRead(c, v)
<1>1. /\ c.location \in Locations /\ c.position \in Position
      /\ c.location = "Grave" => c.position = "Faceup"
      /\ c.location = "Overlay" <=> c.position = "Any"
      /\ c.location = "Overlay" => ~c.reveal
  BY CardFields
<1>2. Covered(c) <=> ~(c.reveal \/ c.position = "Faceup" \/ c.location = "Overlay")
  BY <1>1 DEF Covered, Position, Locations, MainField, OnField
<1>3. AtTheTable(c, v) <=> v = Mate(c.controller) /\ c.location \in {"MZone", "SZone", "Removed"}
  BY DEF AtTheTable, OnField
<1> QED
  BY <1>2, <1>3 DEF HiddenInfo, DefaultQuery, MayRead

\* The clone that is masked for all who may not look keeps the open cards alone.
LEMMA HiddenFromAll ==
  ASSUME NEW c \in Cards, NEW location
  PROVE  HiddenInfo(c, DefaultQuery(location), All) <=> Covered(c)
<1>1. c.controller \in {0, 1}
  BY CardFields
<1> QED
  BY <1>1 DEF HiddenInfo, DefaultQuery, AtTheTable, All, Mate, CoreNone, CoreRule

\* An open card is everybody's; what is covered is not the observer's.
LEMMA OpenIsRead ==
  ASSUME NEW c \in Cards, NEW v \in Viewers
  PROVE  /\ ~Covered(c) => MayRead(c, v)
         /\ MayRead(c, Observer) => ~Covered(c)
<1>1. /\ c.controller \in {0, 1} /\ c.location \in Locations /\ c.position \in Position
      /\ c.location = "Grave" => c.position = "Faceup"
      /\ c.location = "Overlay" <=> c.position = "Any"
      /\ c.location = "Overlay" => ~c.reveal
  BY CardFields
<1>2. Covered(c) <=> ~(c.reveal \/ c.position = "Faceup" \/ c.location = "Overlay")
  BY <1>1 DEF Covered, Position, Locations, MainField, OnField
<1>3. Observer # c.controller /\ Observer # Mate(c.controller)
  BY <1>1 DEF Observer, Mate, CoreNone, CoreRule
<1> QED
  BY <1>2, <1>3 DEF MayRead

-----------------------------------------------------------------------------
(* The shapes of the messages.                                              *)

\* One or two cards of one place.
Listed(m) ==
  /\ DOMAIN m.cards \subseteq {1, 2} /\ 1 \in DOMAIN m.cards
  /\ \A i \in DOMAIN m.cards : /\ m.cards[i] \in Cards
                               /\ m.cards[i].controller = m.player
                               /\ m.cards[i].location = m.cards[1].location

LEMMA ListingShape ==
  ASSUME NEW kind, NEW location, NEW m \in About(kind, location)
  PROVE  /\ Listed(m) /\ m.kind = kind /\ m.query = {} /\ m.from = <<>>
         /\ m.cards[1].location = location
<1>1. PICK pair \in Pairs(location) : m = Message(kind, pair[1].controller, pair)
  BY DEF About
<1>2. pair \in Cards \X Cards /\ pair[1].location = location /\ Place(pair[1]) = Place(pair[2])
  BY DEF Pairs
<1>3. /\ pair[1] \in Cards /\ pair[2] \in Cards /\ DOMAIN pair = {1, 2}
  BY <1>2
<1>4. pair[1].controller = pair[2].controller /\ pair[1].location = pair[2].location
  BY <1>2 DEF Place
<1>5. m.cards = pair /\ m.player = pair[1].controller /\ m.kind = kind /\ m.query = {} /\ m.from = <<>>
  BY <1>1 DEF Message
<1> QED
  BY <1>2, <1>3, <1>4, <1>5 DEF Listed

LEMMA SingleShape ==
  ASSUME NEW kind, NEW c \in Cards, NEW m, m.cards = <<c>>, m.player = c.controller
  PROVE  Listed(m) /\ DOMAIN m.cards = {1} /\ Moved(m) = c
  BY DEF Listed, Moved

LEMMA UpdateShape ==
  ASSUME NEW m \in Updates
  PROVE  /\ Listed(m) /\ m.kind \in {"UpdateCard", "UpdateData"}
         /\ m.query = DefaultQuery(m.cards[1].location)
<1>1. CASE \E c \in Cards : m = Update("UpdateCard", <<c>>)
  <2>1. PICK c \in Cards : m = Update("UpdateCard", <<c>>)
    BY <1>1
  <2>2. /\ m.cards = <<c>> /\ m.player = c.controller /\ m.kind = "UpdateCard"
        /\ m.query = DefaultQuery(c.location)
    BY <2>1 DEF Update, Message
  <2> QED
    BY <2>2, SingleShape
<1>2. CASE \E location \in Locations : \E pair \in Pairs(location) : m = Update("UpdateData", pair)
  <2>0. PICK location \in Locations : \E pair \in Pairs(location) : m = Update("UpdateData", pair)
    BY <1>2
  <2>1. PICK pair \in Pairs(location) : m = Update("UpdateData", pair)
    BY <2>0
  <2>2. pair \in Cards \X Cards /\ Place(pair[1]) = Place(pair[2])
    BY DEF Pairs
  <2>3. /\ m.cards = pair /\ m.player = pair[1].controller /\ m.kind = "UpdateData"
        /\ m.query = DefaultQuery(pair[1].location)
    BY <2>1 DEF Update, Message
  <2>4. /\ pair[1] \in Cards /\ pair[2] \in Cards /\ DOMAIN pair = {1, 2}
        /\ pair[1].controller = pair[2].controller /\ pair[1].location = pair[2].location
    BY <2>2 DEF Place
  <2> QED
    BY <2>3, <2>4 DEF Listed
<1> QED
  BY <1>1, <1>2 DEF Updates

-----------------------------------------------------------------------------
(* Updates.                                                                 *)

\* An update shows each viewer exactly the cards he may read, although the masks are
\* per message: two cards of one place are hidden from the same viewers.
LEMMA UpdateExact ==
  ASSUME ~NoMask, NEW v \in Viewers, NEW m \in Updates
  PROVE  Shown(m, v) = {i \in DOMAIN m.cards : MayRead(m.cards[i], v)}
<1>1. /\ Listed(m) /\ m.kind \in {"UpdateCard", "UpdateData"}
      /\ m.query = DefaultQuery(m.cards[1].location)
  BY UpdateShape
<1>2. \A i \in DOMAIN m.cards : m.cards[i] \in Cards
  BY <1>1 DEF Listed
<1>3. \A i \in DOMAIN m.cards : /\ HiddenInfo(m.cards[i], m.query, v) <=> ~MayRead(m.cards[i], v)
                                /\ HiddenInfo(m.cards[i], m.query, All) <=> Covered(m.cards[i])
  BY <1>1, <1>2, HiddenIsUnread, HiddenFromAll
<1>4. Receives(m, v) /\ Carried(m) = DOMAIN m.cards
  BY <1>1 DEF Receives, Prompts, Commands, Options, CardChoices, Places, Amounts, HandGames,
              Announcements, Carried, Unnamed, DefaultQuery
<1>5. ShouldMask(m, v) = HiddenUpdate(m, v)
  BY <1>1 DEF ShouldMask
<1>6. Kept(m) = {i \in DOMAIN m.cards : ~Covered(m.cards[i])}
  <2>1. Kept(m) = {i \in DOMAIN m.cards : ~HiddenInfo(m.cards[i], m.query, All)}
    BY <1>1 DEF Kept, CardChoices
  <2> QED
    BY <1>3, <2>1
<1>7. Shown(m, v) = IF v # Observer /\ ~HiddenUpdate(m, v)
                    THEN DOMAIN m.cards ELSE {i \in DOMAIN m.cards : ~Covered(m.cards[i])}
  BY <1>4, <1>5, <1>6 DEF Shown, SeesUnmasked
<1>8. CASE v # Observer /\ ~HiddenUpdate(m, v)
  <2>1. \A i \in DOMAIN m.cards : MayRead(m.cards[i], v)
    <3>1. CASE m.player = v
      BY <1>1, <3>1 DEF Listed, MayRead
    <3>2. CASE m.player # v
      BY <1>3, <1>8, <3>2 DEF HiddenUpdate
    <3> QED
      BY <3>1, <3>2
  <2> QED
    BY <1>7, <1>8, <2>1
<1>9. CASE v = Observer
  <2>1. \A i \in DOMAIN m.cards : MayRead(m.cards[i], v) <=> ~Covered(m.cards[i])
    BY <1>2, <1>9, OpenIsRead
  <2> QED
    BY <1>7, <1>9, <2>1
<1>10. CASE HiddenUpdate(m, v)
  <2>1. PICK j \in DOMAIN m.cards : m.player # v /\ HiddenInfo(m.cards[j], m.query, v)
    BY <1>10 DEF HiddenUpdate
  <2>2. m.cards[j].controller # v /\ ~AtTheTable(m.cards[j], v)
    BY <2>1 DEF HiddenInfo
  <2>3. \A i \in DOMAIN m.cards : /\ m.cards[i].controller = m.cards[j].controller
                                  /\ m.cards[i].location = m.cards[j].location
    BY <1>1 DEF Listed
  <2>4. \A i \in DOMAIN m.cards : m.cards[i].controller # v /\ ~AtTheTable(m.cards[i], v)
    BY <2>2, <2>3 DEF AtTheTable
  <2>5. \A i \in DOMAIN m.cards : HiddenInfo(m.cards[i], m.query, v) <=> Covered(m.cards[i])
    BY <1>1, <2>4 DEF HiddenInfo, DefaultQuery
  <2> QED
    BY <1>3, <1>7, <1>10, <2>5
<1> QED
  BY <1>8, <1>9, <1>10

LEMMA EveryUpdateExact == \A v \in Viewers : Exact[v]
  BY UpdateExact DEF Exact

\* The refresh of a single card reaches who may read it, masked or not.
LEMMA RefreshShows ==
  ASSUME NEW v \in Viewers, NEW c \in Cards, MayRead(c, v)
  PROVE  Shown(Update("UpdateCard", <<c>>), v) # {}
<1> DEFINE m == Update("UpdateCard", <<c>>)
<1>1. /\ m \in Updates /\ m.cards = <<c>> /\ m.kind = "UpdateCard"
      /\ m.query = DefaultQuery(c.location)
  BY DEF Updates, Update, Message
<1>2. DOMAIN m.cards = {1} /\ m.cards[1] = c
  BY <1>1
<1> HIDE DEF m
<1>3. CASE ~NoMask
  <2>1. Shown(m, v) = {i \in DOMAIN m.cards : MayRead(m.cards[i], v)}
    BY <1>1, <1>3, UpdateExact
  <2> QED
    BY <1>2, <2>1 DEF m
<1>4. CASE NoMask
  <2>1. Receives(m, v) /\ Carried(m) = DOMAIN m.cards
    BY <1>1 DEF Receives, Prompts, Commands, Options, CardChoices, Places, Amounts, HandGames,
                Announcements, Carried, Unnamed, DefaultQuery
  <2> QED
    BY <1>2, <1>4, <2>1 DEF Shown, SeesUnmasked, m
<1> QED
  BY <1>3, <1>4, ViewsAssumption

-----------------------------------------------------------------------------
(* Secrets: every message, every kind of viewer.                            *)

\* A message that is no question reaches all, with the cards it holds or those that its
\* masked clone has kept.
LEMMA TellsAll ==
  ASSUME ~NoMask, NEW v \in Viewers, NEW m, m.kind \notin Prompts
  PROVE  Shown(m, v) = Carried(m) \cap (IF v # Observer /\ ~ShouldMask(m, v)
                                        THEN DOMAIN m.cards ELSE Kept(m))
  BY DEF Shown, Receives, SeesUnmasked

LEMMA NoPrompt ==
  \A kind \in {"Draw", "ShuffleHand", "ShuffleExtra", "TagSwap", "ShuffleSetCard", "SwapGraveDeck",
               "Move", "PositionChange", "FlipSummoning", "SpecialSummoning", "Set", "UpdateCard",
               "UpdateData"} : kind \notin Prompts
  BY DEF Prompts, Commands, Options, CardChoices, Places, Amounts, HandGames, Announcements

SecretIn(m, v) == \A i \in Shown(m, v) : MayRead(m.cards[i], v)

\* Several cards: those who do not hold them are shown the public ones or none.
LEMMA ListingsSecret ==
  ASSUME ~NoMask, NEW v \in Viewers, NEW m \in Listings
  PROVE  SecretIn(m, v)
<1>1. /\ Listed(m)
      /\ m.kind \in {"Draw", "ShuffleHand", "ShuffleExtra", "TagSwap", "ShuffleSetCard",
                     "SwapGraveDeck"}
  BY ListingShape DEF Listings, Draws, HandShuffles, ExtraShuffles, TagSwaps, FieldShuffles
<1>2. Shown(m, v) = Carried(m) \cap (IF v # Observer /\ ~ShouldMask(m, v)
                                     THEN DOMAIN m.cards ELSE Kept(m))
  BY <1>1, TellsAll, NoPrompt
<1>3. CASE m.kind \in {"ShuffleSetCard", "SwapGraveDeck"}
  <2>1. Carried(m) = {}
    BY <1>3 DEF Carried, Unnamed
  <2> QED
    BY <1>2, <2>1 DEF SecretIn
<1>4. CASE m.kind \in {"Draw", "ShuffleHand", "ShuffleExtra", "TagSwap"}
  <2>1. ShouldMask(m, v) <=> m.player # v
    BY <1>4 DEF ShouldMask
  <2>2. Kept(m) \subseteq {i \in DOMAIN m.cards : IsPublic(m.cards[i])}
    BY <1>4 DEF Kept, CardChoices
  <2>3. CASE m.player = v
    <3>1. \A i \in DOMAIN m.cards : m.cards[i].controller = v
      BY <1>1, <2>3 DEF Listed
    <3> QED
      BY <1>2, <2>2, <3>1 DEF SecretIn, MayRead, Carried
  <2>4. CASE m.player # v
    BY <1>2, <2>1, <2>2, <2>4 DEF SecretIn, MayRead, IsPublic
  <2> QED
    BY <2>3, <2>4
<1> QED
  BY <1>1, <1>3, <1>4

\* A move is masked when the card goes where others may not look.
LEMMA MovesSecret ==
  ASSUME ~NoMask, NEW v \in Viewers, NEW m \in SingleMoves
  PROVE  SecretIn(m, v)
<1>0. PICK c \in Cards, place \in Sides \X Locations :
        m = MoveFrom(place, c)
  BY DEF SingleMoves
<1>1. m.kind = "Move" /\ m.cards = <<c>> /\ m.player = c.controller
  BY <1>0 DEF MoveFrom, Message
<1>2. DOMAIN m.cards = {1} /\ m.cards[1] = c /\ Moved(m) = c
  BY <1>1 DEF Moved
<1>3. Shown(m, v) \subseteq (IF v # Observer /\ ~ShouldMask(m, v) THEN DOMAIN m.cards ELSE Kept(m))
  BY <1>1, TellsAll, NoPrompt
<1>4. ShouldMask(m, v) <=> c.controller # v /\ HiddenMove(c)
  BY <1>1, <1>2 DEF ShouldMask
<1>5. Kept(m) = IF HiddenMove(c) THEN {} ELSE {1}
  BY <1>1, <1>2 DEF Kept, CardChoices
<1>6. ~HiddenMove(c) => MayRead(c, v)
  BY CardFields DEF HiddenMove, MayRead, Position
<1>7. c.controller = v => MayRead(c, v)
  BY DEF MayRead
<1>8. Shown(m, v) # {} => MayRead(c, v)
  BY <1>3, <1>4, <1>5, <1>6, <1>7
<1> QED
  BY <1>2, <1>3, <1>5, <1>8 DEF SecretIn

\* What is announced of a single card: a card turned face up is read by all, a set card's
\* code is kept from all, a summoned one's unless it lies face up.
LEMMA AnnouncedSecret ==
  ASSUME ~NoMask, NEW v \in Viewers, NEW m \in FaceUps \cup Summonings \cup Sets
  PROVE  SecretIn(m, v)
<1>1. PICK c \in Cards :
        /\ m.cards = <<c>> /\ m.player = c.controller
        /\ \/ m.kind \in {"PositionChange", "FlipSummoning"} /\ c.position = "Faceup"
           \/ m.kind = "SpecialSummoning" /\ c.location = "MZone"
           \/ m.kind = "Set"
  BY DEF FaceUps, Summonings, Sets, Message
<1>2. DOMAIN m.cards = {1} /\ m.cards[1] = c /\ Moved(m) = c
  BY <1>1 DEF Moved
<1>3. Shown(m, v) \subseteq (IF v # Observer /\ ~ShouldMask(m, v) THEN DOMAIN m.cards ELSE Kept(m))
  BY <1>1, TellsAll, NoPrompt
<1>4. CASE m.kind \in {"PositionChange", "FlipSummoning"}
  <2>1. MayRead(c, v)
    BY <1>1, <1>4 DEF MayRead
  <2>2. Kept(m) = DOMAIN m.cards
    BY <1>4 DEF Kept, CardChoices
  <2> QED
    BY <1>2, <1>3, <2>1, <2>2 DEF SecretIn
<1>5. CASE m.kind = "SpecialSummoning"
  <2>1. ShouldMask(m, v) <=> c.controller # v /\ c.position = "Facedown"
    BY <1>2, <1>5 DEF ShouldMask
  <2>2. Kept(m) = {}
    BY <1>5 DEF Kept, CardChoices
  <2>3. c.position # "Facedown" => c.position = "Faceup"
    BY <1>1, <1>5, CardFields DEF Position
  <2>4. ~ShouldMask(m, v) => MayRead(c, v)
    BY <2>1, <2>3 DEF MayRead
  <2> QED
    BY <1>2, <1>3, <2>2, <2>4 DEF SecretIn
<1>6. CASE m.kind = "Set"
  <2>1. ShouldMask(m, v) /\ Kept(m) = {}
    BY <1>6 DEF ShouldMask, Kept, CardChoices
  <2> QED
    BY <1>3, <2>1 DEF SecretIn
<1> QED
  BY <1>1, <1>4, <1>5, <1>6

\* A choice goes to the one who is asked, without the cards he may not know.
LEMMA ChoicesSecret ==
  ASSUME ~NoMask, NEW v \in Viewers, NEW m \in Asked
  PROVE  SecretIn(m, v)
<1>1. PICK kind \in CardChoices, side \in Sides, c \in Cards : m = Message(kind, side, <<c>>)
  BY DEF Asked, Message
<1>2. m.kind \in CardChoices /\ m.player = side /\ DOMAIN m.cards = {1} /\ m.cards[1] = c
  BY <1>1 DEF Message
<1>3. m.kind \in Prompts
  BY <1>2 DEF Prompts
<1>4. ShouldMask(m, v) /\ Kept(m) = KeptChoices(m)
  BY <1>2 DEF ShouldMask, Kept, CardChoices
<1>5. Shown(m, v) # {} => v = side
  BY <1>2, <1>3 DEF Shown, Receives
<1>6. Shown(m, v) \subseteq KeptChoices(m)
  BY <1>4 DEF Shown, SeesUnmasked
<1> QED
  BY <1>2, <1>5, <1>6 DEF SecretIn, KeptChoices, MayRead, IsPublic

\* No message shows any viewer a card that he may not read.
LEMMA EverySecretKept == \A v \in Viewers : Secret[v]
<1>1. ASSUME NEW v \in Viewers, ~NoMask, NEW m \in Messages
      PROVE  SecretIn(m, v)
  <2>1. CASE m \in Updates
    <3>1. Shown(m, v) = {i \in DOMAIN m.cards : MayRead(m.cards[i], v)}
      BY <1>1, <2>1, UpdateExact
    <3> QED
      BY <3>1 DEF SecretIn
  <2> QED
    BY <1>1, <2>1, ListingsSecret, MovesSecret, AnnouncedSecret, ChoicesSecret DEF Messages
<1> QED
  BY <1>1 DEF Secret, SecretIn

-----------------------------------------------------------------------------
(* Arrivals and choices: what may be read is shown.                         *)

\* A zone that is refreshed brings its cards to those who may read them.
LEMMA RefreshedShown ==
  ASSUME NEW m, NEW i, NEW v \in Viewers, m.cards[i] \in Cards, MayRead(m.cards[i], v),
         Place(m.cards[i]) \in Refreshed(m)
  PROVE  ShownCard(m, i, v)
  BY RefreshShows DEF ShownCard

\* Drawn cards are not sent again: the holder has them all, the others the public ones.
LEMMA DrawsInform ==
  ASSUME NEW v \in Viewers, NEW m \in Draws, NEW i \in DOMAIN m.cards, ~m.cards[i].reveal,
         MayRead(m.cards[i], v)
  PROVE  ShownCard(m, i, v)
<1>1. Listed(m) /\ m.kind = "Draw" /\ m.query = {} /\ m.cards[1].location = "Hand"
  BY ListingShape DEF Draws
<1>2. /\ m.cards[i] \in Cards /\ m.cards[i].controller = m.player
      /\ m.cards[i].location = "Hand"
  BY <1>1 DEF Listed
<1>3. v = m.player \/ IsPublic(m.cards[i])
  BY <1>2 DEF MayRead, IsPublic
<1>4. m.kind \notin Prompts /\ Carried(m) = DOMAIN m.cards
  BY <1>1, NoPrompt DEF Carried, Unnamed
<1>5. ShouldMask(m, v) <=> m.player # v
  BY <1>1 DEF ShouldMask
<1>6. Kept(m) = {k \in DOMAIN m.cards : IsPublic(m.cards[k])}
  BY <1>1 DEF Kept, CardChoices
<1>7. v = m.player => v # Observer
  BY <1>2, CardFields DEF Observer
<1>8. i \in Shown(m, v)
  BY <1>3, <1>4, <1>5, <1>6, <1>7 DEF Shown, Receives, SeesUnmasked
<1> QED
  BY <1>8 DEF ShownCard

\* What is shuffled, exchanged or swapped is queried again where it lies.
LEMMA ListingsInform ==
  ASSUME NEW v \in Viewers, NEW m \in Listings, m.kind # "Draw", NEW i \in DOMAIN m.cards,
         MayRead(m.cards[i], v)
  PROVE  ShownCard(m, i, v)
<1>1. /\ Listed(m)
      /\ \/ m.kind = "ShuffleHand" /\ m.cards[1].location = "Hand"
         \/ m.kind = "ShuffleExtra" /\ m.cards[1].location = "Extra"
         \/ m.kind = "TagSwap" /\ m.cards[1].location \in {"Hand", "Extra"}
         \/ m.kind = "ShuffleSetCard"
         \/ m.kind = "SwapGraveDeck" /\ m.cards[1].location = "Grave"
  BY ListingShape DEF Listings, Draws, HandShuffles, ExtraShuffles, TagSwaps, FieldShuffles
<1>2. /\ m.cards[i] \in Cards /\ Place(m.cards[i]) = <<m.player, m.cards[1].location>>
      /\ m.player \in Sides
  BY <1>1, CardFields DEF Listed, Place, Sides
<1>3. CASE m.kind \in {"ShuffleHand", "ShuffleExtra", "SwapGraveDeck"}
  <2>1. Refreshed(m) = {<<m.player, m.cards[1].location>>}
    BY <1>1, <1>3 DEF Refreshed
  <2> QED
    BY <1>2, <2>1, RefreshedShown
<1>4. CASE m.kind = "TagSwap"
  <2>1. Refreshed(m) = BothSides(MainField \cup {"Extra"})
    BY <1>4 DEF Refreshed, RefreshedZones, Commands, TurnReports, ChainReports, SummonReports,
                DamageReports
  <2>2. Place(m.cards[i]) \in Refreshed(m)
    BY <1>1, <1>2, <1>4, <2>1 DEF BothSides, MainField
  <2> QED
    BY <1>2, <2>2, RefreshedShown
<1>5. CASE m.kind = "ShuffleSetCard"
  <2>1. Refreshed(m) = BothSides({m.cards[1].location})
    BY <1>5 DEF Refreshed, RefreshedZones, Commands, TurnReports, ChainReports, SummonReports,
                DamageReports, Moved
  <2>2. Place(m.cards[i]) \in Refreshed(m)
    BY <1>2, <2>1 DEF BothSides
  <2> QED
    BY <1>2, <2>2, RefreshedShown
<1> QED
  BY <1>1, <1>3, <1>4, <1>5

\* A card that came elsewhere is queried there; a material has no place of its own and is
\* shown to all by the move itself.
LEMMA MovesInform ==
  ASSUME NEW v \in Viewers, NEW m \in SingleMoves, m.from # Place(Moved(m)),
         NEW i \in DOMAIN m.cards, MayRead(m.cards[i], v)
  PROVE  ShownCard(m, i, v)
<1>0. PICK c \in Cards, place \in Sides \X Locations :
        m = MoveFrom(place, c)
  BY DEF SingleMoves
<1>1. m.kind = "Move" /\ m.cards = <<c>> /\ m.player = c.controller /\ m.query = {}
  BY <1>0 DEF MoveFrom, Message
<1>2. DOMAIN m.cards = {1} /\ i = 1 /\ m.cards[i] = c /\ Moved(m) = c
  BY <1>1 DEF Moved
<1>3. CASE c.location # "Overlay"
  <2>1. Moves(m)
    BY <1>2, <1>3 DEF Moves
  <2>2. Refreshed(m) = {Place(c)}
    BY <1>1, <1>2, <2>1 DEF Refreshed
  <2> QED
    BY <1>2, <2>2, RefreshedShown
<1>4. CASE c.location = "Overlay"
  <2>1. ~HiddenMove(c)
    BY <1>4 DEF HiddenMove
  <2>2. ~ShouldMask(m, v)
    BY <1>1, <1>2, <2>1 DEF ShouldMask
  <2>3. Kept(m) = DOMAIN m.cards
    BY <1>1, <1>2, <2>1 DEF Kept, CardChoices
  <2>4. m.kind \notin Prompts /\ Carried(m) = DOMAIN m.cards
    BY <1>1, NoPrompt DEF Carried, Unnamed
  <2>5. i \in Shown(m, v)
    BY <2>2, <2>3, <2>4 DEF Shown, Receives
  <2> QED
    BY <2>5 DEF ShownCard
<1> QED
  BY <1>3, <1>4

\* A card that is turned face up is queried where it lies.
LEMMA FaceUpsInform ==
  ASSUME NEW v \in Viewers, NEW m \in FaceUps, NEW i \in DOMAIN m.cards, MayRead(m.cards[i], v)
  PROVE  ShownCard(m, i, v)
<1>1. PICK kind \in {"PositionChange", "FlipSummoning"}, c \in {d \in Cards : d.position = "Faceup"} :
        m = Message(kind, c.controller, <<c>>)
  BY DEF FaceUps, Message
<1>2. c \in Cards /\ m.kind = kind /\ m.cards = <<c>>
  BY <1>1 DEF Message
<1>3. DOMAIN m.cards = {1} /\ i = 1 /\ m.cards[i] = c /\ Moved(m) = c
  BY <1>2 DEF Moved
<1>4. Refreshed(m) = {Place(c)}
  BY <1>2, <1>3 DEF Refreshed
<1> QED
  BY <1>2, <1>3, <1>4, RefreshedShown

LEMMA EverybodyInformed == \A v \in Viewers : Informed[v]
<1>1. ASSUME NEW v \in Viewers, NEW m \in Arrivals, NEW i \in DOMAIN m.cards, MayRead(m.cards[i], v)
      PROVE  ShownCard(m, i, v)
  <2>1. /\ m \in Listings \cup FaceUps \cup SingleMoves
        /\ m.kind = "Move" => m.from # Place(Moved(m))
        /\ m.kind = "Draw" => ~m.cards[i].reveal
    BY <1>1 DEF Arrivals
  <2>2. CASE m \in SingleMoves
    <3>0. PICK c \in Cards, place \in Sides \X Locations : m = MoveFrom(place, c)
      BY <2>2 DEF SingleMoves
    <3>1. m.kind = "Move"
      BY <3>0 DEF MoveFrom, Message
    <3> QED
      BY <1>1, <2>1, <2>2, <3>1, MovesInform
  <2>3. CASE m \in FaceUps
    BY <1>1, <2>3, FaceUpsInform
  <2>4. CASE m \in Listings
    <3>1. CASE m.kind = "Draw"
      <4>1. m \in Draws
        BY <2>4, <3>1, ListingShape DEF Listings, HandShuffles, ExtraShuffles, TagSwaps, FieldShuffles
      <4> QED
        BY <1>1, <2>1, <3>1, <4>1, DrawsInform
    <3> QED
      BY <1>1, <2>4, <3>1, ListingsInform
  <2> QED
    BY <2>1, <2>2, <2>3, <2>4
<1> QED
  BY <1>1 DEF Informed

LEMMA EveryChoiceLegible == \A v \in Viewers : Legible[v]
<1>1. ASSUME NEW v \in Viewers, NEW m \in Asked, m.player = v,
             m.cards[1].controller = v \/ m.cards[1].position = "Faceup"
      PROVE  Shown(m, v) = {1}
  <2>1. PICK kind \in CardChoices, side \in Sides, c \in Cards : m = Message(kind, side, <<c>>)
    BY <1>1 DEF Asked
  <2>2. /\ m.kind \in CardChoices /\ m.player = side /\ DOMAIN m.cards = {1} /\ m.cards[1] = c
        /\ m.query = {}
    BY <2>1 DEF Message
  <2>3. Kept(m) = KeptChoices(m) /\ Carried(m) = {1}
    BY <2>2 DEF Kept, CardChoices, Carried, Unnamed
  <2>4. KeptChoices(m) = {1}
    BY <1>1, <2>2 DEF KeptChoices, IsPublic
  <2> QED
    BY <1>1, <2>2, <2>3, <2>4 DEF Shown, Receives
<1> QED
  BY <1>1 DEF Legible

-----------------------------------------------------------------------------
(* Hands and the table.                                                     *)

LEMMA HandsClosed ==
  ASSUME ~NoMask, NEW side \in CorePlayers, NEW v \in Viewers, v # side
  PROVE  HandClosed[side][v]
<1>1. ASSUME NEW c \in CoveredInHand(side)
      PROVE  /\ Shown(Message("Draw", side, <<c>>), v) = {}
             /\ Shown(Update("UpdateCard", <<c>>), v) = {}
  <2>1. c \in Cards /\ c.controller = side /\ c.location = "Hand" /\ Covered(c)
    BY <1>1 DEF CoveredInHand
  <2>2. c.position # "Faceup" /\ ~c.reveal
    BY <2>1 DEF Covered
  <2>3. Shown(Message("Draw", side, <<c>>), v) = {}
    <3> DEFINE m == Message("Draw", side, <<c>>)
    <3>1. m.kind = "Draw" /\ m.player = side /\ DOMAIN m.cards = {1} /\ m.cards[1] = c
      BY DEF Message
    <3> HIDE DEF m
    <3>2. ShouldMask(m, v) /\ Kept(m) = {}
      BY <2>2, <3>1 DEF ShouldMask, Kept, CardChoices, IsPublic
    <3>3. Shown(m, v) = {}
      BY <3>1, <3>2, TellsAll, NoPrompt
    <3> QED
      BY <3>3 DEF m
  <2>4. Shown(Update("UpdateCard", <<c>>), v) = {}
    <3> DEFINE m == Update("UpdateCard", <<c>>)
    <3>1. m \in Updates /\ m.cards = <<c>>
      BY <2>1 DEF Updates, Update, Message
    <3>2. DOMAIN m.cards = {1} /\ m.cards[1] = c
      BY <3>1
    <3> HIDE DEF m
    <3>3. ~MayRead(c, v)
      BY <2>1, <2>2 DEF MayRead
    <3>4. Shown(m, v) = {i \in DOMAIN m.cards : MayRead(m.cards[i], v)}
      BY <3>1, UpdateExact
    <3>5. Shown(m, v) = {}
      BY <3>2, <3>3, <3>4
    <3> QED
      BY <3>5 DEF m
  <2> QED
    BY <2>3, <2>4
<1> QED
  BY <1>1 DEF HandClosed

LEMMA TablesOpen ==
  ASSUME NEW side \in CorePlayers, NEW v \in Viewers, v \in {side, Mate(side)}
  PROVE  TableOpen[side][v]
<1>1. ASSUME NEW c \in Cards, c.controller = side, c.location \in OnField
      PROVE  Shown(Update("UpdateCard", <<c>>), v) # {}
  <2>1. MayRead(c, v)
    BY <1>1 DEF MayRead, OnField
  <2> QED
    BY <2>1, RefreshShows
<1> QED
  BY <1>1 DEF TableOpen

\* A seat is looked at as its own core player when its deck is in play, as the partner who
\* sits out otherwise.
LEMMA SeatsLook ==
  ASSUME NEW first \in Teams, NEW c \in Seats, NEW s \in Seats
  PROVE  /\ ToCore(s, first, c) \in Viewers
         /\ TeamToCore(Team(s), first) \in CorePlayers
         /\ ToCore(s, first, c) \in {TeamToCore(Team(s), first), Mate(TeamToCore(Team(s), first))}
         /\ \A side \in CorePlayers : ToCore(s, first, c) = side => s = ToSeat(side, first, c)
<1>1. FirstOr1(first) = first /\ first \in {1, 2} /\ c # None
  BY FirstKnown, TagDuelAssumption DEF Teams, Seats
<1>2. Team(s) \in {1, 2} /\ Team(c) \in {1, 2}
  BY DEF Team
<1>3. /\ Opponent(c, first) \in Seats
      /\ Team(Opponent(c, first)) # Team(c)
  BY <1>1 DEF Opponent, Team, Seats
<1> DEFINE own == TeamToCore(Team(s), first)
<1>4. own = IF Team(s) = first THEN 0 ELSE 1
  BY <1>1 DEF TeamToCore
<1>5. own \in CorePlayers /\ SitsOut[own] = Mate(own) /\ Mate(own) \in {CoreNone, CoreRule}
  BY <1>4 DEF CorePlayers, SitsOut, Mate, CoreNone, CoreRule
<1>6. ToCore(s, first, c) = IF s \in {c, Opponent(c, first)} THEN own ELSE Mate(own)
  BY <1>1, <1>5 DEF ToCore
<1>7. /\ ToCore(s, first, c) \in {own, Mate(own)}
      /\ ToCore(s, first, c) \in Viewers
  BY <1>5, <1>6 DEF Viewers, Sides, CorePlayers
<1>8. ASSUME NEW side \in CorePlayers, ToCore(s, first, c) = side
      PROVE  s = ToSeat(side, first, c)
  <2>1. side \notin {CoreNone, CoreRule}
    BY DEF CorePlayers, CoreNone, CoreRule
  <2>2. s \in {c, Opponent(c, first)} /\ own = side
    BY <1>5, <1>6, <1>8, <2>1
  <2>3. side = 0 <=> Team(s) = first
    BY <1>4, <2>2
  <2>4. ToSeat(side, first, c) = IF (Team(c) = first) = (side = 0) THEN c ELSE Opponent(c, first)
    BY <1>1 DEF ToSeat
  <2>5. CASE s = c
    BY <2>3, <2>4, <2>5
  <2>6. CASE s = Opponent(c, first)
    BY <1>1, <1>2, <1>3, <2>3, <2>4, <2>6
  <2> QED
    BY <2>2, <2>5, <2>6
<1> QED
  BY <1>5, <1>7, <1>8

\* While the engine runs, the server knows who began and whose turn it is.
LEMMA TurnKnown ==
  ASSUME IInv, core.started
  PROVE  /\ first_attack_team \in Teams /\ current_turn_player \in Seats
         /\ core.turns <= 1 => current_turn_player = Leader(first_attack_team)
         /\ \A p \in CorePlayers :
              /\ core.table[p] = ToSeat(p, first_attack_team, current_turn_player)
              /\ core.tag[p] = Teammate(core.table[p])
<1>1. Stages /\ InStep
  BY DEF IInv
<1>2. first_attack_team \in Teams
  BY <1>1 DEF Stages
<1> QED
  BY <1>1, <1>2 DEF InStep, Parity

\* What a seat or an observer is to the masks, the masks have a rule for.
LEMMA WatchingViewers ==
  ASSUME IInv, core.started
  PROVE  Watching \subseteq Viewers
  BY TurnKnown, SeatsLook DEF Watching, ViewOf, Viewers

\* Nobody at the table and no observer is ever shown a card he may not read, whoever began
\* and whoever's turn it is: the masks of all the messages about cards agree with the rules,
\* and the partner who sits out is never looked at as the player whose hand it is.
THEOREM HiddenAlwaysStaysHidden == Spec => []HiddenStaysHidden
<1>1. ASSUME IInv PROVE NothingLeaks
  BY <1>1, WatchingViewers, EverySecretKept DEF NothingLeaks
<1>2. ASSUME IInv PROVE HandsAreOwn
  <2> SUFFICES ASSUME core.started, ~NoMask, NEW side \in CorePlayers, NEW s \in Seats,
                      s # core.table[side]
               PROVE  HandClosed[side][ViewOf(s)]
    BY DEF HandsAreOwn
  <2>1. /\ first_attack_team \in Teams /\ current_turn_player \in Seats
        /\ core.table[side] = ToSeat(side, first_attack_team, current_turn_player)
    BY <1>2, TurnKnown
  <2>2. ViewOf(s) \in Viewers /\ ViewOf(s) # side
    BY <2>1, SeatsLook DEF ViewOf
  <2> QED
    BY <2>2, HandsClosed
<1>3. IInv => HiddenStaysHidden
  BY <1>1, <1>2 DEF HiddenStaysHidden
<1> QED
  BY <1>3, Invariant, PTL

\* And everything he may read he is shown: in the updates, when a card arrives, in the
\* questions, and as the partner who sits out what his team has on the table.
THEOREM OpenAlwaysShown == Spec => []OpenIsShown
<1>1. ASSUME IInv PROVE UpdatesAreExact /\ ArrivalsAreShown
  BY <1>1, WatchingViewers, EveryUpdateExact, EverybodyInformed DEF UpdatesAreExact, ArrivalsAreShown
<1>2. ASSUME IInv PROVE ChoicesAreReadable
  <2> SUFFICES ASSUME core.started, NEW p \in CorePlayers, core.table[p] # None
               PROVE  Legible[ViewOf(core.table[p])]
    BY DEF ChoicesAreReadable
  <2>1. /\ first_attack_team \in Teams /\ current_turn_player \in Seats
    BY <1>2, TurnKnown
  <2>2. core.table[p] \in Seats
    BY <1>2 DEF IInv, TypeOK
  <2> QED
    BY <2>1, <2>2, SeatsLook, EveryChoiceLegible DEF ViewOf
<1>3. ASSUME IInv PROVE TableIsShared
  <2> SUFFICES ASSUME core.started, NEW s \in Seats
               PROVE  TableOpen[TeamToCore(Team(s), first_attack_team)][ViewOf(s)]
    BY DEF TableIsShared
  <2>1. /\ first_attack_team \in Teams /\ current_turn_player \in Seats
    BY <1>3, TurnKnown
  <2> DEFINE side == TeamToCore(Team(s), first_attack_team)
  <2>2. side \in CorePlayers /\ ViewOf(s) \in Viewers /\ ViewOf(s) \in {side, Mate(side)}
    BY <2>1, SeatsLook DEF ViewOf
  <2> HIDE DEF side
  <2>3. TableOpen[side][ViewOf(s)]
    BY <2>2, TablesOpen
  <2> QED
    BY <2>3 DEF side
<1>4. IInv => OpenIsShown
  BY <1>1, <1>2, <1>3 DEF OpenIsShown
<1> QED
  BY <1>4, Invariant, PTL

-----------------------------------------------------------------------------
(* The file of the duel.                                                    *)

\* What create_replay has put into a part is what Owner says of it.
LEMMA FileParts ==
  ASSUME NEW file, file = CreateReplay(TRUE, Table, <<>>),
         NEW role \in Roles(TRUE), NEW seat \in Seats, Owner(TRUE)[role] = seat
  PROVE  Holds(file.parts[role], seat)
  BY DEF Holds, CreateReplay, Table

\* Both exchanges of a tag duel, part by part.
LEMMA FileKeepsRoles ==
  LET file == CreateReplay(TRUE, Table, <<>>)
      one == Exchanged(file, "host", "tag_client")
      two == Exchanged(one, "tag_host", "client") IN
  /\ two.parts["host"] = file.parts["tag_client"] /\ two.parts["tag_client"] = file.parts["host"]
  /\ two.parts["tag_host"] = file.parts["client"] /\ two.parts["client"] = file.parts["tag_host"]
<1> DEFINE file == CreateReplay(TRUE, Table, <<>>)
           one == Exchanged(file, "host", "tag_client")
           two == Exchanged(one, "tag_host", "client")
           parts == file.parts
           parts1 == [parts EXCEPT !["host"] = parts["tag_client"], !["tag_client"] = parts["host"]]
<1>1. /\ file = [tag |-> TRUE, parts |-> parts, datas |-> <<>>]
      /\ parts \in [Roles(TRUE) -> {parts[role] : role \in Roles(TRUE)}]
  BY DEF CreateReplay
<1> HIDE DEF file
<1>2. DOMAIN parts = {"host", "client", "tag_host", "tag_client"}
  BY <1>1 DEF Roles
<1>3. one = [file EXCEPT !.parts = parts1] /\ one.parts = parts1
  BY <1>1 DEF Exchanged
<1>4. /\ DOMAIN parts1 = DOMAIN parts
      /\ parts1["host"] = parts["tag_client"] /\ parts1["tag_client"] = parts["host"]
      /\ parts1["tag_host"] = parts["tag_host"] /\ parts1["client"] = parts["client"]
  BY <1>2
<1> HIDE DEF parts1, one
<1>5. two.parts = [parts1 EXCEPT !["tag_host"] = parts1["client"], !["client"] = parts1["tag_host"]]
  BY <1>3 DEF Exchanged
<1> QED
  BY <1>2, <1>4, <1>5 DEF file, one

\* After the exchange of on_generate_replay the host is whose deck the first core player is
\* dealt, the client whose deck the second one is, and their partners the partners.
LEMMA FileFollowsTheDeal ==
  ASSUME NEW first \in Teams
  PROVE  /\ Holds(FileOf[first].parts["host"], Starter(0, first))
         /\ Holds(FileOf[first].parts["tag_host"], Teammate(Starter(0, first)))
         /\ Holds(FileOf[first].parts["client"], Starter(1, first))
         /\ Holds(FileOf[first].parts["tag_client"], Teammate(Starter(1, first)))
<1>0. PICK file : file = CreateReplay(TRUE, Table, <<>>)
  OBVIOUS
<1>1. /\ Holds(file.parts["host"], 0) /\ Holds(file.parts["tag_host"], 1)
      /\ Holds(file.parts["tag_client"], 2) /\ Holds(file.parts["client"], 3)
  <2>0. 0 \in Seats /\ 1 \in Seats /\ 2 \in Seats /\ 3 \in Seats
    BY DEF Seats
  <2>1. /\ "host" \in Roles(TRUE) /\ "tag_host" \in Roles(TRUE)
        /\ "tag_client" \in Roles(TRUE) /\ "client" \in Roles(TRUE)
    BY DEF Roles
  <2>2. /\ Owner(TRUE)["host"] = 0 /\ Owner(TRUE)["tag_host"] = 1
        /\ Owner(TRUE)["tag_client"] = 2 /\ Owner(TRUE)["client"] = 3
    BY <2>1 DEF Owner
  <2>3. Holds(file.parts["host"], 0)
    BY <1>0, <2>0, <2>1, <2>2, FileParts
  <2>4. Holds(file.parts["tag_host"], 1)
    BY <1>0, <2>0, <2>1, <2>2, FileParts
  <2>5. Holds(file.parts["tag_client"], 2)
    BY <1>0, <2>0, <2>1, <2>2, FileParts
  <2>6. Holds(file.parts["client"], 3)
    BY <1>0, <2>0, <2>1, <2>2, FileParts
  <2> QED
    BY <2>3, <2>4, <2>5, <2>6
<1>3. first \in {1, 2} /\ FirstOr1(first) = first
  BY FirstKnown DEF Teams
<1>4. CASE first = 1
  <2>1. FileOf[first] = file
    BY <1>0, <1>4 DEF FileOf, TagSwap, Teams
  <2>2. Starter(0, first) = 0 /\ Starter(1, first) = 3
    BY <1>3, <1>4 DEF Starter, Leader, Teammate, OtherTeam
  <2> QED
    BY <1>1, <2>1, <2>2 DEF Teammate
<1>5. CASE first = 2
  <2>1. Starter(0, first) = 2 /\ Starter(1, first) = 1
    BY <1>3, <1>5 DEF Starter, Leader, Teammate, OtherTeam
  <2>2. FileOf[first] = Exchanged(Exchanged(file, "host", "tag_client"), "tag_host", "client")
    BY <1>0, <1>5 DEF FileOf, TagSwap, Teams
  <2>3. /\ FileOf[first].parts["host"] = file.parts["tag_client"]
        /\ FileOf[first].parts["tag_client"] = file.parts["host"]
        /\ FileOf[first].parts["tag_host"] = file.parts["client"]
        /\ FileOf[first].parts["client"] = file.parts["tag_host"]
    BY <1>0, <2>2, FileKeepsRoles
  <2> QED
    BY <1>1, <2>1, <2>3 DEF Teammate
<1> QED
  BY <1>3, <1>4, <1>5

\* Whoever begins, the replay of the duel is saved under the right names: the host and the
\* client are the two whose decks lie on the table when it begins, their partners the
\* others.
THEOREM FileAlwaysHoldsTheTable == Spec => []FileHoldsTheTable
<1>1. ASSUME IInv, core.started, core.turns <= 1
      PROVE  LET file == FileOf[first_attack_team] IN
             /\ Holds(file.parts["host"], core.table[0])
             /\ Holds(file.parts["tag_host"], core.tag[0])
             /\ Holds(file.parts["client"], core.table[1])
             /\ Holds(file.parts["tag_client"], core.tag[1])
  <2>1. first_attack_team \in Teams
    BY <1>1, TurnKnown
  <2>2. \A p \in CorePlayers :
          /\ core.table[p] = Starter(p, first_attack_team)
          /\ core.tag[p] = Teammate(Starter(p, first_attack_team))
    BY <1>1, <2>1, TurnKnown, StarterPlays
  <2> QED
    BY <2>1, <2>2, FileFollowsTheDeal DEF CorePlayers
<1>2. IInv => FileHoldsTheTable
  BY <1>1 DEF FileHoldsTheTable
<1> QED
  BY <1>2, Invariant, PTL
=============================================================================

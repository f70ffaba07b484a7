-------------------------- MODULE SingleDuelProofs --------------------------
(***************************************************************************)
(* Theorems about SingleDuel, for any number of duels, questions, clients   *)
(* that leave or come, and waiting messages: the types, that siding always  *)
(* waits for somebody, that a match without a timer is not continued once   *)
(* it is over, the order in which the requests of a duel and the messages   *)
(* to its clients are under way, and from it that the engine has one answer *)
(* outstanding and the replay the answers it took.  MatchProofs goes on     *)
(* from there.                                                              *)
(***************************************************************************)
EXTENDS SingleDuel, TLAPS, SequenceTheorems, FiniteSetTheorems

CtosTypes == {"HandResult", "TpResult", "Response", "TimeConfirm", "UpdateDeck", "Surrender", "LeaveGame"}
ExTypes == {"JoinGame", "FirstShuffle", "DuelInit", "DuelStart", "GenerateReplay", "JudgeContinueMatch",
            "RecreateDuel", "MatchEnd", "Evolve", "timer_tick", "terminate"}
Owed == {"None", "HandResult", "TpResult", "Response", "UpdateDeck"}
ClientRecords == [online : BOOLEAN, dueling : BOOLEAN, owes : Owed]

-----------------------------------------------------------------------------
(* Requests and the mailbox.                                                *)

\* What each type of request carries.
LEMMA RequestFields ==
  ASSUME NEW r \in Requests
  PROVE  /\ r.type \in CtosTypes => r.from \in Seats
         /\ r.type = "DuelEnd" => r.winner \in Seats \cup {None}
         /\ r.type = "Timeout" => r.player \in Seats
         /\ "from" \in DOMAIN r => r.type \in CtosTypes
  BY DEF Requests, CtosTypes

\* The requests the handlers, the clients and the timer queue are requests.
LEMMA RequestsTyped ==
  /\ \A type \in CtosTypes, s \in Seats : Ctos(type, s) \in Requests
  /\ \A type \in ExTypes : Ex(type) \in Requests
  /\ \A winner \in Seats \cup {None} : DuelEnd(winner) \in Requests
  /\ \A s \in Seats : [type |-> "Timeout", player |-> s] \in Requests
  BY DEF Requests, CtosTypes, ExTypes, Ctos, Ex, DuelEnd

\* No request, one and two make a queue.
LEMMA Queues ==
  /\ <<>> \in Seq(Requests)
  /\ \A r \in Requests : <<r>> \in Seq(Requests) /\ DOMAIN <<r>> = {1} /\ Len(<<r>>) = 1
  /\ \A r, t \in Requests : <<r, t>> \in Seq(Requests) /\ DOMAIN <<r, t>> = {1, 2} /\ Len(<<r, t>>) = 2
  OBVIOUS

\* The head of the mailbox and the rest of it.
LEMMA RequestTyped ==
  ASSUME TypeOK, queue # <<>>
  PROVE  /\ Request \in Requests /\ Request = queue[1] /\ 1 \in DOMAIN queue
         /\ Tail(queue) \in Seq(Requests) /\ Len(Tail(queue)) = Len(queue) - 1
         /\ \A i \in 1..(Len(queue) - 1) : Tail(queue)[i] = queue[i + 1]
  BY HeadTailProperties DEF TypeOK, Request

\* What a handler leaves in the mailbox: the rest of it, and behind it what it queued.
LEMMA AfterDone ==
  ASSUME TypeOK, queue # <<>>, NEW more \in Seq(Requests), Done(more)
  PROVE  /\ queue' \in Seq(Requests)
         /\ Len(queue) \in Nat /\ Len(queue) > 0
         /\ Len(queue') = Len(queue) - 1 + Len(more)
         /\ \A i \in DOMAIN queue' :
              \/ i < Len(queue) /\ i + 1 \in DOMAIN queue /\ queue'[i] = queue[i + 1]
              \/ /\ i >= Len(queue) /\ i - Len(queue) + 1 \in DOMAIN more
                 /\ queue'[i] = more[i - Len(queue) + 1]
<1> DEFINE rest == Tail(queue)
<1>1. /\ rest \in Seq(Requests) /\ Len(rest) = Len(queue) - 1 /\ Len(queue) \in Nat \ {0}
      /\ \A i \in 1..Len(rest) : rest[i] = queue[i + 1]
  BY RequestTyped DEF TypeOK
<1>2. queue' = rest \o more
  BY DEF Done
<1>3. /\ queue' \in Seq(Requests) /\ Len(queue') = Len(rest) + Len(more)
      /\ \A i \in 1..(Len(rest) + Len(more)) :
           queue'[i] = IF i <= Len(rest) THEN rest[i] ELSE more[i - Len(rest)]
  BY <1>1, <1>2, ConcatProperties
<1>4. DOMAIN queue' = 1..Len(queue') /\ DOMAIN queue = 1..Len(queue) /\ DOMAIN more = 1..Len(more)
  BY <1>3 DEF TypeOK
<1>5. ASSUME NEW i \in DOMAIN queue'
      PROVE  \/ i < Len(queue) /\ i + 1 \in DOMAIN queue /\ queue'[i] = queue[i + 1]
             \/ /\ i >= Len(queue) /\ i - Len(queue) + 1 \in DOMAIN more
                /\ queue'[i] = more[i - Len(queue) + 1]
  <2>0. Len(more) \in Nat /\ Len(rest) \in Nat
    BY <1>1
  <2>1. CASE i <= Len(rest)
    BY <1>1, <1>3, <1>4, <1>5, <2>0, <2>1
  <2>2. CASE ~(i <= Len(rest))
    BY <1>1, <1>3, <1>4, <1>5, <2>0, <2>2
  <2> QED
    BY <2>1, <2>2
<1> HIDE DEF rest
<1> QED
  BY <1>1, <1>3, <1>5

\* What whoever posts leaves in the mailbox.
LEMMA AfterPost ==
  ASSUME TypeOK, NEW r \in Requests, Post(r)
  PROVE  /\ running /\ queue' \in Seq(Requests)
         /\ Len(queue) \in Nat
         /\ \A i \in DOMAIN queue' :
              \/ i \in DOMAIN queue /\ queue'[i] = queue[i]
              \/ i = Len(queue) + 1 /\ queue'[i] = r
<1>1. queue \in Seq(Requests) /\ queue' = Append(queue, r) /\ running
  BY DEF TypeOK, Post
<1> QED
  BY <1>1, AppendProperties

-----------------------------------------------------------------------------
(* Type correctness.                                                        *)

\* A handle names a timer that is alive.
Named == timers.handle => timers.alive > 0

\* Seats and core players translate to one another.
LEMMA SeatsTyped ==
  ASSUME TypeOK
  PROVE  /\ FirstAttacker \in Seats
         /\ \A s \in Seats : Other(s) \in Seats /\ ToCore(s) \in Seats
         /\ \A p \in Seats \cup {None} : ToSeat(p) \in Seats \cup {None}
<1>1. None \notin Seats
  BY SingleDuelAssumption DEF Seats
<1>2. FirstAttacker \in Seats /\ \A s \in Seats : Other(s) \in Seats
  BY <1>1 DEF FirstAttacker, TypeOK, Seats, Other
<1> QED
  BY <1>1, <1>2 DEF ToCore, ToSeat

\* Slots.
LEMMA SlotsTyped ==
  ASSUME TypeOK
  PROVE  /\ EmptySlot \in PlayerRecords
         /\ \A s \in Seats : players[s] \in PlayerRecords
         /\ \A s \in Seats, slot \in PlayerRecords : [players EXCEPT ![s] = slot] \in [Seats -> PlayerRecords]
         /\ \A slot \in PlayerRecords, gate \in Gates : [slot EXCEPT !.state = gate] \in PlayerRecords
  BY DEF TypeOK, EmptySlot, PlayerRecords, Gates

\* What is sent arrives behind what is on its way.
LEMMA SendTyped ==
  ASSUME TypeOK, NEW news \in [Seats -> Seq(StocMessages)], Send(news)
  PROVE  stoc' \in [Seats -> Seq(StocMessages)]
<1>1. \A s \in Seats : stoc[s] \o news[s] \in Seq(StocMessages) /\ <<>> \in Seq(StocMessages)
  BY DEF TypeOK
<1> QED
  BY <1>1 DEF Send

\* The lists of news the handlers send.
LEMMA NewsTyped ==
  /\ \A message \in StocMessages : ToAll(message) \in [Seats -> Seq(StocMessages)]
  /\ \A s \in Seats, messages \in Seq(StocMessages) : ToOne(s, messages) \in [Seats -> Seq(StocMessages)]
  /\ [t \in Seats |-> <<>>] \in [Seats -> Seq(StocMessages)]
<1>1. <<>> \in Seq(StocMessages) /\ \A message \in StocMessages : <<message>> \in Seq(StocMessages)
  OBVIOUS
<1> QED
  BY <1>1 DEF ToAll, ToOne

\* A handler that only passes something on keeps types.
LEMMA TypeChain ==
  ASSUME TypeOK, queue # <<>>, NEW more \in Seq(Requests), Chain(more)
  PROVE  TypeOK'
<1>1. queue' \in Seq(Requests)
  BY AfterDone DEF Chain
<1> QED
  BY <1>1 DEF Chain, TypeOK, duel, outside

\* So does the end of the loop.
LEMMA TypeBreak ==
  ASSUME TypeOK, Break
  PROVE  TypeOK'
  BY Queues, ZenonT(60) DEF Break, TypeOK, duel, outside

\* Types hold at the start.
LEMMA TypeInit == Init => TypeOK /\ Named
<1> SUFFICES ASSUME Init PROVE TypeOK /\ Named
  OBVIOUS
<1>1. players \in [Seats -> PlayerRecords]
  BY DEF Init, PlayerRecords, Gates
<1>2. clients \in [Seats -> ClientRecords]
  BY DEF Init, NewClient, ClientRecords, Owed
<1>3. core \in [loaded : [Seats -> 0..2], first : Seats \cup {None}, started : BOOLEAN,
                ended : BOOLEAN, asks : Nat, input : BOOLEAN, accepted : Nat, ends : Nat]
  BY DEF Init, NewCore
<1>4. queue \in Seq(Requests) /\ duel_winner \in Seq(Seats \cup {None})
      /\ stoc \in [Seats -> Seq(StocMessages)]
  BY DEF Init, StocMessages
<1>5. timers \in [alive : Nat, handle : BOOLEAN] /\ ~timers.handle
  BY DEF Init
<1>6. late \in 0..MaxLate
  BY SingleDuelAssumption DEF Init
<1>7. host_player \in Seats \cup {None}
  BY DEF Init
<1> QED
  BY <1>1, <1>2, <1>3, <1>4, <1>5, <1>6, <1>7 DEF Init, TypeOK, Named, ClientRecords, Owed, Stages

\* Clients, the timer and latecomers keep types.
LEMMA TypeOutside ==
  ASSUME TypeOK, TimerTicks \/ StrangerJoins \/ \E s \in Seats : Client(s)
  PROVE  TypeOK' /\ timers' = timers
<1>1. CASE TimerTicks
  <2>1. queue' \in Seq(Requests)
    BY <1>1, AfterPost, RequestsTyped DEF TimerTicks, ExTypes
  <2> QED
    BY <1>1, <2>1 DEF TimerTicks, TypeOK, duel, outside
<1>2. CASE StrangerJoins
  <2>1. queue' \in Seq(Requests)
    BY <1>2, AfterPost, RequestsTyped DEF StrangerJoins, ExTypes
  <2>2. late' \in 0..MaxLate
    BY <1>2, SingleDuelAssumption DEF StrangerJoins, TypeOK
  <2> QED
    BY <1>2, <2>1, <2>2 DEF StrangerJoins, TypeOK, duel
<1>3. ASSUME NEW s \in Seats, ClientReads(s) PROVE TypeOK' /\ timers' = timers
  <2>1. stoc' \in [Seats -> Seq(StocMessages)]
    <3>1. Tail(stoc[s]) \in Seq(StocMessages)
      BY <1>3, HeadTailProperties DEF ClientReads, TypeOK
    <3> QED
      BY <1>3, <3>1 DEF ClientReads, TypeOK
  <2>2. queue' \in Seq(Requests)
    <3>1. CASE Post(Ctos("TimeConfirm", s))
      BY <3>1, AfterPost, RequestsTyped DEF CtosTypes
    <3>2. CASE UNCHANGED queue
      BY <3>2 DEF TypeOK
    <3> QED
      BY <1>3, <3>1, <3>2 DEF ClientReads
  <2>3. clients' \in [Seats -> ClientRecords]
    <3> DEFINE message == Head(stoc[s])
               read == CASE message = "SelectHand" -> [clients[s] EXCEPT !.owes = "HandResult"]
                         [] message = "SelectTp"   -> [clients[s] EXCEPT !.owes = "TpResult"]
                         [] message = "Select"     -> [clients[s] EXCEPT !.owes = "Response"]
                         [] message \in {"ChangeSide", "SideError"} -> [clients[s] EXCEPT !.owes = "UpdateDeck"]
                         [] message = "Start"      -> [clients[s] EXCEPT !.dueling = TRUE]
                         [] message = "Win"        -> [clients[s] EXCEPT !.dueling = FALSE, !.owes = "None"]
                         [] OTHER                  -> clients[s]
    <3>1. clients[s] \in ClientRecords /\ clients \in [Seats -> ClientRecords]
      BY DEF TypeOK, ClientRecords, Owed
    <3>2. read \in ClientRecords
      <4>1. CASE message = "SelectHand"
        BY <3>1, <4>1 DEF ClientRecords, Owed
      <4>2. CASE message = "SelectTp"
        BY <3>1, <4>2 DEF ClientRecords, Owed
      <4>3. CASE message = "Select"
        BY <3>1, <4>3 DEF ClientRecords, Owed
      <4>4. CASE message \in {"ChangeSide", "SideError"}
        BY <3>1, <4>4 DEF ClientRecords, Owed
      <4>5. CASE message = "Start"
        BY <3>1, <4>5 DEF ClientRecords, Owed
      <4>6. CASE message = "Win"
        BY <3>1, <4>6 DEF ClientRecords, Owed
      <4>7. CASE message \notin {"SelectHand", "SelectTp", "Select", "ChangeSide", "SideError", "Start", "Win"}
        BY <3>1, <4>7
      <4> QED
        BY <4>1, <4>2, <4>3, <4>4, <4>5, <4>6, <4>7
    <3>3. clients' = [clients EXCEPT ![s] = read]
      BY <1>3 DEF ClientReads
    <3> HIDE DEF read
    <3> QED
      BY <3>1, <3>2, <3>3
  <2> QED
    BY <1>3, <2>1, <2>2, <2>3, SMTT(30) DEF ClientReads, TypeOK, duel, ClientRecords, Owed
<1>4. ASSUME NEW s \in Seats, ClientAnswers(s) PROVE TypeOK' /\ timers' = timers
  <2>1. clients[s].owes \in CtosTypes
    BY <1>4 DEF ClientAnswers, TypeOK, CtosTypes
  <2>2. queue' \in Seq(Requests)
    BY <1>4, <2>1, AfterPost, RequestsTyped DEF ClientAnswers
  <2>3. clients' \in [Seats -> ClientRecords]
    BY <1>4 DEF ClientAnswers, TypeOK, ClientRecords, Owed
  <2> QED
    BY <1>4, <2>2, <2>3, SMTT(30) DEF ClientAnswers, TypeOK, duel, ClientRecords, Owed
<1>5. ASSUME NEW s \in Seats, ClientSurrenders(s) PROVE TypeOK' /\ timers' = timers
  <2>1. queue' \in Seq(Requests)
    BY <1>5, AfterPost, RequestsTyped DEF ClientSurrenders, CtosTypes
  <2>2. clients' \in [Seats -> ClientRecords]
    BY <1>5 DEF ClientSurrenders, TypeOK, ClientRecords, Owed
  <2> QED
    BY <1>5, <2>1, <2>2, SMTT(30) DEF ClientSurrenders, TypeOK, duel, ClientRecords, Owed
<1>6. ASSUME NEW s \in Seats, ClientLeaves(s) PROVE TypeOK' /\ timers' = timers
  <2>1. queue' \in Seq(Requests)
    BY <1>6, AfterPost, RequestsTyped DEF ClientLeaves, CtosTypes
  <2>2. clients' \in [Seats -> ClientRecords]
    BY <1>6 DEF ClientLeaves, TypeOK, NoClient, ClientRecords, Owed
  <2> QED
    BY <1>6, <2>1, <2>2 DEF ClientLeaves, TypeOK, duel, ClientRecords, Owed
<1> QED
  BY <1>1, <1>2, <1>3, <1>4, <1>5, <1>6 DEF Client

\* The engine's duel.
Loads == [Seats -> 0..2]
Somebody == Seats \cup {None}
CoreRecords == [loaded : Loads, first : Somebody, started : BOOLEAN, ended : BOOLEAN,
                asks : Nat, input : BOOLEAN, accepted : Nat, ends : Nat]

\* What the handlers read in a core.
LEMMA CoreFields ==
  ASSUME NEW c \in CoreRecords
  PROVE  c.asks \in Nat /\ c.accepted \in Nat /\ c.ends \in Nat
  BY DEF CoreRecords

\* What they write in it.
LEMMA CoreUpdates ==
  ASSUME NEW c \in CoreRecords
  PROVE  /\ \A b \in BOOLEAN : [c EXCEPT !.input = b] \in CoreRecords
         /\ \A b \in BOOLEAN : [c EXCEPT !.started = b] \in CoreRecords
         /\ \A n \in Nat : [c EXCEPT !.input = FALSE, !.accepted = n] \in CoreRecords
         /\ \A n \in Nat : [c EXCEPT !.ended = TRUE, !.ends = n] \in CoreRecords
         /\ \A n \in Nat : [c EXCEPT !.asks = n, !.input = FALSE] \in CoreRecords
         /\ \A n, m \in Nat : [c EXCEPT !.asks = n, !.input = FALSE, !.accepted = m] \in CoreRecords
         /\ \A l \in Loads, f \in Somebody : [c EXCEPT !.loaded = l, !.first = f] \in CoreRecords
  BY DEF CoreRecords

\* A slot of the table that is written keeps its type.
LEMMA SlotUpdates ==
  ASSUME NEW ps \in [Seats -> PlayerRecords], NEW s \in Seats, NEW b \in BOOLEAN, NEW gate \in Gates
  PROVE  /\ [ps EXCEPT ![s].hand = b] \in [Seats -> PlayerRecords]
         /\ [ps EXCEPT ![s].ready = b] \in [Seats -> PlayerRecords]
         /\ [ps EXCEPT ![s].state = gate] \in [Seats -> PlayerRecords]
  BY DEF PlayerRecords

\* The types of the variables, by name.
Slots == [Seats -> PlayerRecords]
Connections == [Seats -> ClientRecords]
Boxes == [Seats -> Seq(StocMessages)]
TimerRecords == [alive : Nat, handle : BOOLEAN]
Winners == Seq(Seats \cup {None})
Typed ==
  /\ running \in BOOLEAN /\ panicked \in BOOLEAN /\ match_kill \in BOOLEAN
  /\ queue \in Seq(Requests) /\ stage \in Stages /\ players \in Slots
  /\ host_player \in Somebody /\ first_attack_player \in Somebody
  /\ first_attack_decider \in Somebody /\ last_response \in Somebody
  /\ duel_winner \in Winners /\ client_responses \in Nat
  /\ core \in CoreRecords /\ timers \in TimerRecords
  /\ clients \in Connections /\ stoc \in Boxes /\ late \in 0..MaxLate

\* TypeOK says no more and no less.
LEMMA TypeFolded == (TypeOK <=> Typed) /\ (TypeOK' <=> Typed')
  BY DEF TypeOK, Typed, Slots, Connections, Boxes, TimerRecords, Somebody, Winners, CoreRecords,
         Loads, ClientRecords, Owed

\* Whom the engine asks, and the gate that is left open for the answer.
LEMMA WaitingTyped ==
  ASSUME TypeOK, NEW s \in Seats, SetWaiting(s)
  PROVE  /\ last_response' \in Seats \cup {None}
         /\ players' \in [Seats -> PlayerRecords]
         /\ stoc' \in [Seats -> Seq(StocMessages)]
<1>1. stoc' \in [Seats -> Seq(StocMessages)]
  <2>1. <<"TimeLimit", "Select">> \in Seq(StocMessages) /\ <<"Select">> \in Seq(StocMessages)
    BY DEF StocMessages
  <2> QED
    BY <2>1, NewsTyped, SendTyped DEF SetWaiting
<1>2. \A gate \in Gates : [players EXCEPT ![s].state = gate] \in [Seats -> PlayerRecords]
  BY ZenonT(60) DEF TypeOK, PlayerRecords
<1>3. "TimeConfirm" \in Gates /\ "Response" \in Gates
  BY DEF Gates
<1>4. players' \in [Seats -> PlayerRecords]
  <2>1. CASE Present(s)
    <3>1. \E gate \in Gates : players' = [players EXCEPT ![s].state = gate]
      BY <1>3, <2>1 DEF SetWaiting
    <3> QED
      BY <1>2, <3>1
  <2>2. CASE ~Present(s)
    BY <2>2 DEF SetWaiting, TypeOK
  <2> QED
    BY <2>1, <2>2
<1> QED
  BY <1>1, <1>4 DEF SetWaiting

\* What the handlers that decide who begins leave in the slots.
LEMMA DecidingTyped ==
  ASSUME NEW ps \in [Seats -> PlayerRecords], NEW decider \in Seats
  PROVE  Deciding(ps, decider) \in [Seats -> PlayerRecords]
  BY DEF Deciding, PlayerRecords, Gates

\* Hands, choices and the start of the duel keep types.
LEMMA TypeStart ==
  ASSUME TypeOK, OnHandResult \/ OnTpResult \/ OnFirstShuffle \/ OnDuelInit \/ OnDuelStartPanics
  PROVE  TypeOK' /\ timers' = timers
<1>0. queue # <<>>
  BY DEF OnHandResult, OnTpResult, OnFirstShuffle, OnDuelInit, OnDuelStartPanics, ReceiveFrom, Receive
<1>r. Request \in Requests
  BY <1>0, RequestTyped
<1>1. CASE OnHandResult
  <2> DEFINE shown == [players EXCEPT ![Request.from].hand = Present(Request.from)]
  <2>1. queue' \in Seq(Requests)
    BY <1>0, <1>1, AfterDone, Queues DEF OnHandResult
  <2>2. Request.from \in Seats
    BY <1>1, <1>r, RequestFields DEF OnHandResult, ReceiveFrom, Receive, CtosTypes
  <2>3. shown \in [Seats -> PlayerRecords]
    <3>1. Present(Request.from) \in BOOLEAN /\ players \in [Seats -> PlayerRecords]
      BY <2>2 DEF TypeOK, PlayerRecords, Present
    <3> QED
      BY <2>2, <3>1, SlotUpdates DEF Gates
  <2>4. /\ players' \in {shown, [s \in Seats |-> [shown[s] EXCEPT !.hand = FALSE, !.state = "HandResult"]]}
                        \cup {Deciding(shown, winner) : winner \in Seats}
        /\ stoc' = stoc \/ Send(ToAll("SelectHand")) \/ \E winner \in Seats : Send(ToOne(winner, <<"SelectTp">>))
        /\ stage' \in {stage, "Firstgo"}
        /\ first_attack_decider' \in {first_attack_decider} \cup Seats
    <3> HIDE DEF shown
    <3>1. \/ players' = shown /\ UNCHANGED <<stage, first_attack_decider, stoc>>
          \/ /\ players' = [s \in Seats |-> [shown[s] EXCEPT !.hand = FALSE, !.state = "HandResult"]]
             /\ Send(ToAll("SelectHand")) /\ UNCHANGED <<stage, first_attack_decider>>
          \/ \E winner \in Seats :
               /\ players' = Deciding(shown, winner) /\ first_attack_decider' = winner
               /\ stage' = "Firstgo" /\ Send(ToOne(winner, <<"SelectTp">>))
      BY <1>1 DEF OnHandResult, shown
    <3> QED
      BY <3>1
  <2>t. stage' \in Stages /\ first_attack_decider' \in Somebody
    BY <2>4 DEF TypeOK, Stages, Somebody
  <2> HIDE DEF shown
  <2>5. players' \in [Seats -> PlayerRecords]
    <3>1. [s \in Seats |-> [shown[s] EXCEPT !.hand = FALSE, !.state = "HandResult"]]
            \in [Seats -> PlayerRecords]
      BY <2>3 DEF PlayerRecords, Gates
    <3> QED
      <4>1. \A winner \in Seats : Deciding(shown, winner) \in [Seats -> PlayerRecords]
        BY <2>3, DecidingTyped
      <4> QED
        BY <2>3, <2>4, <3>1, <4>1, Zenon
  <2>6. stoc' \in [Seats -> Seq(StocMessages)]
    <3>1. "SelectHand" \in StocMessages /\ <<"SelectTp">> \in Seq(StocMessages)
      BY DEF StocMessages
    <3>2. CASE stoc' = stoc
      BY <3>2 DEF TypeOK
    <3>3. CASE Send(ToAll("SelectHand"))
      BY <3>1, <3>3, NewsTyped, SendTyped
    <3>4. CASE \E winner \in Seats : Send(ToOne(winner, <<"SelectTp">>))
      BY <3>1, <3>4, NewsTyped, SendTyped
    <3> QED
      BY <2>4, <3>2, <3>3, <3>4
  <2> QED
    BY <1>1, <2>1, <2>t, <2>5, <2>6, TypeFolded DEF OnHandResult, Steady, Typed, Slots, Boxes
<1>2. CASE OnTpResult
  <2>1. <<Ex("FirstShuffle"), Ex("DuelInit")>> \in Seq(Requests)
    BY RequestsTyped, Queues DEF ExTypes
  <2>2. queue' \in Seq(Requests)
    BY <1>0, <1>2, <2>1, AfterDone DEF OnTpResult
  <2>3. first_attack_player' \in Seats
    BY <1>2, <1>r, RequestFields, SeatsTyped DEF OnTpResult, ReceiveFrom, Receive, CtosTypes
  <2>4. stage' \in Stages /\ first_attack_player' \in Somebody
    BY <1>2, <2>3 DEF OnTpResult, Stages, Somebody
  <2> QED
    BY <1>2, <2>2, <2>4, TypeFolded DEF OnTpResult, Steady, Typed
<1>3. CASE OnFirstShuffle
  BY <1>0, <1>3, Queues, TypeChain DEF OnFirstShuffle, Ignored, Chain, duel
<1>4. CASE OnDuelInit
  <2>1. queue' \in Seq(Requests)
    BY <1>0, <1>4, AfterDone, RequestsTyped, Queues DEF OnDuelInit, ExTypes
  <2>2. Loaded \in [Seats -> 0..2]
    <3>1. core.loaded \in [Seats -> 0..2]
      BY DEF TypeOK
    <3>2. \A s \in Seats : core.loaded[s] \in 0..2 /\ (core.loaded[s] < 2 => core.loaded[s] + 1 \in 0..2)
      BY <3>1
    <3> QED
      BY <3>2 DEF Loaded
  <2>3. core' \in CoreRecords
    <3>1. core \in CoreRecords
      BY TypeFolded DEF Typed
    <3> QED
      BY <1>4, <2>2, <3>1, SeatsTyped, CoreUpdates, Zenon DEF OnDuelInit, Loads, Somebody
  <2> QED
    BY <1>4, <2>1, <2>3, TypeFolded DEF OnDuelInit, Steady, Typed
<1>5. CASE OnDuelStartPanics
  BY <1>5, Queues, ZenonT(60) DEF OnDuelStartPanics, TypeOK, duel, outside
<1> QED
  BY <1>1, <1>2, <1>3, <1>4, <1>5

\* So does the engine when it runs and when it is answered.
LEMMA TypeEngine ==
  ASSUME TypeOK, \/ OnEvolveEnded \/ OnEvolveSelect \/ OnEvolveRetry \/ OnEvolveWin
                 \/ OnResponse \/ OnTimeConfirm
  PROVE  TypeOK' /\ timers' = timers
<1>0. queue # <<>>
  BY DEF OnEvolveEnded, OnEvolveSelect, OnEvolveRetry, OnEvolveWin, OnResponse, OnTimeConfirm,
         Evolving, ReceiveFrom, Receive
<1>r. Request \in Requests
  BY <1>0, RequestTyped
<1>c. core \in CoreRecords /\ Accepted \in Nat
  <2>1. core \in CoreRecords
    BY TypeFolded DEF Typed
  <2> QED
    BY <2>1, CoreFields DEF Accepted
<1>i. Ignored => TypeOK' /\ timers' = timers
  BY <1>0, Queues, TypeChain DEF Ignored, Chain, duel
<1>1. CASE OnEvolveEnded
  BY <1>1, <1>i DEF OnEvolveEnded
<1>2. CASE OnEvolveSelect
  <2>1. queue' \in Seq(Requests)
    BY <1>0, <1>2, AfterDone, Queues DEF OnEvolveSelect
  <2>2. PICK s \in Seats :
          /\ core' = [core EXCEPT !.asks = @ + 1, !.input = FALSE, !.accepted = Accepted]
          /\ SetWaiting(s)
    BY <1>2 DEF OnEvolveSelect
  <2>3. core' \in CoreRecords
    <3>1. core.asks + 1 \in Nat
      BY <1>c, CoreFields
    <3> QED
      BY <1>c, <2>2, <3>1, CoreUpdates, Zenon
  <2> QED
    BY <1>2, <2>1, <2>2, <2>3, WaitingTyped, TypeFolded
    DEF OnEvolveSelect, Steady, Typed, Slots, Boxes, Somebody
<1>3. CASE OnEvolveRetry
  <2>1. queue' \in Seq(Requests)
    BY <1>0, <1>3, AfterDone, Queues DEF OnEvolveRetry
  <2>2. core' \in CoreRecords /\ client_responses' \in Nat
    <3>1. core.asks + 1 \in Nat
      BY <1>c, CoreFields
    <3>2. core' \in CoreRecords
      BY <1>3, <1>c, <3>1, CoreUpdates, Zenon DEF OnEvolveRetry
    <3> QED
      BY <1>3, <3>2 DEF OnEvolveRetry, WithoutLast, TypeOK
  <2>3. /\ last_response' \in Seats \cup {None}
        /\ players' \in [Seats -> PlayerRecords]
        /\ stoc' \in [Seats -> Seq(StocMessages)]
    <3>1. CASE last_response = None
      BY <1>3, <3>1 DEF OnEvolveRetry, TypeOK
    <3>2. CASE last_response # None
      <4>1. last_response \in Seats /\ SetWaiting(last_response)
        BY <1>3, <3>2 DEF OnEvolveRetry, TypeOK
      <4> QED
        BY <4>1, WaitingTyped
    <3> QED
      BY <3>1, <3>2
  <2> QED
    BY <1>3, <2>1, <2>2, <2>3, TypeFolded DEF OnEvolveRetry, Steady, Typed, Slots, Boxes, Somebody
<1>4. CASE OnEvolveWin
  <2>1. queue' \in Seq(Requests)
    BY <1>0, <1>4, AfterDone, RequestsTyped, Queues DEF OnEvolveWin
  <2>2. core' \in CoreRecords
    BY <1>4, <1>c, CoreUpdates, Zenon DEF OnEvolveWin
  <2>3. stoc' \in [Seats -> Seq(StocMessages)]
    BY <1>4, NewsTyped, SendTyped DEF OnEvolveWin, StocMessages
  <2>4. match_kill' \in BOOLEAN
    BY <1>4 DEF OnEvolveWin, TypeOK
  <2> QED
    BY <1>4, <2>1, <2>2, <2>3, <2>4, TypeFolded DEF OnEvolveWin, Steady, Typed, Boxes
<1>5. CASE OnResponse /\ ~Ignored
  <2>1. queue' \in Seq(Requests)
    BY <1>0, <1>5, AfterDone, RequestsTyped, Queues DEF OnResponse, ExTypes
  <2>2. Request.from \in Seats
    BY <1>5, <1>r, RequestFields DEF OnResponse, ReceiveFrom, Receive, CtosTypes
  <2>3. players' \in [Seats -> PlayerRecords]
    <3>1. Closed(Request.from) \in [Seats -> PlayerRecords]
      BY <2>2, ZenonT(60) DEF Closed, TypeOK, PlayerRecords, Gates
    <3> QED
      BY <1>5, <3>1 DEF OnResponse
  <2>4. core' \in CoreRecords /\ client_responses' \in Nat
    <3>1. client_responses' = client_responses + 1 /\ core' = [core EXCEPT !.input = TRUE]
      BY <1>5 DEF OnResponse
    <3>2. core' \in CoreRecords
      BY <1>c, <3>1, CoreUpdates, Zenon
    <3> QED
      BY <3>1, <3>2 DEF TypeOK
  <2> QED
    BY <1>5, <2>1, <2>3, <2>4, TypeFolded DEF OnResponse, Steady, Typed, Slots
<1>6. CASE OnTimeConfirm /\ ~Ignored
  <2>1. queue' \in Seq(Requests)
    BY <1>0, <1>6, AfterDone, Queues DEF OnTimeConfirm
  <2>2. Request.from \in Seats
    BY <1>6, <1>r, RequestFields DEF OnTimeConfirm, ReceiveFrom, Receive, CtosTypes
  <2>3. players' \in [Seats -> PlayerRecords]
    <3>1. players' = [players EXCEPT ![Request.from].state = "Response"]
      BY <1>6 DEF OnTimeConfirm
    <3>2. players \in [Seats -> PlayerRecords] /\ "Response" \in Gates
      BY DEF TypeOK, Gates
    <3> QED
      BY <2>2, <3>1, <3>2, SlotUpdates, Zenon
  <2> QED
    BY <1>6, <2>1, <2>3, TypeFolded DEF OnTimeConfirm, Steady, Typed, Slots
<1> QED
  BY <1>1, <1>2, <1>3, <1>4, <1>5, <1>6, <1>i

\* So does the end of the duel, whoever or whatever brings it about.
LEMMA TypeEnd ==
  ASSUME TypeOK, Named, \/ Refused \/ OnSurrender \/ OnLeaveGame \/ OnDuelEnd \/ OnGenerateReplay
                        \/ OnJudgeContinueMatch \/ OnMatchEnd \/ OnTerminate \/ OnTimerTick \/ OnTimeout
  PROVE  TypeOK' /\ Named'
<1>0. queue # <<>>
  BY DEF Refused, OnSurrender, OnLeaveGame, OnDuelEnd, OnGenerateReplay, OnJudgeContinueMatch,
         OnMatchEnd, OnTerminate, OnTimerTick, OnTimeout, ReceiveFrom, Receive
<1>r. Request \in Requests
  BY <1>0, RequestTyped
<1>i. \A more \in Seq(Requests) : Chain(more) => TypeOK' /\ Named'
  BY <1>0, TypeChain DEF Chain, duel, Named
<1>j. Ignored => TypeOK' /\ Named'
  BY <1>i, Queues DEF Ignored
<1>1. CASE Refused
  BY <1>1, <1>j DEF Refused, Ignored, Chain
<1>2. CASE OnSurrender /\ ~Ignored
  <2>1. Request.from \in Seats
    BY <1>2, <1>r, RequestFields DEF OnSurrender, ReceiveFrom, Receive, CtosTypes
  <2>2. queue' \in Seq(Requests)
    BY <1>0, <1>2, <2>1, AfterDone, RequestsTyped, Queues, SeatsTyped DEF OnSurrender
  <2>3. stoc' \in [Seats -> Seq(StocMessages)]
    BY <1>2, NewsTyped, SendTyped DEF OnSurrender, StocMessages
  <2> QED
    BY <1>2, <2>2, <2>3, TypeFolded DEF OnSurrender, Steady, Typed, Boxes, Named
<1>3. CASE OnLeaveGame /\ Break
  BY <1>3, TypeBreak DEF Break, duel, Named
<1>4. CASE OnLeaveGame /\ ~Break
  <2> DEFINE s == Request.from
  <2>1. s \in Seats /\ Other(s) \in Seats /\ ToCore(Other(s)) \in Seats
    BY <1>4, <1>r, RequestFields, SeatsTyped DEF OnLeaveGame, ReceiveFrom, Receive, CtosTypes
  <2>2. queue' \in Seq(Requests)
    BY <1>0, <1>4, <2>1, AfterDone, RequestsTyped, Queues DEF OnLeaveGame
  <2>3. stoc' \in [Seats -> Seq(StocMessages)]
    BY <1>4, NewsTyped, SendTyped DEF OnLeaveGame, StocMessages
  <2>4. players' = [players EXCEPT ![s] = EmptySlot]
        /\ host_player' = IF host_player = s THEN Other(s) ELSE host_player
    BY <1>4 DEF OnLeaveGame
  <2>5. players' \in [Seats -> PlayerRecords]
    BY <2>1, <2>4, SlotsTyped
  <2>6. host_player' \in Somebody
    BY <2>1, <2>4 DEF TypeOK, Somebody
  <2> QED
    BY <1>4, <2>2, <2>3, <2>5, <2>6, TypeFolded DEF OnLeaveGame, Steady, Typed, Slots, Boxes, Named
<1>5. CASE OnDuelEnd
  <2>1. <<Ex("GenerateReplay"), Ex("JudgeContinueMatch")>> \in Seq(Requests)
    BY RequestsTyped, Queues DEF ExTypes
  <2>2. queue' \in Seq(Requests)
    BY <1>0, <1>5, <2>1, AfterDone DEF OnDuelEnd
  <2>3. ToSeat(Request.winner) \in Seats \cup {None}
    BY <1>5, <1>r, RequestFields, SeatsTyped DEF OnDuelEnd, Receive
  <2>4. duel_winner' \in Seq(Seats \cup {None})
    BY <1>5, <2>3, AppendProperties DEF OnDuelEnd, TypeOK
  <2>5. core' \in CoreRecords
    <3>1. core \in CoreRecords
      BY TypeFolded DEF Typed
    <3> QED
      <4>1. core.ends + 1 \in Nat
        BY <3>1, CoreFields
      <4> QED
        BY <1>5, <3>1, <4>1, CoreUpdates, Zenon DEF OnDuelEnd
  <2>6. timers' \in [alive : Nat, handle : BOOLEAN] /\ Named'
    <3>1. timers \in [alive : Nat, handle : BOOLEAN]
      BY DEF TypeOK
    <3> QED
      BY <1>5, <3>1 DEF OnDuelEnd, Named
  <2> QED
    BY <1>5, <2>2, <2>4, <2>5, <2>6, TypeFolded DEF OnDuelEnd, Steady, Typed, Winners, TimerRecords
<1>6. CASE OnGenerateReplay
  BY <1>6, <1>j DEF OnGenerateReplay
<1>7. CASE OnJudgeContinueMatch
  BY <1>7, <1>i, RequestsTyped, Queues DEF OnJudgeContinueMatch, ExTypes
<1>8. CASE OnMatchEnd
  BY <1>8, <1>i, RequestsTyped, Queues DEF OnMatchEnd, ExTypes
<1>9. CASE OnTerminate
  BY <1>9, TypeBreak DEF OnTerminate, Break, duel, Named
<1>10. CASE OnTimerTick /\ ~Ignored
  <2>1. last_response \in Seats
    BY <1>10 DEF OnTimerTick, TypeOK
  <2>2. <<[type |-> "Timeout", player |-> last_response]>> \in Seq(Requests)
    BY <2>1, RequestsTyped, Queues
  <2> QED
    BY <1>10, <1>i, <2>2 DEF OnTimerTick
<1>11. CASE OnTimeout
  <2>1. Request.player \in Seats
    BY <1>11, <1>r, RequestFields DEF OnTimeout, Receive
  <2>2. queue' \in Seq(Requests)
    BY <1>0, <1>11, <2>1, AfterDone, RequestsTyped, Queues, SeatsTyped DEF OnTimeout
  <2>3. stoc' \in [Seats -> Seq(StocMessages)]
    BY <1>11, NewsTyped, SendTyped DEF OnTimeout, StocMessages
  <2> QED
    BY <1>11, <2>2, <2>3, TypeFolded DEF OnTimeout, Steady, Typed, Boxes, Somebody, Named
<1> QED
  BY <1>1, <1>2, <1>3, <1>4, <1>5, <1>6, <1>7, <1>8, <1>9, <1>10, <1>11, <1>j

\* So do the timer that starts, the next duel, the new decks and a latecomer.
LEMMA TypeNext ==
  ASSUME TypeOK, Named, OnDuelStart \/ OnRecreateDuel \/ OnUpdateDeck \/ OnJoinGame
  PROVE  TypeOK' /\ Named'
<1>0. queue # <<>>
  BY DEF OnDuelStart, OnRecreateDuel, OnUpdateDeck, OnJoinGame, ReceiveFrom, Receive
<1>r. Request \in Requests
  BY <1>0, RequestTyped
<1>j. Ignored => TypeOK' /\ Named'
  BY <1>0, Queues, TypeChain DEF Ignored, Chain, duel, Named
<1>1. CASE OnDuelStart
  <2>1. queue' \in Seq(Requests)
    BY <1>0, <1>1, AfterDone, RequestsTyped, Queues DEF OnDuelStart, ExTypes
  <2>2. stoc' \in [Seats -> Seq(StocMessages)]
    BY <1>1, NewsTyped, SendTyped DEF OnDuelStart, StocMessages
  <2>3. timers' \in [alive : Nat, handle : BOOLEAN] /\ Named'
    BY <1>1 DEF OnDuelStart, TypeOK, Named
  <2>4. core' \in CoreRecords
    <3>1. core \in CoreRecords
      BY TypeFolded DEF Typed
    <3> QED
      <4>1. (~core.ended) \in BOOLEAN
        OBVIOUS
      <4> QED
        BY <1>1, <3>1, <4>1, CoreUpdates, Zenon DEF OnDuelStart
  <2> QED
    BY <1>1, <2>1, <2>2, <2>3, <2>4, TypeFolded
    DEF OnDuelStart, Steady, Typed, Boxes, TimerRecords
<1>2. CASE OnRecreateDuel
  <2>1. queue' \in Seq(Requests)
    BY <1>0, <1>2, AfterDone, Queues DEF OnRecreateDuel
  <2>2. stoc' \in [Seats -> Seq(StocMessages)]
    BY <1>2, NewsTyped, SendTyped DEF OnRecreateDuel, StocMessages
  <2>3. players' \in [Seats -> PlayerRecords]
    <3>1. \A slot \in PlayerRecords : ToSide(slot) \in PlayerRecords
      BY DEF ToSide, PlayerRecords, Gates
    <3> QED
      BY <1>2, <3>1 DEF OnRecreateDuel, TypeOK
  <2>4. core' \in CoreRecords
    <3>1. NewCore \in CoreRecords
      BY DEF NewCore, CoreRecords, Loads, Somebody
    <3> QED
      BY <1>2, <3>1 DEF OnRecreateDuel
  <2>5. first_attack_decider' \in Seats
    <3>1. duel_winner # <<>> => duel_winner[Len(duel_winner)] \in Seats \cup {None}
      BY LenProperties, EmptySeq DEF TypeOK
    <3>2. first_attack_decider = None \/ first_attack_decider \in Seats
      BY DEF TypeOK
    <3>3. \A s \in Seats : Other(s) \in Seats
      BY SeatsTyped
    <3>4. 1 \in Seats
      BY DEF Seats
    <3> QED
      BY <1>2, <3>1, <3>2, <3>3, <3>4 DEF OnRecreateDuel
  <2>6. stage' \in Stages /\ first_attack_player' \in Somebody /\ client_responses' \in Nat
    BY <1>2 DEF OnRecreateDuel, Stages, Somebody
  <2> QED
    BY <1>2, <2>1, <2>2, <2>3, <2>4, <2>5, <2>6, TypeFolded
    DEF OnRecreateDuel, Steady, Typed, Slots, Boxes, Somebody, Named
<1>3. CASE OnUpdateDeck /\ ~Ignored
  <2> DEFINE s == Request.from
             sided == [players EXCEPT ![s].ready = TRUE]
             decider == IF first_attack_decider = None THEN 0 ELSE first_attack_decider
  <2>1. queue' \in Seq(Requests)
    BY <1>0, <1>3, AfterDone, Queues DEF OnUpdateDeck
  <2>2. s \in Seats
    BY <1>3, <1>r, RequestFields DEF OnUpdateDeck, ReceiveFrom, Receive, CtosTypes
  <2>3. sided \in [Seats -> PlayerRecords] /\ decider \in Seats
    BY <2>2, ZenonT(60) DEF TypeOK, PlayerRecords, Seats
  <2>4. /\ players' \in {players, sided, Deciding(sided, decider)}
        /\ stoc' = stoc \/ Send(ToOne(s, <<"SideError">>)) \/ Send(ToOne(decider, <<"SelectTp">>))
        /\ stage' \in {stage, "Firstgo"}
    BY <1>3 DEF OnUpdateDeck
  <2> HIDE DEF sided, decider
  <2>5. players' \in [Seats -> PlayerRecords]
    <3>1. players \in [Seats -> PlayerRecords] /\ Deciding(sided, decider) \in [Seats -> PlayerRecords]
      BY <2>3, DecidingTyped DEF TypeOK
    <3> QED
      BY <2>3, <2>4, <3>1, Zenon
  <2>6. stoc' \in [Seats -> Seq(StocMessages)]
    <3>1. <<"SideError">> \in Seq(StocMessages) /\ <<"SelectTp">> \in Seq(StocMessages)
      BY DEF StocMessages
    <3> QED
      BY <2>2, <2>3, <2>4, <3>1, NewsTyped, SendTyped, Zenon DEF TypeOK
  <2>7. stage' \in Stages
    BY <2>4 DEF TypeOK, Stages
  <2> QED
    BY <1>3, <2>1, <2>7, <2>5, <2>6, TypeFolded DEF OnUpdateDeck, Steady, Typed, Slots, Boxes, Named
<1>4. CASE OnJoinGame /\ ~Ignored
  <2> DEFINE s == CHOOSE t \in Missing : \A u \in Missing : t <= u
             slot == [here |-> TRUE, ready |-> FALSE, state |-> "Any", hand |-> FALSE]
  <2>1. queue' \in Seq(Requests)
    BY <1>0, <1>4, AfterDone, Queues DEF OnJoinGame
  <2>2. slot \in PlayerRecords /\ NewClient \in ClientRecords
    BY DEF PlayerRecords, Gates, NewClient, ClientRecords, Owed
  <2>3. players' = [players EXCEPT ![s] = slot] /\ clients' = [clients EXCEPT ![s] = NewClient]
    BY <1>4 DEF OnJoinGame
  <2> HIDE DEF s, slot
  <2>4. players' \in [Seats -> PlayerRecords] /\ clients' \in [Seats -> ClientRecords]
    BY <2>2, <2>3 DEF TypeOK, ClientRecords, Owed
  <2> QED
    BY <1>4, <2>1, <2>4, TypeFolded DEF OnJoinGame, Typed, Slots, Connections, Named
<1> QED
  BY <1>1, <1>2, <1>3, <1>4, <1>j

\* Types are kept, and a handle goes on naming a timer that is alive.
LEMMA TypeKept == TypeOK /\ Named /\ [Next]_vars => TypeOK' /\ Named'
<1> SUFFICES ASSUME TypeOK, Named, [Next]_vars PROVE TypeOK' /\ Named'
  OBVIOUS
<1>1. CASE Actor
  BY <1>1, TypeStart, TypeEngine, TypeEnd, TypeNext DEF Actor, Named
<1>2. CASE TimerTicks \/ StrangerJoins \/ \E s \in Seats : Client(s)
  BY <1>2, TypeOutside DEF Named
<1>3. CASE UNCHANGED vars
  BY <1>3 DEF vars, duel, outside, TypeOK, Named
<1> QED
  BY <1>1, <1>2, <1>3 DEF Next

\* Every variable has its type in every reachable state.
THEOREM TypeCorrect == Spec => []TypeOK
  BY TypeInit, TypeKept, PTL DEF Spec

-----------------------------------------------------------------------------
(* Siding: the stage never stays behind with everybody ready.               *)

\* Nobody is ready in an empty slot.
Emptied == \A s \in Seats : ~Present(s) => ~players[s].ready

\* Everybody who is in a slot stays there and as ready as before, and no siding starts.
SeatedAsBefore ==
  /\ \A s \in Seats : players'[s].here = players[s].here /\ players'[s].ready = players[s].ready
  /\ stage' = stage \/ stage' # "Siding"

\* What a handler does that touches nothing of a slot but its gate and its hand.
LEMMA SeatedSides ==
  ASSUME Emptied, SidingWaits, SeatedAsBefore
  PROVE  Emptied' /\ SidingWaits'
  BY DEF Emptied, SidingWaits, SeatedAsBefore, Present

\* Gates and hands are nothing of that.
LEMMA GatesSides ==
  ASSUME TypeOK
  PROVE  /\ \A s \in Seats : players[s] \in PlayerRecords
         /\ \A ps \in [Seats -> PlayerRecords], d, s \in Seats :
              /\ Deciding(ps, d)[s].here = ps[s].here
              /\ Deciding(ps, d)[s].ready = ps[s].ready
         /\ \A s, u \in Seats, gate \in Gates, b \in BOOLEAN :
              /\ [players EXCEPT ![u].state = gate][s].here = players[s].here
              /\ [players EXCEPT ![u].state = gate][s].ready = players[s].ready
              /\ [players EXCEPT ![u].hand = b][s].here = players[s].here
              /\ [players EXCEPT ![u].hand = b][s].ready = players[s].ready
  BY DEF TypeOK, PlayerRecords, Deciding

\* The question of who begins, and the engine's questions and answers.
LEMMA SidingGates ==
  ASSUME TypeOK, \/ OnHandResult \/ OnEvolveSelect \/ OnEvolveRetry \/ OnResponse \/ OnTimeConfirm
  PROVE  SeatedAsBefore
<1>r. queue # <<>> /\ Request \in Requests
  BY RequestTyped DEF OnHandResult, OnEvolveSelect, OnEvolveRetry, OnResponse, OnTimeConfirm,
     Evolving, ReceiveFrom, Receive
<1>g. {"None", "HandResult", "TimeConfirm", "Response"} \subseteq Gates
  BY DEF Gates
<1>u. players' = players /\ stage' = stage => SeatedAsBefore
  BY DEF SeatedAsBefore
<1>s. ASSUME NEW u \in Seats, NEW gate \in Gates, stage' = stage,
             players' = [players EXCEPT ![u].state = gate]
      PROVE  SeatedAsBefore
  <2>1. players \in [Seats -> PlayerRecords]
    BY DEF TypeOK
  <2> QED
    BY <1>s, <2>1 DEF SeatedAsBefore, PlayerRecords
<1>w. ASSUME NEW s \in Seats, SetWaiting(s), stage' = stage PROVE SeatedAsBefore
  <2>1. \/ players' = players
        \/ \E gate \in Gates : players' = [players EXCEPT ![s].state = gate]
    BY <1>w, <1>g DEF SetWaiting
  <2> QED
    BY <1>s, <1>u, <1>w, <2>1
<1>1. CASE OnHandResult
  <2> DEFINE shown == [players EXCEPT ![Request.from].hand = Present(Request.from)]
  <2>1. Request.from \in Seats
    BY <1>1, <1>r, RequestFields DEF OnHandResult, ReceiveFrom, Receive, CtosTypes
  <2>2. Present(Request.from) \in BOOLEAN /\ players \in [Seats -> PlayerRecords]
    BY <2>1 DEF TypeOK, PlayerRecords, Present
  <2>3. /\ shown \in [Seats -> PlayerRecords]
        /\ \A s \in Seats : shown[s].here = players[s].here /\ shown[s].ready = players[s].ready
    <3>1. shown \in [Seats -> PlayerRecords]
      BY <2>1, <2>2, SlotUpdates, <1>g
    <3> QED
      BY <2>1, <2>2, <3>1, GatesSides, <1>g
  <2>4. /\ \/ players' = shown
           \/ players' = [s \in Seats |-> [shown[s] EXCEPT !.hand = FALSE, !.state = "HandResult"]]
           \/ \E winner \in Seats : players' = Deciding(shown, winner)
        /\ stage' = stage \/ stage' = "Firstgo"
    BY <1>1 DEF OnHandResult
  <2> HIDE DEF shown
  <2>5. \A s \in Seats : players'[s].here = shown[s].here /\ players'[s].ready = shown[s].ready
    <3>1. CASE players' = shown
      BY <3>1
    <3>2. CASE players' = [s \in Seats |-> [shown[s] EXCEPT !.hand = FALSE, !.state = "HandResult"]]
      BY <2>3, <3>2 DEF PlayerRecords
    <3>3. CASE \E winner \in Seats : players' = Deciding(shown, winner)
      BY <2>3, <3>3, GatesSides
    <3> QED
      BY <2>4, <3>1, <3>2, <3>3
  <2> QED
    BY <2>3, <2>4, <2>5 DEF SeatedAsBefore
<1>2. CASE OnEvolveSelect
  BY <1>2, <1>w DEF OnEvolveSelect
<1>3. CASE OnEvolveRetry
  <2>1. last_response # None => last_response \in Seats
    BY DEF TypeOK
  <2> QED
    BY <1>3, <1>u, <1>w, <2>1 DEF OnEvolveRetry
<1>4. CASE OnResponse
  <2>1. Request.from \in Seats
    BY <1>4, <1>r, RequestFields DEF OnResponse, ReceiveFrom, Receive, CtosTypes
  <2>2. /\ stage' = stage
        /\ players' = players \/ players' = Closed(Request.from)
    BY <1>4 DEF OnResponse, Ignored, Chain, duel
  <2>3. players' = players \/ players' = [players EXCEPT ![Request.from].state = "None"]
    BY <2>2 DEF Closed
  <2> QED
    BY <1>g, <1>s, <1>u, <2>1, <2>2, <2>3
<1>5. CASE OnTimeConfirm
  <2>1. Request.from \in Seats
    BY <1>5, <1>r, RequestFields DEF OnTimeConfirm, ReceiveFrom, Receive, CtosTypes
  <2>2. /\ stage' = stage
        /\ players' = players \/ players' = [players EXCEPT ![Request.from].state = "Response"]
    BY <1>5 DEF OnTimeConfirm, Ignored, Chain, duel
  <2> QED
    BY <1>g, <1>s, <1>u, <2>1, <2>2
<1> QED
  BY <1>1, <1>2, <1>3, <1>4, <1>5

\* Nobody who comes, leaves, or hands in a deck leaves everybody ready in a siding.
LEMMA SidingKept ==
  ASSUME TypeOK, Emptied, SidingWaits, [Next]_vars
  PROVE  Emptied' /\ SidingWaits'
<1>u. players' = players /\ stage' \in {stage, "Dueling"} => Emptied' /\ SidingWaits'
  BY DEF Emptied, SidingWaits, Present
<1>i. \A more : Chain(more) => Emptied' /\ SidingWaits'
  BY <1>u DEF Chain, duel
<1>b. Break => Emptied' /\ SidingWaits'
  BY <1>u DEF Break, duel
<1>1. CASE OnHandResult \/ OnEvolveSelect \/ OnEvolveRetry \/ OnResponse \/ OnTimeConfirm
  BY <1>1, SidingGates, SeatedSides
<1>2. CASE \/ OnTpResult \/ OnDuelInit \/ OnDuelStart \/ OnEvolveWin \/ OnDuelEnd \/ OnTimeout
  BY <1>2, <1>u DEF OnTpResult, OnDuelInit, OnDuelStart, OnEvolveWin, OnDuelEnd, OnTimeout
<1>3. CASE \/ Refused \/ OnFirstShuffle \/ OnEvolveEnded \/ OnGenerateReplay \/ OnJudgeContinueMatch
           \/ OnMatchEnd \/ OnTimerTick \/ OnTerminate
  BY <1>3, <1>i, <1>b, <1>u DEF Refused, OnFirstShuffle, OnEvolveEnded, OnGenerateReplay, OnJudgeContinueMatch,
       OnMatchEnd, OnTimerTick, OnTerminate, Ignored, duel
<1>4. CASE OnDuelStartPanics
  BY <1>4, <1>u DEF OnDuelStartPanics, duel
<1>5. CASE OnSurrender
  BY <1>5, <1>i, <1>u DEF OnSurrender, Ignored
<1>6. CASE OnLeaveGame
  <2>1. Request.from \in Seats
    BY <1>6, RequestTyped, RequestFields DEF OnLeaveGame, ReceiveFrom, Receive, CtosTypes
  <2>2. CASE players' = [players EXCEPT ![Request.from] = EmptySlot] /\ stage' = stage
    <3>1. players \in [Seats -> PlayerRecords] /\ ~EmptySlot.ready /\ ~EmptySlot.here
      BY DEF TypeOK, EmptySlot
    <3>2. \A s \in Seats : players'[s] = IF s = Request.from THEN EmptySlot ELSE players[s]
      BY <2>1, <2>2, <3>1
    <3> QED
      BY <2>1, <2>2, <3>1, <3>2 DEF Emptied, SidingWaits, Present
  <2> QED
    BY <1>6, <1>b, <2>2 DEF OnLeaveGame
<1>7. CASE OnRecreateDuel
  <2>1. \A s \in Seats : players'[s] = ToSide(players[s])
    BY <1>7 DEF OnRecreateDuel
  <2>2. \A s \in Seats : players[s] \in PlayerRecords
    BY DEF TypeOK
  <2>3. \A slot \in PlayerRecords : slot.here => ~ToSide(slot).ready
    BY DEF ToSide, PlayerRecords
  <2>4. \A slot \in PlayerRecords : ~slot.here => ToSide(slot) = slot
    BY DEF ToSide
  <2>5. \A s \in Seats : ~players'[s].ready
    BY <2>1, <2>2, <2>3, <2>4 DEF Emptied, Present
  <2>6. 0 \in Seats
    BY DEF Seats
  <2> QED
    BY <2>5, <2>6 DEF Emptied, SidingWaits, Present
<1>8. CASE OnUpdateDeck /\ ~Ignored
  <2> DEFINE s == Request.from
             sided == [players EXCEPT ![s].ready = TRUE]
             decider == IF first_attack_decider = None THEN 0 ELSE first_attack_decider
  <2>1. s \in Seats /\ decider \in Seats
    <3>1. s \in Seats
      BY <1>8, RequestTyped, RequestFields DEF OnUpdateDeck, ReceiveFrom, Receive, CtosTypes
    <3> QED
      BY <3>1 DEF TypeOK, Seats
  <2>2. Present(s)
    BY <1>8 DEF OnUpdateDeck
  <2>3. \/ stage' = stage /\ players' = players
        \/ stage' = stage /\ players' = sided /\ \E t \in Seats : ~sided[t].ready
        \/ stage' = "Firstgo" /\ players' = Deciding(sided, decider)
    BY <1>8 DEF OnUpdateDeck
  <2>4. players \in [Seats -> PlayerRecords]
    BY DEF TypeOK
  <2>5. sided \in [Seats -> PlayerRecords]
    BY <2>1, <2>4, SlotUpdates DEF Gates
  <2>6. \A t \in Seats : sided[t].here = players[t].here /\ (t # s => sided[t] = players[t])
    BY <2>1, <2>4 DEF PlayerRecords
  <2> HIDE DEF s, sided, decider
  <2>7. CASE players' = sided
    BY <2>1, <2>2, <2>3, <2>6, <2>7, <1>u DEF Emptied, SidingWaits, Present
  <2>8. CASE stage' = "Firstgo" /\ players' = Deciding(sided, decider)
    <3>1. \A t \in Seats : players'[t].here = sided[t].here /\ players'[t].ready = sided[t].ready
      BY <2>1, <2>5, <2>8, GatesSides
    <3> QED
      BY <2>1, <2>2, <2>6, <2>8, <3>1 DEF Emptied, SidingWaits, Present
  <2> QED
    BY <2>3, <2>7, <2>8, <1>u
<1>9. CASE OnJoinGame /\ ~Ignored
  <2> DEFINE slot == [here |-> TRUE, ready |-> FALSE, state |-> "Any", hand |-> FALSE]
  <2>1. PICK s : players' = [players EXCEPT ![s] = slot]
    BY <1>9 DEF OnJoinGame
  <2>2. stage' = stage /\ players \in [Seats -> PlayerRecords] /\ ~slot.ready
    BY <1>9 DEF OnJoinGame, TypeOK
  <2>3. \A t \in Seats : players'[t] = IF t = s THEN slot ELSE players[t]
    BY <2>1, <2>2
  <2> HIDE DEF slot
  <2> QED
    BY <2>2, <2>3 DEF Emptied, SidingWaits, Present
<1>10. CASE TimerTicks \/ StrangerJoins \/ \E s \in Seats : Client(s)
  BY <1>10, <1>u DEF TimerTicks, StrangerJoins, Client, ClientReads, ClientAnswers, ClientSurrenders,
       ClientLeaves, duel
<1>11. CASE UNCHANGED vars
  BY <1>11, <1>u DEF vars, duel
<1> QED
  BY <1>1, <1>2, <1>3, <1>4, <1>5, <1>6, <1>7, <1>8, <1>9, <1>10, <1>11, <1>i DEF Next, Actor, Ignored

\* While the stage is Siding somebody still has to hand in a deck.
THEOREM SidingAlwaysWaits == Spec => []SidingWaits
<1>1. Init => Emptied /\ SidingWaits
  BY DEF Init, Emptied, SidingWaits, Present
<1> QED
  BY <1>1, TypeInit, TypeKept, SidingKept, PTL DEF Spec

-----------------------------------------------------------------------------
(* Without a time limit a match that is over is not continued.              *)

\* Of two requests the first of which waits in front of the second: the end of a
\* duel is counted before it is judged, it is judged before a next duel is made,
\* and a next duel is made before that one's end is counted.
PairOK(x, y) ==
  /\ ~(x = "JudgeContinueMatch" /\ y = "DuelEnd")
  /\ ~(x = "RecreateDuel" /\ y = "JudgeContinueMatch")
  /\ ~(x = "DuelEnd" /\ y = "RecreateDuel")
InOrder == \A i, j \in DOMAIN queue : i < j => PairOK(queue[i].type, queue[j].type)

\* What a request in the mailbox says.
MessageOK(type) ==
  /\ type # "Timeout"
  /\ type = "JudgeContinueMatch" => core.ended
  /\ type = "RecreateDuel" => ~MatchOver
Messages == \A i \in DOMAIN queue : MessageOK(queue[i].type)

\* The same of the state that a step leads to.
NextOK(type) ==
  /\ type # "Timeout"
  /\ type = "JudgeContinueMatch" => core'.ended
  /\ type = "RecreateDuel" => ~MatchOver'

\* Nothing is said of an empty mailbox.
LEMMA EmptySays == queue' = <<>> => InOrder' /\ Messages'
  BY DEF InOrder, Messages

\* What is said of a mailbox stays true of it while the core and the score do.
LEMMA SaidBefore ==
  ASSUME Messages, core'.ended = core.ended, duel_winner' = duel_winner
  PROVE  \A i \in DOMAIN queue : NextOK(queue[i].type)
<1>1. MatchOver' = MatchOver
  BY DEF MatchOver, Wins
<1> QED
  BY <1>1 DEF Messages, MessageOK, NextOK

\* A handler may queue anything but a Timeout, a judgement and a next duel; the end
\* of a duel only while the duel lasts.
LEMMA QueuedInOrder ==
  ASSUME TypeOK, InOrder, Messages, queue # <<>>, NEW more \in Seq(Requests), Done(more),
         core'.ended = core.ended, duel_winner' = duel_winner,
         \A k \in DOMAIN more :
           /\ more[k].type \notin {"Timeout", "JudgeContinueMatch", "RecreateDuel"}
           /\ more[k].type = "DuelEnd" => ~core.ended
  PROVE  InOrder' /\ Messages'
<1>1. ASSUME NEW i \in DOMAIN queue' PROVE NextOK(queue'[i].type)
  <2>1. CASE i < Len(queue) /\ i + 1 \in DOMAIN queue /\ queue'[i] = queue[i + 1]
    BY <2>1, SaidBefore
  <2>2. CASE i - Len(queue) + 1 \in DOMAIN more /\ queue'[i] = more[i - Len(queue) + 1]
    BY <2>2 DEF NextOK
  <2> QED
    BY <2>1, <2>2, AfterDone
<1>2. ASSUME NEW i \in DOMAIN queue', NEW j \in DOMAIN queue', i < j
      PROVE  PairOK(queue'[i].type, queue'[j].type)
  <2>0. Len(queue) \in Nat /\ i \in Nat /\ j \in Nat
    BY AfterDone
  <2>1. CASE j < Len(queue)
    <3>1. /\ i + 1 \in DOMAIN queue /\ queue'[i] = queue[i + 1]
          /\ j + 1 \in DOMAIN queue /\ queue'[j] = queue[j + 1]
      BY <1>2, <2>0, <2>1, AfterDone
    <3>2. i + 1 < j + 1
      BY <1>2, <2>0
    <3> QED
      BY <3>1, <3>2 DEF InOrder
  <2>2. CASE ~(j < Len(queue))
    <3>1. j - Len(queue) + 1 \in DOMAIN more /\ queue'[j] = more[j - Len(queue) + 1]
      BY <2>2, AfterDone
    <3>2. /\ queue'[j].type \notin {"Timeout", "JudgeContinueMatch", "RecreateDuel"}
          /\ queue'[j].type = "DuelEnd" => ~core.ended
      BY <3>1
    <3>3. queue'[i].type = "JudgeContinueMatch" => core.ended
      <4>1. CASE i + 1 \in DOMAIN queue /\ queue'[i] = queue[i + 1]
        BY <4>1 DEF Messages, MessageOK
      <4>2. CASE i - Len(queue) + 1 \in DOMAIN more /\ queue'[i] = more[i - Len(queue) + 1]
        BY <4>2
      <4> QED
        BY <4>1, <4>2, AfterDone
    <3> QED
      BY <3>2, <3>3 DEF PairOK
  <2> QED
    BY <2>1, <2>2
<1> QED
  BY <1>1, <1>2 DEF InOrder, Messages, MessageOK, NextOK

\* So may whoever posts, who never posts the end of a duel.
LEMMA PostedInOrder ==
  ASSUME TypeOK, InOrder, Messages, NEW r \in Requests, Post(r), UNCHANGED <<core, duel_winner>>,
         r.type \notin {"Timeout", "JudgeContinueMatch", "RecreateDuel", "DuelEnd"}
  PROVE  InOrder' /\ Messages'
<1>0. Len(queue) \in Nat /\ DOMAIN queue = 1..Len(queue)
  BY DEF TypeOK
<1>1. ASSUME NEW i \in DOMAIN queue' PROVE NextOK(queue'[i].type)
  <2>1. CASE i \in DOMAIN queue /\ queue'[i] = queue[i]
    BY <2>1, SaidBefore
  <2>2. CASE queue'[i] = r
    BY <2>2 DEF NextOK
  <2> QED
    BY <2>1, <2>2, AfterPost
<1>2. ASSUME NEW i \in DOMAIN queue', NEW j \in DOMAIN queue', i < j
      PROVE  PairOK(queue'[i].type, queue'[j].type)
  <2>1. CASE queue'[j] = r
    BY <2>1 DEF PairOK
  <2>2. CASE j \in DOMAIN queue /\ queue'[j] = queue[j]
    <3>1. i \in DOMAIN queue /\ queue'[i] = queue[i]
      <4>1. i # Len(queue) + 1 /\ (i \in DOMAIN queue \/ i = Len(queue) + 1)
        BY <1>0, <1>2, <2>2, AfterPost
      <4> QED
        BY <4>1, AfterPost
    <3> QED
      BY <1>2, <2>2, <3>1 DEF InOrder
  <2> QED
    BY <2>1, <2>2, AfterPost
<1> QED
  BY <1>1, <1>2 DEF InOrder, Messages, MessageOK, NextOK

\* The handlers' way of deciding is the rule of the match.
LEMMA DecidedIsOver ==
  ASSUME TypeOK
  PROVE  Decided <=> MatchOver
<1>1. ASSUME NEW s \in Seats PROVE Wins(s) \in Nat
  <2>1. DOMAIN duel_winner = 1..Len(duel_winner) /\ Len(duel_winner) \in Nat
    BY DEF TypeOK
  <2>2. IsFiniteSet(DOMAIN duel_winner)
    BY <2>1, FS_Interval
  <2>3. IsFiniteSet({i \in DOMAIN duel_winner : duel_winner[i] = s})
    BY <2>2, FS_Subset
  <2> QED
    BY <2>3, FS_CardinalityType DEF Wins
<1>2. EndCount = 3 \/ EndCount = 1
  BY DEF EndCount
<1>3. ASSUME NEW n \in Nat PROVE n >= (EndCount + 1) \div 2 <=> 2 * n > EndCount
  <2>1. (3 + 1) \div 2 = 2 /\ (1 + 1) \div 2 = 1
    OBVIOUS
  <2>2. CASE EndCount = 3
    BY <1>3, <2>1, <2>2
  <2>3. CASE EndCount = 1
    BY <1>3, <2>1, <2>3
  <2> QED
    BY <1>2, <2>2, <2>3
<1>4. \A s \in Seats : Wins(s) >= (EndCount + 1) \div 2 <=> 2 * Wins(s) > EndCount
  BY <1>1, <1>3
<1> QED
  BY <1>4 DEF Decided, MatchOver

\* The handlers that judge a duel, and make the next one.
LEMMA JudgedInOrder ==
  ASSUME TypeOK, InOrder, Messages, OnDuelEnd \/ OnJudgeContinueMatch \/ OnRecreateDuel
  PROVE  InOrder' /\ Messages'
<1>0. /\ queue # <<>> /\ Len(queue) \in Nat \ {0} /\ 1 \in DOMAIN queue /\ Request = queue[1]
      /\ DOMAIN queue = 1..Len(queue)
  BY RequestTyped DEF OnDuelEnd, OnJudgeContinueMatch, OnRecreateDuel, Receive, TypeOK
<1>h. \A j \in DOMAIN queue : j > 1 => PairOK(Request.type, queue[j].type)
  BY <1>0 DEF InOrder
\* What waited behind the request, in front of what the handler queued.
<1>a. ASSUME NEW more \in Seq(Requests), Done(more),
             \A k \in DOMAIN more : NextOK(more[k].type),
             \A j \in DOMAIN queue : j > 1 => NextOK(queue[j].type),
             \A j \in DOMAIN queue, k \in DOMAIN more : j > 1 => PairOK(queue[j].type, more[k].type),
             \A k, l \in DOMAIN more : k < l => PairOK(more[k].type, more[l].type)
      PROVE  InOrder' /\ Messages'
  <2>1. ASSUME NEW i \in DOMAIN queue' PROVE NextOK(queue'[i].type)
    <3>1. CASE i < Len(queue) /\ i + 1 \in DOMAIN queue /\ queue'[i] = queue[i + 1]
      <4>1. i + 1 > 1
        <5>1. queue' \in Seq(Requests)
          BY <1>0, <1>a, AfterDone
        <5> QED
          BY <2>1, <5>1
      <4> QED
        BY <1>a, <3>1, <4>1
    <3>2. CASE i - Len(queue) + 1 \in DOMAIN more /\ queue'[i] = more[i - Len(queue) + 1]
      BY <1>a, <3>2
    <3> QED
      BY <1>0, <1>a, <3>1, <3>2, AfterDone
  <2>2. ASSUME NEW i \in DOMAIN queue', NEW j \in DOMAIN queue', i < j
        PROVE  PairOK(queue'[i].type, queue'[j].type)
    <3>0. i \in Nat \ {0} /\ j \in Nat \ {0}
      <4>1. queue' \in Seq(Requests)
        BY <1>0, <1>a, AfterDone
      <4> QED
        BY <2>2, <4>1
    <3>1. CASE j < Len(queue)
      <4>1. /\ i + 1 \in DOMAIN queue /\ queue'[i] = queue[i + 1]
            /\ j + 1 \in DOMAIN queue /\ queue'[j] = queue[j + 1]
        BY <1>0, <1>a, <2>2, <3>0, <3>1, AfterDone
      <4>2. i + 1 < j + 1
        BY <2>2, <3>0
      <4> QED
        BY <4>1, <4>2 DEF InOrder
    <3>2. CASE i < Len(queue) /\ ~(j < Len(queue))
      <4>1. /\ i + 1 \in DOMAIN queue /\ queue'[i] = queue[i + 1] /\ i + 1 > 1
            /\ j - Len(queue) + 1 \in DOMAIN more /\ queue'[j] = more[j - Len(queue) + 1]
        BY <1>0, <1>a, <2>2, <3>0, <3>2, AfterDone
      <4> QED
        BY <1>a, <4>1
    <3>3. CASE ~(i < Len(queue))
      <4>1. /\ i - Len(queue) + 1 \in DOMAIN more /\ queue'[i] = more[i - Len(queue) + 1]
            /\ j - Len(queue) + 1 \in DOMAIN more /\ queue'[j] = more[j - Len(queue) + 1]
        BY <1>0, <1>a, <2>2, <3>0, <3>3, AfterDone
      <4>2. i - Len(queue) + 1 < j - Len(queue) + 1
        BY <1>0, <2>2, <3>0
      <4> QED
        BY <1>a, <4>1, <4>2
    <3> QED
      BY <3>1, <3>2, <3>3
  <2> QED
    BY <2>1, <2>2 DEF InOrder, Messages, MessageOK, NextOK
<1>1. CASE OnDuelEnd
  <2> DEFINE more == <<Ex("GenerateReplay"), Ex("JudgeContinueMatch")>>
  <2>1. more \in Seq(Requests) /\ DOMAIN more = {1, 2} /\ Done(more) /\ core'.ended
        /\ more[1].type = "GenerateReplay" /\ more[2].type = "JudgeContinueMatch"
    <3>1. more \in Seq(Requests) /\ DOMAIN more = {1, 2}
      BY RequestsTyped, Queues DEF ExTypes
    <3>2. core'.ended
      <4>1. core \in CoreRecords /\ core' = [core EXCEPT !.ended = TRUE, !.ends = core.ends + 1]
        BY <1>1, TypeFolded DEF OnDuelEnd, Typed
      <4> QED
        BY <4>1 DEF CoreRecords
    <3> QED
      BY <1>1, <3>1, <3>2 DEF OnDuelEnd, Ex
  <2> HIDE DEF more
  <2>2. \A j \in DOMAIN queue : j > 1 => queue[j].type \notin {"RecreateDuel", "Timeout"}
    BY <1>1, <1>h DEF OnDuelEnd, Receive, PairOK, Messages, MessageOK
  <2> QED
    BY <1>a, <2>1, <2>2 DEF PairOK, NextOK
<1>2. CASE OnJudgeContinueMatch
  <2> DEFINE more == IF MustEnd THEN <<Ex("MatchEnd")>> ELSE <<Ex("RecreateDuel")>>
  <2>1. more \in Seq(Requests) /\ DOMAIN more = {1} /\ Chain(more)
        /\ more[1].type = IF MustEnd THEN "MatchEnd" ELSE "RecreateDuel"
    <3>1. more \in Seq(Requests) /\ DOMAIN more = {1}
      BY RequestsTyped, Queues DEF ExTypes
    <3> QED
      BY <1>2, <3>1 DEF OnJudgeContinueMatch, Ex
  <2> HIDE DEF more
  <2>2. Done(more) /\ core' = core /\ duel_winner' = duel_winner
    BY <2>1 DEF Chain, duel
  <2>3. MatchOver' = MatchOver /\ (~MustEnd => ~MatchOver)
    BY <2>2, DecidedIsOver DEF MatchOver, Wins, MustEnd
  <2>4. \A j \in DOMAIN queue : j > 1 => queue[j].type # "DuelEnd" /\ NextOK(queue[j].type)
    BY <1>2, <1>h, <2>2, SaidBefore DEF OnJudgeContinueMatch, Receive, PairOK
  <2> QED
    BY <1>a, <2>1, <2>2, <2>3, <2>4 DEF PairOK, NextOK
<1>3. CASE OnRecreateDuel
  <2>1. Done(<<>>) /\ <<>> \in Seq(Requests) /\ DOMAIN <<>> = {} /\ duel_winner' = duel_winner
    BY <1>3 DEF OnRecreateDuel
  <2>2. MatchOver' = MatchOver
    BY <2>1 DEF MatchOver, Wins
  <2>3. \A j \in DOMAIN queue : j > 1 => queue[j].type # "JudgeContinueMatch" /\ NextOK(queue[j].type)
    BY <1>3, <1>h, <2>2 DEF OnRecreateDuel, Receive, PairOK, Messages, MessageOK, NextOK
  <2> QED
    BY <1>a, <2>1, <2>3
<1> QED
  BY <1>1, <1>2, <1>3

\* Every step keeps the order and what the requests say, as long as nothing times out.
LEMMA OrderKept ==
  ASSUME ~Timed, TypeOK, InOrder, Messages, [Next]_vars
  PROVE  InOrder' /\ Messages'
<1>q. ASSUME NEW more \in Seq(Requests), queue # <<>>, Done(more),
             core'.ended = core.ended, duel_winner' = duel_winner,
             \A k \in DOMAIN more :
               /\ more[k].type \notin {"Timeout", "JudgeContinueMatch", "RecreateDuel"}
               /\ more[k].type = "DuelEnd" => ~core.ended
      PROVE  InOrder' /\ Messages'
  BY <1>q, QueuedInOrder
<1>e. <<>> \in Seq(Requests) /\ DOMAIN <<>> = {}
  OBVIOUS
<1>n. ASSUME queue # <<>>, Done(<<>>), core'.ended = core.ended, duel_winner' = duel_winner
      PROVE  InOrder' /\ Messages'
  BY <1>e, <1>n, <1>q
<1>i. queue # <<>> /\ Ignored => InOrder' /\ Messages'
  BY <1>n DEF Ignored, Chain, duel
<1>x. ASSUME NEW type \in ExTypes \ {"JudgeContinueMatch", "RecreateDuel"},
             queue # <<>>, Done(<<Ex(type)>>), core'.ended = core.ended, duel_winner' = duel_winner
      PROVE  InOrder' /\ Messages'
  <2>1. <<Ex(type)>> \in Seq(Requests) /\ DOMAIN <<Ex(type)>> = {1} /\ <<Ex(type)>>[1].type = type
    BY RequestsTyped, Queues DEF Ex
  <2>2. type \notin {"Timeout", "JudgeContinueMatch", "RecreateDuel", "DuelEnd"}
    BY DEF ExTypes
  <2> QED
    BY <1>q, <1>x, <2>1, <2>2
<1>d. ASSUME NEW winner \in Somebody, queue # <<>>, Done(<<DuelEnd(winner)>>), ~core.ended,
             core'.ended = core.ended, duel_winner' = duel_winner
      PROVE  InOrder' /\ Messages'
  <2>1. /\ <<DuelEnd(winner)>> \in Seq(Requests) /\ DOMAIN <<DuelEnd(winner)>> = {1}
        /\ <<DuelEnd(winner)>>[1].type = "DuelEnd"
    BY RequestsTyped, Queues DEF DuelEnd, Somebody
  <2> QED
    BY <1>d, <1>q, <2>1
<1>c. core \in CoreRecords
  BY TypeFolded DEF Typed
<1>r. queue # <<>> => Request \in Requests
  BY RequestTyped
<1>1. CASE OnDuelEnd \/ OnJudgeContinueMatch \/ OnRecreateDuel
  BY <1>1, JudgedInOrder
<1>2. CASE OnHandResult \/ OnTimeConfirm \/ OnUpdateDeck \/ OnJoinGame
  BY <1>2, <1>i, <1>n DEF OnHandResult, OnTimeConfirm, OnUpdateDeck, OnJoinGame, ReceiveFrom, Receive
<1>3. CASE OnTpResult
  <2> DEFINE more == <<Ex("FirstShuffle"), Ex("DuelInit")>>
  <2>1. more \in Seq(Requests) /\ DOMAIN more = {1, 2}
        /\ more[1].type = "FirstShuffle" /\ more[2].type = "DuelInit"
    BY RequestsTyped, Queues DEF ExTypes, Ex
  <2>2. Done(more) /\ queue # <<>> /\ core' = core /\ duel_winner' = duel_winner
    BY <1>3 DEF OnTpResult, ReceiveFrom, Receive
  <2> HIDE DEF more
  <2> QED
    BY <1>q, <2>1, <2>2
<1>4. CASE OnDuelInit
  <2>1. queue # <<>> /\ Done(<<Ex("DuelStart")>>) /\ duel_winner' = duel_winner
    BY <1>4 DEF OnDuelInit, Receive
  <2>2. core'.ended = core.ended
    BY <1>4, <1>c DEF OnDuelInit, CoreRecords
  <2> QED
    BY <1>x, <2>1, <2>2 DEF ExTypes
<1>5. CASE OnDuelStart
  <2>1. queue # <<>> /\ Done(<<Ex("Evolve")>>) /\ duel_winner' = duel_winner
    BY <1>5 DEF OnDuelStart, Receive
  <2>2. core'.ended = core.ended
    BY <1>5, <1>c DEF OnDuelStart, CoreRecords
  <2> QED
    BY <1>x, <2>1, <2>2 DEF ExTypes
<1>6. CASE OnEvolveSelect \/ OnEvolveRetry
  <2>1. queue # <<>> /\ Done(<<>>) /\ duel_winner' = duel_winner
    BY <1>6 DEF OnEvolveSelect, OnEvolveRetry, Evolving, Receive
  <2>2. core'.ended = core.ended
    <3>1. \/ core' = [core EXCEPT !.asks = core.asks + 1, !.input = FALSE, !.accepted = Accepted]
          \/ core' = [core EXCEPT !.asks = core.asks + 1, !.input = FALSE]
      BY <1>6 DEF OnEvolveSelect, OnEvolveRetry
    <3> QED
      BY <1>c, <3>1 DEF CoreRecords
  <2> QED
    BY <1>n, <2>1, <2>2
<1>7. CASE OnEvolveWin
  <2>1. queue # <<>> /\ duel_winner' = duel_winner /\ ~core.ended
    BY <1>7 DEF OnEvolveWin, Evolving, Receive
  <2>2. core'.ended = core.ended
    BY <1>7, <1>c DEF OnEvolveWin, CoreRecords
  <2>3. PICK winner \in Somebody : Done(<<DuelEnd(winner)>>)
    BY <1>7 DEF OnEvolveWin, Somebody
  <2> QED
    BY <1>d, <2>1, <2>2, <2>3
<1>8. CASE OnResponse /\ ~Ignored
  <2>1. queue # <<>> /\ Done(<<Ex("Evolve")>>) /\ duel_winner' = duel_winner
    BY <1>8 DEF OnResponse, ReceiveFrom, Receive
  <2>2. core'.ended = core.ended
    <3>1. core' = [core EXCEPT !.input = TRUE]
      BY <1>8 DEF OnResponse
    <3> QED
      BY <1>c, <3>1 DEF CoreRecords
  <2> QED
    BY <1>x, <2>1, <2>2 DEF ExTypes
<1>9. CASE OnSurrender /\ ~Ignored
  <2>1. /\ queue # <<>> /\ ~core.ended /\ UNCHANGED <<core, duel_winner>>
        /\ Done(<<DuelEnd(ToCore(Other(Request.from)))>>)
    BY <1>9 DEF OnSurrender, ReceiveFrom, Receive
  <2>2. Request.from \in Seats
    BY <1>9, <1>r, <2>1, RequestFields DEF OnSurrender, ReceiveFrom, Receive, CtosTypes
  <2>3. ToCore(Other(Request.from)) \in Somebody
    BY <2>2, SeatsTyped DEF Somebody
  <2> QED
    BY <1>d, <2>1, <2>3
<1>10. CASE OnLeaveGame /\ ~Break
  <2>1. queue # <<>> /\ UNCHANGED <<core, duel_winner>>
    BY <1>10 DEF OnLeaveGame, ReceiveFrom, Receive
  <2>2. Request.from \in Seats
    BY <1>10, <1>r, <2>1, RequestFields DEF OnLeaveGame, ReceiveFrom, Receive, CtosTypes
  <2>3. ToCore(Other(Request.from)) \in Somebody
    BY <2>2, SeatsTyped DEF Somebody
  <2>4. \/ Done(<<>>)
        \/ ~core.ended /\ Done(<<DuelEnd(ToCore(Other(Request.from)))>>)
    BY <1>10 DEF OnLeaveGame
  <2> QED
    BY <1>d, <1>n, <2>1, <2>3, <2>4
<1>11. CASE (OnLeaveGame /\ Break) \/ OnTerminate \/ OnDuelStartPanics
  <2>1. queue' = <<>>
    BY <1>11 DEF Break, OnTerminate, OnDuelStartPanics
  <2> QED
    BY <2>1, EmptySays
<1>12. CASE OnMatchEnd
  <2>1. queue # <<>> /\ UNCHANGED <<core, duel_winner>> /\ (Done(<<Ex("terminate")>>) \/ Done(<<>>))
    BY <1>12 DEF OnMatchEnd, Receive, Chain, duel
  <2> QED
    BY <1>n, <1>x, <2>1 DEF ExTypes
<1>13. CASE Refused \/ OnFirstShuffle \/ OnEvolveEnded \/ OnGenerateReplay \/ OnTimerTick
  <2>1. queue # <<>> /\ UNCHANGED <<core, duel_winner>> /\ Done(<<>>)
    BY <1>13 DEF Refused, OnFirstShuffle, OnEvolveEnded, OnGenerateReplay, OnTimerTick, Receive,
         Ignored, Chain, duel
  <2> QED
    BY <1>n, <2>1
<1>14. CASE OnTimeout
  <2>1. queue # <<>> /\ Request.type = "Timeout"
    BY <1>14 DEF OnTimeout, Receive
  <2> QED
    BY <2>1, RequestTyped DEF Messages, MessageOK
<1>15. CASE TimerTicks \/ StrangerJoins \/ \E s \in Seats : Client(s)
  <2>1. UNCHANGED <<core, duel_winner>>
    BY <1>15 DEF TimerTicks, StrangerJoins, Client, ClientReads, ClientAnswers, ClientSurrenders,
         ClientLeaves, duel
  <2>2. \/ UNCHANGED queue
        \/ Post(Ex("timer_tick")) \/ Post(Ex("JoinGame"))
        \/ \E s \in Seats : Post(Ctos("TimeConfirm", s)) \/ Post(Ctos("Surrender", s)) \/ Post(Ctos("LeaveGame", s))
        \/ \E s \in Seats : Post(Ctos(clients[s].owes, s)) /\ clients[s].owes # "None"
    BY <1>15 DEF TimerTicks, StrangerJoins, Client, ClientReads, ClientAnswers, ClientSurrenders, ClientLeaves
  <2>3. \A s \in Seats : clients[s].owes # "None" => clients[s].owes \in CtosTypes
    BY DEF TypeOK, CtosTypes
  <2>4. CASE UNCHANGED queue
    BY <2>1, <2>4 DEF InOrder, Messages, MessageOK, MatchOver, Wins
  <2>5. ASSUME NEW type \in {"timer_tick", "JoinGame"}, Post(Ex(type)) PROVE InOrder' /\ Messages'
    <3>1. Ex(type) \in Requests /\ Ex(type).type \notin {"Timeout", "JudgeContinueMatch", "RecreateDuel", "DuelEnd"}
      BY RequestsTyped DEF Ex, ExTypes
    <3> QED
      BY <2>1, <2>5, <3>1, PostedInOrder
  <2>6. ASSUME NEW type \in CtosTypes, NEW s \in Seats, Post(Ctos(type, s)) PROVE InOrder' /\ Messages'
    <3>1. Ctos(type, s) \in Requests
          /\ Ctos(type, s).type \notin {"Timeout", "JudgeContinueMatch", "RecreateDuel", "DuelEnd"}
      BY RequestsTyped DEF Ctos, CtosTypes
    <3> QED
      BY <2>1, <2>6, <3>1, PostedInOrder
  <2> QED
    BY <2>2, <2>3, <2>4, <2>5, <2>6 DEF CtosTypes
<1>16. CASE UNCHANGED vars
  BY <1>16 DEF vars, duel, InOrder, Messages, MessageOK, MatchOver, Wins
<1>17. CASE (OnResponse \/ OnSurrender) /\ Ignored
  BY <1>17, <1>i DEF OnResponse, OnSurrender, ReceiveFrom, Receive
<1> QED
  BY <1>1, <1>2, <1>3, <1>4, <1>5, <1>6, <1>7, <1>8, <1>9, <1>10, <1>11, <1>12, <1>13, <1>14, <1>15,
     <1>16, <1>17 DEF Next, Actor

\* Without a time limit a match that is over is not continued: a next duel is made
\* only when the score that was judged is still the score, and does not decide the
\* match.  With one, the end a Timeout brings about may be counted in between.
THEOREM UntimedMatchNotContinued == ~Timed => (Spec => NotContinuedWhenOver)
<1> SUFFICES ASSUME ~Timed PROVE Spec => NotContinuedWhenOver
  OBVIOUS
<1>1. Init => InOrder /\ Messages
  BY DEF Init, InOrder, Messages
<1>2. TypeOK /\ InOrder /\ Messages /\ [Next]_vars => InOrder' /\ Messages'
  BY OrderKept
<1>3. TypeOK /\ Messages /\ [Next]_vars
        => [running /\ queue # <<>> /\ Request.type = "RecreateDuel" => ~MatchOver]_vars
  BY RequestTyped DEF Messages, MessageOK
<1> QED
  BY <1>1, <1>2, <1>3, TypeInit, TypeKept, PTL DEF Spec, NotContinuedWhenOver

-----------------------------------------------------------------------------
(* What the room and the players say to one another.  A prompt is sent,    *)
(* read, answered and handled, each some time after the other, and whatever *)
(* else was said meanwhile is in front of it or behind it; the invariant of *)
(* this part is about what is under way.                                    *)

-----------------------------------------------------------------------------
(* Counting in sequences, and what is ahead of what.                        *)

\* The places that hold something of S, and their number.
Places(seq, S) == {i \in DOMAIN seq : seq[i] \in S}
Count(seq, S) == Cardinality(Places(seq, S))

\* Something of A is ahead of something of B.
Ahead(seq, A, B) == \E i, j \in DOMAIN seq : i < j /\ seq[i] \in A /\ seq[j] \in B

\* There is something of A with nothing of B behind it.
Lasts(seq, A, B) ==
  \E i \in DOMAIN seq : seq[i] \in A /\ \A j \in DOMAIN seq : i < j => seq[j] \notin B

\* Places are finitely many.
LEMMA CountTyped ==
  ASSUME NEW T, NEW seq \in Seq(T), NEW S
  PROVE  /\ IsFiniteSet(Places(seq, S)) /\ Count(seq, S) \in Nat
         /\ Count(seq, S) > 0 <=> \E i \in DOMAIN seq : seq[i] \in S
<1>1. IsFiniteSet(1..Len(seq)) /\ DOMAIN seq = 1..Len(seq) /\ Len(seq) \in Nat
  BY FS_Interval
<1>2. IsFiniteSet(Places(seq, S))
  BY <1>1, FS_Subset DEF Places
<1>3. Count(seq, S) \in Nat /\ (Count(seq, S) = 0 <=> Places(seq, S) = {})
  BY <1>2, FS_CardinalityType, FS_EmptySet DEF Count
<1> QED
  BY <1>2, <1>3 DEF Places

\* The places of a sequence behind another are shifted.
LEMMA CountConcat ==
  ASSUME NEW T, NEW a \in Seq(T), NEW b \in Seq(T), NEW S
  PROVE  Count(a \o b, S) = Count(a, S) + Count(b, S)
<1> DEFINE A == Places(a, S)
           B == Places(b, S)
           shift == [i \in B |-> i + Len(a)]
           C == {i + Len(a) : i \in B}
<1>1. /\ Len(a) \in Nat /\ Len(b) \in Nat /\ DOMAIN a = 1..Len(a) /\ DOMAIN b = 1..Len(b)
      /\ DOMAIN (a \o b) = 1..(Len(a) + Len(b))
      /\ \A i \in 1..(Len(a) + Len(b)) : (a \o b)[i] = IF i <= Len(a) THEN a[i] ELSE b[i - Len(a)]
  <2>1. a \o b \in Seq(T) /\ Len(a \o b) = Len(a) + Len(b)
    BY ConcatProperties
  <2> QED
    BY <2>1, ConcatProperties
<1>2. IsFiniteSet(A) /\ IsFiniteSet(B)
  BY CountTyped
<1>3. shift \in Bijection(B, C)
  <2>1. B \subseteq Nat
    BY <1>1 DEF Places
  <2>2. shift \in [B -> C]
    OBVIOUS
  <2>3. \A i, j \in B : shift[i] = shift[j] => i = j
    BY <1>1, <2>1
  <2>4. \A c \in C : \E i \in B : shift[i] = c
    OBVIOUS
  <2> HIDE DEF shift, B, C
  <2> QED
    BY <2>2, <2>3, <2>4 DEF Bijection, Injection, Surjection, IsInjective
<1>4. IsFiniteSet(C) /\ Cardinality(C) = Cardinality(B)
  BY <1>2, <1>3, FS_Bijection DEF ExistsBijection
<1>5. Places(a \o b, S) = A \cup C
  <2>1. ASSUME NEW i \in Places(a \o b, S) PROVE i \in A \cup C
    <3>1. i \in 1..(Len(a) + Len(b)) /\ (a \o b)[i] \in S
      BY <1>1, <2>1 DEF Places
    <3>2. CASE i <= Len(a)
      BY <1>1, <3>1, <3>2 DEF Places
    <3>3. CASE ~(i <= Len(a))
      <4>1. i - Len(a) \in DOMAIN b /\ b[i - Len(a)] \in S /\ (i - Len(a)) + Len(a) = i
        BY <1>1, <3>1, <3>3
      <4>2. i - Len(a) \in B
        BY <4>1 DEF Places
      <4> QED
        BY <4>1, <4>2
    <3> QED
      BY <3>2, <3>3
  <2>2. ASSUME NEW i \in A PROVE i \in Places(a \o b, S)
    BY <1>1, <2>2 DEF Places
  <2>3. ASSUME NEW j \in B PROVE j + Len(a) \in Places(a \o b, S)
    <3>1. j \in 1..Len(b) /\ b[j] \in S
      BY <1>1, <2>3 DEF Places
    <3>2. j + Len(a) \in 1..(Len(a) + Len(b)) /\ ~(j + Len(a) <= Len(a)) /\ (j + Len(a)) - Len(a) = j
      BY <1>1, <3>1
    <3> QED
      BY <1>1, <3>1, <3>2 DEF Places
  <2> QED
    BY <2>1, <2>2, <2>3
<1>6. A \cap C = {}
  BY <1>1 DEF Places
<1>7. Cardinality(A \cup C) = Cardinality(A) + Cardinality(C) - Cardinality(A \cap C)
  BY <1>2, <1>4, FS_Union
<1>8. Cardinality(A \cap C) = 0 /\ Cardinality(A) \in Nat /\ Cardinality(C) \in Nat
  BY <1>2, <1>4, <1>6, FS_EmptySet, FS_CardinalityType
<1> HIDE DEF A, B, C, shift
<1>9. Cardinality(A \cup C) = Cardinality(A) + Cardinality(B)
  BY <1>4, <1>7, <1>8
<1> QED
  BY <1>5, <1>9 DEF Count, A, B

\* Sequences that are short.
LEMMA CountShort ==
  ASSUME NEW S
  PROVE  /\ Count(<<>>, S) = 0
         /\ \A x : Count(<<x>>, S) = IF x \in S THEN 1 ELSE 0
<1>1. Places(<<>>, S) = {}
  BY DEF Places
<1>2. ASSUME NEW x PROVE Count(<<x>>, S) = IF x \in S THEN 1 ELSE 0
  <2>1. Places(<<x>>, S) = IF x \in S THEN {1} ELSE {}
    BY DEF Places
  <2> QED
    BY <2>1, FS_Singleton, FS_EmptySet DEF Count
<1> QED
  BY <1>1, <1>2, FS_EmptySet DEF Count

\* Two in a row.
LEMMA CountPair ==
  ASSUME NEW T, NEW x \in T, NEW y \in T, NEW S
  PROVE  Count(<<x, y>>, S) = (IF x \in S THEN 1 ELSE 0) + (IF y \in S THEN 1 ELSE 0)
<1> DEFINE a == <<x>>
           b == <<y>>
<1>0. a \in Seq(T) /\ b \in Seq(T)
  OBVIOUS
<1>1. a \in Seq(T) /\ b \in Seq(T) /\ <<x, y>> = a \o b
  <2> DEFINE c == a \o b
  <2>1. c \in Seq(T) /\ Len(c) = 2 /\ c[1] = x /\ c[2] = y
    <3>1. Len(a) = 1 /\ Len(b) = 1 /\ a[1] = x /\ b[1] = y
      OBVIOUS
    <3> HIDE DEF a, b
    <3>2. /\ a \o b \in Seq(T) /\ Len(a \o b) = Len(a) + Len(b)
          /\ \A i \in 1..(Len(a) + Len(b)) : (a \o b)[i] = IF i <= Len(a) THEN a[i] ELSE b[i - Len(a)]
      BY <1>0, ConcatProperties
    <3> QED
      BY <3>1, <3>2
  <2> HIDE DEF c
  <2>2. <<x, y>> = c
    BY <2>1
  <2> QED
    BY <1>0, <2>2 DEF c
<1>2. Count(a, S) = IF x \in S THEN 1 ELSE 0
  BY CountShort
<1>3. Count(b, S) = IF y \in S THEN 1 ELSE 0
  BY CountShort
<1> HIDE DEF a, b
<1>4. Count(a \o b, S) = Count(a, S) + Count(b, S)
  BY <1>1, CountConcat
<1> QED
  BY <1>1, <1>2, <1>3, <1>4

\* A larger set is not counted less often.
LEMMA CountWithin ==
  ASSUME NEW T, NEW seq \in Seq(T), NEW R, NEW S, R \subseteq S
  PROVE  Count(seq, R) <= Count(seq, S)
<1>1. Places(seq, R) \in SUBSET Places(seq, S)
  BY DEF Places
<1> QED
  BY <1>1, CountTyped, FS_Subset DEF Count

\* What is ahead of what in a sequence behind another.
LEMMA AheadConcat ==
  ASSUME NEW T, NEW a \in Seq(T), NEW b \in Seq(T), NEW A, NEW B
  PROVE  Ahead(a \o b, A, B) <=>
             (Ahead(a, A, B) \/ Ahead(b, A, B) \/ (Count(a, A) > 0 /\ Count(b, B) > 0))
<1>1. /\ Len(a) \in Nat /\ Len(b) \in Nat /\ DOMAIN a = 1..Len(a) /\ DOMAIN b = 1..Len(b)
      /\ DOMAIN (a \o b) = 1..(Len(a) + Len(b))
      /\ \A i \in 1..(Len(a) + Len(b)) : (a \o b)[i] = IF i <= Len(a) THEN a[i] ELSE b[i - Len(a)]
  <2>1. a \o b \in Seq(T) /\ Len(a \o b) = Len(a) + Len(b)
    BY ConcatProperties
  <2> QED
    BY <2>1, ConcatProperties
<1>a. \A i \in DOMAIN a : i \in DOMAIN (a \o b) /\ i <= Len(a) /\ (a \o b)[i] = a[i]
  BY <1>1
<1>b. \A i \in DOMAIN b : /\ i + Len(a) \in DOMAIN (a \o b) /\ i + Len(a) > Len(a)
                          /\ (a \o b)[i + Len(a)] = b[i]
  <2> SUFFICES ASSUME NEW i \in DOMAIN b
               PROVE  /\ i + Len(a) \in DOMAIN (a \o b) /\ i + Len(a) > Len(a)
                      /\ (a \o b)[i + Len(a)] = b[i]
    OBVIOUS
  <2>1. i \in 1..Len(b) /\ i + Len(a) \in 1..(Len(a) + Len(b)) /\ ~(i + Len(a) <= Len(a))
        /\ (i + Len(a)) - Len(a) = i
    BY <1>1
  <2> QED
    BY <1>1, <2>1
<1>c. \A i \in DOMAIN (a \o b) :
        \/ i \in DOMAIN a /\ i <= Len(a) /\ (a \o b)[i] = a[i]
        \/ i > Len(a) /\ i - Len(a) \in DOMAIN b /\ (a \o b)[i] = b[i - Len(a)]
  BY <1>1
<1>2. ASSUME Ahead(a \o b, A, B)
      PROVE  Ahead(a, A, B) \/ Ahead(b, A, B) \/ (Count(a, A) > 0 /\ Count(b, B) > 0)
  <2>1. PICK i \in DOMAIN (a \o b), j \in DOMAIN (a \o b) :
          i < j /\ (a \o b)[i] \in A /\ (a \o b)[j] \in B
    BY <1>2 DEF Ahead
  <2>2. i \in Nat /\ j \in Nat
    BY <1>1
  <2>3. CASE j <= Len(a)
    <3>1. i \in DOMAIN a /\ j \in DOMAIN a /\ a[i] \in A /\ a[j] \in B
      BY <1>1, <1>c, <2>1, <2>2, <2>3
    <3> QED
      BY <2>1, <3>1 DEF Ahead
  <2>4. CASE i <= Len(a) /\ ~(j <= Len(a))
    <3>1. i \in DOMAIN a /\ a[i] \in A /\ j - Len(a) \in DOMAIN b /\ b[j - Len(a)] \in B
      BY <1>1, <1>c, <2>1, <2>2, <2>4
    <3> QED
      BY <3>1, CountTyped
  <2>5. CASE ~(i <= Len(a))
    <3>1. i - Len(a) \in DOMAIN b /\ j - Len(a) \in DOMAIN b /\ i - Len(a) < j - Len(a)
          /\ b[i - Len(a)] \in A /\ b[j - Len(a)] \in B
      BY <1>1, <1>c, <2>1, <2>2, <2>5
    <3> QED
      BY <3>1 DEF Ahead
  <2> QED
    BY <1>1, <2>1, <2>2, <2>3, <2>4, <2>5
<1>3. Ahead(a, A, B) => Ahead(a \o b, A, B)
  BY <1>a DEF Ahead
<1>4. ASSUME Ahead(b, A, B) PROVE Ahead(a \o b, A, B)
  <2>1. PICK i \in DOMAIN b, j \in DOMAIN b : i < j /\ b[i] \in A /\ b[j] \in B
    BY <1>4 DEF Ahead
  <2>2. i + Len(a) < j + Len(a)
    BY <1>1, <2>1
  <2> QED
    BY <1>b, <2>1, <2>2 DEF Ahead
<1>5. ASSUME Count(a, A) > 0, Count(b, B) > 0 PROVE Ahead(a \o b, A, B)
  <2>1. PICK i \in DOMAIN a : a[i] \in A
    BY <1>5, CountTyped
  <2>2. PICK j \in DOMAIN b : b[j] \in B
    BY <1>5, CountTyped
  <2>3. i < j + Len(a)
    BY <1>1, <1>a, <1>b, <2>1, <2>2
  <2> QED
    BY <1>a, <1>b, <2>1, <2>2, <2>3 DEF Ahead
<1> QED
  BY <1>2, <1>3, <1>4, <1>5

\* What lasts in a sequence behind another.
LEMMA LastsConcat ==
  ASSUME NEW T, NEW a \in Seq(T), NEW b \in Seq(T), NEW A, NEW B
  PROVE  Lasts(a \o b, A, B) <=> Lasts(b, A, B) \/ (Lasts(a, A, B) /\ Count(b, B) = 0)
<1>1. /\ Len(a) \in Nat /\ Len(b) \in Nat /\ DOMAIN a = 1..Len(a) /\ DOMAIN b = 1..Len(b)
      /\ DOMAIN (a \o b) = 1..(Len(a) + Len(b))
      /\ \A i \in 1..(Len(a) + Len(b)) : (a \o b)[i] = IF i <= Len(a) THEN a[i] ELSE b[i - Len(a)]
  <2>1. a \o b \in Seq(T) /\ Len(a \o b) = Len(a) + Len(b)
    BY ConcatProperties
  <2> QED
    BY <2>1, ConcatProperties
<1>a. \A i \in DOMAIN a : i \in DOMAIN (a \o b) /\ i <= Len(a) /\ (a \o b)[i] = a[i]
  BY <1>1
<1>b. \A i \in DOMAIN b : /\ i + Len(a) \in DOMAIN (a \o b) /\ i + Len(a) > Len(a)
                          /\ (a \o b)[i + Len(a)] = b[i]
  <2> SUFFICES ASSUME NEW i \in DOMAIN b
               PROVE  /\ i + Len(a) \in DOMAIN (a \o b) /\ i + Len(a) > Len(a)
                      /\ (a \o b)[i + Len(a)] = b[i]
    OBVIOUS
  <2>1. i \in 1..Len(b) /\ i + Len(a) \in 1..(Len(a) + Len(b)) /\ ~(i + Len(a) <= Len(a))
        /\ (i + Len(a)) - Len(a) = i
    BY <1>1
  <2> QED
    BY <1>1, <2>1
<1>c. \A i \in DOMAIN (a \o b) :
        \/ i \in DOMAIN a /\ i <= Len(a) /\ (a \o b)[i] = a[i]
        \/ i > Len(a) /\ i - Len(a) \in DOMAIN b /\ (a \o b)[i] = b[i - Len(a)]
  BY <1>1
<1>d. Count(b, B) \in Nat /\ (Count(b, B) > 0 <=> \E i \in DOMAIN b : b[i] \in B)
  BY CountTyped
<1>2. ASSUME Lasts(a \o b, A, B)
      PROVE  Lasts(b, A, B) \/ (Lasts(a, A, B) /\ Count(b, B) = 0)
  <2>1. PICK i \in DOMAIN (a \o b) :
          (a \o b)[i] \in A /\ \A j \in DOMAIN (a \o b) : i < j => (a \o b)[j] \notin B
    BY <1>2 DEF Lasts
  <2>2. CASE i \in DOMAIN a /\ i <= Len(a) /\ (a \o b)[i] = a[i]
    <3>1. \A j \in DOMAIN a : i < j => a[j] \notin B
      BY <1>a, <2>1
    <3>2. \A j \in DOMAIN b : i < j + Len(a)
      BY <1>1, <2>2
    <3>3. \A j \in DOMAIN b : b[j] \notin B
      BY <1>b, <2>1, <3>2
    <3> QED
      BY <1>d, <2>1, <2>2, <3>1, <3>3 DEF Lasts
  <2>3. CASE i > Len(a) /\ i - Len(a) \in DOMAIN b /\ (a \o b)[i] = b[i - Len(a)]
    <3>1. \A j \in DOMAIN b : i - Len(a) < j => i < j + Len(a)
      BY <1>1, <2>3
    <3>2. \A j \in DOMAIN b : i - Len(a) < j => b[j] \notin B
      BY <1>b, <2>1, <3>1
    <3> QED
      BY <2>1, <2>3, <3>2 DEF Lasts
  <2> QED
    BY <1>c, <2>2, <2>3
<1>3. ASSUME Lasts(b, A, B) PROVE Lasts(a \o b, A, B)
  <2>1. PICK i \in DOMAIN b : b[i] \in A /\ \A j \in DOMAIN b : i < j => b[j] \notin B
    BY <1>3 DEF Lasts
  <2>2. ASSUME NEW j \in DOMAIN (a \o b), i + Len(a) < j PROVE (a \o b)[j] \notin B
    <3>1. j - Len(a) \in DOMAIN b /\ (a \o b)[j] = b[j - Len(a)] /\ i < j - Len(a)
      BY <1>1, <1>c, <2>2
    <3> QED
      BY <2>1, <3>1
  <2> QED
    BY <1>b, <2>1, <2>2 DEF Lasts
<1>4. ASSUME Lasts(a, A, B), Count(b, B) = 0 PROVE Lasts(a \o b, A, B)
  <2>1. PICK i \in DOMAIN a : a[i] \in A /\ \A j \in DOMAIN a : i < j => a[j] \notin B
    BY <1>4 DEF Lasts
  <2>2. \A j \in DOMAIN b : b[j] \notin B
    BY <1>4, <1>d
  <2>3. ASSUME NEW j \in DOMAIN (a \o b), i < j PROVE (a \o b)[j] \notin B
    BY <1>c, <2>1, <2>2, <2>3
  <2> QED
    BY <1>a, <2>1, <2>3 DEF Lasts
<1> QED
  BY <1>2, <1>3, <1>4

\* Nothing is ahead of anything, and nothing lasts, where there is nothing.
LEMMA ShortSequences ==
  ASSUME NEW A, NEW B
  PROVE  /\ ~Ahead(<<>>, A, B) /\ ~Lasts(<<>>, A, B)
         /\ \A x : ~Ahead(<<x>>, A, B) /\ (Lasts(<<x>>, A, B) <=> x \in A)
<1>1. ~Ahead(<<>>, A, B) /\ ~Lasts(<<>>, A, B)
  BY DEF Ahead, Lasts
<1>2. ASSUME NEW x PROVE ~Ahead(<<x>>, A, B) /\ (Lasts(<<x>>, A, B) <=> x \in A)
  <2>1. DOMAIN <<x>> = {1} /\ <<x>>[1] = x
    OBVIOUS
  <2> QED
    BY <2>1 DEF Ahead, Lasts
<1> QED
  BY <1>1, <1>2

\* A sequence is its head and what is behind it.
LEMMA HeadAndTail ==
  ASSUME NEW T, NEW seq \in Seq(T), seq # <<>>
  PROVE  /\ Head(seq) \in T /\ Tail(seq) \in Seq(T) /\ <<Head(seq)>> \in Seq(T)
         /\ seq = <<Head(seq)>> \o Tail(seq)
<1>1. /\ Head(seq) \in T /\ Tail(seq) \in Seq(T) /\ Len(Tail(seq)) = Len(seq) - 1
      /\ \A i \in 1..Len(Tail(seq)) : Tail(seq)[i] = seq[i + 1]
  BY HeadTailProperties
<1>2. Head(seq) = seq[1] /\ Len(seq) \in Nat /\ Len(seq) > 0
  OBVIOUS
<1> DEFINE front == <<Head(seq)>>
           whole == front \o Tail(seq)
<1>3. front \in Seq(T) /\ Len(front) = 1 /\ front[1] = seq[1]
  BY <1>1, <1>2
<1> HIDE DEF front
<1>4. /\ whole \in Seq(T) /\ Len(whole) = Len(seq)
      /\ \A i \in 1..(1 + Len(Tail(seq))) : whole[i] = IF i <= 1 THEN front[i] ELSE Tail(seq)[i - 1]
  <2>1. /\ front \o Tail(seq) \in Seq(T) /\ Len(front \o Tail(seq)) = Len(front) + Len(Tail(seq))
        /\ \A i \in 1..(Len(front) + Len(Tail(seq))) :
             (front \o Tail(seq))[i] = IF i <= Len(front) THEN front[i] ELSE Tail(seq)[i - Len(front)]
    BY <1>1, <1>3, ConcatProperties
  <2> QED
    BY <1>1, <1>2, <1>3, <2>1
<1>5. \A i \in 1..Len(seq) : whole[i] = seq[i]
  <2> SUFFICES ASSUME NEW i \in 1..Len(seq) PROVE whole[i] = seq[i]
    OBVIOUS
  <2>1. CASE i = 1
    BY <1>1, <1>2, <1>3, <1>4, <2>1
  <2>2. CASE i # 1
    <3>1. i - 1 \in 1..Len(Tail(seq)) /\ (i - 1) + 1 = i /\ i \in 1..(1 + Len(Tail(seq))) /\ ~(i <= 1)
      BY <1>1, <1>2, <2>2
    <3> QED
      BY <1>1, <1>4, <3>1
  <2> QED
    BY <2>1, <2>2
<1>6. whole = seq
  <2> HIDE DEF whole
  <2> QED
    BY <1>4, <1>5, SeqEqual
<1> QED
  BY <1>1, <1>3, <1>6 DEF front

\* Taking the head off.
LEMMA CountTail ==
  ASSUME NEW T, NEW seq \in Seq(T), seq # <<>>, NEW A, NEW B
  PROVE  /\ Count(seq, A) = (IF Head(seq) \in A THEN 1 ELSE 0) + Count(Tail(seq), A)
         /\ Ahead(seq, A, B) <=> (Ahead(Tail(seq), A, B) \/ (Head(seq) \in A /\ Count(Tail(seq), B) > 0))
         /\ Lasts(seq, A, B) <=> (Lasts(Tail(seq), A, B) \/ (Head(seq) \in A /\ Count(Tail(seq), B) = 0))
<1> DEFINE front == <<Head(seq)>>
           rest == Tail(seq)
<1>1. front \in Seq(T) /\ rest \in Seq(T) /\ seq = front \o rest
  BY HeadAndTail
<1>2. Count(front, A) = (IF Head(seq) \in A THEN 1 ELSE 0)
  BY CountShort
<1>3. ~Ahead(front, A, B) /\ (Lasts(front, A, B) <=> Head(seq) \in A)
  BY ShortSequences
<1> HIDE DEF front, rest
<1>4. Count(front \o rest, A) = Count(front, A) + Count(rest, A)
  BY <1>1, CountConcat
<1>5. Ahead(front \o rest, A, B) <=>
             (Ahead(front, A, B) \/ Ahead(rest, A, B) \/ (Count(front, A) > 0 /\ Count(rest, B) > 0))
  BY <1>1, AheadConcat
<1>6. Lasts(front \o rest, A, B) <=> Lasts(rest, A, B) \/ (Lasts(front, A, B) /\ Count(rest, B) = 0)
  BY <1>1, LastsConcat
<1>7. Count(front, A) > 0 <=> Head(seq) \in A
  BY <1>2
<1>8. /\ Count(seq, A) = (IF Head(seq) \in A THEN 1 ELSE 0) + Count(rest, A)
      /\ Ahead(seq, A, B) <=> Ahead(rest, A, B) \/ (Head(seq) \in A /\ Count(rest, B) > 0)
      /\ Lasts(seq, A, B) <=> Lasts(rest, A, B) \/ (Head(seq) \in A /\ Count(rest, B) = 0)
  BY <1>1, <1>2, <1>3, <1>4, <1>5, <1>6, <1>7
<1> QED
  BY <1>8 DEF rest

\* Putting something at the end.
LEMMA CountAppend ==
  ASSUME NEW T, NEW seq \in Seq(T), NEW x \in T, NEW A, NEW B
  PROVE  /\ Count(Append(seq, x), A) = Count(seq, A) + (IF x \in A THEN 1 ELSE 0)
         /\ Ahead(Append(seq, x), A, B) <=> (Ahead(seq, A, B) \/ (Count(seq, A) > 0 /\ x \in B))
<1> DEFINE back == <<x>>
<1>1. back \in Seq(T)
  OBVIOUS
<1>2. Append(seq, x) = seq \o back
  <2>1. Append(seq, x) = seq \o <<x>>
    OBVIOUS
  <2> QED
    BY <2>1
<1>3. Count(back, A) = (IF x \in A THEN 1 ELSE 0) /\ Count(back, B) = (IF x \in B THEN 1 ELSE 0)
  BY CountShort
<1>4. ~Ahead(back, A, B)
  BY ShortSequences
<1> HIDE DEF back
<1>5. Count(seq \o back, A) = Count(seq, A) + Count(back, A)
  BY <1>1, CountConcat
<1>6. Ahead(seq \o back, A, B) <=>
        (Ahead(seq, A, B) \/ Ahead(back, A, B) \/ (Count(seq, A) > 0 /\ Count(back, B) > 0))
  BY <1>1, AheadConcat
<1>7. Count(back, B) > 0 <=> x \in B
  BY <1>3
<1> QED
  BY <1>2, <1>3, <1>4, <1>5, <1>6, <1>7

\* The same of the counts alone.
LEMMA CountBehind ==
  ASSUME NEW T, NEW seq \in Seq(T), NEW x \in T, NEW A
  PROVE  Count(Append(seq, x), A) = Count(seq, A) + (IF x \in A THEN 1 ELSE 0)
<1>1. /\ Count(Append(seq, x), A) = Count(seq, A) + (IF x \in A THEN 1 ELSE 0)
      /\ Ahead(Append(seq, x), A, A) <=> (Ahead(seq, A, A) \/ (Count(seq, A) > 0 /\ x \in A))
  BY CountAppend
<1> QED
  BY <1>1

-----------------------------------------------------------------------------
(* What is under way.                                                       *)

\* What a client sends on a message, sooner or later.
Asks(m) ==
  IF m = "SelectHand" THEN "HandResult"
  ELSE IF m = "SelectTp" THEN "TpResult"
  ELSE IF m = "Select" THEN "Response"
  ELSE IF m = "TimeLimit" THEN "TimeConfirm"
  ELSE IF m \in {"ChangeSide", "SideError"} THEN "UpdateDeck" ELSE "None"

Duelling == {"HandResult", "TpResult", "Response"}
Owable == Duelling \cup {"UpdateDeck"}
Talks == Owable \cup {"TimeConfirm"}

\* In the mailbox: the requests of a type, what s has sent and what it has sent of a type.
Of(type) == {r \in Requests : r.type = type}
From(s) == {r \in Requests : "from" \in DOMAIN r /\ r.from = s}
Waiting(type) == Count(queue, Of(type))
Mine(s) == Count(queue, From(s))
Sent(s, x) == Count(queue, {Ctos(x, s)})
AheadOf(a, b) == Ahead(queue, Of(a), Of(b))

\* On the screen of the client and on the way to it.
Prompts(x) == {m \in StocMessages : Asks(m) = x}
Spoils(x) == {"Win"} \cup {m \in StocMessages : Asks(m) \in Owable \ {x}}
Owing(s, x) == IF clients[s].owes = x THEN 1 ELSE 0
Coming(s, x) == Count(stoc[s], Prompts(x))

\* How often s has been asked for x and it has not been handled yet.
Num(s, x) == Sent(s, x) + Owing(s, x) + Coming(s, x)

\* On the way to the client and back some x is ahead of some y.
Before(s, x, y) ==
  \/ Ahead(queue, {Ctos(x, s)}, {Ctos(y, s)})
  \/ Sent(s, x) > 0 /\ Owing(s, y) + Coming(s, y) > 0
  \/ Owing(s, x) > 0 /\ Coming(s, y) > 0
  \/ Ahead(stoc[s], Prompts(x), Prompts(y))

\* The client will have x on its screen, with nothing behind it that takes it off.
Lasting(s, x) ==
  \/ clients[s].owes = x /\ Count(stoc[s], Spoils(x)) = 0
  \/ Lasts(stoc[s], Prompts(x), Spoils(x))

\* The numbers are numbers.
LEMMA NumTyped ==
  ASSUME TypeOK, NEW s \in Seats, NEW x
  PROVE  /\ Waiting(x) \in Nat /\ Mine(s) \in Nat /\ Sent(s, x) \in Nat
         /\ Owing(s, x) \in 0..1 /\ Coming(s, x) \in Nat /\ Num(s, x) \in Nat
<1>1. queue \in Seq(Requests) /\ stoc[s] \in Seq(StocMessages)
  BY DEF TypeOK
<1>2. Waiting(x) \in Nat /\ Mine(s) \in Nat /\ Sent(s, x) \in Nat
  BY <1>1, CountTyped DEF Waiting, Mine, Sent
<1>3. Coming(s, x) \in Nat
  BY <1>1, CountTyped DEF Coming
<1>4. Owing(s, x) \in 0..1
  BY DEF Owing
<1> QED
  BY <1>2, <1>3, <1>4 DEF Num

\* What is in the mailbox is counted.
LEMMA HeadCounted ==
  ASSUME TypeOK, queue # <<>>, NEW S
  PROVE  Count(queue, S) \in Nat /\ (Request \in S => Count(queue, S) > 0)
<1>1. queue \in Seq(Requests) /\ Request = queue[1] /\ 1 \in DOMAIN queue
  BY RequestTyped DEF TypeOK
<1>2. Count(queue, S) \in Nat /\ (Count(queue, S) > 0 <=> \E i \in DOMAIN queue : queue[i] \in S)
  BY <1>1, CountTyped
<1> QED
  BY <1>1, <1>2

\* Taken(S): the request handled is counted no more.
Taken(S) == IF Request \in S THEN 1 ELSE 0

\* What a handler does to the counts and the order of the mailbox.
LEMMA HandledQueue ==
  ASSUME TypeOK, queue # <<>>, NEW more \in Seq(Requests), Done(more), NEW A, NEW B
  PROVE  /\ Count(queue', A) = Count(queue, A) - Taken(A) + Count(more, A)
         /\ Ahead(queue', A, B) => \/ Ahead(queue, A, B)
                                   \/ Ahead(more, A, B)
                                   \/ Count(queue, A) - Taken(A) > 0 /\ Count(more, B) > 0
         /\ Request \in A /\ ~Ahead(queue, A, B) => Count(queue, B) - Taken(B) = 0
         /\ Request \notin A /\ Ahead(queue, A, B) => Ahead(queue', A, B)
         /\ Count(queue, A) - Taken(A) > 0 /\ Count(more, B) > 0 => Ahead(queue', A, B)
<1> DEFINE rest == Tail(queue)
<1>1. queue \in Seq(Requests) /\ Request = Head(queue) /\ queue' = rest \o more /\ rest \in Seq(Requests)
  BY RequestTyped DEF TypeOK, Done, Request
<1>2. /\ Count(queue, A) = (IF Head(queue) \in A THEN 1 ELSE 0) + Count(rest, A)
      /\ Ahead(queue, A, B) <=> (Ahead(rest, A, B) \/ (Head(queue) \in A /\ Count(rest, B) > 0))
  BY <1>1, CountTail
<1>3. Count(queue, B) = (IF Head(queue) \in B THEN 1 ELSE 0) + Count(rest, B)
  BY <1>1, CountTail
<1> HIDE DEF rest
<1>4. Count(rest \o more, A) = Count(rest, A) + Count(more, A)
  BY <1>1, CountConcat
<1>5. Ahead(rest \o more, A, B) <=>
        (Ahead(rest, A, B) \/ Ahead(more, A, B) \/ (Count(rest, A) > 0 /\ Count(more, B) > 0))
  BY <1>1, AheadConcat
<1>6. Count(rest, A) \in Nat /\ Count(rest, B) \in Nat /\ Count(more, A) \in Nat /\ Count(more, B) \in Nat
  BY <1>1, CountTyped
<1>7. Count(queue, A) - Taken(A) = Count(rest, A) /\ Count(queue, B) - Taken(B) = Count(rest, B)
  <2>1. Taken(A) = (IF Head(queue) \in A THEN 1 ELSE 0) /\ Taken(B) = (IF Head(queue) \in B THEN 1 ELSE 0)
    BY <1>1 DEF Taken
  <2>2. Count(queue, A) - Taken(A) = Count(rest, A)
    BY <1>2, <1>6, <2>1
  <2>3. Count(queue, B) - Taken(B) = Count(rest, B)
    BY <1>3, <1>6, <2>1
  <2> QED
    BY <2>2, <2>3
<1>8. Count(queue', A) = Count(queue, A) - Taken(A) + Count(more, A)
  BY <1>1, <1>4, <1>6, <1>7
<1>9. Request \in A /\ ~Ahead(queue, A, B) => Count(queue, B) - Taken(B) = 0
  BY <1>1, <1>2, <1>6, <1>7
<1>10. Request \notin A /\ Ahead(queue, A, B) => Ahead(queue', A, B)
  BY <1>1, <1>2, <1>5
<1>11. Count(queue, A) - Taken(A) > 0 /\ Count(more, B) > 0 => Ahead(queue', A, B)
  BY <1>1, <1>5, <1>7
<1>12. ASSUME Ahead(queue', A, B), ~Ahead(queue, A, B), ~Ahead(more, A, B)
       PROVE  Count(queue, A) - Taken(A) > 0 /\ Count(more, B) > 0
  BY <1>1, <1>2, <1>5, <1>7, <1>12
<1> QED
  BY <1>8, <1>9, <1>10, <1>11, <1>12

-----------------------------------------------------------------------------
(* What a handler does to what is under way.                                *)

\* What reaches s of the news; nobody listens to an empty seat.
Heard(news, s) == IF Present(s) THEN news[s] ELSE <<>>
Nothing == [t \in Seats |-> <<>>]

\* A handler that queues `more`, tells s some of `news`, and leaves s where he is.
SpeaksTo(more, news, s) ==
  /\ queue # <<>>
  /\ Done(more)
  /\ stoc'[s] = IF players'[s].here THEN stoc[s] \o news[s] ELSE <<>>
  /\ clients'[s] = clients[s]
  /\ players'[s].here = players[s].here

\* ... and everybody.
Speaks(more, news) == \A s \in Seats : SpeaksTo(more, news, s)

\* Nobody writes to an empty seat.
NoMail == \A s \in Seats : ~Present(s) => stoc[s] = <<>>

\* What the room queues for itself.
Inner(more) == \A i \in DOMAIN more : more[i].type \notin CtosTypes

\* A handler that tells s nothing, or sends.
LEMMA TellsNothing ==
  ASSUME TypeOK, NoMail, NEW s \in Seats, stoc'[s] = stoc[s], players'[s].here = players[s].here
  PROVE  stoc'[s] = IF players'[s].here THEN stoc[s] \o Nothing[s] ELSE <<>>
<1>1. stoc[s] \in Seq(StocMessages) /\ stoc[s] \o <<>> = stoc[s]
  BY DEF TypeOK
<1> QED
  BY <1>1 DEF Nothing, NoMail, Present

\* What Send does to one seat.
LEMMA TellsAll ==
  ASSUME NEW news, Send(news), NEW s \in Seats
  PROVE  stoc'[s] = IF players'[s].here THEN stoc[s] \o news[s] ELSE <<>>
  BY DEF Send

\* What is sent arrives behind what is on its way.
LEMMA Arrives ==
  ASSUME TypeOK, NoMail, NEW more, NEW news \in Boxes, NEW s \in Seats, SpeaksTo(more, news, s)
  PROVE  stoc'[s] = stoc[s] \o Heard(news, s) /\ Heard(news, s) \in Seq(StocMessages)
<1>1. stoc[s] \in Seq(StocMessages) /\ news[s] \in Seq(StocMessages) /\ <<>> \in Seq(StocMessages)
  BY DEF TypeOK, Boxes
<1>2. stoc'[s] = IF Present(s) THEN stoc[s] \o news[s] ELSE <<>>
  BY DEF SpeaksTo, Present
<1>3. CASE Present(s)
  BY <1>1, <1>2, <1>3 DEF Heard
<1>4. CASE ~Present(s)
  <2>1. stoc[s] = <<>> /\ <<>> \o <<>> = <<>>
    BY <1>4 DEF NoMail
  <2> QED
    BY <1>1, <1>2, <1>4, <2>1 DEF Heard
<1> QED
  BY <1>3, <1>4

\* What the room queues for itself comes from no client.
LEMMA InnerFromNobody ==
  ASSUME NEW more \in Seq(Requests), Inner(more), NEW s \in Seats
  PROVE  /\ Count(more, From(s)) = 0
         /\ \A x \in CtosTypes : Count(more, {Ctos(x, s)}) = 0
<1>1. ASSUME NEW i \in DOMAIN more PROVE more[i] \notin From(s) /\ \A x \in CtosTypes : more[i] # Ctos(x, s)
  <2>1. more[i] \in Requests /\ more[i].type \notin CtosTypes
    BY DEF Inner
  <2>2. "from" \notin DOMAIN more[i]
    BY <2>1, RequestFields
  <2>3. \A x : "from" \in DOMAIN Ctos(x, s)
    BY DEF Ctos
  <2> QED
    BY <2>2, <2>3 DEF From
<1>2. \A S : Count(more, S) \in Nat /\ (Count(more, S) > 0 <=> \E i \in DOMAIN more : more[i] \in S)
  BY CountTyped
<1>3. Count(more, From(s)) = 0
  BY <1>1, <1>2
<1>4. ASSUME NEW x \in CtosTypes PROVE Count(more, {Ctos(x, s)}) = 0
  BY <1>1, <1>2
<1> QED
  BY <1>3, <1>4

\* What a client sends it sends of some type.
LEMMA TalksAreCtos == Talks \subseteq CtosTypes /\ Owable \subseteq Talks /\ Duelling \subseteq Owable
  BY DEF Talks, Owable, Duelling, CtosTypes

\* The counts of what s owes, after a handler.
LEMMA SpeaksNum ==
  ASSUME TypeOK, NoMail, NEW more \in Seq(Requests), Inner(more), NEW news \in Boxes, NEW s \in Seats,
         SpeaksTo(more, news, s), NEW x \in Talks
  PROVE  /\ Sent(s, x)' = Sent(s, x) - Taken({Ctos(x, s)})
         /\ Owing(s, x)' = Owing(s, x)
         /\ Coming(s, x)' = Coming(s, x) + Count(Heard(news, s), Prompts(x))
         /\ Num(s, x)' = Num(s, x) - Taken({Ctos(x, s)}) + Count(Heard(news, s), Prompts(x))
         /\ Count(Heard(news, s), Prompts(x)) \in Nat
         /\ Taken({Ctos(x, s)}) \in 0..1 /\ Taken({Ctos(x, s)}) <= Sent(s, x)
<1>1. queue # <<>> /\ Done(more) /\ clients'[s] = clients[s]
  BY DEF SpeaksTo
<1>2. Count(more, {Ctos(x, s)}) = 0
  BY InnerFromNobody, TalksAreCtos
<1>3. Count(queue', {Ctos(x, s)}) = Count(queue, {Ctos(x, s)}) - Taken({Ctos(x, s)}) + 0
  BY <1>1, <1>2, HandledQueue
<1>4. Sent(s, x) \in Nat /\ Owing(s, x) \in 0..1 /\ Coming(s, x) \in Nat
  BY NumTyped
<1>5. stoc'[s] = stoc[s] \o Heard(news, s) /\ Heard(news, s) \in Seq(StocMessages)
  BY Arrives
<1>6. Count(stoc[s] \o Heard(news, s), Prompts(x)) = Count(stoc[s], Prompts(x)) + Count(Heard(news, s), Prompts(x))
  <2>1. stoc[s] \in Seq(StocMessages)
    BY DEF TypeOK
  <2> QED
    BY <1>5, <2>1, CountConcat
<1>7. Count(Heard(news, s), Prompts(x)) \in Nat
  BY <1>5, CountTyped
<1>8. Request \in {Ctos(x, s)} => Count(queue, {Ctos(x, s)}) > 0
  BY <1>1, HeadCounted
<1>9. Taken({Ctos(x, s)}) \in 0..1 /\ Taken({Ctos(x, s)}) <= Sent(s, x)
  BY <1>4, <1>8 DEF Taken, Sent
<1>10. Sent(s, x)' = Sent(s, x) - Taken({Ctos(x, s)})
  BY <1>3, <1>4, <1>9 DEF Sent
<1>11. Owing(s, x)' = Owing(s, x)
  BY <1>1 DEF Owing
<1>12. Coming(s, x)' = Coming(s, x) + Count(Heard(news, s), Prompts(x))
  BY <1>5, <1>6 DEF Coming
<1>13. Num(s, x)' = Sent(s, x)' + Owing(s, x)' + Coming(s, x)' /\ Num(s, x) = Sent(s, x) + Owing(s, x) + Coming(s, x)
  BY DEF Num
<1> QED
  BY <1>4, <1>7, <1>9, <1>10, <1>11, <1>12, <1>13

\* What is asked of s is behind what it has been asked for.
LEMMA SpeaksBefore ==
  ASSUME TypeOK, NoMail, NEW more \in Seq(Requests), Inner(more), NEW news \in Boxes, NEW s \in Seats,
         SpeaksTo(more, news, s), NEW x \in Talks, NEW y \in Talks, Before(s, x, y)'
  PROVE  \/ Before(s, x, y)
         \/ Num(s, x) - Taken({Ctos(x, s)}) > 0 /\ Count(Heard(news, s), Prompts(y)) > 0
         \/ Ahead(Heard(news, s), Prompts(x), Prompts(y))
<1> DEFINE new == Count(Heard(news, s), Prompts(y))
           taken == Taken({Ctos(x, s)})
<1>1. queue # <<>> /\ Done(more) /\ clients'[s] = clients[s]
  BY DEF SpeaksTo
<1>2. Count(more, {Ctos(x, s)}) = 0 /\ Count(more, {Ctos(y, s)}) = 0
  BY InnerFromNobody, TalksAreCtos
<1>3. /\ Sent(s, x)' = Sent(s, x) - taken /\ Owing(s, x)' = Owing(s, x)
      /\ taken \in 0..1 /\ taken <= Sent(s, x)
  BY SpeaksNum
<1>4. /\ Owing(s, y)' = Owing(s, y) /\ Coming(s, y)' = Coming(s, y) + new /\ new \in Nat
  BY SpeaksNum
<1>5. /\ Sent(s, x) \in Nat /\ Owing(s, x) \in 0..1 /\ Coming(s, x) \in Nat
      /\ Owing(s, y) \in 0..1 /\ Coming(s, y) \in Nat
  BY NumTyped
<1>6. Num(s, x) = Sent(s, x) + Owing(s, x) + Coming(s, x)
  BY DEF Num
<1>7. CASE Ahead(queue', {Ctos(x, s)}, {Ctos(y, s)})
  <2>1. ~Ahead(more, {Ctos(x, s)}, {Ctos(y, s)})
    <3>1. \A i \in DOMAIN more : more[i] # Ctos(x, s)
      BY <1>2, CountTyped
    <3> QED
      BY <3>1 DEF Ahead
  <2>2. Ahead(queue, {Ctos(x, s)}, {Ctos(y, s)})
    BY <1>1, <1>2, <1>7, <2>1, HandledQueue
  <2> QED
    BY <2>2 DEF Before
<1>8. CASE Sent(s, x)' > 0 /\ Owing(s, y)' + Coming(s, y)' > 0
  <2> HIDE DEF new, taken
  <2>1. CASE new > 0
    <3>1. Num(s, x) - taken > 0
      BY <1>3, <1>5, <1>6, <1>8
    <3> QED
      BY <2>1, <3>1 DEF new, taken
  <2>2. CASE new = 0
    <3>1. Sent(s, x) > 0 /\ Owing(s, y) + Coming(s, y) > 0
      BY <1>3, <1>4, <1>5, <1>8, <2>2
    <3> QED
      BY <3>1 DEF Before
  <2> QED
    BY <1>4, <2>1, <2>2
<1>9. CASE Owing(s, x)' > 0 /\ Coming(s, y)' > 0
  <2> HIDE DEF new, taken
  <2>1. CASE new > 0
    <3>1. Num(s, x) - taken > 0
      BY <1>3, <1>5, <1>6, <1>9
    <3> QED
      BY <2>1, <3>1 DEF new, taken
  <2>2. CASE new = 0
    <3>1. Owing(s, x) > 0 /\ Coming(s, y) > 0
      BY <1>3, <1>4, <1>5, <1>9, <2>2
    <3> QED
      BY <3>1 DEF Before
  <2> QED
    BY <1>4, <2>1, <2>2
<1>10. CASE Ahead(stoc'[s], Prompts(x), Prompts(y))
  <2>0. stoc[s] \in Seq(StocMessages)
    BY DEF TypeOK
  <2>1. stoc'[s] = stoc[s] \o Heard(news, s) /\ Heard(news, s) \in Seq(StocMessages) /\ stoc[s] \in Seq(StocMessages)
    BY <2>0, Arrives
  <2>2. \/ Ahead(stoc[s], Prompts(x), Prompts(y))
        \/ Ahead(Heard(news, s), Prompts(x), Prompts(y))
        \/ Count(stoc[s], Prompts(x)) > 0 /\ new > 0
    BY <1>10, <2>1, AheadConcat
  <2>3. CASE Ahead(stoc[s], Prompts(x), Prompts(y))
    BY <2>3 DEF Before
  <2>4. CASE Count(stoc[s], Prompts(x)) > 0 /\ new > 0
    <3>1. Coming(s, x) > 0
      BY <2>4 DEF Coming
    <3> HIDE DEF taken
    <3>2. Num(s, x) - taken > 0
      BY <1>3, <1>5, <1>6, <3>1
    <3> QED
      BY <2>4, <3>2 DEF taken
  <2> QED
    BY <2>2, <2>3, <2>4
<1>11. \/ Ahead(queue', {Ctos(x, s)}, {Ctos(y, s)})
       \/ Sent(s, x)' > 0 /\ Owing(s, y)' + Coming(s, y)' > 0
       \/ Owing(s, x)' > 0 /\ Coming(s, y)' > 0
       \/ Ahead(stoc'[s], Prompts(x), Prompts(y))
  BY DEF Before
<1> QED
  BY <1>7, <1>8, <1>9, <1>10, <1>11

\* What s says first has nothing ahead of it.
LEMMA HeadFirst ==
  ASSUME TypeOK, queue # <<>>, NEW s \in Seats, NEW x, NEW y, Request = Ctos(x, s), x # y, ~Before(s, x, y)
  PROVE  Num(s, y) = 0
<1>1. queue \in Seq(Requests) /\ Request = Head(queue)
  BY DEF TypeOK, Request
<1>2. Ctos(x, s) # Ctos(y, s)
  BY DEF Ctos
<1>3. /\ Count(queue, {Ctos(y, s)}) = (IF Head(queue) \in {Ctos(y, s)} THEN 1 ELSE 0) + Count(Tail(queue), {Ctos(y, s)})
      /\ Ahead(queue, {Ctos(x, s)}, {Ctos(y, s)}) <=>
           (Ahead(Tail(queue), {Ctos(x, s)}, {Ctos(y, s)}) \/ (Head(queue) \in {Ctos(x, s)} /\ Count(Tail(queue), {Ctos(y, s)}) > 0))
  BY <1>1, CountTail
<1>4. ~Ahead(queue, {Ctos(x, s)}, {Ctos(y, s)})
  BY DEF Before
<1>5. Sent(s, x) > 0
  BY HeadCounted DEF Sent
<1>6. Owing(s, y) + Coming(s, y) = 0
  BY <1>5, NumTyped DEF Before
<1>7. Sent(s, y) = 0
  <2>1. Count(Tail(queue), {Ctos(y, s)}) \in Nat
    BY <1>1, RequestTyped, CountTyped
  <2>2. Count(Tail(queue), {Ctos(y, s)}) = 0
    BY <1>1, <1>3, <1>4, <2>1
  <2> QED
    BY <1>1, <1>2, <1>3, <2>2 DEF Sent
<1> QED
  BY <1>6, <1>7, NumTyped DEF Num

\* What lasts is what is asked last.
LEMMA SpeaksLasting ==
  ASSUME TypeOK, NoMail, NEW more \in Seq(Requests), NEW news \in Boxes, NEW s \in Seats,
         SpeaksTo(more, news, s), NEW x
  PROVE  Lasting(s, x)' <=> (\/ Lasts(Heard(news, s), Prompts(x), Spoils(x))
                             \/ Lasting(s, x) /\ Count(Heard(news, s), Spoils(x)) = 0)
<1> DEFINE said == Heard(news, s)
           box == stoc[s]
<1>0. box \in Seq(StocMessages)
  BY DEF TypeOK
<1>1. stoc'[s] = box \o said /\ said \in Seq(StocMessages) /\ box \in Seq(StocMessages)
  BY <1>0, Arrives
<1>2. clients'[s] = clients[s]
  BY DEF SpeaksTo
<1> HIDE DEF said, box
<1>3. Count(box \o said, Spoils(x)) = Count(box, Spoils(x)) + Count(said, Spoils(x))
  BY <1>1, CountConcat
<1>4. Lasts(box \o said, Prompts(x), Spoils(x)) <=>
        Lasts(said, Prompts(x), Spoils(x)) \/ (Lasts(box, Prompts(x), Spoils(x)) /\ Count(said, Spoils(x)) = 0)
  BY <1>1, LastsConcat
<1>5. Count(box, Spoils(x)) \in Nat /\ Count(said, Spoils(x)) \in Nat
  BY <1>1, CountTyped
<1>6. Count(box \o said, Spoils(x)) = 0 <=> Count(box, Spoils(x)) = 0 /\ Count(said, Spoils(x)) = 0
  BY <1>3, <1>5
<1>7. Lasting(s, x)' <=> \/ clients[s].owes = x /\ Count(box \o said, Spoils(x)) = 0
                         \/ Lasts(box \o said, Prompts(x), Spoils(x))
  BY <1>1, <1>2 DEF Lasting
<1>8. Lasting(s, x) <=> \/ clients[s].owes = x /\ Count(box, Spoils(x)) = 0
                        \/ Lasts(box, Prompts(x), Spoils(x))
  BY DEF Lasting, box
<1>9. Lasting(s, x)' <=> (\/ Lasts(said, Prompts(x), Spoils(x))
                          \/ Lasting(s, x) /\ Count(said, Spoils(x)) = 0)
  BY <1>4, <1>6, <1>7, <1>8
<1> QED
  BY <1>9 DEF said

-----------------------------------------------------------------------------
(* What a handler says, and what it does to what is under way.              *)

\* Of no message, of one, and of the two that ask for an answer in time.
LEMMA WhatIsSaid ==
  ASSUME NEW x \in Talks, NEW y \in Talks
  PROVE  /\ Count(<<>>, Prompts(x)) = 0 /\ Count(<<>>, Spoils(x)) = 0
         /\ ~Ahead(<<>>, Prompts(x), Prompts(y)) /\ ~Lasts(<<>>, Prompts(x), Spoils(x))
         /\ \A m \in StocMessages :
              /\ Count(<<m>>, Prompts(x)) = IF Asks(m) = x THEN 1 ELSE 0
              /\ Count(<<m>>, Spoils(x)) = IF m \in Spoils(x) THEN 1 ELSE 0
              /\ ~Ahead(<<m>>, Prompts(x), Prompts(y))
              /\ Lasts(<<m>>, Prompts(x), Spoils(x)) <=> Asks(m) = x
<1>1. \A m \in StocMessages : m \in Prompts(x) <=> Asks(m) = x
  BY DEF Prompts
<1> QED
  BY <1>1, CountShort, ShortSequences

\* The message that starts the clock and the question behind it.
LEMMA LimitIsSaid ==
  ASSUME NEW x \in Talks, NEW y \in Talks
  PROVE  LET b == <<"TimeLimit", "Select">> IN
         /\ Count(b, Prompts(x)) = IF x \in {"TimeConfirm", "Response"} THEN 1 ELSE 0
         /\ Ahead(b, Prompts(x), Prompts(y)) => x = "TimeConfirm" /\ y = "Response"
         /\ Lasts(b, Prompts("Response"), Spoils("Response"))
         /\ Count(b, Spoils("Response")) = 0
         /\ \A z \in Owable \ {"Response"} : Count(b, Spoils(z)) > 0 /\ ~Lasts(b, Prompts(z), Spoils(z))
<1> DEFINE b == <<"TimeLimit", "Select">>
<1>1. "TimeLimit" \in StocMessages /\ "Select" \in StocMessages /\ b \in Seq(StocMessages)
  BY DEF StocMessages
<1>2. DOMAIN b = {1, 2} /\ b[1] = "TimeLimit" /\ b[2] = "Select"
  OBVIOUS
<1>3. Asks("TimeLimit") = "TimeConfirm" /\ Asks("Select") = "Response"
  BY DEF Asks
<1>4. ("TimeLimit" \in Prompts(x) <=> x = "TimeConfirm") /\ ("Select" \in Prompts(x) <=> x = "Response")
  BY <1>1, <1>3 DEF Prompts
<1>5. ("TimeLimit" \in Prompts(y) <=> y = "TimeConfirm") /\ ("Select" \in Prompts(y) <=> y = "Response")
  BY <1>1, <1>3 DEF Prompts
<1>6. \A z \in Owable : "TimeLimit" \notin Spoils(z) /\ ("Select" \in Spoils(z) <=> z # "Response")
  BY <1>1, <1>3 DEF Spoils, Owable, Duelling
<1>7. Count(b, Prompts(x)) = (IF "TimeLimit" \in Prompts(x) THEN 1 ELSE 0) + (IF "Select" \in Prompts(x) THEN 1 ELSE 0)
  BY <1>1, CountPair
<1>8. Count(b, Prompts(x)) = IF x \in {"TimeConfirm", "Response"} THEN 1 ELSE 0
  BY <1>4, <1>7
<1>9. Ahead(b, Prompts(x), Prompts(y)) => x = "TimeConfirm" /\ y = "Response"
  BY <1>2, <1>4, <1>5 DEF Ahead
<1>10. "Response" \in Owable
  BY DEF Owable, Duelling
<1>11. \A z : Count(b, Spoils(z)) \in Nat /\ (Count(b, Spoils(z)) > 0 <=> \E i \in DOMAIN b : b[i] \in Spoils(z))
  BY <1>1, CountTyped
<1>12. Count(b, Spoils("Response")) = 0
  BY <1>2, <1>6, <1>10, <1>11
<1>13. Lasts(b, Prompts("Response"), Spoils("Response"))
  <2>1. "Select" \in Prompts("Response")
    BY <1>1, <1>3 DEF Prompts
  <2>2. \A j \in DOMAIN b : 2 < j => b[j] \notin Spoils("Response")
    BY <1>2
  <2> QED
    BY <1>2, <2>1, <2>2 DEF Lasts
<1>14. ASSUME NEW z \in Owable \ {"Response"} PROVE Count(b, Spoils(z)) > 0 /\ ~Lasts(b, Prompts(z), Spoils(z))
  <2>1. "Select" \in Spoils(z)
    BY <1>6
  <2>2. "Select" \notin Prompts(z)
    BY <1>3 DEF Prompts
  <2>3. Count(b, Spoils(z)) > 0
    BY <1>2, <1>11, <2>1
  <2> HIDE DEF b
  <2>4. ~Lasts(b, Prompts(z), Spoils(z))
    BY <1>2, <2>1, <2>2 DEF Lasts
  <2> QED
    BY <2>3, <2>4
<1> HIDE DEF b
<1>15. /\ Count(b, Prompts(x)) = IF x \in {"TimeConfirm", "Response"} THEN 1 ELSE 0
       /\ Ahead(b, Prompts(x), Prompts(y)) => x = "TimeConfirm" /\ y = "Response"
       /\ Lasts(b, Prompts("Response"), Spoils("Response"))
       /\ Count(b, Spoils("Response")) = 0
       /\ \A z \in Owable \ {"Response"} : Count(b, Spoils(z)) > 0 /\ ~Lasts(b, Prompts(z), Spoils(z))
  BY <1>8, <1>9, <1>12, <1>13, <1>14
<1> QED
  BY <1>15 DEF b

\* s hears nothing: what it has said is taken, and that is all.
Unasked(s) ==
  /\ \A x \in Talks : Num(s, x)' = Num(s, x) - Taken({Ctos(x, s)})
  /\ \A x \in Talks, y \in Talks : Before(s, x, y)' => Before(s, x, y)
  /\ \A x \in Talks : Lasting(s, x)' <=> Lasting(s, x)

\* s hears m.
Told(s, m) ==
  /\ \A x \in Talks : Num(s, x)' = Num(s, x) - Taken({Ctos(x, s)}) + (IF Asks(m) = x THEN 1 ELSE 0)
  /\ \A x \in Talks, y \in Talks : Before(s, x, y)' =>
       Before(s, x, y) \/ (y = Asks(m) /\ Num(s, x) - Taken({Ctos(x, s)}) > 0)
  /\ \A x \in Talks : Lasting(s, x)' <=> (Asks(m) = x \/ (Lasting(s, x) /\ m \notin Spoils(x)))

\* s is asked to confirm and to answer.
Pressed(s) ==
  /\ \A x \in Talks : Num(s, x)' = Num(s, x) - Taken({Ctos(x, s)})
                                     + (IF x \in {"TimeConfirm", "Response"} THEN 1 ELSE 0)
  /\ \A x \in Talks, y \in Talks : Before(s, x, y)' =>
       \/ Before(s, x, y)
       \/ y \in {"TimeConfirm", "Response"} /\ Num(s, x) - Taken({Ctos(x, s)}) > 0
       \/ x = "TimeConfirm" /\ y = "Response"
  /\ \A x \in Owable : Lasting(s, x)' <=> x = "Response"

\* Every handler that leaves everybody where he is does one of the three to everybody.
LEMMA HeardWell ==
  ASSUME TypeOK, NoMail, NEW more \in Seq(Requests), Inner(more), NEW news \in Boxes, NEW s \in Seats,
         SpeaksTo(more, news, s)
  PROVE  /\ Heard(news, s) = <<>> => Unasked(s)
         /\ \A m \in StocMessages : Heard(news, s) = <<m>> => Told(s, m)
         /\ Heard(news, s) = <<"TimeLimit", "Select">> => Pressed(s)
<1> DEFINE said == Heard(news, s)
<1>1. ASSUME NEW x \in Talks
      PROVE  Num(s, x)' = Num(s, x) - Taken({Ctos(x, s)}) + Count(said, Prompts(x))
             /\ Num(s, x) \in Nat /\ Taken({Ctos(x, s)}) \in 0..1
  BY SpeaksNum, NumTyped
<1>2. ASSUME NEW x \in Talks, NEW y \in Talks, Before(s, x, y)'
      PROVE  \/ Before(s, x, y)
             \/ Num(s, x) - Taken({Ctos(x, s)}) > 0 /\ Count(said, Prompts(y)) > 0
             \/ Ahead(said, Prompts(x), Prompts(y))
  BY <1>2, SpeaksBefore
<1>3. ASSUME NEW x
      PROVE  Lasting(s, x)' <=> (\/ Lasts(said, Prompts(x), Spoils(x))
                                 \/ Lasting(s, x) /\ Count(said, Spoils(x)) = 0)
  BY SpeaksLasting
<1> HIDE DEF said
<1>4. ASSUME said = <<>> PROVE Unasked(s)
  <2>0. ASSUME NEW x \in Talks, NEW y \in Talks
        PROVE  /\ Count(said, Prompts(x)) = 0 /\ Count(said, Prompts(y)) = 0 /\ Count(said, Spoils(x)) = 0
               /\ ~Ahead(said, Prompts(x), Prompts(y)) /\ ~Lasts(said, Prompts(x), Spoils(x))
    BY <1>4, WhatIsSaid
  <2>1. ASSUME NEW x \in Talks PROVE Num(s, x)' = Num(s, x) - Taken({Ctos(x, s)})
    <3>1. Count(said, Prompts(x)) = 0
      BY <2>0
    <3>2. /\ Num(s, x)' = Num(s, x) - Taken({Ctos(x, s)}) + Count(said, Prompts(x))
          /\ Num(s, x) \in Nat /\ Taken({Ctos(x, s)}) \in 0..1
      BY <1>1
    <3> QED
      BY <3>1, <3>2
  <2>2. ASSUME NEW x \in Talks, NEW y \in Talks, Before(s, x, y)' PROVE Before(s, x, y)
    <3>1. Count(said, Prompts(y)) = 0 /\ ~Ahead(said, Prompts(x), Prompts(y))
      BY <2>0
    <3>2. ~(Count(said, Prompts(y)) > 0)
      BY <3>1
    <3> QED
      BY <1>2, <2>2, <3>1, <3>2
  <2>3. ASSUME NEW x \in Talks PROVE Lasting(s, x)' <=> Lasting(s, x)
    BY <1>3, <2>0
  <2> QED
    BY <2>1, <2>2, <2>3 DEF Unasked
<1>5. ASSUME NEW m \in StocMessages, said = <<m>> PROVE Told(s, m)
  <2>1. ASSUME NEW x \in Talks
        PROVE  Num(s, x)' = Num(s, x) - Taken({Ctos(x, s)}) + (IF Asks(m) = x THEN 1 ELSE 0)
    BY <1>1, <1>5, WhatIsSaid
  <2>2. ASSUME NEW x \in Talks, NEW y \in Talks, Before(s, x, y)'
        PROVE  Before(s, x, y) \/ (y = Asks(m) /\ Num(s, x) - Taken({Ctos(x, s)}) > 0)
    <3>1. /\ Count(<<m>>, Prompts(y)) = IF Asks(m) = y THEN 1 ELSE 0
          /\ ~Ahead(<<m>>, Prompts(x), Prompts(y))
      BY WhatIsSaid
    <3>2. Count(said, Prompts(y)) > 0 => Asks(m) = y
      BY <1>5, <3>1
    <3>3. ~Ahead(said, Prompts(x), Prompts(y))
      BY <1>5, <3>1
    <3> QED
      BY <1>2, <2>2, <3>2, <3>3
  <2>3. ASSUME NEW x \in Talks
        PROVE  Lasting(s, x)' <=> (Asks(m) = x \/ (Lasting(s, x) /\ m \notin Spoils(x)))
    <3>1. /\ Count(<<m>>, Spoils(x)) = IF m \in Spoils(x) THEN 1 ELSE 0
          /\ Lasts(<<m>>, Prompts(x), Spoils(x)) <=> Asks(m) = x
      BY WhatIsSaid
    <3> QED
      BY <1>3, <1>5, <3>1
  <2> QED
    BY <2>1, <2>2, <2>3 DEF Told
<1>6. ASSUME said = <<"TimeLimit", "Select">> PROVE Pressed(s)
  <2>1. ASSUME NEW x \in Talks
        PROVE  Num(s, x)' = Num(s, x) - Taken({Ctos(x, s)}) + (IF x \in {"TimeConfirm", "Response"} THEN 1 ELSE 0)
    BY <1>1, <1>6, LimitIsSaid
  <2>2. ASSUME NEW x \in Talks, NEW y \in Talks, Before(s, x, y)'
        PROVE  \/ Before(s, x, y)
               \/ y \in {"TimeConfirm", "Response"} /\ Num(s, x) - Taken({Ctos(x, s)}) > 0
               \/ x = "TimeConfirm" /\ y = "Response"
    BY <1>2, <1>6, <2>2, LimitIsSaid
  <2>3. ASSUME NEW x \in Owable
        PROVE  Lasting(s, x)' <=> x = "Response"
    BY <1>3, <1>6, LimitIsSaid, TalksAreCtos
  <2> QED
    BY <2>1, <2>2, <2>3 DEF Pressed
<1> QED
  BY <1>4, <1>5, <1>6 DEF said

-----------------------------------------------------------------------------
(* What the clients do to what is under way.                                *)

\* What comes from outside.
Outer == CtosTypes \cup {"JoinGame", "timer_tick"}

\* Whatever is under way is passed on: nothing is added and nothing overtakes a question.
Passed(s) ==
  /\ \A x \in Talks : Num(s, x)' <= Num(s, x)
  /\ Num(s, "TimeConfirm")' = Num(s, "TimeConfirm")
  /\ \A x \in Owable, y \in Talks : x # y /\ Before(s, x, y)' => Before(s, x, y)
  /\ \A x \in Owable : Lasting(s, x)' => Lasting(s, x)

\* Something is posted from outside: the room's own requests are as they were.
Posted ==
  /\ \A type : type \notin Outer => Waiting(type)' = Waiting(type)
  /\ \A a, b : b \notin Outer => (AheadOf(a, b)' <=> AheadOf(a, b))

\* A message of a client, of the timer or of a latecomer comes last.
LEMMA OuterPosts ==
  ASSUME TypeOK, NEW r \in Requests, r.type \in Outer, queue' = Append(queue, r)
  PROVE  Posted
<1>1. queue \in Seq(Requests)
  BY DEF TypeOK
<1>2. ASSUME NEW type, type \notin Outer PROVE Waiting(type)' = Waiting(type)
  <2>1. r \notin Of(type)
    BY <1>2 DEF Of
  <2>2. Count(Append(queue, r), Of(type)) = Count(queue, Of(type)) + (IF r \in Of(type) THEN 1 ELSE 0)
    BY <1>1, CountBehind
  <2>3. Count(queue, Of(type)) \in Nat
    BY <1>1, CountTyped
  <2> QED
    BY <2>1, <2>2, <2>3 DEF Waiting
<1>3. ASSUME NEW a, NEW b, b \notin Outer PROVE AheadOf(a, b)' <=> AheadOf(a, b)
  <2>1. r \notin Of(b)
    BY <1>3 DEF Of
  <2>2. Ahead(Append(queue, r), Of(a), Of(b)) <=> (Ahead(queue, Of(a), Of(b)) \/ (Count(queue, Of(a)) > 0 /\ r \in Of(b)))
    BY <1>1, CountAppend
  <2> QED
    BY <2>1, <2>2 DEF AheadOf
<1> QED
  BY <1>2, <1>3 DEF Posted

\* What one posts is counted as his.
LEMMA PostedSent ==
  ASSUME TypeOK, NEW r \in Requests, queue' = Append(queue, r), NEW s \in Seats, NEW x, NEW y
  PROVE  /\ Sent(s, x)' = Sent(s, x) + (IF r = Ctos(x, s) THEN 1 ELSE 0)
         /\ Ahead(queue', {Ctos(x, s)}, {Ctos(y, s)}) <=>
              (Ahead(queue, {Ctos(x, s)}, {Ctos(y, s)}) \/ (Sent(s, x) > 0 /\ r = Ctos(y, s)))
         /\ Mine(s)' = Mine(s) + (IF r \in From(s) THEN 1 ELSE 0)
<1>1. queue \in Seq(Requests)
  BY DEF TypeOK
<1>2. /\ Count(Append(queue, r), {Ctos(x, s)}) = Count(queue, {Ctos(x, s)}) + (IF r \in {Ctos(x, s)} THEN 1 ELSE 0)
      /\ Ahead(Append(queue, r), {Ctos(x, s)}, {Ctos(y, s)}) <=>
           (Ahead(queue, {Ctos(x, s)}, {Ctos(y, s)}) \/ (Count(queue, {Ctos(x, s)}) > 0 /\ r \in {Ctos(y, s)}))
  BY <1>1, CountAppend
<1>3. Count(Append(queue, r), From(s)) = Count(queue, From(s)) + (IF r \in From(s) THEN 1 ELSE 0)
  BY <1>1, CountBehind
<1> QED
  BY <1>2, <1>3 DEF Sent, Mine

\* Whose side of the connection stays as it was, and who posts nothing a prompt asks for.
LEMMA OthersPass ==
  ASSUME TypeOK, NEW s \in Seats, clients'[s] = clients[s], stoc'[s] = stoc[s],
         \/ queue' = queue
         \/ \E r \in Requests : queue' = Append(queue, r) /\ \A x \in Talks : r # Ctos(x, s)
  PROVE  Passed(s) /\ \A x \in Talks : Num(s, x)' = Num(s, x) /\ (Lasting(s, x)' <=> Lasting(s, x))
<1>1. \A x \in Talks : Sent(s, x)' = Sent(s, x)
  <2>1. CASE queue' = queue
    BY <2>1 DEF Sent
  <2>2. CASE \E r \in Requests : queue' = Append(queue, r) /\ \A x \in Talks : r # Ctos(x, s)
    <3>1. PICK r \in Requests : queue' = Append(queue, r) /\ \A x \in Talks : r # Ctos(x, s)
      BY <2>2
    <3>2. ASSUME NEW x \in Talks PROVE Sent(s, x)' = Sent(s, x)
      <4>1. Sent(s, x)' = Sent(s, x) + (IF r = Ctos(x, s) THEN 1 ELSE 0)
        BY <3>1, PostedSent
      <4>2. r # Ctos(x, s) /\ Sent(s, x) \in Nat
        BY <3>1, NumTyped
      <4> QED
        BY <4>1, <4>2
    <3> QED
      BY <3>2
  <2> QED
    BY <2>1, <2>2
<1>2. \A x : Owing(s, x)' = Owing(s, x) /\ Coming(s, x)' = Coming(s, x)
  BY DEF Owing, Coming
<1>3. \A x \in Talks : Num(s, x)' = Num(s, x)
  BY <1>1, <1>2 DEF Num
<1>4. \A x \in Talks : Lasting(s, x)' <=> Lasting(s, x)
  BY DEF Lasting
<1>5. ASSUME NEW x \in Talks, NEW y \in Talks
      PROVE  Ahead(queue', {Ctos(x, s)}, {Ctos(y, s)}) <=> Ahead(queue, {Ctos(x, s)}, {Ctos(y, s)})
  <2>1. CASE queue' = queue
    BY <2>1
  <2>2. CASE \E r \in Requests : queue' = Append(queue, r) /\ \A z \in Talks : r # Ctos(z, s)
    BY <2>2, PostedSent
  <2> QED
    BY <2>1, <2>2
<1>6. ASSUME NEW x \in Talks, NEW y \in Talks PROVE Before(s, x, y)' <=> Before(s, x, y)
  BY <1>1, <1>2, <1>5 DEF Before
<1>7. \A x \in Talks : Num(s, x) \in Nat
  BY NumTyped
<1>8. "TimeConfirm" \in Talks
  BY DEF Talks
<1>9. \A x \in Talks : Num(s, x)' <= Num(s, x)
  <2> SUFFICES ASSUME NEW x \in Talks PROVE Num(s, x)' <= Num(s, x)
    OBVIOUS
  <2>1. Num(s, x)' = Num(s, x) /\ Num(s, x) \in Nat
    BY <1>3, <1>7
  <2> QED
    BY <2>1
<1>10. \A x \in Owable : x \in Talks
  BY TalksAreCtos
<1> QED
  BY <1>3, <1>4, <1>6, <1>8, <1>9, <1>10 DEF Passed

\* The client takes a message.  One that is looked at is no longer on its way, a prompt is
\* on the screen instead; a prompt that was there is forgotten.
LEMMA ReadPasses ==
  ASSUME TypeOK, NEW s \in Seats, ClientReads(s)
  PROVE  Passed(s) /\ \A x \in Owable : Lasting(s, x) => Lasting(s, x)'
<1> DEFINE m == Head(stoc[s])
           rest == Tail(stoc[s])
<1>1. stoc[s] \in Seq(StocMessages) /\ stoc[s] # <<>> /\ stoc'[s] = rest /\ rest \in Seq(StocMessages)
      /\ m \in StocMessages
  BY HeadTailProperties DEF TypeOK, ClientReads
<1>2. clients'[s].owes = IF m = "Win" THEN "None" ELSE IF Asks(m) \in Owable THEN Asks(m) ELSE clients[s].owes
  <2>1. s \in DOMAIN clients /\ clients[s] \in ClientRecords
    BY DEF TypeOK, ClientRecords, Owed
  <2>2. CASE m = "SelectHand"
    BY <2>1, <2>2 DEF ClientReads, Asks, Owable, Duelling, ClientRecords
  <2>3. CASE m = "SelectTp"
    BY <2>1, <2>3 DEF ClientReads, Asks, Owable, Duelling, ClientRecords
  <2>4. CASE m = "Select"
    BY <2>1, <2>4 DEF ClientReads, Asks, Owable, Duelling, ClientRecords
  <2>5. CASE m \in {"ChangeSide", "SideError"}
    BY <2>1, <2>5 DEF ClientReads, Asks, Owable, Duelling, ClientRecords
  <2>6. CASE m = "Start"
    BY <2>1, <2>6 DEF ClientReads, Asks, Owable, Duelling, ClientRecords
  <2>7. CASE m = "Win"
    BY <2>1, <2>7 DEF ClientReads, Asks, Owable, Duelling, ClientRecords
  <2>8. CASE m = "TimeLimit"
    BY <2>1, <2>8 DEF ClientReads, Asks, Owable, Duelling, ClientRecords
  <2> QED
    BY <1>1, <2>2, <2>3, <2>4, <2>5, <2>6, <2>7, <2>8 DEF StocMessages
<1>3. \A x \in Talks : m \in Prompts(x) <=> Asks(m) = x
  BY <1>1 DEF Prompts
<1>4. \A x \in Owable : m \in Spoils(x) <=> (m = "Win" \/ Asks(m) \in Owable \ {x})
  BY <1>1 DEF Spoils
<1>5. \A x : m = "Win" => Asks(m) \notin Talks
  BY DEF Asks, Talks, Owable, Duelling
<1>6. \A x, y : /\ Coming(s, x) = (IF m \in Prompts(x) THEN 1 ELSE 0) + Coming(s, x)'
                /\ Ahead(stoc[s], Prompts(x), Prompts(y)) <=>
                     (Ahead(rest, Prompts(x), Prompts(y)) \/ (m \in Prompts(x) /\ Coming(s, y)' > 0))
                /\ Coming(s, x)' \in Nat
  BY <1>1, CountTail, CountTyped DEF Coming
<1>7. \A x : /\ Count(stoc[s], Spoils(x)) = (IF m \in Spoils(x) THEN 1 ELSE 0) + Count(rest, Spoils(x))
             /\ Lasts(stoc[s], Prompts(x), Spoils(x)) <=>
                  (Lasts(rest, Prompts(x), Spoils(x)) \/ (m \in Prompts(x) /\ Count(rest, Spoils(x)) = 0))
             /\ Count(rest, Spoils(x)) \in Nat
  BY <1>1, CountTail, CountTyped
<1>8. m = "TimeLimit" <=> Asks(m) = "TimeConfirm"
  BY <1>1 DEF Asks, StocMessages
<1>9. IF m = "TimeLimit" THEN queue' = Append(queue, Ctos("TimeConfirm", s)) ELSE queue' = queue
  BY DEF ClientReads, Post
<1>10. Ctos("TimeConfirm", s) \in Requests
  BY RequestsTyped DEF CtosTypes
<1>11. \A x : Sent(s, x)' = Sent(s, x) + (IF m = "TimeLimit" /\ x = "TimeConfirm" THEN 1 ELSE 0)
  <2>1. CASE m = "TimeLimit"
    <3>1. \A x : Sent(s, x)' = Sent(s, x) + (IF Ctos("TimeConfirm", s) = Ctos(x, s) THEN 1 ELSE 0)
      BY <1>9, <1>10, <2>1, PostedSent
    <3>2. \A x : Ctos("TimeConfirm", s) = Ctos(x, s) <=> x = "TimeConfirm"
      BY DEF Ctos
    <3> QED
      BY <2>1, <3>1, <3>2
  <2>2. CASE m # "TimeLimit"
    BY <1>9, <2>2, NumTyped DEF Sent
  <2> QED
    BY <2>1, <2>2
<1>12. \A x : Sent(s, x) \in Nat /\ Owing(s, x) \in 0..1 /\ Coming(s, x) \in Nat
  BY NumTyped
<1> HIDE DEF m, rest
<1>13. "TimeConfirm" \in Talks /\ "TimeConfirm" \notin Owable /\ Owable \subseteq Talks /\ "None" \notin Talks
       /\ Talks = Owable \cup {"TimeConfirm"}
  BY DEF Talks, Owable, Duelling
<1>14. clients[s].owes # "TimeConfirm" /\ clients'[s].owes # "TimeConfirm"
  <2>1. clients[s].owes \in Owed
    BY DEF TypeOK, Owed
  <2> QED
    BY <1>2, <1>13, <2>1 DEF Owed
<1>15. ASSUME NEW x \in Talks PROVE Num(s, x)' <= Num(s, x) /\ (x = "TimeConfirm" => Num(s, x)' = Num(s, x))
  <2>1. /\ Num(s, x) = Sent(s, x) + Owing(s, x) + Coming(s, x) /\ Num(s, x)' = Sent(s, x)' + Owing(s, x)' + Coming(s, x)'
        /\ Coming(s, x) = (IF m \in Prompts(x) THEN 1 ELSE 0) + Coming(s, x)' /\ Coming(s, x)' \in Nat
        /\ Sent(s, x)' = Sent(s, x) + (IF m = "TimeLimit" /\ x = "TimeConfirm" THEN 1 ELSE 0)
        /\ Sent(s, x) \in Nat /\ Owing(s, x) \in 0..1 /\ Owing(s, x)' \in 0..1
    BY <1>6, <1>11, <1>12 DEF Num, Owing
  <2>2. CASE x = "TimeConfirm"
    <3>1. Owing(s, x) = 0 /\ Owing(s, x)' = 0
      BY <1>14, <2>2 DEF Owing
    <3>2. m \in Prompts(x) <=> m = "TimeLimit"
      BY <1>3, <1>8, <2>2
    <3> QED
      BY <2>1, <2>2, <3>1, <3>2
  <2>3. CASE x # "TimeConfirm"
    <3>1. Owing(s, x)' = 1 => Owing(s, x) = 1 \/ m \in Prompts(x)
      BY <1>2, <1>3, <1>13, <2>3 DEF Owing
    <3> QED
      BY <2>1, <2>3, <3>1
  <2> QED
    BY <2>2, <2>3
<1>16. ASSUME NEW x \in Owable, NEW y \in Talks, x # y, Before(s, x, y)' PROVE Before(s, x, y)
  <2>1. x # "TimeConfirm" /\ Sent(s, x)' = Sent(s, x) /\ x \in Talks
    BY <1>11, <1>12, <1>13
  <2>2. /\ Coming(s, x) = (IF m \in Prompts(x) THEN 1 ELSE 0) + Coming(s, x)' /\ Coming(s, x)' \in Nat
        /\ Coming(s, y) = (IF m \in Prompts(y) THEN 1 ELSE 0) + Coming(s, y)' /\ Coming(s, y)' \in Nat
        /\ Sent(s, x) \in Nat /\ Owing(s, x) \in 0..1 /\ Owing(s, y) \in 0..1 /\ Owing(s, y)' \in 0..1
    BY <1>6, <1>12 DEF Owing
  <2>3. Owing(s, y)' = 1 => Owing(s, y) = 1 \/ m \in Prompts(y)
    BY <1>2, <1>3, <1>13 DEF Owing
  <2>4. Owing(s, x)' = 1 => Owing(s, x) = 1 \/ m \in Prompts(x)
    BY <1>2, <1>3, <1>13, <2>1 DEF Owing
  <2>5. CASE Ahead(queue', {Ctos(x, s)}, {Ctos(y, s)})
    <3>1. CASE m = "TimeLimit"
      <4>1. Ahead(queue, {Ctos(x, s)}, {Ctos(y, s)}) \/ (Sent(s, x) > 0 /\ Ctos("TimeConfirm", s) = Ctos(y, s))
        BY <1>9, <1>10, <2>5, <3>1, PostedSent
      <4>2. CASE Sent(s, x) > 0 /\ Ctos("TimeConfirm", s) = Ctos(y, s)
        <5>1. y = "TimeConfirm"
          BY <4>2 DEF Ctos
        <5>2. m \in Prompts(y)
          BY <1>3, <1>8, <3>1, <5>1
        <5>3. Owing(s, y) + Coming(s, y) > 0
          BY <2>2, <5>2
        <5> QED
          BY <4>2, <5>3 DEF Before
      <4> QED
        BY <4>1, <4>2 DEF Before
    <3>2. CASE m # "TimeLimit"
      BY <1>9, <2>5, <3>2 DEF Before
    <3> QED
      BY <3>1, <3>2
  <2>6. CASE Sent(s, x)' > 0 /\ Owing(s, y)' + Coming(s, y)' > 0
    <3>1. Owing(s, y) + Coming(s, y) > 0
      BY <2>2, <2>3, <2>6
    <3> QED
      BY <2>1, <2>6, <3>1 DEF Before
  <2>7. CASE Owing(s, x)' > 0 /\ Coming(s, y)' > 0
    <3>1. Coming(s, y) > 0
      BY <2>2, <2>7
    <3>2. CASE Owing(s, x) = 1
      BY <3>1, <3>2 DEF Before
    <3>3. CASE m \in Prompts(x)
      BY <1>6, <2>7, <3>3 DEF Before
    <3>4. Owing(s, x)' = 1
      BY <2>7 DEF Owing
    <3> QED
      BY <2>4, <3>2, <3>3, <3>4
  <2>8. CASE Ahead(stoc'[s], Prompts(x), Prompts(y))
    BY <1>1, <1>6, <2>8 DEF Before
  <2>9. \/ Ahead(queue', {Ctos(x, s)}, {Ctos(y, s)})
        \/ Sent(s, x)' > 0 /\ Owing(s, y)' + Coming(s, y)' > 0
        \/ Owing(s, x)' > 0 /\ Coming(s, y)' > 0
        \/ Ahead(stoc'[s], Prompts(x), Prompts(y))
    BY <1>16 DEF Before
  <2> QED
    BY <2>5, <2>6, <2>7, <2>8, <2>9
<1>17. ASSUME NEW x \in Owable PROVE Lasting(s, x)' <=> Lasting(s, x)
  <2>1. Lasting(s, x) <=> \/ clients[s].owes = x /\ Count(stoc[s], Spoils(x)) = 0
                          \/ Lasts(stoc[s], Prompts(x), Spoils(x))
    BY DEF Lasting
  <2>2. Lasting(s, x)' <=> \/ clients'[s].owes = x /\ Count(rest, Spoils(x)) = 0
                           \/ Lasts(rest, Prompts(x), Spoils(x))
    BY <1>1 DEF Lasting
  <2>3. x \in Talks /\ x # "None" /\ (m \in Prompts(x) <=> Asks(m) = x) /\ (m \in Spoils(x) <=> (m = "Win" \/ Asks(m) \in Owable \ {x}))
    BY <1>3, <1>4, <1>13
  <2>4. Count(stoc[s], Spoils(x)) = 0 <=> (m \notin Spoils(x) /\ Count(rest, Spoils(x)) = 0)
    BY <1>7
  <2>5. clients'[s].owes = x <=> (Asks(m) = x \/ (clients[s].owes = x /\ m \notin Spoils(x)))
    BY <1>2, <1>5, <2>3
  <2> QED
    BY <1>7, <2>1, <2>2, <2>3, <2>4, <2>5
<1> QED
  BY <1>13, <1>15, <1>16, <1>17 DEF Passed

\* The answer is no longer on the screen but in the mailbox.
LEMMA AnswerPasses ==
  ASSUME TypeOK, NEW s \in Seats, ClientAnswers(s)
  PROVE  Passed(s) /\ \A x \in Owable : Lasting(s, x) => Lasting(s, x)' \/ Sent(s, x)' > 0
<1> DEFINE o == clients[s].owes
<1>1. o \in Owed /\ o # "None" /\ clients'[s].owes = "None" /\ stoc' = stoc /\ queue' = Append(queue, Ctos(o, s))
  BY DEF ClientAnswers, Post, TypeOK, Owed
<1>2. o \in Owable
  BY <1>1 DEF Owed, Owable, Duelling
<1> HIDE DEF o
<1>3. Ctos(o, s) \in Requests
  BY <1>2, RequestsTyped, TalksAreCtos
<1>4. \A x : Ctos(o, s) = Ctos(x, s) <=> x = o
  BY DEF Ctos
<1>5. ASSUME NEW x PROVE Sent(s, x)' = Sent(s, x) + (IF x = o THEN 1 ELSE 0)
  <2>1. Sent(s, x)' = Sent(s, x) + (IF Ctos(o, s) = Ctos(x, s) THEN 1 ELSE 0)
    BY <1>1, <1>3, PostedSent
  <2> QED
    BY <1>4, <2>1
<1>6. \A x : Coming(s, x)' = Coming(s, x) /\ Owing(s, x) = IF x = o THEN 1 ELSE 0
  BY <1>1 DEF Coming, Owing, o
<1>7. \A x : Sent(s, x) \in Nat /\ Owing(s, x) \in 0..1 /\ Coming(s, x) \in Nat
  BY NumTyped
<1>8. "TimeConfirm" \in Talks /\ "TimeConfirm" \notin Owable /\ Owable \subseteq Talks /\ "None" \notin Talks
  BY DEF Talks, Owable, Duelling
<1>9. \A x \in Talks : Owing(s, x)' = 0
  BY <1>1, <1>8 DEF Owing
<1>10. ASSUME NEW x \in Talks PROVE Num(s, x)' = Num(s, x) /\ Num(s, x)' <= Num(s, x)
  <2>1. Num(s, x) = Sent(s, x) + Owing(s, x) + Coming(s, x) /\ Num(s, x)' = Sent(s, x)' + Owing(s, x)' + Coming(s, x)'
    BY DEF Num
  <2>2. Owing(s, x)' = 0 /\ Sent(s, x)' = Sent(s, x) + Owing(s, x) /\ Coming(s, x)' = Coming(s, x)
    BY <1>5, <1>6, <1>9
  <2>3. Sent(s, x) \in Nat /\ Owing(s, x) \in 0..1 /\ Coming(s, x) \in Nat
    BY <1>7
  <2> QED
    BY <2>1, <2>2, <2>3
<1>11. ASSUME NEW x \in Owable, NEW y \in Talks, x # y, Before(s, x, y)' PROVE Before(s, x, y)
  <2>1. /\ Sent(s, x) \in Nat /\ Owing(s, y)' = 0 /\ Owing(s, x)' = 0 /\ Coming(s, y)' = Coming(s, y) /\ Coming(s, y) \in Nat
        /\ Owing(s, y) \in 0..1
    BY <1>6, <1>7, <1>8, <1>9
  <2>2. CASE Ahead(queue', {Ctos(x, s)}, {Ctos(y, s)})
    <3>1. Ahead(queue, {Ctos(x, s)}, {Ctos(y, s)}) \/ (Sent(s, x) > 0 /\ Ctos(o, s) = Ctos(y, s))
      BY <1>1, <1>3, <2>2, PostedSent
    <3>2. CASE Sent(s, x) > 0 /\ Ctos(o, s) = Ctos(y, s)
      <4>1. Owing(s, y) = 1
        BY <1>4, <1>6, <3>2
      <4>2. Owing(s, y) + Coming(s, y) > 0
        BY <2>1, <4>1
      <4> QED
        BY <3>2, <4>2 DEF Before
    <3> QED
      BY <3>1, <3>2 DEF Before
  <2>3. CASE Sent(s, x)' > 0 /\ Coming(s, y) > 0
    <3>1. CASE x = o
      <4>1. Owing(s, x) = 1
        BY <1>6, <3>1
      <4> QED
        BY <2>3, <4>1 DEF Before
    <3>2. CASE x # o
      <4>1. Sent(s, x) > 0 /\ Owing(s, y) + Coming(s, y) > 0
        BY <1>5, <2>1, <2>3, <3>2
      <4> QED
        BY <4>1 DEF Before
    <3> QED
      BY <3>1, <3>2
  <2>4. CASE Ahead(stoc[s], Prompts(x), Prompts(y))
    BY <2>4 DEF Before
  <2>5. \/ Ahead(queue', {Ctos(x, s)}, {Ctos(y, s)})
        \/ Sent(s, x)' > 0 /\ Owing(s, y)' + Coming(s, y)' > 0
        \/ Owing(s, x)' > 0 /\ Coming(s, y)' > 0
        \/ Ahead(stoc'[s], Prompts(x), Prompts(y))
    BY <1>11 DEF Before
  <2> QED
    BY <1>1, <2>1, <2>2, <2>3, <2>4, <2>5
<1>12. ASSUME NEW x \in Owable PROVE Lasting(s, x)' => Lasting(s, x)
  <2>1. x # "None"
    BY <1>8
  <2> QED
    BY <1>1, <2>1 DEF Lasting
<1>13. ASSUME NEW x \in Owable, Lasting(s, x) PROVE Lasting(s, x)' \/ Sent(s, x)' > 0
  <2>1. CASE o = x
    BY <1>5, <1>7, <2>1
  <2>2. CASE Lasts(stoc[s], Prompts(x), Spoils(x))
    BY <1>1, <2>2 DEF Lasting
  <2> QED
    BY <1>13, <2>1, <2>2 DEF Lasting, o
<1>14. \A x \in Owable : Lasting(s, x) => Lasting(s, x)' \/ Sent(s, x)' > 0
  BY <1>13
<1>15. Passed(s)
  BY <1>8, <1>10, <1>11, <1>12 DEF Passed
<1> QED
  BY <1>14, <1>15

\* Who leaves answers nothing any more.
LEMMA LeavePasses ==
  ASSUME TypeOK, NEW s \in Seats, ClientLeaves(s)
  PROVE  Passed(s)
<1>1. clients'[s].owes = "None" /\ stoc' = stoc /\ queue' = Append(queue, Ctos("LeaveGame", s))
  BY DEF ClientLeaves, Post, TypeOK, NoClient
<1>2. Ctos("LeaveGame", s) \in Requests
  BY RequestsTyped DEF CtosTypes
<1>3. \A x \in Talks : Ctos("LeaveGame", s) # Ctos(x, s)
  BY DEF Ctos, Talks, Owable, Duelling
<1>4. ASSUME NEW x \in Talks PROVE Sent(s, x)' = Sent(s, x)
  <2>1. Sent(s, x)' = Sent(s, x) + (IF Ctos("LeaveGame", s) = Ctos(x, s) THEN 1 ELSE 0)
    BY <1>1, <1>2, PostedSent
  <2>2. Ctos("LeaveGame", s) # Ctos(x, s) /\ Sent(s, x) \in Nat
    BY <1>3, NumTyped
  <2> QED
    BY <2>1, <2>2
<1>5. "TimeConfirm" \in Talks /\ "TimeConfirm" \notin Owable /\ Owable \subseteq Talks /\ "None" \notin Talks
  BY DEF Talks, Owable, Duelling
<1>6. \A x \in Talks : Owing(s, x)' = 0 /\ Coming(s, x)' = Coming(s, x)
  BY <1>1, <1>5 DEF Owing, Coming
<1>7. \A x : Sent(s, x) \in Nat /\ Owing(s, x) \in 0..1 /\ Coming(s, x) \in Nat
  BY NumTyped
<1>8. Owing(s, "TimeConfirm") = 0
  BY DEF Owing, TypeOK
<1>9. ASSUME NEW x \in Talks PROVE Num(s, x)' <= Num(s, x) /\ (x = "TimeConfirm" => Num(s, x)' = Num(s, x))
  <2>1. Num(s, x) = Sent(s, x) + Owing(s, x) + Coming(s, x) /\ Num(s, x)' = Sent(s, x)' + Owing(s, x)' + Coming(s, x)'
    BY DEF Num
  <2>2. /\ Owing(s, x)' = 0 /\ Sent(s, x)' = Sent(s, x) /\ Coming(s, x)' = Coming(s, x)
        /\ Sent(s, x) \in Nat /\ Owing(s, x) \in 0..1 /\ Coming(s, x) \in Nat
    BY <1>4, <1>6, <1>7
  <2> QED
    BY <1>8, <2>1, <2>2
<1>10. ASSUME NEW x \in Owable, NEW y \in Talks, x # y, Before(s, x, y)' PROVE Before(s, x, y)
  <2>1. /\ Sent(s, x)' = Sent(s, x) /\ Owing(s, y)' = 0 /\ Owing(s, x)' = 0 /\ Coming(s, y)' = Coming(s, y)
        /\ Coming(s, y) \in Nat /\ Owing(s, y) \in 0..1
    BY <1>4, <1>5, <1>6, <1>7
  <2>2. Ahead(queue', {Ctos(x, s)}, {Ctos(y, s)}) => Ahead(queue, {Ctos(x, s)}, {Ctos(y, s)})
    BY <1>1, <1>2, <1>3, PostedSent
  <2>3. Owing(s, y)' + Coming(s, y)' > 0 => Owing(s, y) + Coming(s, y) > 0
    BY <2>1
  <2>4. \/ Ahead(queue', {Ctos(x, s)}, {Ctos(y, s)})
        \/ Sent(s, x)' > 0 /\ Owing(s, y)' + Coming(s, y)' > 0
        \/ Owing(s, x)' > 0 /\ Coming(s, y)' > 0
        \/ Ahead(stoc'[s], Prompts(x), Prompts(y))
    BY <1>10 DEF Before
  <2> QED
    BY <1>1, <2>1, <2>2, <2>3, <2>4 DEF Before
<1>11. ASSUME NEW x \in Owable PROVE Lasting(s, x)' => Lasting(s, x)
  <2>1. x # "None"
    BY <1>5
  <2> QED
    BY <1>1, <2>1 DEF Lasting
<1> QED
  BY <1>5, <1>9, <1>10, <1>11 DEF Passed

\* Whoever is outside, what is under way is passed on, and the room is left alone.
LEMMA OutsidePasses ==
  ASSUME TypeOK, TimerTicks \/ StrangerJoins \/ \E s \in Seats : Client(s)
  PROVE  /\ \A s \in Seats : Passed(s)
         /\ Posted /\ UNCHANGED duel /\ running' = running /\ running
<1>0. \A s \in Seats, type \in CtosTypes : Ctos(type, s) \in Requests /\ Ctos(type, s).type = type
      /\ \A x, t : Ctos(type, s) = Ctos(x, t) => t = s
  BY RequestsTyped DEF Ctos
<1>a. \A r : queue' = queue => Posted
  BY DEF Posted, Waiting, AheadOf
<1>1. CASE TimerTicks \/ StrangerJoins
  <2>1. PICK type \in {"timer_tick", "JoinGame"} : queue' = Append(queue, Ex(type)) /\ running /\ UNCHANGED <<running, duel, clients, stoc>>
    BY <1>1 DEF TimerTicks, StrangerJoins, Post, outside
  <2>2. Ex(type) \in Requests /\ Ex(type).type \in Outer /\ \A x, s : Ex(type) # Ctos(x, s)
    BY RequestsTyped DEF Ex, Ctos, Outer, ExTypes
  <2>3. Posted
    BY <2>1, <2>2, OuterPosts
  <2>4. \A s \in Seats : Passed(s)
    BY <2>1, <2>2, OthersPass
  <2> QED
    BY <2>1, <2>3, <2>4
<1>2. ASSUME NEW s \in Seats, Client(s)
      PROVE  (\A t \in Seats : Passed(t)) /\ Posted /\ UNCHANGED duel /\ running' = running /\ running
  <2>1. running /\ running' = running /\ UNCHANGED duel
    BY <1>2 DEF Client, ClientReads, ClientAnswers, ClientSurrenders, ClientLeaves, Post
  <2>2. queue' = queue \/ \E type \in CtosTypes : queue' = Append(queue, Ctos(type, s))
    <3>1. clients[s].owes # "None" => clients[s].owes \in CtosTypes
      BY DEF TypeOK, CtosTypes
    <3> QED
      BY <1>2, <3>1 DEF Client, ClientReads, ClientAnswers, ClientSurrenders, ClientLeaves, Post, CtosTypes
  <2>3. \A type \in CtosTypes : Ctos(type, s).type \in Outer
    BY DEF Outer, Ctos
  <2>4. Posted
    BY <1>0, <1>a, <2>2, <2>3, OuterPosts
  <2>5. ASSUME NEW t \in Seats, t # s PROVE Passed(t)
    <3>1. clients'[t] = clients[t] /\ stoc'[t] = stoc[t]
      BY <1>2, <2>5 DEF Client, ClientReads, ClientAnswers, ClientSurrenders, ClientLeaves, TypeOK
    <3>2. \/ queue' = queue
          \/ \E r \in Requests : queue' = Append(queue, r) /\ \A x \in Talks : r # Ctos(x, t)
      BY <1>0, <2>2, <2>5
    <3> QED
      BY <3>1, <3>2, OthersPass
  <2>6. Passed(s)
    <3>1. CASE ClientReads(s)
      BY <3>1, ReadPasses
    <3>2. CASE ClientAnswers(s)
      BY <3>2, AnswerPasses
    <3>3. CASE ClientLeaves(s)
      BY <3>3, LeavePasses
    <3>4. CASE ClientSurrenders(s)
      <4>1. queue' = Append(queue, Ctos("Surrender", s)) /\ stoc' = stoc /\ clients'[s].owes = clients[s].owes
        BY <3>4 DEF ClientSurrenders, Post, TypeOK
      <4>2. Ctos("Surrender", s) \in Requests /\ \A x \in Talks : Ctos("Surrender", s) # Ctos(x, s)
        BY RequestsTyped DEF Ctos, Talks, Owable, Duelling, CtosTypes
      <4>3. ASSUME NEW x \in Talks PROVE Sent(s, x)' = Sent(s, x)
        <5>1. Sent(s, x)' = Sent(s, x) + (IF Ctos("Surrender", s) = Ctos(x, s) THEN 1 ELSE 0)
          BY <4>1, <4>2, PostedSent
        <5>2. Ctos("Surrender", s) # Ctos(x, s) /\ Sent(s, x) \in Nat
          BY <4>2, NumTyped
        <5> QED
          BY <5>1, <5>2
      <4>4. \A x : Owing(s, x)' = Owing(s, x) /\ Coming(s, x)' = Coming(s, x) /\ Lasting(s, x)' = Lasting(s, x)
        BY <4>1 DEF Owing, Coming, Lasting
      <4>5. \A x \in Talks, y \in Talks :
              Ahead(queue', {Ctos(x, s)}, {Ctos(y, s)}) <=> Ahead(queue, {Ctos(x, s)}, {Ctos(y, s)})
        BY <4>1, <4>2, PostedSent
      <4>6. \A x \in Talks, y \in Talks : Before(s, x, y)' <=> Before(s, x, y)
        BY <4>1, <4>3, <4>4, <4>5 DEF Before
      <4>7. ASSUME NEW x \in Talks PROVE Num(s, x)' = Num(s, x) /\ Num(s, x)' <= Num(s, x)
        <5>1. Num(s, x)' = Num(s, x) /\ Num(s, x) \in Nat
          BY <4>3, <4>4, NumTyped DEF Num
        <5> QED
          BY <5>1
      <4>8. "TimeConfirm" \in Talks /\ Owable \subseteq Talks
        BY DEF Talks
      <4> QED
        BY <4>4, <4>6, <4>7, <4>8 DEF Passed
    <3> QED
      BY <1>2, <3>1, <3>2, <3>3, <3>4 DEF Client
  <2> QED
    BY <2>1, <2>4, <2>5, <2>6
<1> QED
  BY <1>1, <1>2

-----------------------------------------------------------------------------
(* The invariant.                                                           *)

\* Empty seats, newcomers and leavers.
Still(s) ==
  /\ ~Present(s) => players[s] = EmptySlot /\ clients[s] = NoClient /\ stoc[s] = <<>> /\ Mine(s) = 0
  /\ players[s].state = "Any" => \A x \in Talks : Num(s, x) = 0
  /\ ~Ahead(queue, {Ctos("LeaveGame", s)}, From(s))
  /\ Present(s) => (clients[s].online <=> Sent(s, "LeaveGame") = 0)
  /\ ~clients[s].online => clients[s] = NoClient
Quiet == \A s \in Seats : Still(s)

\* The gates of a stage.
GatesOf ==
  [Finger |-> {"HandResult", "Any"}, Firstgo |-> {"TpResult", "None", "Any"},
   Dueling |-> {"TpResult", "None", "TimeConfirm", "Response", "Any"}, Siding |-> {"UpdateDeck", "Any"}]
OpenGates ==
  /\ \A s \in Seats : Present(s) => players[s].state \in GatesOf[stage]
  /\ \A s \in Seats : players[s].state = "TimeConfirm" => Timed
  /\ \A s, t \in Seats : stage = "Firstgo" /\ players[s].state = "TpResult" /\ players[t].state = "TpResult" => s = t
  /\ stage = "Dueling" <=> first_attack_player # None

\* One thing at a time is asked for, and what is asked for is let through.
InFinger(s) ==
  /\ Num(s, "TpResult") = 0 /\ Num(s, "Response") = 0 /\ Num(s, "TimeConfirm") = 0 /\ Num(s, "UpdateDeck") = 0
  /\ Num(s, "HandResult") > 0 => players[s].state = "HandResult" /\ ~players[s].hand
InFirstgo(s) ==
  /\ Num(s, "HandResult") = 0 /\ Num(s, "Response") = 0 /\ Num(s, "TimeConfirm") = 0
  /\ Num(s, "TpResult") > 0 => players[s].state = "TpResult"
  /\ Num(s, "UpdateDeck") > 0 => players[s].ready
InDueling(s) ==
  /\ Num(s, "HandResult") = 0 /\ Num(s, "TpResult") = 0
  /\ Num(s, "Response") > 0 => Waited(s)
  /\ Num(s, "TimeConfirm") > 0 => players[s].state = "TimeConfirm"
  /\ Num(s, "UpdateDeck") > 0 => players[s].ready
InSiding(s) ==
  /\ players[s].ready => \A x \in Talks \ {"UpdateDeck"} : Num(s, x) = 0
  /\ ~players[s].ready => \A x \in Talks \ {"UpdateDeck"} : ~Before(s, "UpdateDeck", x)
  /\ \A x \in Duelling : ~Lasting(s, x)
Asked(s) ==
  /\ Num(s, "HandResult") + Num(s, "TpResult") + Num(s, "Response") <= 1
  /\ Num(s, "TimeConfirm") <= 1
  /\ stage = "Finger" => InFinger(s)
  /\ stage = "Firstgo" => InFirstgo(s)
  /\ stage = "Dueling" => InDueling(s)
  /\ stage = "Siding" => InSiding(s)
Talk == \A s \in Seats : Asked(s)

\* A duel that has ended makes room for one more siding, and there are two at most.
Decks(s) == Num(s, "UpdateDeck") + (IF players[s].ready /\ Num(s, "UpdateDeck") > 0 THEN 1 ELSE 0)
Rounds ==
  \A s \in Seats :
    /\ Decks(s) + Waiting("RecreateDuel") <= 2
    /\ Decks(s) + Waiting("RecreateDuel") + Waiting("JudgeContinueMatch") <= Len(duel_winner)

\* One chain of requests drives the engine at a time, or one player is asked.
Runs == {"DuelInit", "DuelStart", "Evolve"}
Tokens == Waiting("DuelInit") + Waiting("DuelStart") + Waiting("Evolve")
OneRun ==
  /\ Tokens <= 1
  /\ \A s \in Seats : Waited(s) => Tokens = 0 /\ stage = "Dueling" /\ core.started /\ last_response \in {s, None}
  /\ \A s, t \in Seats : Waited(s) /\ Waited(t) => s = t
  /\ stage = "Finger" => Tokens = 0
  /\ stage = "Firstgo" => Waiting("DuelInit") = 0 /\ \A type \in Runs : ~AheadOf("TpResult", type)
  /\ stage = "Siding" /\ Waiting("DuelInit") > 0 =>
       (\A s \in Seats : ~players[s].ready) /\ ~AheadOf("UpdateDeck", "DuelInit")
  /\ core.started => stage = "Dueling" /\ Waiting("DuelInit") = 0 /\ Waiting("DuelStart") = 0
  /\ core.input => core.started /\ (core.ended \/ Tokens = 1)

Talking == Quiet /\ OpenGates /\ Talk /\ Rounds /\ OneRun

-----------------------------------------------------------------------------
(* What the handlers have in common.                                        *)

Gone(type) == IF Request.type = type THEN 1 ELSE 0
Adds(r, type) == IF r.type = type THEN 1 ELSE 0

\* The room's requests after a handler that queues nothing, one or two.
LEMMA AfterNone ==
  ASSUME TypeOK, queue # <<>>, Done(<<>>)
  PROVE  /\ \A type : Waiting(type)' = Waiting(type) - Gone(type)
         /\ \A a, b : AheadOf(a, b)' => AheadOf(a, b)
<1>0. <<>> \in Seq(Requests)
  BY Queues
<1>1. ASSUME NEW type PROVE Waiting(type)' = Waiting(type) - Gone(type)
  <2>1. Count(queue', Of(type)) = Count(queue, Of(type)) - Taken(Of(type)) + Count(<<>>, Of(type))
    BY <1>0, HandledQueue
  <2>2. Count(<<>>, Of(type)) = 0 /\ Count(queue, Of(type)) \in Nat /\ Taken(Of(type)) = Gone(type) /\ Gone(type) \in 0..1
    BY CountShort, HeadCounted, RequestTyped DEF Taken, Gone, Of
  <2> QED
    BY <2>1, <2>2 DEF Waiting
<1>2. ASSUME NEW a, NEW b, AheadOf(a, b)' PROVE AheadOf(a, b)
  <2>1. \/ Ahead(queue, Of(a), Of(b))
        \/ Ahead(<<>>, Of(a), Of(b))
        \/ Count(queue, Of(a)) - Taken(Of(a)) > 0 /\ Count(<<>>, Of(b)) > 0
    BY <1>0, <1>2, HandledQueue DEF AheadOf
  <2>2. Count(<<>>, Of(b)) = 0 /\ ~Ahead(<<>>, Of(a), Of(b))
    BY CountShort, ShortSequences
  <2> QED
    BY <2>1, <2>2 DEF AheadOf
<1> QED
  BY <1>1, <1>2

\* What is waiting after a handler that queues one message.
LEMMA AfterOne ==
  ASSUME TypeOK, queue # <<>>, NEW r \in Requests, Done(<<r>>)
  PROVE  /\ \A type : Waiting(type)' = Waiting(type) - Gone(type) + Adds(r, type)
         /\ \A a, b : AheadOf(a, b)' => AheadOf(a, b) \/ (b = r.type /\ Waiting(a) - Gone(a) > 0)
<1> DEFINE more == <<r>>
<1>0. more \in Seq(Requests) /\ Done(more)
  BY Queues
<1>1. ASSUME NEW type
      PROVE  Count(more, Of(type)) = Adds(r, type) /\ Taken(Of(type)) = Gone(type)
             /\ Waiting(type) \in Nat /\ Gone(type) \in 0..1 /\ Adds(r, type) \in 0..1
  <2>1. Count(more, Of(type)) = IF r \in Of(type) THEN 1 ELSE 0
    BY CountShort
  <2>2. Count(more, Of(type)) = Adds(r, type) /\ Adds(r, type) \in 0..1
    BY <2>1 DEF Of, Adds
  <2>3. Count(queue, Of(type)) \in Nat
    BY HeadCounted
  <2>4. Request \in Requests
    BY RequestTyped
  <2>5. Taken(Of(type)) = Gone(type) /\ Gone(type) \in 0..1
    BY <2>4 DEF Taken, Of, Gone
  <2> QED
    BY <2>2, <2>3, <2>5 DEF Waiting
<1>2. \A A, B : ~Ahead(more, A, B)
  BY ShortSequences
<1> HIDE DEF more
<1>3. ASSUME NEW type PROVE Waiting(type)' = Waiting(type) - Gone(type) + Adds(r, type)
  <2>1. Count(queue', Of(type)) = Count(queue, Of(type)) - Taken(Of(type)) + Count(more, Of(type))
    BY <1>0, HandledQueue
  <2> QED
    BY <1>1, <2>1 DEF Waiting
<1>4. ASSUME NEW a, NEW b, AheadOf(a, b)' PROVE AheadOf(a, b) \/ (b = r.type /\ Waiting(a) - Gone(a) > 0)
  <2>1. \/ Ahead(queue, Of(a), Of(b))
        \/ Ahead(more, Of(a), Of(b))
        \/ Count(queue, Of(a)) - Taken(Of(a)) > 0 /\ Count(more, Of(b)) > 0
    BY <1>0, <1>4, HandledQueue DEF AheadOf
  <2>2. Taken(Of(a)) = Gone(a) /\ (Count(more, Of(b)) > 0 => b = r.type)
    BY <1>1 DEF Adds
  <2> QED
    BY <1>2, <2>1, <2>2 DEF AheadOf, Waiting
<1> QED
  BY <1>3, <1>4

\* What is waiting after a handler that queues two messages, in this order.
LEMMA AfterTwo ==
  ASSUME TypeOK, queue # <<>>, NEW r \in Requests, NEW q \in Requests, Done(<<r, q>>)
  PROVE  /\ \A type : Waiting(type)' = Waiting(type) - Gone(type) + Adds(r, type) + Adds(q, type)
         /\ \A a, b : AheadOf(a, b)' =>
              AheadOf(a, b) \/ (b \in {r.type, q.type} /\ Waiting(a) - Gone(a) > 0) \/ (a = r.type /\ b = q.type)
<1> DEFINE more == <<r, q>>
<1>0. more \in Seq(Requests) /\ Done(more)
  BY Queues
<1>1. ASSUME NEW type
      PROVE  Count(more, Of(type)) = Adds(r, type) + Adds(q, type) /\ Taken(Of(type)) = Gone(type)
             /\ Waiting(type) \in Nat /\ Gone(type) \in 0..1 /\ Adds(r, type) \in 0..1 /\ Adds(q, type) \in 0..1
  <2>1. Count(more, Of(type)) = (IF r \in Of(type) THEN 1 ELSE 0) + (IF q \in Of(type) THEN 1 ELSE 0)
    BY CountPair
  <2>2. /\ Adds(r, type) = IF r \in Of(type) THEN 1 ELSE 0
        /\ Adds(q, type) = IF q \in Of(type) THEN 1 ELSE 0
    BY DEF Of, Adds
  <2>3. Adds(r, type) \in 0..1 /\ Adds(q, type) \in 0..1
    BY DEF Adds
  <2>4. Count(queue, Of(type)) \in Nat
    BY HeadCounted
  <2>5. Request \in Requests
    BY RequestTyped
  <2>6. Taken(Of(type)) = Gone(type) /\ Gone(type) \in 0..1
    BY <2>5 DEF Taken, Of, Gone
  <2> QED
    BY <2>1, <2>2, <2>3, <2>4, <2>6 DEF Waiting
<1>2. \A a, b : Ahead(more, Of(a), Of(b)) => a = r.type /\ b = q.type
  BY DEF Ahead, Of
<1> HIDE DEF more
<1>3. ASSUME NEW type PROVE Waiting(type)' = Waiting(type) - Gone(type) + Adds(r, type) + Adds(q, type)
  <2>1. Count(queue', Of(type)) = Count(queue, Of(type)) - Taken(Of(type)) + Count(more, Of(type))
    BY <1>0, HandledQueue
  <2>2. Count(queue, Of(type)) = Waiting(type) /\ Count(queue', Of(type)) = Waiting(type)'
    BY DEF Waiting
  <2>3. /\ Count(more, Of(type)) = Adds(r, type) + Adds(q, type) /\ Taken(Of(type)) = Gone(type)
        /\ Waiting(type) \in Nat /\ Gone(type) \in 0..1 /\ Adds(r, type) \in 0..1 /\ Adds(q, type) \in 0..1
    BY <1>1
  <2> QED
    BY <2>1, <2>2, <2>3
<1>4. ASSUME NEW a, NEW b, AheadOf(a, b)'
      PROVE  AheadOf(a, b) \/ (b \in {r.type, q.type} /\ Waiting(a) - Gone(a) > 0) \/ (a = r.type /\ b = q.type)
  <2>1. \/ Ahead(queue, Of(a), Of(b))
        \/ Ahead(more, Of(a), Of(b))
        \/ Count(queue, Of(a)) - Taken(Of(a)) > 0 /\ Count(more, Of(b)) > 0
    BY <1>0, <1>4, HandledQueue DEF AheadOf
  <2>2. Taken(Of(a)) = Gone(a) /\ (Count(more, Of(b)) > 0 => b \in {r.type, q.type})
    BY <1>1 DEF Adds
  <2> QED
    BY <1>2, <2>1, <2>2 DEF AheadOf, Waiting
<1> QED
  BY <1>3, <1>4

\* What is handled is waiting, and what is first has nothing ahead of it.
LEMMA WaitingHead ==
  ASSUME TypeOK, queue # <<>>
  PROVE  /\ \A type : Waiting(type) \in Nat /\ Gone(type) \in 0..1 /\ Gone(type) <= Waiting(type)
         /\ \A a, b : Request.type = a /\ a # b /\ ~AheadOf(a, b) => Waiting(b) = 0
<1>1. Request \in Requests /\ queue \in Seq(Requests) /\ Request = Head(queue)
  BY RequestTyped DEF TypeOK, Request
<1>2. ASSUME NEW type PROVE Waiting(type) \in Nat /\ Gone(type) \in 0..1 /\ Gone(type) <= Waiting(type)
  <2>1. Count(queue, Of(type)) \in Nat /\ (Request \in Of(type) => Count(queue, Of(type)) > 0)
    BY HeadCounted
  <2>2. Request.type = type <=> Request \in Of(type)
    BY <1>1 DEF Of
  <2> QED
    BY <2>1, <2>2 DEF Waiting, Gone
<1>3. ASSUME NEW a, NEW b, Request.type = a, a # b, ~AheadOf(a, b) PROVE Waiting(b) = 0
  <2>1. Request \in Of(a) /\ Request \notin Of(b)
    BY <1>1, <1>3 DEF Of
  <2>2. /\ Ahead(queue, Of(a), Of(b)) <=> (Ahead(Tail(queue), Of(a), Of(b)) \/ (Head(queue) \in Of(a) /\ Count(Tail(queue), Of(b)) > 0))
        /\ Count(queue, Of(a)) = (IF Head(queue) \in Of(a) THEN 1 ELSE 0) + Count(Tail(queue), Of(a))
    BY <1>1, CountTail
  <2>3. Count(queue, Of(b)) = (IF Head(queue) \in Of(b) THEN 1 ELSE 0) + Count(Tail(queue), Of(b))
    BY <1>1, CountTail
  <2>4. Count(Tail(queue), Of(b)) \in Nat
    BY <1>1, RequestTyped, CountTyped
  <2> QED
    BY <1>1, <1>3, <2>1, <2>2, <2>3, <2>4 DEF AheadOf, Waiting
<1> QED
  BY <1>2, <1>3

\* What nobody has sent is not there.
LEMMA NobodySent ==
  ASSUME TypeOK, NEW x \in CtosTypes, \A s \in Seats : Sent(s, x) = 0
  PROVE  Waiting(x) = 0 /\ \A b : ~AheadOf(x, b)
<1>1. queue \in Seq(Requests)
  BY DEF TypeOK
<1>2. ASSUME NEW i \in DOMAIN queue PROVE queue[i] \notin Of(x)
  <2>1. SUFFICES ASSUME queue[i] \in Of(x) PROVE FALSE
    OBVIOUS
  <2>2. queue[i] \in Requests /\ queue[i].type = x
    BY <2>1 DEF Of
  <2>3. PICK s \in Seats : queue[i] = Ctos(x, s)
    BY <2>2 DEF Requests, CtosTypes, Ctos
  <2>4. Count(queue, {Ctos(x, s)}) > 0
    BY <1>1, <2>3, CountTyped
  <2> QED
    BY <2>4 DEF Sent
<1>3. Waiting(x) = 0
  BY <1>1, <1>2, CountTyped DEF Waiting
<1>4. \A b : ~AheadOf(x, b)
  BY <1>2 DEF AheadOf, Ahead
<1> QED
  BY <1>3, <1>4

\* What s has sent comes from s.
LEMMA SentIsMine ==
  ASSUME TypeOK, NEW s \in Seats, NEW x \in CtosTypes
  PROVE  Sent(s, x) <= Mine(s)
<1>1. queue \in Seq(Requests)
  BY DEF TypeOK
<1>2. {Ctos(x, s)} \subseteq From(s)
  <2>1. Ctos(x, s) \in Requests
    BY RequestsTyped
  <2> QED
    BY <2>1 DEF From, Ctos
<1> QED
  BY <1>1, <1>2, CountWithin DEF Sent, Mine

\* Who has sent what is handled: somebody in his seat, whose gate is the one it takes.
LEMMA Sender ==
  ASSUME TypeOK, Quiet, NEW x \in CtosTypes, ReceiveFrom(x)
  PROVE  /\ queue # <<>> /\ Request.from \in Seats /\ Request = Ctos(x, Request.from) /\ Request.type = x
         /\ Present(Request.from) /\ Sent(Request.from, x) > 0
         /\ x \in Talks => Num(Request.from, x) > 0 /\ players[Request.from].state = x
<1> DEFINE s == Request.from
<1>1. queue # <<>> /\ Request \in Requests /\ Request.type = x
  BY RequestTyped DEF ReceiveFrom, Receive
<1>2. s \in Seats /\ Request = Ctos(x, s)
  BY <1>1 DEF Requests, CtosTypes, Ctos
<1> HIDE DEF s
<1>3. Sent(s, x) > 0 /\ Sent(s, x) \in Nat /\ Owing(s, x) \in 0..1 /\ Coming(s, x) \in Nat
  BY <1>1, <1>2, HeadCounted, NumTyped DEF Sent
<1>4. Present(s)
  <2>1. Mine(s) > 0
    BY <1>2, <1>3, SentIsMine, NumTyped
  <2>2. Still(s)
    BY <1>2 DEF Quiet
  <2> QED
    BY <2>1, <2>2 DEF Still
<1>5. ASSUME x \in Talks PROVE Num(s, x) > 0 /\ players[s].state = x
  <2>1. Num(s, x) > 0
    BY <1>3 DEF Num
  <2>a. Still(s)
    BY <1>2 DEF Quiet
  <2>2. players[s].state # "Any"
    BY <1>5, <2>1, <2>a DEF Still
  <2>3. x \notin AlwaysAllowed
    BY <1>5 DEF AlwaysAllowed, Talks, Owable, Duelling
  <2> QED
    BY <1>4, <2>1, <2>2, <2>3 DEF ReceiveFrom, Allowed, s
<1> QED
  BY <1>1, <1>2, <1>3, <1>4, <1>5 DEF s

\* Whose request is taken.
LEMMA TakenFrom ==
  ASSUME NEW x, NEW s, Request = Ctos(x, s)
  PROVE  \A y, t : Taken({Ctos(y, t)}) = IF y = x /\ t = s THEN 1 ELSE 0
  BY DEF Taken, Ctos

\* Handling a message of the room's own takes no answer from the mailbox.
LEMMA TakenInner ==
  ASSUME Request.type \notin CtosTypes
  PROVE  \A t : \A y \in CtosTypes : Taken({Ctos(y, t)}) = 0
  BY DEF Taken, Ctos

\* What the room queues for itself is its own.
LEMMA InnerRequests ==
  /\ Inner(<<>>)
  /\ \A r : r.type \notin CtosTypes => Inner(<<r>>)
  /\ \A r, q : r.type \notin CtosTypes /\ q.type \notin CtosTypes => Inner(<<r, q>>)
<1>1. ASSUME NEW r, NEW q, r.type \notin CtosTypes, q.type \notin CtosTypes
      PROVE  Inner(<<r, q>>)
  <2>1. DOMAIN <<r, q>> = {1, 2} /\ <<r, q>>[1] = r /\ <<r, q>>[2] = q
    OBVIOUS
  <2> QED
    BY <1>1, <2>1 DEF Inner
<1>2. ASSUME NEW r, r.type \notin CtosTypes
      PROVE  Inner(<<r>>)
  <2>1. DOMAIN <<r>> = {1} /\ <<r>>[1] = r
    OBVIOUS
  <2> QED
    BY <1>2, <2>1 DEF Inner
<1> QED
  BY <1>1, <1>2 DEF Inner

\* What s is told asks it for nothing more.
Unpressed(s) == \A x \in Talks : Num(s, x)' = Num(s, x) - Taken({Ctos(x, s)})

\* A newcomer, a leaver or an empty seat, after a handler that leaves s where it is.
LEMMA StillSpeaks ==
  ASSUME TypeOK, Quiet, NEW more \in Seq(Requests), Inner(more), NEW news \in Boxes, NEW s \in Seats,
         SpeaksTo(more, news, s), Request # Ctos("LeaveGame", s),
         ~Present(s) => players'[s] = players[s],
         players'[s].state = "Any" => players[s].state = "Any" /\ Unpressed(s)
  PROVE  Still(s)'
<1>0. NoMail /\ queue # <<>> /\ Done(more) /\ clients'[s] = clients[s] /\ players'[s].here = players[s].here
  BY DEF Quiet, Still, NoMail, SpeaksTo
<1>1. ASSUME NEW x \in CtosTypes
      PROVE  Sent(s, x)' = Sent(s, x) - Taken({Ctos(x, s)}) /\ Sent(s, x) \in Nat /\ Taken({Ctos(x, s)}) \in 0..1
  <2>1. Count(more, {Ctos(x, s)}) = 0
    BY InnerFromNobody
  <2>2. Count(queue', {Ctos(x, s)}) = Count(queue, {Ctos(x, s)}) - Taken({Ctos(x, s)}) + Count(more, {Ctos(x, s)})
    BY <1>0, HandledQueue
  <2>3. Sent(s, x) \in Nat /\ Taken({Ctos(x, s)}) \in 0..1
    BY NumTyped DEF Taken
  <2> QED
    BY <2>1, <2>2, <2>3 DEF Sent
<1>2. /\ Mine(s)' = Mine(s) - Taken(From(s)) /\ Mine(s) \in Nat
      /\ Taken(From(s)) \in 0..1 /\ Taken(From(s)) <= Mine(s)
  <2>1. Count(more, From(s)) = 0
    BY InnerFromNobody
  <2>2. Count(queue', From(s)) = Count(queue, From(s)) - Taken(From(s)) + Count(more, From(s))
    BY <1>0, HandledQueue
  <2>3. Mine(s) \in Nat /\ Taken(From(s)) \in 0..1
    BY NumTyped DEF Taken
  <2>4. Taken(From(s)) <= Mine(s)
    BY <1>0, <2>3, HeadCounted DEF Mine, Taken
  <2> QED
    BY <2>1, <2>2, <2>3, <2>4 DEF Mine
<1>3. ASSUME ~Present(s)'
      PROVE  players'[s] = EmptySlot /\ clients'[s] = NoClient /\ stoc'[s] = <<>> /\ Mine(s)' = 0
  <2>1. ~Present(s)
    BY <1>0, <1>3 DEF Present
  <2>2. players[s] = EmptySlot /\ clients[s] = NoClient /\ Mine(s) = 0 /\ players'[s] = players[s]
    BY <2>1 DEF Quiet, Still
  <2>3. stoc'[s] = <<>>
    BY <2>1, <1>0, <1>3 DEF SpeaksTo, Present
  <2>4. Mine(s)' = 0
    BY <1>2, <2>2
  <2> QED
    BY <1>0, <2>2, <2>3, <2>4
<1>4. ASSUME players'[s].state = "Any", NEW x \in Talks PROVE Num(s, x)' = 0
  <2>1. Num(s, x) = 0 /\ Num(s, x)' = Num(s, x) - Taken({Ctos(x, s)})
    BY <1>4 DEF Quiet, Still, Unpressed
  <2>2. Taken({Ctos(x, s)}) \in 0..1 /\ Taken({Ctos(x, s)}) <= Sent(s, x)
    BY <1>0, SpeaksNum
  <2>3. Sent(s, x) \in Nat /\ Owing(s, x) \in 0..1 /\ Coming(s, x) \in Nat
    BY NumTyped
  <2>4. Num(s, x) = Sent(s, x) + Owing(s, x) + Coming(s, x)
    BY DEF Num
  <2>5. Sent(s, x) = 0
    BY <2>1, <2>3, <2>4
  <2>6. Taken({Ctos(x, s)}) = 0
    BY <2>2, <2>5
  <2> QED
    BY <2>1, <2>6
<1>5. ASSUME Ahead(queue', {Ctos("LeaveGame", s)}, From(s)) PROVE FALSE
  <2>1. Count(more, From(s)) = 0 /\ Count(more, {Ctos("LeaveGame", s)}) = 0
    BY InnerFromNobody DEF CtosTypes
  <2>2. ~Ahead(more, {Ctos("LeaveGame", s)}, From(s))
    <3>1. \A i \in DOMAIN more : more[i] \notin From(s)
      BY <2>1, CountTyped
    <3> QED
      BY <3>1 DEF Ahead
  <2>3. Ahead(queue, {Ctos("LeaveGame", s)}, From(s))
    BY <1>0, <1>5, <2>1, <2>2, HandledQueue
  <2> QED
    BY <2>3 DEF Quiet, Still
<1>6. ASSUME Present(s)' PROVE clients'[s].online <=> Sent(s, "LeaveGame")' = 0
  <2>1. Taken({Ctos("LeaveGame", s)}) = 0
    BY DEF Taken
  <2>2. Sent(s, "LeaveGame")' = Sent(s, "LeaveGame")
    <3>1. /\ Sent(s, "LeaveGame")' = Sent(s, "LeaveGame") - Taken({Ctos("LeaveGame", s)})
          /\ Sent(s, "LeaveGame") \in Nat
      BY <1>1 DEF CtosTypes
    <3> QED
      BY <2>1, <3>1
  <2>3. Present(s)
    BY <1>0, <1>6 DEF Present
  <2> QED
    BY <1>0, <2>2, <2>3 DEF Quiet, Still
<1>7. ~clients'[s].online => clients'[s] = NoClient
  BY <1>0 DEF Quiet, Still
<1> QED
  BY <1>3, <1>4, <1>5, <1>6, <1>7 DEF Still

\* s is told something by a handler, and what that is.
LEMMA Speech ==
  ASSUME TypeOK, Quiet, NEW more \in Seq(Requests), Inner(more), NEW news \in Boxes, NEW s \in Seats,
         SpeaksTo(more, news, s)
  PROVE  /\ ~Present(s) => Unasked(s)
         /\ news[s] = <<>> => Unasked(s)
         /\ \A m \in StocMessages : Present(s) /\ news[s] = <<m>> => Told(s, m)
         /\ Present(s) /\ news[s] = <<"TimeLimit", "Select">> => Pressed(s)
<1>1. NoMail
  BY DEF Quiet, Still, NoMail
<1> QED
  BY <1>1, HeardWell DEF Heard

\* A handler that changes nothing but the mailbox.
LEMMA ChainSays ==
  ASSUME TypeOK, Quiet, queue # <<>>, NEW more \in Seq(Requests), Inner(more), Chain(more), NEW s \in Seats
  PROVE  /\ Unasked(s)
         /\ Request # Ctos("LeaveGame", s) => Still(s)'
<1>1. UNCHANGED <<players, clients, stoc>> /\ Done(more)
  BY DEF Chain, duel, outside
<1>2. NoMail
  BY DEF Quiet, Still, NoMail
<1>3. Nothing \in Boxes
  BY NewsTyped DEF Nothing, Boxes
<1>4. SpeaksTo(more, Nothing, s)
  BY <1>1, <1>2, TellsNothing DEF SpeaksTo
<1>5. Unasked(s)
  BY <1>3, <1>4, Speech DEF Nothing
<1>6. Unpressed(s)
  BY <1>5 DEF Unasked, Unpressed
<1>7. Request # Ctos("LeaveGame", s) => Still(s)'
  BY <1>1, <1>3, <1>4, <1>6, StillSpeaks
<1> QED
  BY <1>5, <1>7

-----------------------------------------------------------------------------
(* Clients, the timer and latecomers keep the invariant.                    *)

\* The numbers are numbers afterwards, too.
LEMMA NumTypedNext ==
  ASSUME TypeOK', NEW s \in Seats, NEW x
  PROVE  /\ Waiting(x)' \in Nat /\ Mine(s)' \in Nat /\ Sent(s, x)' \in Nat
         /\ Owing(s, x)' \in 0..1 /\ Coming(s, x)' \in Nat /\ Num(s, x)' \in Nat
<1>1. queue' \in Seq(Requests) /\ stoc'[s] \in Seq(StocMessages)
  BY DEF TypeOK
<1>2. Waiting(x)' \in Nat /\ Mine(s)' \in Nat /\ Sent(s, x)' \in Nat
  BY <1>1, CountTyped DEF Waiting, Mine, Sent
<1>3. Coming(s, x)' \in Nat
  BY <1>1, CountTyped DEF Coming
<1>4. Owing(s, x)' \in 0..1
  BY DEF Owing
<1> QED
  BY <1>2, <1>3, <1>4 DEF Num

\* The kinds of answers, one by one.
LEMMA TalkKinds ==
  /\ {"HandResult", "TpResult", "Response", "TimeConfirm", "UpdateDeck"} = Talks
  /\ {"HandResult", "TpResult", "Response", "UpdateDeck"} = Owable
  /\ {"HandResult", "TpResult", "Response"} = Duelling
  BY DEF Talks, Owable, Duelling

\* Reading keeps nobody from staying.
LEMMA ReadsOnline ==
  ASSUME TypeOK, NEW s \in Seats, ClientReads(s)
  PROVE  clients'[s].online
<1> DEFINE m == Head(stoc[s])
<1>1. s \in DOMAIN clients /\ clients[s] \in ClientRecords /\ clients[s].online
  BY DEF TypeOK, ClientRecords, Owed, ClientReads
<1>2. CASE m = "SelectHand"
  BY <1>1, <1>2 DEF ClientReads, ClientRecords
<1>3. CASE m = "SelectTp"
  BY <1>1, <1>3 DEF ClientReads, ClientRecords
<1>4. CASE m = "Select"
  BY <1>1, <1>4 DEF ClientReads, ClientRecords
<1>5. CASE m \in {"ChangeSide", "SideError"}
  BY <1>1, <1>5 DEF ClientReads, ClientRecords
<1>6. CASE m = "Start"
  BY <1>1, <1>6 DEF ClientReads, ClientRecords
<1>7. CASE m = "Win"
  BY <1>1, <1>7 DEF ClientReads, ClientRecords
<1>8. CASE m = "TimeLimit"
  BY <1>1, <1>8 DEF ClientReads, ClientRecords
<1>9. m \in StocMessages
  BY HeadTailProperties DEF TypeOK, ClientReads
<1> QED
  BY <1>2, <1>3, <1>4, <1>5, <1>6, <1>7, <1>8, <1>9 DEF StocMessages

\* Empty seats, newcomers and leavers.
LEMMA PassedQuiet ==
  ASSUME TypeOK, TypeOK', Quiet, TimerTicks \/ StrangerJoins \/ \E s \in Seats : Client(s),
         \A s \in Seats : Passed(s), UNCHANGED duel
  PROVE  Quiet'
<1>0. players' = players
  BY DEF duel
<1>1. ASSUME NEW s \in Seats, players'[s].state = "Any", NEW x \in Talks PROVE Num(s, x)' = 0
  <2>1. Num(s, x) = 0 /\ Num(s, x)' <= Num(s, x) /\ Num(s, x)' \in Nat
    BY <1>0, <1>1, NumTypedNext DEF Quiet, Still, Passed
  <2> QED
    BY <2>1
<1>2. ASSUME NEW s \in Seats, ~clients'[s].online PROVE clients'[s] = NoClient
  <2>1. CASE clients'[s] = clients[s]
    BY <1>2, <2>1 DEF Quiet, Still
  <2>2. CASE ClientLeaves(s)
    BY <2>2 DEF ClientLeaves, NoClient, TypeOK
  <2>3. ASSUME clients[s].online, ~ClientLeaves(s), Client(s) PROVE clients'[s].online
    <3>1. CASE ClientReads(s)
      BY <2>3, <3>1, ReadsOnline
    <3>2. CASE ClientAnswers(s)
      BY <2>3, <3>2 DEF ClientAnswers, TypeOK
    <3>3. CASE ClientSurrenders(s)
      BY <2>3, <3>3 DEF ClientSurrenders, TypeOK
    <3> QED
      BY <2>3, <3>1, <3>2, <3>3 DEF Client
  <2>4. clients'[s] = clients[s] \/ (Client(s) /\ clients[s].online)
    <3>1. CASE TimerTicks \/ StrangerJoins
      BY <3>1 DEF TimerTicks, StrangerJoins, outside
    <3>2. CASE Client(s)
      BY <3>2 DEF Client, ClientReads, ClientAnswers, ClientSurrenders, ClientLeaves
    <3>3. ASSUME NEW t \in Seats, t # s, Client(t) PROVE clients'[s] = clients[s]
      <4>1. clients \in Connections
        BY TypeFolded DEF Typed
      <4> QED
        BY <3>3, <4>1 DEF Client, ClientReads, ClientAnswers, ClientSurrenders, ClientLeaves, Connections
    <3> QED
      BY <3>1, <3>2, <3>3
  <2> QED
    BY <1>2, <2>1, <2>2, <2>3, <2>4
<1>3. ASSUME NEW s \in Seats
      PROVE  \/ Client(s) /\ clients[s].online
             \/ /\ clients'[s] = clients[s] /\ stoc'[s] = stoc[s]
                /\ \/ queue' = queue
                   \/ \E r \in Requests : queue' = Append(queue, r) /\ r \notin From(s)
  <2>1. CASE TimerTicks \/ StrangerJoins
    <3>1. PICK type \in {"timer_tick", "JoinGame"} : queue' = Append(queue, Ex(type)) /\ UNCHANGED <<clients, stoc>>
      BY <2>1 DEF TimerTicks, StrangerJoins, Post, outside
    <3>2. Ex(type) \in Requests /\ Ex(type) \notin From(s)
      BY RequestsTyped DEF Ex, From, ExTypes
    <3> QED
      BY <3>1, <3>2
  <2>2. ASSUME NEW t \in Seats, Client(t), t # s
        PROVE  /\ clients'[s] = clients[s] /\ stoc'[s] = stoc[s]
               /\ \/ queue' = queue
                  \/ \E r \in Requests : queue' = Append(queue, r) /\ r \notin From(s)
    <3>1. clients[t].owes # "None" => clients[t].owes \in CtosTypes
      BY DEF TypeOK, CtosTypes
    <3>2. queue' = queue \/ \E type \in CtosTypes : queue' = Append(queue, Ctos(type, t))
      BY <2>2, <3>1 DEF Client, ClientReads, ClientAnswers, ClientSurrenders, ClientLeaves, Post, CtosTypes
    <3>3. \A type \in CtosTypes : Ctos(type, t) \in Requests /\ Ctos(type, t) \notin From(s)
      BY <2>2, RequestsTyped DEF Ctos, From
    <3>4. clients'[s] = clients[s] /\ stoc'[s] = stoc[s]
      <4>1. CASE ClientReads(t)
        BY <2>2, <4>1 DEF ClientReads, TypeOK
      <4>2. CASE ClientAnswers(t)
        BY <2>2, <4>2 DEF ClientAnswers, TypeOK
      <4>3. CASE ClientSurrenders(t)
        BY <2>2, <4>3 DEF ClientSurrenders, TypeOK
      <4>4. CASE ClientLeaves(t)
        BY <2>2, <4>4 DEF ClientLeaves, TypeOK
      <4> QED
        BY <2>2, <4>1, <4>2, <4>3, <4>4 DEF Client
    <3> QED
      BY <3>2, <3>3, <3>4
  <2>3. Client(s) => clients[s].online
    BY DEF Client, ClientReads, ClientAnswers, ClientSurrenders, ClientLeaves
  <2> QED
    BY <2>1, <2>2, <2>3
<1>4. queue \in Seq(Requests)
  BY DEF TypeOK
<1>5. ASSUME NEW s \in Seats, clients'[s] = clients[s], stoc'[s] = stoc[s],
             \/ queue' = queue
             \/ \E r \in Requests : queue' = Append(queue, r) /\ r \notin From(s)
      PROVE  /\ ~Present(s)' => players'[s] = EmptySlot /\ clients'[s] = NoClient /\ stoc'[s] = <<>> /\ Mine(s)' = 0
             /\ ~Ahead(queue', {Ctos("LeaveGame", s)}, From(s))
             /\ Present(s)' => (clients'[s].online <=> Sent(s, "LeaveGame")' = 0)
  <2>1. Mine(s)' = Mine(s) /\ Sent(s, "LeaveGame")' = Sent(s, "LeaveGame")
        /\ (Ahead(queue', {Ctos("LeaveGame", s)}, From(s)) => Ahead(queue, {Ctos("LeaveGame", s)}, From(s)))
    <3>1. CASE queue' = queue
      BY <3>1 DEF Mine, Sent
    <3>2. CASE \E r \in Requests : queue' = Append(queue, r) /\ r \notin From(s)
      <4>1. PICK r \in Requests : queue' = Append(queue, r) /\ r \notin From(s)
        BY <3>2
      <4>2. Mine(s)' = Mine(s) + (IF r \in From(s) THEN 1 ELSE 0) /\ Mine(s) \in Nat /\ Sent(s, "LeaveGame") \in Nat
        BY <4>1, PostedSent, NumTyped
      <4>3. Sent(s, "LeaveGame")' = Sent(s, "LeaveGame") + (IF r = Ctos("LeaveGame", s) THEN 1 ELSE 0)
        BY <4>1, PostedSent
      <4>4. r # Ctos("LeaveGame", s)
        BY <4>1, RequestsTyped DEF From, Ctos, CtosTypes
      <4>5. Ahead(Append(queue, r), {Ctos("LeaveGame", s)}, From(s)) <=>
              (Ahead(queue, {Ctos("LeaveGame", s)}, From(s)) \/ (Count(queue, {Ctos("LeaveGame", s)}) > 0 /\ r \in From(s)))
        BY <1>4, <4>1, CountAppend
      <4>6. Mine(s)' = Mine(s)
        BY <4>1, <4>2
      <4>7. Sent(s, "LeaveGame")' = Sent(s, "LeaveGame")
        BY <4>2, <4>3, <4>4
      <4> QED
        BY <4>1, <4>5, <4>6, <4>7
    <3> QED
      BY <1>5, <3>1, <3>2
  <2> QED
    BY <1>0, <1>5, <2>1 DEF Quiet, Still, Present
<1>6. ASSUME NEW s \in Seats, Client(s), clients[s].online
      PROVE  /\ ~Present(s)' => players'[s] = EmptySlot /\ clients'[s] = NoClient /\ stoc'[s] = <<>> /\ Mine(s)' = 0
             /\ ~Ahead(queue', {Ctos("LeaveGame", s)}, From(s))
             /\ Present(s)' => (clients'[s].online <=> Sent(s, "LeaveGame")' = 0)
  <2>0. Still(s)
    BY DEF Quiet
  <2>1. Present(s) /\ Sent(s, "LeaveGame") = 0 /\ ~Ahead(queue, {Ctos("LeaveGame", s)}, From(s)) /\ Present(s)'
    BY <1>0, <1>6, <2>0 DEF Still, NoClient, Present
  <2>2. CASE queue' = queue /\ ClientReads(s)
    <3>1. clients'[s].online
      BY <1>6, <2>2, ReadsOnline
    <3> QED
      BY <2>1, <2>2, <3>1 DEF Sent
  <2>3. ASSUME NEW type \in CtosTypes, queue' = Append(queue, Ctos(type, s)),
               clients'[s].online <=> type # "LeaveGame"
        PROVE  /\ ~Ahead(queue', {Ctos("LeaveGame", s)}, From(s))
               /\ clients'[s].online <=> Sent(s, "LeaveGame")' = 0
    <3>1. Ctos(type, s) \in Requests /\ (Ctos(type, s) = Ctos("LeaveGame", s) <=> type = "LeaveGame")
      BY RequestsTyped DEF Ctos
    <3>2. Sent(s, "LeaveGame")' = 0 + (IF type = "LeaveGame" THEN 1 ELSE 0)
      BY <2>1, <2>3, <3>1, PostedSent
    <3>3. Ahead(Append(queue, Ctos(type, s)), {Ctos("LeaveGame", s)}, From(s)) <=>
            (Ahead(queue, {Ctos("LeaveGame", s)}, From(s)) \/ (Count(queue, {Ctos("LeaveGame", s)}) > 0 /\ Ctos(type, s) \in From(s)))
      BY <1>4, <3>1, CountAppend
    <3>4. ~(Count(queue, {Ctos("LeaveGame", s)}) > 0)
      BY <2>1 DEF Sent
    <3> QED
      BY <2>1, <2>3, <3>2, <3>3, <3>4
  <2>4. \/ queue' = queue /\ ClientReads(s)
        \/ \E type \in CtosTypes : queue' = Append(queue, Ctos(type, s)) /\ (clients'[s].online <=> type # "LeaveGame")
    <3>1. CASE ClientReads(s)
      <4>1. clients'[s].online
        BY <1>6, <3>1, ReadsOnline
      <4>2. queue' = queue \/ queue' = Append(queue, Ctos("TimeConfirm", s))
        BY <3>1 DEF ClientReads, Post
      <4> QED
        BY <3>1, <4>1, <4>2 DEF CtosTypes
    <3>2. CASE ClientAnswers(s)
      <4>1. clients[s].owes \in CtosTypes \ {"LeaveGame"}
        BY <3>2 DEF ClientAnswers, TypeOK, CtosTypes
      <4>2. clients'[s].online /\ queue' = Append(queue, Ctos(clients[s].owes, s))
        BY <1>6, <3>2 DEF ClientAnswers, Post, TypeOK
      <4> QED
        BY <4>1, <4>2
    <3>3. CASE ClientSurrenders(s)
      <4>1. clients'[s].online /\ queue' = Append(queue, Ctos("Surrender", s))
        BY <1>6, <3>3 DEF ClientSurrenders, Post, TypeOK
      <4> QED
        BY <4>1 DEF CtosTypes
    <3>4. CASE ClientLeaves(s)
      <4>1. ~clients'[s].online /\ queue' = Append(queue, Ctos("LeaveGame", s))
        BY <3>4 DEF ClientLeaves, Post, TypeOK, NoClient
      <4> QED
        BY <4>1 DEF CtosTypes
    <3> QED
      BY <1>6, <3>1, <3>2, <3>3, <3>4 DEF Client
  <2> QED
    BY <2>1, <2>2, <2>3, <2>4
<1>7. ASSUME NEW s \in Seats
      PROVE  /\ ~Present(s)' => players'[s] = EmptySlot /\ clients'[s] = NoClient /\ stoc'[s] = <<>> /\ Mine(s)' = 0
             /\ ~Ahead(queue', {Ctos("LeaveGame", s)}, From(s))
             /\ Present(s)' => (clients'[s].online <=> Sent(s, "LeaveGame")' = 0)
  BY <1>3, <1>5, <1>6
<1> QED
  BY <1>1, <1>2, <1>7 DEF Quiet, Still

-----------------------------------------------------------------------------
(* What keeps the conversation in order.                                    *)

\* Nothing more is asked of s, and nothing overtakes.
Eased(s) ==
  /\ \A x \in Talks : Num(s, x)' <= Num(s, x)
  /\ \A x \in Owable, y \in Talks : x # y /\ Before(s, x, y)' => Before(s, x, y)
  /\ \A x \in Owable : Lasting(s, x)' => Lasting(s, x)

\* What is ahead of something, and what lasts, is under way.
LEMMA UnderWay ==
  ASSUME TypeOK, NEW s \in Seats, NEW x, NEW y
  PROVE  /\ Before(s, x, y) => Num(s, x) > 0 /\ Num(s, y) > 0
         /\ Lasting(s, x) => Num(s, x) > 0
<1>1. queue \in Seq(Requests) /\ stoc[s] \in Seq(StocMessages)
  BY DEF TypeOK
<1>2. /\ Sent(s, x) \in Nat /\ Owing(s, x) \in 0..1 /\ Coming(s, x) \in Nat
      /\ Sent(s, y) \in Nat /\ Owing(s, y) \in 0..1 /\ Coming(s, y) \in Nat
  BY NumTyped
<1>3. Num(s, x) = Sent(s, x) + Owing(s, x) + Coming(s, x) /\ Num(s, y) = Sent(s, y) + Owing(s, y) + Coming(s, y)
  BY DEF Num
<1>4. Ahead(queue, {Ctos(x, s)}, {Ctos(y, s)}) => Sent(s, x) > 0 /\ Sent(s, y) > 0
  BY <1>1, CountTyped DEF Ahead, Sent
<1>5. Ahead(stoc[s], Prompts(x), Prompts(y)) => Coming(s, x) > 0 /\ Coming(s, y) > 0
  BY <1>1, CountTyped DEF Ahead, Coming
<1>6. ASSUME Before(s, x, y) PROVE Num(s, x) > 0 /\ Num(s, y) > 0
  <2>1. \/ Sent(s, x) > 0 /\ Sent(s, y) > 0
        \/ Sent(s, x) > 0 /\ Owing(s, y) + Coming(s, y) > 0
        \/ Owing(s, x) > 0 /\ Coming(s, y) > 0
        \/ Coming(s, x) > 0 /\ Coming(s, y) > 0
    BY <1>4, <1>5, <1>6 DEF Before
  <2> QED
    BY <1>2, <1>3, <2>1
<1>7. ASSUME Lasting(s, x) PROVE Num(s, x) > 0
  <2>1. CASE clients[s].owes = x
    <3>1. Owing(s, x) = 1
      BY <2>1 DEF Owing
    <3> QED
      BY <1>2, <1>3, <3>1
  <2>2. CASE Lasts(stoc[s], Prompts(x), Spoils(x))
    <3>1. Coming(s, x) > 0
      BY <1>1, <2>2, CountTyped DEF Lasts, Coming
    <3> QED
      BY <1>2, <1>3, <3>1
  <2> QED
    BY <1>7, <2>1, <2>2 DEF Lasting
<1> QED
  BY <1>6, <1>7

\* The same, afterwards.
LEMMA UnderWayNext ==
  ASSUME TypeOK', NEW s \in Seats, NEW x, NEW y
  PROVE  /\ Before(s, x, y)' => Num(s, x)' > 0 /\ Num(s, y)' > 0
         /\ Lasting(s, x)' => Num(s, x)' > 0
<1>1. queue' \in Seq(Requests) /\ stoc'[s] \in Seq(StocMessages)
  BY DEF TypeOK
<1>2. /\ Sent(s, x)' \in Nat /\ Owing(s, x)' \in 0..1 /\ Coming(s, x)' \in Nat
      /\ Sent(s, y)' \in Nat /\ Owing(s, y)' \in 0..1 /\ Coming(s, y)' \in Nat
  BY NumTypedNext
<1>3. Num(s, x)' = Sent(s, x)' + Owing(s, x)' + Coming(s, x)' /\ Num(s, y)' = Sent(s, y)' + Owing(s, y)' + Coming(s, y)'
  BY DEF Num
<1>4. Ahead(queue', {Ctos(x, s)}, {Ctos(y, s)}) => Sent(s, x)' > 0 /\ Sent(s, y)' > 0
  BY <1>1, CountTyped DEF Ahead, Sent
<1>5. Ahead(stoc'[s], Prompts(x), Prompts(y)) => Coming(s, x)' > 0 /\ Coming(s, y)' > 0
  BY <1>1, CountTyped DEF Ahead, Coming
<1>6. ASSUME Before(s, x, y)' PROVE Num(s, x)' > 0 /\ Num(s, y)' > 0
  <2>1. \/ Sent(s, x)' > 0 /\ Sent(s, y)' > 0
        \/ Sent(s, x)' > 0 /\ Owing(s, y)' + Coming(s, y)' > 0
        \/ Owing(s, x)' > 0 /\ Coming(s, y)' > 0
        \/ Coming(s, x)' > 0 /\ Coming(s, y)' > 0
    BY <1>4, <1>5, <1>6 DEF Before
  <2> QED
    BY <1>2, <1>3, <2>1
<1>7. ASSUME Lasting(s, x)' PROVE Num(s, x)' > 0
  <2>1. CASE clients'[s].owes = x
    <3>1. Owing(s, x)' = 1
      BY <2>1 DEF Owing
    <3> QED
      BY <1>2, <1>3, <3>1
  <2>2. CASE Lasts(stoc'[s], Prompts(x), Spoils(x))
    <3>1. Coming(s, x)' > 0
      BY <1>1, <2>2, CountTyped DEF Lasts, Coming
    <3> QED
      BY <1>2, <1>3, <3>1
  <2> QED
    BY <1>7, <2>1, <2>2 DEF Lasting
<1> QED
  BY <1>6, <1>7

\* Whoever hears nothing, or nothing that asks for anything, and whoever is not spoken to.
LEMMA AllEased ==
  ASSUME TypeOK, NEW s \in Seats
  PROVE  /\ Passed(s) => Eased(s)
         /\ Unasked(s) => Eased(s)
         /\ \A m \in {"Start", "Win"} : Told(s, m) => Eased(s)
<1>1. \A x \in Talks : Num(s, x) \in Nat /\ Taken({Ctos(x, s)}) \in 0..1
  BY NumTyped DEF Taken
<1>2. \A m \in {"Start", "Win"} : Asks(m) \notin Talks
  BY TalkKinds DEF Asks
<1>3. \A x \in Owable : x \in Talks
  BY TalksAreCtos
<1>4. ASSUME NEW m \in {"Start", "Win"}, Told(s, m), NEW x \in Talks PROVE Num(s, x)' <= Num(s, x)
  <2>1. Num(s, x)' = Num(s, x) - Taken({Ctos(x, s)}) + 0
    BY <1>2, <1>4 DEF Told
  <2>2. Num(s, x) \in Nat /\ Taken({Ctos(x, s)}) \in 0..1
    BY <1>1
  <2> QED
    BY <2>1, <2>2
<1>5. ASSUME Unasked(s), NEW x \in Talks PROVE Num(s, x)' <= Num(s, x)
  <2>1. Num(s, x)' = Num(s, x) - Taken({Ctos(x, s)})
    BY <1>5 DEF Unasked
  <2>2. Num(s, x) \in Nat /\ Taken({Ctos(x, s)}) \in 0..1
    BY <1>1
  <2> QED
    BY <2>1, <2>2
<1>6. Passed(s) => Eased(s)
  BY DEF Passed, Eased
<1>7. Unasked(s) => Eased(s)
  BY <1>3, <1>5 DEF Unasked, Eased
<1>8. ASSUME NEW m \in {"Start", "Win"}, Told(s, m) PROVE Eased(s)
  BY <1>2, <1>3, <1>4, <1>8 DEF Told, Eased
<1> QED
  BY <1>6, <1>7, <1>8

\* Such a step leaves s asked for what it was asked for.
LEMMA EasedAsked ==
  ASSUME TypeOK, TypeOK', NEW s \in Seats, Asked(s), Eased(s), stage' = stage, players'[s] = players[s]
  PROVE  Asked(s)'
<1>1. \A x \in Talks : Num(s, x) \in Nat /\ Num(s, x)' \in Nat /\ Num(s, x)' <= Num(s, x)
  BY NumTyped, NumTypedNext DEF Eased
<1>2. ASSUME NEW x \in Talks PROVE (Num(s, x) = 0 => Num(s, x)' = 0) /\ (Num(s, x)' > 0 => Num(s, x) > 0)
  <2>1. Num(s, x) \in Nat /\ Num(s, x)' \in Nat /\ Num(s, x)' <= Num(s, x)
    BY <1>1
  <2> QED
    BY <2>1
<1>3. Num(s, "HandResult")' + Num(s, "TpResult")' + Num(s, "Response")' <= 1 /\ Num(s, "TimeConfirm")' <= 1
  <2>1. /\ Num(s, "HandResult")' \in Nat /\ Num(s, "HandResult") \in Nat /\ Num(s, "HandResult")' <= Num(s, "HandResult")
        /\ Num(s, "TpResult")' \in Nat /\ Num(s, "TpResult") \in Nat /\ Num(s, "TpResult")' <= Num(s, "TpResult")
        /\ Num(s, "Response")' \in Nat /\ Num(s, "Response") \in Nat /\ Num(s, "Response")' <= Num(s, "Response")
        /\ Num(s, "TimeConfirm")' \in Nat /\ Num(s, "TimeConfirm") \in Nat /\ Num(s, "TimeConfirm")' <= Num(s, "TimeConfirm")
    BY <1>1, TalkKinds
  <2>2. Num(s, "HandResult") + Num(s, "TpResult") + Num(s, "Response") <= 1 /\ Num(s, "TimeConfirm") <= 1
    BY DEF Asked
  <2> QED
    BY <2>1, <2>2
<1>4. CASE stage = "Finger"
  BY <1>2, <1>3, <1>4, TalkKinds DEF Asked, InFinger
<1>5. CASE stage = "Firstgo"
  BY <1>2, <1>3, <1>5, TalkKinds DEF Asked, InFirstgo
<1>6. CASE stage = "Dueling"
  BY <1>2, <1>3, <1>6, TalkKinds DEF Asked, InDueling, Waited
<1>7. CASE stage = "Siding"
  <2>1. InSiding(s)
    BY <1>7 DEF Asked
  <2>2. "UpdateDeck" \in Owable /\ Duelling \subseteq Owable
    BY TalkKinds
  <2>3. \A x \in Duelling : ~Lasting(s, x)'
    BY <2>1, <2>2 DEF InSiding, Eased
  <2>4. players'[s].ready => \A x \in Talks \ {"UpdateDeck"} : Num(s, x)' = 0
    BY <1>2, <2>1 DEF InSiding
  <2>5. ~players'[s].ready => \A x \in Talks \ {"UpdateDeck"} : ~Before(s, "UpdateDeck", x)'
    BY <2>1, <2>2 DEF InSiding, Eased
  <2>6. InSiding(s)'
    BY <2>3, <2>4, <2>5 DEF InSiding
  <2> QED
    BY <1>3, <1>7, <2>6 DEF Asked
<1> QED
  BY <1>4, <1>5, <1>6, <1>7 DEF TypeOK, Stages

\* Nobody who is out of it is asked for anything.
LEMMA UntoldAsked ==
  ASSUME TypeOK', NEW s \in Seats, \A x \in Talks : Num(s, x)' = 0
  PROVE  Asked(s)'
<1>1. \A x \in Talks, y \in Talks : ~Before(s, x, y)'
  <2> SUFFICES ASSUME NEW x \in Talks, NEW y \in Talks PROVE ~Before(s, x, y)'
    OBVIOUS
  <2>1. Num(s, x)' = 0
    OBVIOUS
  <2> QED
    BY <2>1, UnderWayNext
<1>2. \A x \in Talks : ~Lasting(s, x)'
  <2> SUFFICES ASSUME NEW x \in Talks PROVE ~Lasting(s, x)'
    OBVIOUS
  <2>1. Num(s, x)' = 0
    OBVIOUS
  <2> QED
    BY <2>1, UnderWayNext
<1>3. Num(s, "HandResult")' = 0 /\ Num(s, "TpResult")' = 0 /\ Num(s, "Response")' = 0
      /\ Num(s, "TimeConfirm")' = 0 /\ Num(s, "UpdateDeck")' = 0
  BY TalkKinds
<1>4. InFinger(s)' /\ InFirstgo(s)' /\ InDueling(s)'
  BY <1>3 DEF InFinger, InFirstgo, InDueling
<1>5. InSiding(s)'
  BY <1>1, <1>2, TalkKinds DEF InSiding
<1> QED
  BY <1>3, <1>4, <1>5 DEF Asked

\* The room's own requests: none that drives a duel or a match is added, and none is overtaken.
Plain ==
  /\ \A type \in Runs \cup {"RecreateDuel", "JudgeContinueMatch"} : Waiting(type)' <= Waiting(type)
  /\ \A a, b : b \in Runs /\ AheadOf(a, b)' => AheadOf(a, b)

\* Numbers of requests, before and after.
LEMMA WaitingTypedAll ==
  /\ TypeOK => \A type : Waiting(type) \in Nat
  /\ TypeOK' => \A type : Waiting(type)' \in Nat
<1>1. ASSUME TypeOK PROVE \A type : Waiting(type) \in Nat
  <2>1. queue \in Seq(Requests)
    BY <1>1 DEF TypeOK
  <2> QED
    BY <2>1, CountTyped DEF Waiting
<1>2. ASSUME TypeOK' PROVE \A type : Waiting(type)' \in Nat
  <2>1. queue' \in Seq(Requests)
    BY <1>2 DEF TypeOK
  <2> QED
    BY <2>1, CountTyped DEF Waiting
<1> QED
  BY <1>1, <1>2

\* What is ahead of something is there, and so is the other.
LEMMA AheadWaits ==
  ASSUME TypeOK, NEW a, NEW b, AheadOf(a, b)
  PROVE  Waiting(a) > 0 /\ Waiting(b) > 0
<1>1. queue \in Seq(Requests)
  BY DEF TypeOK
<1> QED
  BY <1>1, CountTyped DEF AheadOf, Ahead, Waiting

\* The chains' lengths add up.
LEMMA TokensSum ==
  ASSUME TypeOK
  PROVE  /\ Tokens \in Nat
         /\ Tokens = 0 <=> \A type \in Runs : Waiting(type) = 0
         /\ \A type \in Runs : Waiting(type) <= Tokens
<1>1. Waiting("DuelInit") \in Nat /\ Waiting("DuelStart") \in Nat /\ Waiting("Evolve") \in Nat
  BY WaitingTypedAll
<1> QED
  BY <1>1 DEF Tokens, Runs

\* A handler that queues nothing, or something else.
LEMMA PlainDone ==
  ASSUME TypeOK, TypeOK', queue # <<>>,
         \/ Done(<<>>)
         \/ \E r \in Requests : r.type \notin Runs \cup {"RecreateDuel", "JudgeContinueMatch"} /\ Done(<<r>>)
  PROVE  /\ Plain
         /\ Request.type \notin Runs => Tokens' = Tokens
         /\ Request.type \in Runs => Tokens' = Tokens - 1
<1> DEFINE Moves == Runs \cup {"RecreateDuel", "JudgeContinueMatch"}
<1>0. \A type : Waiting(type) \in Nat /\ Waiting(type)' \in Nat /\ Gone(type) \in 0..1 /\ Gone(type) <= Waiting(type)
  BY WaitingTypedAll, WaitingHead
<1>1. /\ \A type \in Moves : Waiting(type)' = Waiting(type) - Gone(type)
      /\ \A a, b : b \in Runs /\ AheadOf(a, b)' => AheadOf(a, b)
  <2>1. CASE Done(<<>>)
    BY <2>1, AfterNone
  <2>2. ASSUME NEW r \in Requests, r.type \notin Moves, Done(<<r>>)
        PROVE  /\ \A type \in Moves : Waiting(type)' = Waiting(type) - Gone(type)
               /\ \A a, b : b \in Runs /\ AheadOf(a, b)' => AheadOf(a, b)
    <3>1. /\ \A type : Waiting(type)' = Waiting(type) - Gone(type) + Adds(r, type)
          /\ \A a, b : AheadOf(a, b)' => AheadOf(a, b) \/ (b = r.type /\ Waiting(a) - Gone(a) > 0)
      BY <2>2, AfterOne
    <3>2. ASSUME NEW type \in Moves PROVE Waiting(type)' = Waiting(type) - Gone(type)
      <4>1. Adds(r, type) = 0
        BY <2>2 DEF Adds
      <4>2. Waiting(type)' = Waiting(type) - Gone(type) + Adds(r, type) /\ Waiting(type) \in Nat /\ Gone(type) \in 0..1
        BY <1>0, <3>1
      <4> QED
        BY <4>1, <4>2
    <3>3. \A b \in Runs : b # r.type
      BY <2>2
    <3> QED
      BY <3>1, <3>2, <3>3
  <2> QED
    BY <2>1, <2>2
<1>2. ASSUME NEW type \in Moves PROVE Waiting(type)' <= Waiting(type)
  <2>1. Waiting(type)' = Waiting(type) - Gone(type) /\ Waiting(type) \in Nat /\ Gone(type) \in 0..1
    BY <1>0, <1>1
  <2> QED
    BY <2>1
<1>3. /\ Waiting("DuelInit")' = Waiting("DuelInit") - Gone("DuelInit") /\ Gone("DuelInit") \in 0..1
      /\ Waiting("DuelStart")' = Waiting("DuelStart") - Gone("DuelStart") /\ Gone("DuelStart") \in 0..1
      /\ Waiting("Evolve")' = Waiting("Evolve") - Gone("Evolve") /\ Gone("Evolve") \in 0..1
      /\ Waiting("DuelInit") \in Nat /\ Waiting("DuelStart") \in Nat /\ Waiting("Evolve") \in Nat
  BY <1>0, <1>1 DEF Runs
<1>4. /\ Tokens = Waiting("DuelInit") + Waiting("DuelStart") + Waiting("Evolve")
      /\ Tokens' = Waiting("DuelInit")' + Waiting("DuelStart")' + Waiting("Evolve")'
  BY DEF Tokens
<1>5. Gone("DuelInit") + Gone("DuelStart") + Gone("Evolve") = IF Request.type \in Runs THEN 1 ELSE 0
  BY DEF Gone, Runs
<1>6. Request.type \notin Runs => Tokens' = Tokens
  BY <1>3, <1>4, <1>5
<1>7. Request.type \in Runs => Tokens' = Tokens - 1
  BY <1>3, <1>4, <1>5
<1> QED
  BY <1>1, <1>2, <1>6, <1>7 DEF Plain

\* The rounds still to play.
LEMMA DecksTyped ==
  ASSUME NEW s \in Seats
  PROVE  /\ TypeOK => Decks(s) \in Nat
         /\ TypeOK' => Decks(s)' \in Nat
<1>1. TypeOK => Num(s, "UpdateDeck") \in Nat
  BY NumTyped
<1>2. TypeOK' => Num(s, "UpdateDeck")' \in Nat
  BY NumTypedNext
<1>3. TypeOK => Decks(s) \in Nat
  BY <1>1 DEF Decks
<1>4. TypeOK' => Decks(s)' \in Nat
  BY <1>2 DEF Decks
<1> QED
  BY <1>3, <1>4

\* Neither a deck more under way nor a readiness more.
LEMMA DecksEased ==
  ASSUME TypeOK, TypeOK', NEW s \in Seats, Num(s, "UpdateDeck")' <= Num(s, "UpdateDeck"),
         players'[s].ready => players[s].ready
  PROVE  Decks(s)' <= Decks(s)
<1>1. Num(s, "UpdateDeck") \in Nat /\ Num(s, "UpdateDeck")' \in Nat
  BY NumTyped, NumTypedNext
<1>2. Decks(s) = Num(s, "UpdateDeck") + (IF players[s].ready /\ Num(s, "UpdateDeck") > 0 THEN 1 ELSE 0)
  BY DEF Decks
<1>3. Decks(s)' = Num(s, "UpdateDeck")' + (IF players'[s].ready /\ Num(s, "UpdateDeck")' > 0 THEN 1 ELSE 0)
  BY DEF Decks
<1> QED
  BY <1>1, <1>2, <1>3

\* A step that adds neither a deck, a judgement nor a new duel keeps the rounds.
LEMMA RoundsKept ==
  ASSUME TypeOK, TypeOK', Rounds, \A s \in Seats : Decks(s)' <= Decks(s),
         Waiting("RecreateDuel")' <= Waiting("RecreateDuel"),
         Waiting("JudgeContinueMatch")' + Len(duel_winner) <= Waiting("JudgeContinueMatch") + Len(duel_winner')
  PROVE  Rounds'
<1>1. /\ Waiting("RecreateDuel") \in Nat /\ Waiting("RecreateDuel")' \in Nat
      /\ Waiting("JudgeContinueMatch") \in Nat /\ Waiting("JudgeContinueMatch")' \in Nat
  BY WaitingTypedAll
<1>2. Len(duel_winner) \in Nat /\ Len(duel_winner') \in Nat
  <2>1. duel_winner \in Seq(Seats \cup {None}) /\ duel_winner' \in Seq(Seats \cup {None})
    BY DEF TypeOK
  <2> QED
    BY <2>1
<1>3. ASSUME NEW s \in Seats
      PROVE  /\ Decks(s)' + Waiting("RecreateDuel")' <= 2
             /\ Decks(s)' + Waiting("RecreateDuel")' + Waiting("JudgeContinueMatch")' <= Len(duel_winner')
  <2>1. Decks(s) \in Nat /\ Decks(s)' \in Nat /\ Decks(s)' <= Decks(s)
    BY DecksTyped
  <2>2. /\ Decks(s) + Waiting("RecreateDuel") <= 2
        /\ Decks(s) + Waiting("RecreateDuel") + Waiting("JudgeContinueMatch") <= Len(duel_winner)
    BY DEF Rounds
  <2> QED
    BY <1>1, <1>2, <2>1, <2>2
<1> QED
  BY <1>3 DEF Rounds

\* The chain that drives the engine goes on as it did.
LEMMA OneRunKept ==
  ASSUME TypeOK, TypeOK', OneRun, stage' = stage, last_response' \in {last_response, None},
         \A s \in Seats : (Waited(s)' => Waited(s)) /\ (players'[s].ready => players[s].ready),
         core'.started = core.started, core.ended => core'.ended, core'.input => core.input,
         core'.input => core'.ended \/ Tokens' = Tokens,
         \A type \in Runs : Waiting(type)' <= Waiting(type),
         \A a, b : b \in Runs /\ AheadOf(a, b)' => AheadOf(a, b)
  PROVE  OneRun'
<1>1. \A type \in Runs : Waiting(type) \in Nat /\ Waiting(type)' \in Nat /\ Waiting(type)' <= Waiting(type)
  BY WaitingTypedAll
<1>2. Tokens' <= Tokens /\ Tokens \in Nat /\ Tokens' \in Nat
  <2>1. /\ Waiting("DuelInit") \in Nat /\ Waiting("DuelInit")' \in Nat /\ Waiting("DuelInit")' <= Waiting("DuelInit")
        /\ Waiting("DuelStart") \in Nat /\ Waiting("DuelStart")' \in Nat /\ Waiting("DuelStart")' <= Waiting("DuelStart")
        /\ Waiting("Evolve") \in Nat /\ Waiting("Evolve")' \in Nat /\ Waiting("Evolve")' <= Waiting("Evolve")
    BY <1>1 DEF Runs
  <2>2. /\ Tokens = Waiting("DuelInit") + Waiting("DuelStart") + Waiting("Evolve")
        /\ Tokens' = Waiting("DuelInit")' + Waiting("DuelStart")' + Waiting("Evolve")'
    BY DEF Tokens
  <2> QED
    BY <2>1, <2>2
<1>3. /\ Waiting("DuelInit") \in Nat /\ Waiting("DuelInit")' \in Nat /\ Waiting("DuelInit")' <= Waiting("DuelInit")
      /\ Waiting("DuelStart") \in Nat /\ Waiting("DuelStart")' \in Nat /\ Waiting("DuelStart")' <= Waiting("DuelStart")
  BY <1>1 DEF Runs
<1>4. Tokens <= 1
  BY DEF OneRun
<1>5. Tokens' <= 1 /\ (Tokens = 0 => Tokens' = 0)
  BY <1>2, <1>4
<1>6. ASSUME NEW s \in Seats, Waited(s)'
      PROVE  Tokens' = 0 /\ stage' = "Dueling" /\ core'.started /\ last_response' \in {s, None}
  BY <1>5, <1>6 DEF OneRun
<1>7. \A s, t \in Seats : Waited(s)' /\ Waited(t)' => s = t
  BY DEF OneRun
<1>8. (Waiting("DuelInit") = 0 => Waiting("DuelInit")' = 0) /\ (Waiting("DuelStart") = 0 => Waiting("DuelStart")' = 0)
      /\ (Waiting("DuelInit")' > 0 => Waiting("DuelInit") > 0)
  BY <1>3
<1>9. stage' = "Finger" => Tokens' = 0
  BY <1>5 DEF OneRun
<1>10. stage' = "Firstgo" => Waiting("DuelInit")' = 0 /\ \A type \in Runs : ~AheadOf("TpResult", type)'
  BY <1>8 DEF OneRun
<1>11. stage' = "Siding" /\ Waiting("DuelInit")' > 0 =>
        (\A s \in Seats : ~players'[s].ready) /\ ~AheadOf("UpdateDeck", "DuelInit")'
  BY <1>8 DEF OneRun, Runs
<1>12. core'.started => stage' = "Dueling" /\ Waiting("DuelInit")' = 0 /\ Waiting("DuelStart")' = 0
  BY <1>8 DEF OneRun
<1>13. core'.input => core'.started /\ (core'.ended \/ Tokens' = 1)
  BY DEF OneRun
<1> QED
  BY <1>5, <1>6, <1>7, <1>9, <1>10, <1>11, <1>12, <1>13 DEF OneRun

\* A step that asks nobody, moves no gate and starts no chain.
LEMMA Kept ==
  ASSUME TypeOK, TypeOK', Talking, Quiet', \A s \in Seats : Eased(s), Plain,
         UNCHANGED <<stage, players, first_attack_player, duel_winner>>, last_response' \in {last_response, None},
         core'.started = core.started, core.ended => core'.ended, core'.input => core.input,
         core'.input => core'.ended \/ Tokens' = Tokens
  PROVE  Talking'
<1>1. OpenGates'
  BY DEF Talking, OpenGates, Present
<1>2. Talk'
  BY EasedAsked DEF Talking, Talk
<1>3. Rounds'
  <2>1. \A s \in Seats : Decks(s)' <= Decks(s)
    BY DecksEased, TalkKinds DEF Eased
  <2>2. Waiting("JudgeContinueMatch")' + Len(duel_winner) <= Waiting("JudgeContinueMatch") + Len(duel_winner')
    <3>1. Waiting("JudgeContinueMatch") \in Nat /\ Waiting("JudgeContinueMatch")' \in Nat
          /\ Waiting("JudgeContinueMatch")' <= Waiting("JudgeContinueMatch")
      BY WaitingTypedAll DEF Plain
    <3>2. duel_winner \in Seq(Seats \cup {None}) /\ duel_winner' = duel_winner
      BY DEF TypeOK
    <3>3. Len(duel_winner) \in Nat
      BY <3>2
    <3> QED
      BY <3>1, <3>2, <3>3
  <2> QED
    BY <2>1, <2>2, RoundsKept DEF Talking, Plain
<1>4. OneRun'
  BY OneRunKept DEF Talking, Plain, Waited
<1> QED
  BY <1>1, <1>2, <1>3, <1>4 DEF Talking

\* Clients, the timer and latecomers.
LEMMA OutsideKept ==
  ASSUME TypeOK, TypeOK', Talking, TimerTicks \/ StrangerJoins \/ \E s \in Seats : Client(s)
  PROVE  Talking'
<1>1. (\A s \in Seats : Passed(s)) /\ Posted /\ UNCHANGED duel
  BY OutsidePasses
<1>2. Quiet'
  BY <1>1, PassedQuiet DEF Talking
<1>3. \A s \in Seats : Eased(s)
  BY <1>1, AllEased
<1>4. \A type \in Runs \cup {"RecreateDuel", "JudgeContinueMatch"} : type \notin Outer
  BY DEF Runs, Outer, CtosTypes
<1>5. \A type \in Runs \cup {"RecreateDuel", "JudgeContinueMatch"} : Waiting(type)' = Waiting(type)
  BY <1>1, <1>4 DEF Posted
<1>6. Plain
  <2>1. \A type : Waiting(type) \in Nat
    BY WaitingTypedAll
  <2>2. ASSUME NEW type \in Runs \cup {"RecreateDuel", "JudgeContinueMatch"} PROVE Waiting(type)' <= Waiting(type)
    <3>1. Waiting(type)' = Waiting(type) /\ Waiting(type) \in Nat
      BY <1>5, <2>1
    <3> QED
      BY <3>1
  <2>3. \A a, b : b \in Runs /\ AheadOf(a, b)' => AheadOf(a, b)
    BY <1>1, <1>4 DEF Posted
  <2> QED
    BY <2>2, <2>3 DEF Plain
<1>7. Tokens' = Tokens
  BY <1>5 DEF Tokens, Runs
<1>8. /\ UNCHANGED <<stage, players, first_attack_player, duel_winner, last_response, core>>
  BY <1>1 DEF duel
<1> QED
  BY <1>2, <1>3, <1>6, <1>7, <1>8, Kept

\* Both have been asked for a hand.
LEMMA InitTalks ==
  ASSUME Init
  PROVE  Talking
<1>0. TypeOK
  BY TypeInit
<1>1. /\ queue = <<>> /\ stage = "Finger" /\ core = NewCore /\ first_attack_player = None /\ duel_winner = <<>>
      /\ \A s \in Seats : /\ players[s].here /\ players[s].ready /\ players[s].state = "HandResult" /\ ~players[s].hand
                          /\ clients[s] = NewClient /\ stoc[s] = <<"SelectHand">>
  BY DEF Init
<1>2. \A S : Count(queue, S) = 0 /\ \A A : ~Ahead(queue, A, S)
  BY <1>1, CountShort, ShortSequences
<1>3. "SelectHand" \in StocMessages /\ Asks("SelectHand") = "HandResult"
  BY DEF StocMessages, Asks
<1>4. ASSUME NEW s \in Seats, NEW x \in Talks PROVE Num(s, x) = IF x = "HandResult" THEN 1 ELSE 0
  <2>1. Sent(s, x) = 0
    BY <1>2 DEF Sent
  <2>2. Owing(s, x) = 0
    BY <1>1, TalkKinds DEF Owing, NewClient
  <2>3. Coming(s, x) = IF x = "HandResult" THEN 1 ELSE 0
    <3>1. Coming(s, x) = Count(<<"SelectHand">>, Prompts(x))
      BY <1>1 DEF Coming
    <3>2. Count(<<"SelectHand">>, Prompts(x)) = IF "SelectHand" \in Prompts(x) THEN 1 ELSE 0
      BY CountShort
    <3>3. "SelectHand" \in Prompts(x) <=> x = "HandResult"
      BY <1>3 DEF Prompts
    <3> QED
      BY <3>1, <3>2, <3>3
  <2> QED
    BY <2>1, <2>2, <2>3 DEF Num
<1>5. Quiet
  BY <1>1, <1>2 DEF Quiet, Still, Present, Sent, NewClient
<1>6. OpenGates
  BY <1>1 DEF OpenGates, GatesOf
<1>7. Talk
  BY <1>1, <1>4, TalkKinds DEF Talk, Asked, InFinger
<1>8. Rounds
  <2>1. Waiting("RecreateDuel") = 0 /\ Waiting("JudgeContinueMatch") = 0
    BY <1>2 DEF Waiting
  <2>2. \A s \in Seats : Decks(s) = 0
    BY <1>4, TalkKinds DEF Decks
  <2>3. Len(duel_winner) = 0
    BY <1>1
  <2> QED
    BY <2>1, <2>2, <2>3 DEF Rounds
<1>9. OneRun
  <2>1. Tokens = 0
    BY <1>2 DEF Tokens, Waiting
  <2>2. \A s \in Seats : ~Waited(s)
    BY <1>1 DEF Waited
  <2> QED
    BY <1>1, <2>1, <2>2 DEF OneRun, NewCore
<1> QED
  BY <1>5, <1>6, <1>7, <1>8, <1>9 DEF Talking

-----------------------------------------------------------------------------
(* Handlers that ask for nothing.                                           *)

\* A handler that changes nothing but the mailbox and queues nothing, or something plain.
LEMMA ChainKept ==
  ASSUME TypeOK, TypeOK', Talking, queue # <<>>, Request.type # "LeaveGame",
         Request.type \in Runs => ~core.started \/ core.ended,
         \/ Chain(<<>>)
         \/ \E r \in Requests : r.type \notin Runs \cup {"RecreateDuel", "JudgeContinueMatch"} \cup CtosTypes /\ Chain(<<r>>)
  PROVE  Talking'
<1>1. PICK more \in Seq(Requests) : Chain(more) /\ Inner(more)
  BY Queues, InnerRequests
<1>2. UNCHANGED duel
  BY <1>1 DEF Chain
<1>3. \A s \in Seats : Unasked(s) /\ Still(s)'
  <2>1. \A s \in Seats : Request # Ctos("LeaveGame", s)
    BY DEF Ctos
  <2> QED
    BY <1>1, <2>1, ChainSays DEF Talking
<1>4. \A s \in Seats : Eased(s)
  BY <1>3, AllEased
<1>5. Plain /\ (Request.type \notin Runs => Tokens' = Tokens)
  BY PlainDone DEF Chain
<1>6. core.input /\ Request.type \in Runs => core.ended
  BY DEF Talking, OneRun
<1> QED
  BY <1>2, <1>3, <1>4, <1>5, <1>6, Kept DEF duel, Quiet

\* Such handlers.
LEMMA ChainsKept ==
  ASSUME TypeOK, TypeOK', Talking,
         \/ Refused \/ OnFirstShuffle \/ OnEvolveEnded \/ OnGenerateReplay \/ OnMatchEnd \/ OnTimerTick
         \/ (OnJudgeContinueMatch /\ MustEnd)
  PROVE  Talking'
<1>0. Ex("terminate") \in Requests /\ Ex("MatchEnd") \in Requests
      /\ \A s \in Seats : [type |-> "Timeout", player |-> s] \in Requests
  BY RequestsTyped DEF ExTypes
<1>1. CASE Refused
  <2>1. Request.type # "LeaveGame" /\ Request.type \notin Runs
    <3>1. Request \in Requests /\ "from" \in DOMAIN Request
      BY <1>1, RequestTyped DEF Refused
    <3>2. Request.type \in CtosTypes
      BY <3>1, RequestFields
    <3> QED
      BY <1>1, <3>2 DEF Refused, Allowed, AlwaysAllowed, Runs, CtosTypes
  <2>2. Chain(<<>>) /\ queue # <<>>
    BY <1>1 DEF Refused, Chain
  <2> QED
    BY <2>1, <2>2, ChainKept
<1>2. CASE OnFirstShuffle \/ OnGenerateReplay
  BY <1>2, ChainKept DEF OnFirstShuffle, OnGenerateReplay, Receive, Ignored, Runs
<1>3. CASE OnEvolveEnded
  BY <1>3, ChainKept DEF OnEvolveEnded, Receive, Ignored
<1>4. CASE OnMatchEnd
  <2>1. Chain(<<Ex("terminate")>>) \/ Chain(<<>>)
    BY <1>4 DEF OnMatchEnd
  <2>2. Ex("terminate").type \notin Runs \cup {"RecreateDuel", "JudgeContinueMatch"} \cup CtosTypes
    BY DEF Ex, Runs, CtosTypes
  <2>3. queue # <<>> /\ Request.type # "LeaveGame" /\ Request.type \notin Runs
    BY <1>4 DEF OnMatchEnd, Receive, Runs
  <2> QED
    BY <1>0, <2>1, <2>2, <2>3, ChainKept
<1>5. CASE OnTimerTick
  <2>1. Chain(<<>>) \/ \E s \in Seats : Chain(<<[type |-> "Timeout", player |-> s]>>)
    BY <1>5 DEF OnTimerTick, Ignored, TypeOK
  <2>2. \A s \in Seats : [type |-> "Timeout", player |-> s].type \notin Runs \cup {"RecreateDuel", "JudgeContinueMatch"} \cup CtosTypes
    BY DEF Runs, CtosTypes
  <2>3. queue # <<>> /\ Request.type # "LeaveGame" /\ Request.type \notin Runs
    BY <1>5 DEF OnTimerTick, Receive, Runs
  <2> QED
    BY <1>0, <2>1, <2>2, <2>3, ChainKept
<1>6. CASE OnJudgeContinueMatch /\ MustEnd
  <2>1. Chain(<<Ex("MatchEnd")>>)
    BY <1>6 DEF OnJudgeContinueMatch
  <2>2. Ex("MatchEnd").type \notin Runs \cup {"RecreateDuel", "JudgeContinueMatch"} \cup CtosTypes
    BY DEF Ex, Runs, CtosTypes
  <2>3. queue # <<>> /\ Request.type # "LeaveGame" /\ Request.type \notin Runs
    BY <1>6 DEF OnJudgeContinueMatch, Receive, Runs
  <2> QED
    BY <1>0, <2>1, <2>2, <2>3, ChainKept
<1> QED
  BY <1>1, <1>2, <1>3, <1>4, <1>5, <1>6

\* What is sent to everybody, when everybody stays where he is.
LEMMA ToldAll ==
  ASSUME TypeOK, Quiet, queue # <<>>, NEW more \in Seq(Requests), Inner(more), Done(more),
         NEW m \in StocMessages, Send(ToAll(m)), UNCHANGED clients, NEW s \in Seats, players'[s].here = players[s].here
  PROVE  /\ SpeaksTo(more, ToAll(m), s) /\ ToAll(m) \in Boxes
         /\ (Present(s) /\ Told(s, m)) \/ (~Present(s) /\ Unasked(s))
<1>1. ToAll(m) \in Boxes /\ ToAll(m)[s] = <<m>>
  BY NewsTyped DEF Boxes, ToAll
<1>2. SpeaksTo(more, ToAll(m), s)
  BY TellsAll DEF SpeaksTo
<1> QED
  BY <1>1, <1>2, Speech

\* The duel is declared over.
LEMMA WinSaid ==
  ASSUME TypeOK, TypeOK', Quiet, queue # <<>>, Request.type # "LeaveGame", NEW w \in Seats \cup {None},
         Done(<<DuelEnd(w)>>), Send(ToAll("Win")), UNCHANGED <<clients, players>>
  PROVE  /\ Quiet' /\ Plain /\ \A s \in Seats : Eased(s)
         /\ Request.type \notin Runs => Tokens' = Tokens
<1>1. /\ DuelEnd(w) \in Requests /\ <<DuelEnd(w)>> \in Seq(Requests) /\ Inner(<<DuelEnd(w)>>)
      /\ DuelEnd(w).type \notin Runs \cup {"RecreateDuel", "JudgeContinueMatch"}
  <2>1. DuelEnd(w).type \notin Runs \cup {"RecreateDuel", "JudgeContinueMatch"} \cup CtosTypes
    BY DEF DuelEnd, Runs, CtosTypes
  <2> QED
    BY <2>1, RequestsTyped, Queues, InnerRequests
<1>2. Plain /\ (Request.type \notin Runs => Tokens' = Tokens)
  BY <1>1, PlainDone
<1>3. "Win" \in StocMessages /\ Asks("Win") \notin Talks
  BY TalkKinds DEF StocMessages, Asks
<1>4. ASSUME NEW s \in Seats PROVE Eased(s) /\ Still(s)'
  <2>1. /\ SpeaksTo(<<DuelEnd(w)>>, ToAll("Win"), s) /\ ToAll("Win") \in Boxes
        /\ (Present(s) /\ Told(s, "Win")) \/ (~Present(s) /\ Unasked(s))
    BY <1>1, <1>3, ToldAll
  <2>2. Eased(s)
    BY <2>1, AllEased
  <2>3. Unpressed(s)
    <3>1. CASE Unasked(s)
      BY <3>1 DEF Unasked, Unpressed
    <3>2. CASE Told(s, "Win")
      <4>1. ASSUME NEW x \in Talks PROVE Num(s, x)' = Num(s, x) - Taken({Ctos(x, s)})
        <5>1. Num(s, x)' = Num(s, x) - Taken({Ctos(x, s)}) + 0
          BY <1>3, <3>2 DEF Told
        <5>2. Num(s, x) \in Nat /\ Taken({Ctos(x, s)}) \in 0..1
          BY NumTyped DEF Taken
        <5> QED
          BY <5>1, <5>2
      <4> QED
        BY <4>1 DEF Unpressed
    <3> QED
      BY <2>1, <3>1, <3>2
  <2>4. Request # Ctos("LeaveGame", s)
    BY DEF Ctos
  <2> QED
    BY <1>1, <2>1, <2>2, <2>3, <2>4, StillSpeaks
<1> QED
  BY <1>2, <1>4 DEF Quiet

\* Such handlers.
LEMMA EndingsKept ==
  ASSUME TypeOK, TypeOK', Named, Talking, OnEvolveWin \/ OnSurrender \/ OnTimeout
  PROVE  Talking'
<1>1. CASE OnEvolveWin
  <2>1. PICK w \in Seats \cup {None} : Done(<<DuelEnd(w)>>)
    BY <1>1 DEF OnEvolveWin
  <2>2. /\ queue # <<>> /\ Request.type # "LeaveGame" /\ Send(ToAll("Win")) /\ UNCHANGED <<clients, players>>
        /\ UNCHANGED <<stage, first_attack_player, duel_winner, last_response>>
        /\ core' = [core EXCEPT !.input = FALSE, !.accepted = Accepted]
    BY <1>1 DEF OnEvolveWin, Evolving, Receive, Steady
  <2>3. Quiet' /\ Plain /\ \A s \in Seats : Eased(s)
    BY <2>1, <2>2, WinSaid DEF Talking
  <2>4. core'.started = core.started /\ core'.ended = core.ended /\ ~core'.input
    BY <2>2 DEF TypeOK
  <2> QED
    BY <2>2, <2>3, <2>4, Kept
<1>2. CASE OnSurrender /\ core.ended
  <2>1. Chain(<<>>) /\ queue # <<>> /\ Request.type = "Surrender"
    BY <1>2 DEF OnSurrender, ReceiveFrom, Receive, Ignored
  <2> QED
    BY <2>1, ChainKept DEF Runs
<1>3. CASE OnSurrender /\ ~core.ended
  <2>1. /\ queue # <<>> /\ Request.type = "Surrender" /\ Done(<<DuelEnd(ToCore(Other(Request.from)))>>)
        /\ Send(ToAll("Win")) /\ UNCHANGED <<clients, players>>
        /\ UNCHANGED <<stage, first_attack_player, duel_winner, last_response, core>>
    BY <1>3 DEF OnSurrender, ReceiveFrom, Receive, Steady
  <2>2. Request.from \in Seats
    BY <2>1, RequestTyped, RequestFields DEF CtosTypes
  <2>3. ToCore(Other(Request.from)) \in Seats \cup {None}
    BY <2>2, SeatsTyped
  <2>4. Quiet' /\ Plain /\ (\A s \in Seats : Eased(s)) /\ Tokens' = Tokens
    BY <2>1, <2>3, WinSaid DEF Talking, Runs
  <2> QED
    BY <2>1, <2>4, Kept
<1>4. CASE OnTimeout
  <2>1. /\ queue # <<>> /\ Request.type = "Timeout" /\ Done(<<DuelEnd(ToCore(Other(Request.player)))>>)
        /\ Send(ToAll("Win")) /\ UNCHANGED <<clients, players>> /\ last_response' = None
        /\ UNCHANGED <<stage, first_attack_player, duel_winner, core>>
    BY <1>4 DEF OnTimeout, Receive, Steady
  <2>2. Request.player \in Seats
    BY <2>1, RequestTyped, RequestFields
  <2>3. ToCore(Other(Request.player)) \in Seats \cup {None}
    BY <2>2, SeatsTyped
  <2>4. Quiet' /\ Plain /\ (\A s \in Seats : Eased(s)) /\ Tokens' = Tokens
    BY <2>1, <2>3, WinSaid DEF Talking, Runs
  <2> QED
    BY <2>1, <2>4, Kept
<1> QED
  BY <1>1, <1>2, <1>3, <1>4

\* A duel has ended: one more may follow.
LEMMA DuelEndKept ==
  ASSUME TypeOK, TypeOK', Talking, OnDuelEnd
  PROVE  Talking'
<1> DEFINE r == Ex("GenerateReplay")
           q == Ex("JudgeContinueMatch")
           w == ToSeat(Request.winner)
<1>1. /\ queue # <<>> /\ Request.type = "DuelEnd" /\ Done(<<r, q>>) /\ duel_winner' = Append(duel_winner, w)
      /\ core' = [core EXCEPT !.ended = TRUE, !.ends = @ + 1]
      /\ UNCHANGED <<clients, stoc, stage, players, first_attack_player, last_response>>
  BY DEF OnDuelEnd, Receive, Steady
<1>2. /\ r \in Requests /\ q \in Requests /\ <<r, q>> \in Seq(Requests) /\ Inner(<<r, q>>)
      /\ r.type = "GenerateReplay" /\ q.type = "JudgeContinueMatch"
  <2>1. r.type = "GenerateReplay" /\ q.type = "JudgeContinueMatch"
    BY DEF Ex
  <2>2. r.type \notin CtosTypes /\ q.type \notin CtosTypes
    BY <2>1 DEF CtosTypes
  <2>3. r \in Requests /\ q \in Requests
    BY RequestsTyped DEF ExTypes
  <2> HIDE DEF r, q
  <2> QED
    BY <2>1, <2>2, <2>3, Queues, InnerRequests
<1> HIDE DEF r, q, w
<1>3. /\ \A type : Waiting(type)' = Waiting(type) - Gone(type) + Adds(r, type) + Adds(q, type)
      /\ \A a, b : AheadOf(a, b)' =>
           AheadOf(a, b) \/ (b \in {r.type, q.type} /\ Waiting(a) - Gone(a) > 0) \/ (a = r.type /\ b = q.type)
  BY <1>1, <1>2, AfterTwo
<1>4. \A type : Waiting(type) \in Nat /\ Waiting(type)' \in Nat
  BY WaitingTypedAll
<1>5. ASSUME NEW type \in Runs \cup {"RecreateDuel"} PROVE Waiting(type)' = Waiting(type) /\ Waiting(type)' <= Waiting(type)
  <2>1. Gone(type) = 0 /\ Adds(r, type) = 0 /\ Adds(q, type) = 0
    BY <1>1, <1>2 DEF Gone, Adds, Runs
  <2>2. Waiting(type)' = Waiting(type) - Gone(type) + Adds(r, type) + Adds(q, type) /\ Waiting(type) \in Nat
    BY <1>3, <1>4
  <2> QED
    BY <2>1, <2>2
<1>6. Waiting("JudgeContinueMatch")' = Waiting("JudgeContinueMatch") + 1 /\ Waiting("JudgeContinueMatch") \in Nat
  <2>1. Gone("JudgeContinueMatch") = 0 /\ Adds(r, "JudgeContinueMatch") = 0 /\ Adds(q, "JudgeContinueMatch") = 1
    BY <1>1, <1>2 DEF Gone, Adds
  <2>2. Waiting("JudgeContinueMatch")' = Waiting("JudgeContinueMatch") - Gone("JudgeContinueMatch")
          + Adds(r, "JudgeContinueMatch") + Adds(q, "JudgeContinueMatch") /\ Waiting("JudgeContinueMatch") \in Nat
    BY <1>3, <1>4
  <2> QED
    BY <2>1, <2>2
<1>7. \A a, b : b \in Runs /\ AheadOf(a, b)' => AheadOf(a, b)
  BY <1>2, <1>3 DEF Runs
<1>8. Tokens' = Tokens
  BY <1>5 DEF Tokens, Runs
<1>9. ASSUME NEW s \in Seats PROVE Eased(s) /\ Still(s)'
  <2>1. NoMail
    BY DEF Talking, Quiet, Still, NoMail
  <2>2. Nothing \in Boxes
    BY NewsTyped DEF Nothing, Boxes
  <2>3. SpeaksTo(<<r, q>>, Nothing, s)
    BY <1>1, <2>1, TellsNothing DEF SpeaksTo
  <2>4. Unasked(s)
    BY <1>2, <2>2, <2>3, Speech DEF Nothing, Talking
  <2>5. Unpressed(s)
    BY <2>4 DEF Unasked, Unpressed
  <2>6. Request # Ctos("LeaveGame", s)
    BY <1>1 DEF Ctos
  <2> QED
    BY <1>1, <1>2, <2>2, <2>3, <2>4, <2>5, <2>6, StillSpeaks, AllEased DEF Talking
<1>10. Quiet'
  BY <1>9 DEF Quiet
<1>11. OpenGates'
  BY <1>1 DEF Talking, OpenGates, Present
<1>12. Talk'
  BY <1>1, <1>9, EasedAsked DEF Talking, Talk
<1>13. Rounds'
  <2>1. \A s \in Seats : Decks(s)' <= Decks(s)
    BY <1>1, <1>9, DecksEased, TalkKinds DEF Eased
  <2>2. Waiting("JudgeContinueMatch")' + Len(duel_winner) <= Waiting("JudgeContinueMatch") + Len(duel_winner')
    <3>1. duel_winner \in Seq(Seats \cup {None}) /\ duel_winner' = Append(duel_winner, w)
      BY <1>1 DEF TypeOK
    <3>2. Len(duel_winner') = Len(duel_winner) + 1 /\ Len(duel_winner) \in Nat
      BY <3>1
    <3> QED
      BY <1>6, <3>2
  <2> QED
    BY <1>5, <2>1, <2>2, RoundsKept DEF Talking
<1>14. core'.started = core.started /\ core'.ended /\ core'.input = core.input
  BY <1>1 DEF TypeOK
<1>15. OneRun'
  <2>1. \A s \in Seats : (Waited(s)' => Waited(s)) /\ (players'[s].ready => players[s].ready)
    BY <1>1 DEF Waited
  <2> QED
    BY <1>1, <1>5, <1>7, <1>8, <1>14, <2>1, OneRunKept DEF Talking
<1> QED
  BY <1>10, <1>11, <1>12, <1>13, <1>15 DEF Talking

-----------------------------------------------------------------------------
(* Who attacks first.                                                       *)

\* What is sent to one, or to nobody, when everybody stays where he is.
LEMMA TellsOne ==
  ASSUME TypeOK, Quiet, queue # <<>>, NEW more \in Seq(Requests), Inner(more), Done(more),
         NEW t \in Seats, NEW b \in Seq(StocMessages), Send(ToOne(t, b)), UNCHANGED clients,
         NEW s \in Seats, players'[s].here = players[s].here
  PROVE  /\ SpeaksTo(more, ToOne(t, b), s) /\ ToOne(t, b) \in Boxes
         /\ s # t \/ ~Present(s) => Unasked(s)
         /\ \A m \in StocMessages : s = t /\ Present(s) /\ b = <<m>> => Told(s, m)
         /\ s = t /\ Present(s) /\ b = <<"TimeLimit", "Select">> => Pressed(s)
<1>1. ToOne(t, b) \in Boxes /\ ToOne(t, b)[s] = IF s = t THEN b ELSE <<>>
  BY NewsTyped DEF Boxes, ToOne
<1>2. SpeaksTo(more, ToOne(t, b), s)
  BY TellsAll DEF SpeaksTo
<1> QED
  BY <1>1, <1>2, Speech

\* A handler that sends nothing says nothing.
LEMMA TellsNobody ==
  ASSUME TypeOK, Quiet, queue # <<>>, NEW more \in Seq(Requests), Inner(more), Done(more),
         UNCHANGED <<clients, stoc>>, NEW s \in Seats, players'[s].here = players[s].here
  PROVE  SpeaksTo(more, Nothing, s) /\ Nothing \in Boxes /\ Unasked(s)
<1>1. NoMail
  BY DEF Quiet, Still, NoMail
<1>2. Nothing \in Boxes
  BY NewsTyped DEF Nothing, Boxes
<1>3. SpeaksTo(more, Nothing, s)
  BY <1>1, TellsNothing DEF SpeaksTo
<1> QED
  BY <1>2, <1>3, Speech DEF Nothing

\* An open gate tells the stage.
LEMMA GateTells ==
  ASSUME TypeOK, OpenGates, NEW s \in Seats, Present(s)
  PROVE  /\ players[s].state = "HandResult" => stage = "Finger"
         /\ players[s].state = "TpResult" => stage \in {"Firstgo", "Dueling"}
         /\ players[s].state = "UpdateDeck" => stage = "Siding"
         /\ Waited(s) => stage = "Dueling"
<1>1. players[s].state \in GatesOf[stage] /\ stage \in Stages
  BY DEF OpenGates, TypeOK
<1>2. CASE stage = "Finger"
  BY <1>1, <1>2 DEF GatesOf, Waited
<1>3. CASE stage = "Firstgo"
  BY <1>1, <1>3 DEF GatesOf, Waited
<1>4. CASE stage = "Dueling"
  BY <1>1, <1>4 DEF GatesOf, Waited
<1>5. CASE stage = "Siding"
  BY <1>1, <1>5 DEF GatesOf, Waited
<1> QED
  BY <1>1, <1>2, <1>3, <1>4, <1>5 DEF Stages

\* Who throws a hand has been asked for it in Finger, once, and for nothing else.
LEMMA HandThrown ==
  ASSUME TypeOK, Talking, ReceiveFrom("HandResult")
  PROVE  /\ stage = "Finger" /\ Request.from \in Seats /\ Present(Request.from)
         /\ Request = Ctos("HandResult", Request.from) /\ Inner(<<>>) /\ <<>> \in Seq(Requests) /\ queue # <<>>
         /\ \A s \in Seats, x \in Talks :
              /\ Taken({Ctos(x, s)}) = IF s = Request.from /\ x = "HandResult" THEN 1 ELSE 0
              /\ Num(s, x) \in Nat
              /\ s = Request.from \/ players[s].hand => Num(s, x) - Taken({Ctos(x, s)}) = 0
<1>1. /\ Request.from \in Seats /\ Present(Request.from) /\ players[Request.from].state = "HandResult"
      /\ Request = Ctos("HandResult", Request.from) /\ Num(Request.from, "HandResult") > 0 /\ queue # <<>>
  BY Sender, TalksAreCtos, TalkKinds DEF Talking
<1>2. stage = "Finger"
  BY <1>1, GateTells DEF Talking
<1>3. \A s \in Seats : InFinger(s) /\ Asked(s)
  BY <1>2 DEF Talking, Talk, Asked
<1>4. ASSUME NEW s \in Seats, NEW x \in Talks
      PROVE  /\ Taken({Ctos(x, s)}) = IF s = Request.from /\ x = "HandResult" THEN 1 ELSE 0
             /\ Num(s, x) \in Nat
             /\ s = Request.from \/ players[s].hand => Num(s, x) - Taken({Ctos(x, s)}) = 0
  <2>1. Num(s, x) \in Nat /\ Num(s, "HandResult") \in Nat /\ Num(s, "TpResult") \in Nat /\ Num(s, "Response") \in Nat
    BY NumTyped
  <2>2. Taken({Ctos(x, s)}) = IF s = Request.from /\ x = "HandResult" THEN 1 ELSE 0
    BY <1>1, TakenFrom
  <2>3. x # "HandResult" => Num(s, x) = 0
    BY <1>3, TalkKinds DEF InFinger
  <2>4. Num(s, "HandResult") <= 1
    <3>1. Num(s, "HandResult") + Num(s, "TpResult") + Num(s, "Response") <= 1
      BY <1>3 DEF Asked
    <3> QED
      BY <2>1, <3>1
  <2>5. Num(s, "HandResult") > 0 => ~players[s].hand
    BY <1>3 DEF InFinger
  <2> QED
    BY <1>1, <2>1, <2>2, <2>3, <2>4, <2>5
<1> QED
  BY <1>1, <1>2, <1>4, Queues, InnerRequests

\* One hand is on the table.
LEMMA OneHandKept ==
  ASSUME TypeOK, TypeOK', Talking, OnHandResult,
         players' = [players EXCEPT ![Request.from].hand = Present(Request.from)],
         UNCHANGED <<stage, first_attack_decider, stoc>>
  PROVE  Talking'
<1>1. /\ Done(<<>>) /\ UNCHANGED <<clients, first_attack_player, duel_winner, last_response, core>>
      /\ ReceiveFrom("HandResult")
  BY DEF OnHandResult, Steady
<1>a. PICK f \in Seats : f = Request.from
  BY <1>1, HandThrown
<1>2. /\ stage = "Finger" /\ f \in Seats /\ Present(f) /\ Request = Ctos("HandResult", f)
      /\ Inner(<<>>) /\ <<>> \in Seq(Requests) /\ queue # <<>>
  BY <1>1, <1>a, HandThrown
<1>3. \A s \in Seats : /\ players'[s].here = players[s].here /\ players'[s].state = players[s].state
                       /\ players'[s].ready = players[s].ready /\ (s # f => players'[s] = players[s])
  BY <1>a DEF TypeOK, PlayerRecords
<1>4. ASSUME NEW s \in Seats PROVE SpeaksTo(<<>>, Nothing, s) /\ Nothing \in Boxes /\ Unasked(s)
  BY <1>1, <1>2, <1>3, TellsNobody DEF Talking
<1>5. ASSUME NEW s \in Seats PROVE Still(s)'
  <2>1. Unpressed(s)
    BY <1>4 DEF Unasked, Unpressed
  <2>2. Request # Ctos("LeaveGame", s)
    BY <1>2 DEF Ctos
  <2>3. ~Present(s) => players'[s] = players[s]
    BY <1>2, <1>3
  <2> QED
    BY <1>2, <1>3, <1>4, <2>1, <2>2, <2>3, StillSpeaks DEF Talking
<1>6. OpenGates'
  BY <1>1, <1>3 DEF Talking, OpenGates, Present
<1>7. Talk'
  <2>1. ASSUME NEW s \in Seats, s # f PROVE Asked(s)'
    BY <1>3, <1>4, <2>1, AllEased, EasedAsked DEF Talking, Talk
  <2>2. ASSUME NEW x \in Talks PROVE Num(f, x)' = 0
    <3>1. Num(f, x)' = Num(f, x) - Taken({Ctos(x, f)})
      BY <1>4 DEF Unasked
    <3> QED
      BY <1>1, <1>a, <3>1, HandThrown
  <2>3. Asked(f)'
    BY <1>2, <2>2, UntoldAsked
  <2> QED
    BY <2>1, <2>3 DEF Talk
<1>8. Plain /\ Tokens' = Tokens
  BY <1>1, <1>2, PlainDone DEF Ctos, Runs
<1>9. \A s \in Seats : Decks(s)' <= Decks(s)
  BY <1>3, <1>4, AllEased, DecksEased, TalkKinds DEF Eased
<1>10. Rounds'
  <2>1. Waiting("JudgeContinueMatch") \in Nat /\ Waiting("JudgeContinueMatch")' \in Nat
        /\ Waiting("JudgeContinueMatch")' <= Waiting("JudgeContinueMatch")
    BY <1>8, WaitingTypedAll DEF Plain
  <2>2. duel_winner \in Seq(Seats \cup {None}) /\ duel_winner' = duel_winner
    BY <1>1 DEF TypeOK
  <2>3. Len(duel_winner) \in Nat
    BY <2>2
  <2>4. Waiting("JudgeContinueMatch")' + Len(duel_winner) <= Waiting("JudgeContinueMatch") + Len(duel_winner')
    BY <2>1, <2>2, <2>3
  <2> QED
    BY <1>8, <1>9, <2>4, RoundsKept DEF Talking, Plain
<1>11. OneRun'
  BY <1>1, <1>3, <1>8, OneRunKept DEF Talking, Plain, Waited
<1> QED
  BY <1>5, <1>6, <1>7, <1>10, <1>11 DEF Talking, Quiet

\* Both hands are on the table: nobody is asked for anything else, and everybody is seated.
LEMMA BothHands ==
  ASSUME TypeOK, Talking, ReceiveFrom("HandResult"), \A s \in Seats : s = Request.from \/ players[s].hand
  PROVE  \A s \in Seats : /\ Present(s)
                          /\ \A x \in Talks : Num(s, x) - Taken({Ctos(x, s)}) = 0
<1>1. Request.from \in Seats /\ Present(Request.from)
  BY HandThrown
<1>2. ASSUME NEW s \in Seats, players[s].hand PROVE Present(s)
  <2>1. Still(s)
    BY DEF Talking, Quiet
  <2> QED
    BY <1>2, <2>1 DEF Still, EmptySlot
<1> QED
  BY <1>1, <1>2, HandThrown

\* The same hand twice: both throw again.
LEMMA SameHandKept ==
  ASSUME TypeOK, TypeOK', Talking, ReceiveFrom("HandResult"), Done(<<>>),
         UNCHANGED <<stage, clients, first_attack_player, duel_winner, last_response, core>>,
         \A s \in Seats : s = Request.from \/ players[s].hand,
         \A s \in Seats : /\ players'[s].here = players[s].here /\ players'[s].state = "HandResult"
                          /\ players'[s].ready = players[s].ready /\ ~players'[s].hand,
         Send(ToAll("SelectHand"))
  PROVE  Talking'
<1>1. /\ Done(<<>>) /\ UNCHANGED <<clients, first_attack_player, duel_winner, last_response, core>>
      /\ ReceiveFrom("HandResult")
  OBVIOUS
<1>2. /\ stage = "Finger" /\ Inner(<<>>) /\ <<>> \in Seq(Requests) /\ queue # <<>> /\ Request.type = "HandResult"
      /\ Request.from \in Seats
  BY <1>1, HandThrown DEF ReceiveFrom, Receive
<1>3. \A s \in Seats : /\ Present(s) /\ players'[s].here = players[s].here /\ players'[s].state = "HandResult"
                       /\ players'[s].ready = players[s].ready /\ ~players'[s].hand
  BY <1>1, BothHands
<1>4. "SelectHand" \in StocMessages /\ Asks("SelectHand") = "HandResult"
  BY DEF StocMessages, Asks
<1>5. ASSUME NEW s \in Seats
      PROVE  SpeaksTo(<<>>, ToAll("SelectHand"), s) /\ ToAll("SelectHand") \in Boxes /\ Told(s, "SelectHand")
  BY <1>1, <1>2, <1>3, <1>4, ToldAll DEF Talking
<1>6. ASSUME NEW s \in Seats PROVE Still(s)'
  <2>1. Request # Ctos("LeaveGame", s)
    BY <1>2 DEF Ctos
  <2> QED
    BY <1>2, <1>3, <1>5, <2>1, StillSpeaks DEF Talking
<1>7. ASSUME NEW s \in Seats, NEW x \in Talks PROVE Num(s, x)' = IF x = "HandResult" THEN 1 ELSE 0
  <2>1. Num(s, x)' = Num(s, x) - Taken({Ctos(x, s)}) + (IF x = "HandResult" THEN 1 ELSE 0)
    BY <1>4, <1>5 DEF Told
  <2>2. Num(s, x) - Taken({Ctos(x, s)}) = 0
    BY <1>1, BothHands
  <2> QED
    BY <2>1, <2>2
<1>8. OpenGates'
  BY <1>1, <1>2, <1>3 DEF Talking, OpenGates, GatesOf
<1>9. Talk'
  BY <1>2, <1>3, <1>7, TalkKinds DEF Talk, Asked, InFinger
<1>10. Plain /\ Tokens' = Tokens
  BY <1>1, <1>2, PlainDone DEF Runs
<1>11. \A s \in Seats : Decks(s)' <= Decks(s)
  <2>1. ASSUME NEW s \in Seats PROVE Num(s, "UpdateDeck")' <= Num(s, "UpdateDeck")
    BY <1>7, NumTyped, TalkKinds
  <2> QED
    BY <1>3, <2>1, DecksEased
<1>12. Rounds'
  <2>1. Waiting("JudgeContinueMatch") \in Nat /\ Waiting("JudgeContinueMatch")' \in Nat
        /\ Waiting("JudgeContinueMatch")' <= Waiting("JudgeContinueMatch")
    BY <1>10, WaitingTypedAll DEF Plain
  <2>2. duel_winner \in Seq(Seats \cup {None}) /\ duel_winner' = duel_winner
    BY <1>1 DEF TypeOK
  <2>3. Len(duel_winner) \in Nat
    BY <2>2
  <2>4. Waiting("JudgeContinueMatch")' + Len(duel_winner) <= Waiting("JudgeContinueMatch") + Len(duel_winner')
    BY <2>1, <2>2, <2>3
  <2> QED
    BY <1>10, <1>11, <2>4, RoundsKept DEF Talking, Plain
<1>13. OneRun'
  <2>1. \A s \in Seats : ~Waited(s)'
    BY <1>3 DEF Waited
  <2> QED
    BY <1>1, <1>3, <1>10, <2>1, OneRunKept DEF Talking, Plain
<1> QED
  BY <1>6, <1>8, <1>9, <1>12, <1>13 DEF Talking, Quiet

\* Somebody has won the throw and is asked who attacks first.
LEMMA ThrowWonKept ==
  ASSUME TypeOK, TypeOK', Talking, ReceiveFrom("HandResult"), Done(<<>>), NEW w \in Seats,
         UNCHANGED <<clients, first_attack_player, duel_winner, last_response, core>>, stage' = "Firstgo",
         \A s \in Seats : s = Request.from \/ players[s].hand,
         \A s \in Seats : /\ players'[s].here = players[s].here /\ players'[s].ready = players[s].ready
                          /\ players'[s].state = IF ~Present(s) THEN players[s].state
                                                 ELSE IF s = w THEN "TpResult" ELSE "None",
         Send(ToOne(w, <<"SelectTp">>))
  PROVE  Talking'
<1>1. /\ Done(<<>>) /\ UNCHANGED <<clients, first_attack_player, duel_winner, last_response, core>>
      /\ ReceiveFrom("HandResult")
  OBVIOUS
<1>2. /\ stage = "Finger" /\ Inner(<<>>) /\ <<>> \in Seq(Requests) /\ queue # <<>> /\ Request.type = "HandResult"
      /\ Request.from \in Seats
  BY <1>1, HandThrown DEF ReceiveFrom, Receive
<1>3. \A s \in Seats : /\ Present(s) /\ players'[s].here = players[s].here
                       /\ players'[s].state = IF s = w THEN "TpResult" ELSE "None"
                       /\ players'[s].ready = players[s].ready
  BY <1>1, BothHands
<1>4. "SelectTp" \in StocMessages /\ Asks("SelectTp") = "TpResult" /\ <<"SelectTp">> \in Seq(StocMessages)
  BY DEF StocMessages, Asks
<1>5. ASSUME NEW s \in Seats
      PROVE  /\ SpeaksTo(<<>>, ToOne(w, <<"SelectTp">>), s) /\ ToOne(w, <<"SelectTp">>) \in Boxes
             /\ IF s = w THEN Told(s, "SelectTp") ELSE Unasked(s)
  BY <1>1, <1>2, <1>3, <1>4, TellsOne DEF Talking
<1>6. ASSUME NEW s \in Seats PROVE Still(s)'
  <2>1. Request # Ctos("LeaveGame", s)
    BY <1>2 DEF Ctos
  <2> QED
    BY <1>2, <1>3, <1>5, <2>1, StillSpeaks DEF Talking
<1>7. ASSUME NEW s \in Seats, NEW x \in Talks PROVE Num(s, x)' = IF s = w /\ x = "TpResult" THEN 1 ELSE 0
  <2>1. Num(s, x)' = Num(s, x) - Taken({Ctos(x, s)}) + (IF s = w /\ x = "TpResult" THEN 1 ELSE 0)
    <3>1. CASE s = w
      BY <1>4, <1>5, <3>1 DEF Told
    <3>2. CASE s # w
      <4>1. Num(s, x)' = Num(s, x) - Taken({Ctos(x, s)}) /\ Num(s, x) \in Nat /\ Taken({Ctos(x, s)}) \in 0..1
        BY <1>5, <3>2, NumTyped DEF Unasked, Taken
      <4> QED
        BY <3>2, <4>1
    <3> QED
      BY <3>1, <3>2
  <2>2. Num(s, x) - Taken({Ctos(x, s)}) = 0
    BY <1>1, BothHands
  <2> QED
    BY <2>1, <2>2
<1>8. OpenGates'
  BY <1>1, <1>2, <1>3 DEF Talking, OpenGates, GatesOf
<1>9. Talk'
  BY <1>3, <1>7, TalkKinds DEF Talk, Asked, InFirstgo
<1>10. Plain /\ Tokens' = Tokens
  BY <1>1, <1>2, PlainDone DEF Runs
<1>11. \A s \in Seats : Decks(s)' <= Decks(s)
  <2>1. ASSUME NEW s \in Seats PROVE Num(s, "UpdateDeck")' <= Num(s, "UpdateDeck")
    BY <1>7, NumTyped, TalkKinds
  <2> QED
    BY <1>3, <2>1, DecksEased
<1>12. Rounds'
  <2>1. Waiting("JudgeContinueMatch") \in Nat /\ Waiting("JudgeContinueMatch")' \in Nat
        /\ Waiting("JudgeContinueMatch")' <= Waiting("JudgeContinueMatch")
    BY <1>10, WaitingTypedAll DEF Plain
  <2>2. duel_winner \in Seq(Seats \cup {None}) /\ duel_winner' = duel_winner
    BY <1>1 DEF TypeOK
  <2>3. Len(duel_winner) \in Nat
    BY <2>2
  <2>4. Waiting("JudgeContinueMatch")' + Len(duel_winner) <= Waiting("JudgeContinueMatch") + Len(duel_winner')
    BY <2>1, <2>2, <2>3
  <2> QED
    BY <1>10, <1>11, <2>4, RoundsKept DEF Talking, Plain
<1>13. OneRun'
  <2>1. \A s \in Seats : ~Waited(s)'
    BY <1>3 DEF Waited
  <2>2. Tokens = 0 /\ ~core.started /\ ~core.input
    BY <1>2 DEF Talking, OneRun
  <2>3. Tokens' = 0 /\ \A type \in Runs : Waiting(type) = 0 /\ Waiting(type)' = 0
    <3>1. \A type \in Runs : Waiting(type) = 0
      BY <2>2, TokensSum
    <3>2. ASSUME NEW type \in Runs PROVE Waiting(type)' = 0
      <4>1. Waiting(type)' <= Waiting(type) /\ Waiting(type) = 0 /\ Waiting(type)' \in Nat
        BY <1>10, <3>1, WaitingTypedAll DEF Plain
      <4> QED
        BY <4>1
    <3> QED
      BY <1>10, <2>2, <3>1, <3>2
  <2>4. \A type \in Runs : ~AheadOf("TpResult", type)'
    <3> SUFFICES ASSUME NEW type \in Runs, AheadOf("TpResult", type)' PROVE FALSE
      OBVIOUS
    <3>1. AheadOf("TpResult", type)
      BY <1>10 DEF Plain
    <3>2. Waiting(type) > 0
      BY <3>1, AheadWaits
    <3> QED
      BY <2>3, <3>2
  <2>5. Waiting("DuelInit")' = 0
    BY <2>3 DEF Runs
  <2> QED
    BY <1>1, <2>1, <2>2, <2>3, <2>4, <2>5 DEF OneRun
<1> QED
  BY <1>6, <1>8, <1>9, <1>12, <1>13 DEF Talking, Quiet

\* Whatever hand is thrown.
LEMMA HandKept ==
  ASSUME TypeOK, TypeOK', Talking, OnHandResult
  PROVE  Talking'
<1>1. /\ ReceiveFrom("HandResult") /\ Done(<<>>)
      /\ UNCHANGED <<clients, first_attack_player, duel_winner, last_response, core>>
  BY DEF OnHandResult, Steady
<1>2. Request.from \in Seats /\ players \in [Seats -> PlayerRecords]
  BY <1>1, HandThrown DEF TypeOK
<1> DEFINE shown == [players EXCEPT ![Request.from].hand = Present(Request.from)]
<1>3. \/ players' = shown /\ UNCHANGED <<stage, first_attack_decider, stoc>>
      \/ /\ \A s \in Seats : shown[s].hand
         /\ players' = [s \in Seats |-> [shown[s] EXCEPT !.hand = FALSE, !.state = "HandResult"]]
         /\ Send(ToAll("SelectHand")) /\ stage' = stage
      \/ /\ \A s \in Seats : shown[s].hand
         /\ \E w \in Seats : /\ players' = Deciding(shown, w)
                             /\ stage' = "Firstgo" /\ Send(ToOne(w, <<"SelectTp">>))
  BY DEF OnHandResult
<1>4. shown \in [Seats -> PlayerRecords]
  BY <1>2, SlotUpdates DEF TypeOK, PlayerRecords, Present
<1>5. \A s \in Seats : /\ shown[s].here = players[s].here /\ shown[s].ready = players[s].ready
                       /\ shown[s].state = players[s].state /\ (s = Request.from \/ shown[s].hand = players[s].hand)
  BY <1>2 DEF PlayerRecords
<1>6. CASE players' = shown /\ UNCHANGED <<stage, first_attack_decider, stoc>>
  BY <1>6, OneHandKept
<1> HIDE DEF shown
<1>7. CASE /\ \A s \in Seats : shown[s].hand
           /\ players' = [s \in Seats |-> [shown[s] EXCEPT !.hand = FALSE, !.state = "HandResult"]]
           /\ Send(ToAll("SelectHand")) /\ stage' = stage
  <2>1. \A s \in Seats : /\ players'[s].here = players[s].here /\ players'[s].state = "HandResult"
                         /\ players'[s].ready = players[s].ready /\ ~players'[s].hand
    BY <1>4, <1>5, <1>7 DEF PlayerRecords
  <2>2. \A s \in Seats : s = Request.from \/ players[s].hand
    BY <1>5, <1>7
  <2> QED
    BY <1>1, <1>7, <2>1, <2>2, SameHandKept
<1>8. ASSUME \A s \in Seats : shown[s].hand, NEW w \in Seats, players' = Deciding(shown, w),
             stage' = "Firstgo", Send(ToOne(w, <<"SelectTp">>))
      PROVE  Talking'
  <2>1. ASSUME NEW s \in Seats
        PROVE  /\ players'[s].here = players[s].here /\ players'[s].ready = players[s].ready
               /\ players'[s].state = IF ~Present(s) THEN players[s].state
                                      ELSE IF s = w THEN "TpResult" ELSE "None"
    <3>1. players'[s] = IF shown[s].here THEN [shown[s] EXCEPT !.state = IF s = w THEN "TpResult" ELSE "None"] ELSE shown[s]
      BY <1>8 DEF Deciding
    <3>2. shown[s] \in PlayerRecords
      BY <1>4
    <3> QED
      BY <1>5, <3>1, <3>2 DEF PlayerRecords, Present
  <2>2. \A s \in Seats : s = Request.from \/ players[s].hand
    BY <1>5, <1>8
  <2> QED
    BY <1>1, <1>8, <2>1, <2>2, ThrowWonKept
<1> QED
  BY <1>3, <1>6, <1>7, <1>8

\* Who decides has been asked in Firstgo, alone, and no chain is under way.
LEMMA TpKept ==
  ASSUME TypeOK, TypeOK', Talking, OnTpResult
  PROVE  Talking'
<1>1. /\ ReceiveFrom("TpResult") /\ Done(<<Ex("FirstShuffle"), Ex("DuelInit")>>) /\ stage' = "Dueling"
      /\ UNCHANGED <<players, clients, stoc, duel_winner, last_response, core>>
  BY DEF OnTpResult, Steady
<1>a. /\ Request.from \in Seats /\ Present(Request.from) /\ players[Request.from].state = "TpResult"
      /\ Request = Ctos("TpResult", Request.from) /\ Num(Request.from, "TpResult") > 0 /\ queue # <<>>
      /\ Request.type = "TpResult"
  BY <1>1, Sender, TalksAreCtos, TalkKinds DEF Talking
<1>b. PICK f \in Seats : f = Request.from
  BY <1>a
<1>2. stage = "Firstgo"
  <2>1. stage \in {"Firstgo", "Dueling"}
    BY <1>a, GateTells DEF Talking
  <2>2. stage = "Dueling" => Num(Request.from, "TpResult") = 0
    BY <1>a DEF Talking, Talk, Asked, InDueling
  <2> QED
    BY <1>a, <2>1, <2>2
<1>3. first_attack_player' # None
  <2>1. first_attack_player' \in {f, Other(f)} /\ Other(f) \in Seats
    BY <1>b, SeatsTyped DEF OnTpResult
  <2>2. None \notin Seats
    BY SingleDuelAssumption DEF Seats
  <2> QED
    BY <2>1, <2>2
<1> DEFINE r == Ex("FirstShuffle")
           q == Ex("DuelInit")
<1>4. /\ r \in Requests /\ q \in Requests /\ <<r, q>> \in Seq(Requests) /\ Inner(<<r, q>>)
      /\ r.type = "FirstShuffle" /\ q.type = "DuelInit" /\ Done(<<r, q>>)
  <2>1. r.type = "FirstShuffle" /\ q.type = "DuelInit" /\ Done(<<r, q>>)
    BY <1>1 DEF Ex
  <2>2. r.type \notin CtosTypes /\ q.type \notin CtosTypes
    BY <2>1 DEF CtosTypes
  <2>3. r \in Requests /\ q \in Requests
    BY RequestsTyped DEF ExTypes
  <2> HIDE DEF r, q
  <2> QED
    BY <2>1, <2>2, <2>3, Queues, InnerRequests
<1> HIDE DEF r, q
<1>5. ASSUME NEW s \in Seats PROVE SpeaksTo(<<r, q>>, Nothing, s) /\ Nothing \in Boxes /\ Unasked(s)
  BY <1>1, <1>a, <1>4, TellsNobody DEF Talking
<1>6. ASSUME NEW s \in Seats PROVE Still(s)'
  <2>1. Unpressed(s) /\ Request # Ctos("LeaveGame", s)
    BY <1>5, <1>a DEF Unasked, Unpressed, Ctos
  <2> QED
    BY <1>1, <1>4, <1>5, <2>1, StillSpeaks DEF Talking
<1>7. OpenGates'
  <2>1. \A s \in Seats : Present(s) => players[s].state \in GatesOf["Dueling"]
    BY <1>2 DEF Talking, OpenGates, GatesOf
  <2> QED
    BY <1>1, <1>3, <2>1 DEF Talking, OpenGates, Present
<1>8. Talk'
  <2>1. ASSUME NEW s \in Seats PROVE Asked(s)'
    <3>1. Asked(s) /\ InFirstgo(s)
      BY <1>2 DEF Talking, Talk, Asked
    <3>2. \A x \in Talks : Num(s, x) \in Nat /\ Num(s, x)' \in Nat /\ Num(s, x)' <= Num(s, x)
      BY <1>5, NumTyped, NumTypedNext, AllEased DEF Eased
    <3>3. Num(s, "HandResult")' = 0 /\ Num(s, "Response")' = 0 /\ Num(s, "TimeConfirm")' = 0
      <4>1. ASSUME NEW x \in {"HandResult", "Response", "TimeConfirm"} PROVE Num(s, x)' = 0
        <5>1. Num(s, x) = 0 /\ Num(s, x)' \in Nat /\ Num(s, x)' <= Num(s, x)
          BY <3>1, <3>2, TalkKinds DEF InFirstgo
        <5> QED
          BY <5>1
      <4> QED
        BY <4>1
    <3>4. Num(s, "TpResult")' = 0
      <4>1. Num(s, "TpResult")' = Num(s, "TpResult") - Taken({Ctos("TpResult", s)})
        BY <1>5, TalkKinds DEF Unasked
      <4>2. CASE s = f
        <5>1. Taken({Ctos("TpResult", s)}) = 1
          BY <1>a, <1>b, <4>2 DEF Taken
        <5>2. Num(s, "TpResult") <= 1 /\ Num(s, "TpResult") > 0 /\ Num(s, "TpResult") \in Nat
          <6>1. Num(s, "HandResult") = 0 /\ Num(s, "Response") = 0 /\ Num(s, "TpResult") \in Nat
            BY <3>1, <3>2, TalkKinds DEF InFirstgo
          <6>2. Num(s, "HandResult") + Num(s, "TpResult") + Num(s, "Response") <= 1
            BY <3>1 DEF Asked
          <6> QED
            BY <1>a, <1>b, <4>2, <6>1, <6>2
        <5> QED
          BY <4>1, <5>1, <5>2
      <4>3. CASE s # f
        <5>1. players[s].state # "TpResult"
          BY <1>2, <1>a, <1>b, <4>3 DEF Talking, OpenGates
        <5>2. Num(s, "TpResult") = 0
          <6>1. ~(Num(s, "TpResult") > 0) /\ Num(s, "TpResult") \in Nat
            BY <3>1, <3>2, <5>1, TalkKinds DEF InFirstgo
          <6> QED
            BY <6>1
        <5>3. Num(s, "TpResult")' <= Num(s, "TpResult") /\ Num(s, "TpResult")' \in Nat
          BY <3>2, TalkKinds
        <5> QED
          BY <5>2, <5>3
      <4> QED
        BY <4>2, <4>3
    <3>5. Num(s, "UpdateDeck")' > 0 => players'[s].ready
      <4>1. Num(s, "UpdateDeck")' \in Nat /\ Num(s, "UpdateDeck") \in Nat /\ Num(s, "UpdateDeck")' <= Num(s, "UpdateDeck")
        BY <3>2, TalkKinds
      <4>2. Num(s, "UpdateDeck") > 0 => players[s].ready
        BY <3>1 DEF InFirstgo
      <4> QED
        BY <1>1, <4>1, <4>2
    <3> QED
      BY <1>1, <3>3, <3>4, <3>5 DEF Asked, InDueling
  <2> QED
    BY <2>1 DEF Talk
<1>9. /\ \A type : Waiting(type)' = Waiting(type) - Gone(type) + Adds(r, type) + Adds(q, type)
  BY <1>4, <1>a, AfterTwo
<1>10. \A type : Waiting(type) \in Nat /\ Waiting(type)' \in Nat
  BY WaitingTypedAll
<1>11. ASSUME NEW type \in Runs \cup {"RecreateDuel", "JudgeContinueMatch"}
       PROVE  Waiting(type)' = Waiting(type) + (IF type = "DuelInit" THEN 1 ELSE 0)
  <2>1. Gone(type) = 0 /\ Adds(r, type) = 0 /\ Adds(q, type) = IF type = "DuelInit" THEN 1 ELSE 0
    BY <1>a, <1>4 DEF Gone, Adds, Runs
  <2>2. Waiting(type)' = Waiting(type) - Gone(type) + Adds(r, type) + Adds(q, type) /\ Waiting(type) \in Nat
    BY <1>9, <1>10
  <2> QED
    BY <2>1, <2>2
<1>12. Waiting("DuelInit") = 0 /\ Waiting("DuelStart") = 0 /\ Waiting("Evolve") = 0
  <2>1. \A type \in Runs : ~AheadOf("TpResult", type)
    BY <1>2 DEF Talking, OneRun
  <2>2. \A type \in Runs : type # "TpResult"
    BY DEF Runs
  <2>3. \A type \in Runs : Waiting(type) = 0
    BY <1>a, <2>1, <2>2, WaitingHead
  <2> QED
    BY <2>3 DEF Runs
<1>13. Rounds'
  <2>1. \A s \in Seats : Decks(s)' <= Decks(s)
    BY <1>1, <1>5, AllEased, DecksEased, TalkKinds DEF Eased
  <2>2. Waiting("RecreateDuel")' = Waiting("RecreateDuel") + 0 /\ Waiting("JudgeContinueMatch")' = Waiting("JudgeContinueMatch") + 0
    BY <1>11
  <2>3. Waiting("RecreateDuel")' <= Waiting("RecreateDuel")
    BY <1>10, <2>2
  <2>4. duel_winner \in Seq(Seats \cup {None}) /\ duel_winner' = duel_winner
    BY <1>1 DEF TypeOK
  <2>5. Len(duel_winner) \in Nat /\ Waiting("JudgeContinueMatch") \in Nat
    BY <1>10, <2>4
  <2>6. Waiting("JudgeContinueMatch")' + Len(duel_winner) <= Waiting("JudgeContinueMatch") + Len(duel_winner')
    BY <2>2, <2>4, <2>5
  <2> QED
    BY <2>1, <2>3, <2>6, RoundsKept DEF Talking
<1>14. OneRun'
  <2>1. Tokens' = 1
    <3>1. Waiting("DuelInit")' = 1 /\ Waiting("DuelStart")' = 0 /\ Waiting("Evolve")' = 0
      BY <1>11, <1>12 DEF Runs
    <3> QED
      BY <3>1 DEF Tokens
  <2>2. \A s \in Seats : ~Waited(s)'
    BY <1>1, <1>2 DEF Talking, OneRun, Waited
  <2>3. ~core'.started /\ ~core'.input
    BY <1>1, <1>2 DEF Talking, OneRun
  <2> QED
    BY <1>1, <2>1, <2>2, <2>3 DEF OneRun
<1> QED
  BY <1>6, <1>7, <1>8, <1>13, <1>14 DEF Talking, Quiet

\* What follows is queued behind one that is handled: the chain is no longer.
LEMMA HandsOn ==
  ASSUME TypeOK, TypeOK', queue # <<>>, NEW r \in Requests, Request.type \in Runs, r.type \in Runs, r.type # Request.type,
         Done(<<r>>)
  PROVE  /\ Tokens' = Tokens /\ Tokens > 0 /\ Inner(<<r>>) /\ <<r>> \in Seq(Requests)
         /\ Waiting("RecreateDuel")' = Waiting("RecreateDuel")
         /\ Waiting("JudgeContinueMatch")' = Waiting("JudgeContinueMatch")
         /\ Waiting(Request.type) > 0
         /\ \A type \in Runs : Waiting(type)' = Waiting(type) - Gone(type) + Adds(r, type)
         /\ \A a, b : AheadOf(a, b)' => AheadOf(a, b) \/ b = r.type
<1>1. /\ \A type : Waiting(type)' = Waiting(type) - Gone(type) + Adds(r, type)
      /\ \A a, b : AheadOf(a, b)' => AheadOf(a, b) \/ (b = r.type /\ Waiting(a) - Gone(a) > 0)
  BY AfterOne
<1>2. \A type : Waiting(type) \in Nat /\ Waiting(type)' \in Nat /\ Gone(type) \in 0..1 /\ Gone(type) <= Waiting(type)
  BY WaitingTypedAll, WaitingHead
<1>3. Inner(<<r>>) /\ <<r>> \in Seq(Requests)
  <2>1. r.type \notin CtosTypes
    BY DEF Runs, CtosTypes
  <2> QED
    BY <2>1, Queues, InnerRequests
<1>4. ASSUME NEW type \in {"RecreateDuel", "JudgeContinueMatch"} PROVE Waiting(type)' = Waiting(type)
  <2>1. Gone(type) = 0 /\ Adds(r, type) = 0
    BY DEF Gone, Adds, Runs
  <2>2. Waiting(type)' = Waiting(type) - Gone(type) + Adds(r, type) /\ Waiting(type) \in Nat
    BY <1>1, <1>2
  <2> QED
    BY <2>1, <2>2
<1>5. /\ Waiting("DuelInit")' = Waiting("DuelInit") - Gone("DuelInit") + Adds(r, "DuelInit")
      /\ Waiting("DuelStart")' = Waiting("DuelStart") - Gone("DuelStart") + Adds(r, "DuelStart")
      /\ Waiting("Evolve")' = Waiting("Evolve") - Gone("Evolve") + Adds(r, "Evolve")
      /\ Waiting("DuelInit") \in Nat /\ Waiting("DuelStart") \in Nat /\ Waiting("Evolve") \in Nat
      /\ Gone("DuelInit") <= Waiting("DuelInit") /\ Gone("DuelStart") <= Waiting("DuelStart") /\ Gone("Evolve") <= Waiting("Evolve")
      /\ Gone("DuelInit") \in 0..1 /\ Gone("DuelStart") \in 0..1 /\ Gone("Evolve") \in 0..1
  BY <1>1, <1>2
<1>6. /\ Gone("DuelInit") + Gone("DuelStart") + Gone("Evolve") = 1
      /\ Adds(r, "DuelInit") + Adds(r, "DuelStart") + Adds(r, "Evolve") = 1
      /\ Adds(r, "DuelInit") \in 0..1 /\ Adds(r, "DuelStart") \in 0..1 /\ Adds(r, "Evolve") \in 0..1
  BY DEF Gone, Adds, Runs
<1>7. /\ Tokens = Waiting("DuelInit") + Waiting("DuelStart") + Waiting("Evolve")
      /\ Tokens' = Waiting("DuelInit")' + Waiting("DuelStart")' + Waiting("Evolve")'
  BY DEF Tokens
<1>8. Tokens' = Tokens /\ Tokens > 0
  <2>1. /\ Tokens = Waiting("DuelInit") + Waiting("DuelStart") + Waiting("Evolve")
        /\ Waiting("DuelInit") + Waiting("DuelStart") + Waiting("Evolve")
             >= Gone("DuelInit") + Gone("DuelStart") + Gone("Evolve")
    BY <1>5, <1>7
  <2>2. Tokens > 0
    BY <1>5, <1>6, <2>1
  <2>3. /\ Waiting("DuelInit")' = Waiting("DuelInit") - Gone("DuelInit") + Adds(r, "DuelInit")
        /\ Waiting("DuelStart")' = Waiting("DuelStart") - Gone("DuelStart") + Adds(r, "DuelStart")
        /\ Waiting("Evolve")' = Waiting("Evolve") - Gone("Evolve") + Adds(r, "Evolve")
    BY <1>5
  <2>4. /\ Waiting("DuelInit") \in Int /\ Waiting("DuelStart") \in Int /\ Waiting("Evolve") \in Int
        /\ Gone("DuelInit") \in Int /\ Gone("DuelStart") \in Int /\ Gone("Evolve") \in Int
        /\ Adds(r, "DuelInit") \in Int /\ Adds(r, "DuelStart") \in Int /\ Adds(r, "Evolve") \in Int
    BY <1>5, <1>6
  <2>5. Waiting("DuelInit")' + Waiting("DuelStart")' + Waiting("Evolve")'
          = Waiting("DuelInit") + Waiting("DuelStart") + Waiting("Evolve")
    <3>1. Waiting("DuelInit")' + Waiting("DuelStart")' + Waiting("Evolve")'
            = (Waiting("DuelInit") - Gone("DuelInit") + Adds(r, "DuelInit"))
                + (Waiting("DuelStart") - Gone("DuelStart") + Adds(r, "DuelStart"))
                + (Waiting("Evolve") - Gone("Evolve") + Adds(r, "Evolve"))
      BY <2>3
    <3>2. /\ Gone("DuelInit") + Gone("DuelStart") + Gone("Evolve") = 1
          /\ Adds(r, "DuelInit") + Adds(r, "DuelStart") + Adds(r, "Evolve") = 1
      BY <1>6
    <3> DEFINE a == Waiting("DuelInit")
               b == Waiting("DuelStart")
               c == Waiting("Evolve")
               g == Gone("DuelInit")
               h == Gone("DuelStart")
               i == Gone("Evolve")
               x == Adds(r, "DuelInit")
               y == Adds(r, "DuelStart")
               z == Adds(r, "Evolve")
    <3>3. a \in Int /\ b \in Int /\ c \in Int /\ g \in Int /\ h \in Int /\ i \in Int /\ x \in Int /\ y \in Int /\ z \in Int
      BY <2>4
    <3>4. g + h + i = 1 /\ x + y + z = 1
      BY <3>2
    <3>5. (a - g + x) + (b - h + y) + (c - i + z) = a + b + c
      <4> HIDE DEF a, b, c, g, h, i, x, y, z
      <4> QED
        BY <3>3, <3>4
    <3> QED
      BY <3>1, <3>5
  <2> QED
    BY <2>2, <2>5, <1>7
<1>9. Waiting(Request.type) > 0
  <2>1. Gone(Request.type) = 1 /\ Gone(Request.type) <= Waiting(Request.type) /\ Waiting(Request.type) \in Nat
    BY <1>2 DEF Gone
  <2> QED
    BY <2>1
<1> QED
  BY <1>1, <1>3, <1>4, <1>8, <1>9

-----------------------------------------------------------------------------
(* The duel starts, and the engine runs.                                    *)

\* No round is added.
LEMMA RoundsStay ==
  ASSUME TypeOK, TypeOK', Rounds, duel_winner' = duel_winner, \A s \in Seats : Decks(s)' <= Decks(s),
         \A type \in {"RecreateDuel", "JudgeContinueMatch"} : Waiting(type)' <= Waiting(type)
  PROVE  Rounds'
<1>1. Waiting("JudgeContinueMatch") \in Nat /\ Waiting("JudgeContinueMatch")' \in Nat
      /\ Waiting("JudgeContinueMatch")' <= Waiting("JudgeContinueMatch")
  BY WaitingTypedAll
<1>2. duel_winner \in Seq(Seats \cup {None})
  BY DEF TypeOK
<1>3. Len(duel_winner) \in Nat
  BY <1>2
<1>4. Waiting("JudgeContinueMatch")' + Len(duel_winner) <= Waiting("JudgeContinueMatch") + Len(duel_winner')
  BY <1>1, <1>3
<1> QED
  BY <1>4, RoundsKept

\* The table is set while one chain runs and nobody is asked by the engine.
LEMMA DuelInitKept ==
  ASSUME TypeOK, TypeOK', Talking, OnDuelInit
  PROVE  Talking'
<1> DEFINE r == Ex("DuelStart")
<1>1. /\ queue # <<>> /\ Request.type = "DuelInit" /\ Done(<<r>>) /\ r \in Requests /\ r.type = "DuelStart"
      /\ UNCHANGED <<clients, stoc, stage, players, first_attack_player, duel_winner, last_response>>
  <2>1. r \in Requests /\ r.type = "DuelStart"
    BY RequestsTyped DEF ExTypes, Ex
  <2> QED
    BY <2>1 DEF OnDuelInit, Receive, Steady
<1>2. core'.started = core.started /\ core'.ended = core.ended /\ core'.input = core.input
  <2>1. core' = [core EXCEPT !.loaded = Loaded, !.first = FirstAttacker] /\ core \in CoreRecords
    BY TypeFolded DEF OnDuelInit, Typed
  <2> QED
    BY <2>1 DEF CoreRecords
<1> HIDE DEF r
<1>3. /\ Tokens' = Tokens /\ Tokens > 0 /\ Inner(<<r>>) /\ <<r>> \in Seq(Requests)
      /\ Waiting("RecreateDuel")' = Waiting("RecreateDuel")
      /\ Waiting("JudgeContinueMatch")' = Waiting("JudgeContinueMatch")
      /\ Waiting(Request.type) > 0
      /\ \A type \in Runs : Waiting(type)' = Waiting(type) - Gone(type) + Adds(r, type)
  BY <1>1, HandsOn DEF Runs
<1>4. ASSUME NEW s \in Seats PROVE SpeaksTo(<<r>>, Nothing, s) /\ Nothing \in Boxes /\ Unasked(s)
  BY <1>1, <1>3, TellsNobody DEF Talking
<1>5. ASSUME NEW s \in Seats PROVE Still(s)'
  <2>1. Unpressed(s) /\ Request # Ctos("LeaveGame", s)
    BY <1>1, <1>4 DEF Unasked, Unpressed, Ctos
  <2> QED
    BY <1>1, <1>3, <1>4, <2>1, StillSpeaks DEF Talking
<1>6. OpenGates'
  BY <1>1 DEF Talking, OpenGates, Present
<1>7. Talk'
  BY <1>1, <1>4, AllEased, EasedAsked DEF Talking, Talk
<1>8. Rounds'
  <2>1. \A s \in Seats : Decks(s)' <= Decks(s)
    BY <1>1, <1>4, AllEased, DecksEased, TalkKinds DEF Eased
  <2>2. \A type \in {"RecreateDuel", "JudgeContinueMatch"} : Waiting(type)' <= Waiting(type)
    BY <1>3, WaitingTypedAll
  <2> QED
    BY <1>1, <2>1, <2>2, RoundsStay DEF Talking
<1>9. OneRun'
  <2>1. Tokens = 1 /\ Tokens' = 1
    BY <1>3, TokensSum DEF Talking, OneRun
  <2>2. ~core.started /\ ~core.input /\ \A s \in Seats : ~Waited(s)
    BY <1>1, <1>3, <2>1 DEF Talking, OneRun
  <2>3. stage \notin {"Finger", "Firstgo"}
    BY <1>1, <1>3, <2>1 DEF Talking, OneRun
  <2>4. Waiting("DuelInit")' = 0
    <3>1. Waiting("DuelInit") \in Nat /\ Waiting("DuelInit") <= 1 /\ Waiting("DuelInit") > 0
      BY <1>1, <1>3, <2>1, TokensSum, WaitingTypedAll DEF Runs
    <3>2. Waiting("DuelInit")' = Waiting("DuelInit") - 1 + 0
      <4>1. Gone("DuelInit") = 1 /\ Adds(r, "DuelInit") = 0
        BY <1>1 DEF Gone, Adds
      <4> QED
        BY <1>3, <4>1 DEF Runs
    <3> QED
      BY <3>1, <3>2
  <2>5. \A s \in Seats : ~Waited(s)'
    BY <1>1, <2>2 DEF Waited
  <2> QED
    BY <1>1, <1>2, <2>1, <2>2, <2>3, <2>4, <2>5 DEF OneRun
<1> QED
  BY <1>5, <1>6, <1>7, <1>8, <1>9 DEF Talking, Quiet

\* The duel starts with the chain at its last link.
LEMMA DuelStartKept ==
  ASSUME TypeOK, TypeOK', Talking, OnDuelStart
  PROVE  Talking'
<1> DEFINE r == Ex("Evolve")
<1>1. /\ queue # <<>> /\ Request.type = "DuelStart" /\ Done(<<r>>) /\ r \in Requests /\ r.type = "Evolve"
      /\ UNCHANGED <<clients, stage, players, first_attack_player, duel_winner, last_response>>
      /\ first_attack_player # None /\ Send(ToAll("Start"))
  <2>1. r \in Requests /\ r.type = "Evolve"
    BY RequestsTyped DEF ExTypes, Ex
  <2> QED
    BY <2>1 DEF OnDuelStart, Receive, Steady
<1>2. core'.ended = core.ended /\ core'.input = core.input
  <2>1. core' = [core EXCEPT !.started = ~core.ended] /\ core \in CoreRecords
    BY TypeFolded DEF OnDuelStart, Typed
  <2> QED
    BY <2>1 DEF CoreRecords
<1> HIDE DEF r
<1>3. /\ Tokens' = Tokens /\ Tokens > 0 /\ Inner(<<r>>) /\ <<r>> \in Seq(Requests)
      /\ Waiting("RecreateDuel")' = Waiting("RecreateDuel")
      /\ Waiting("JudgeContinueMatch")' = Waiting("JudgeContinueMatch")
      /\ Waiting(Request.type) > 0
      /\ \A type \in Runs : Waiting(type)' = Waiting(type) - Gone(type) + Adds(r, type)
  BY <1>1, HandsOn DEF Runs
<1>m. "Start" \in StocMessages
  BY DEF StocMessages
<1>4. ASSUME NEW s \in Seats
      PROVE  SpeaksTo(<<r>>, ToAll("Start"), s) /\ ToAll("Start") \in Boxes /\ Eased(s) /\ Unpressed(s)
  <2>1. /\ SpeaksTo(<<r>>, ToAll("Start"), s) /\ ToAll("Start") \in Boxes
        /\ (Present(s) /\ Told(s, "Start")) \/ (~Present(s) /\ Unasked(s))
    BY <1>1, <1>3, <1>m, ToldAll DEF Talking
  <2>2. CASE Told(s, "Start")
    <3>1. Eased(s)
      BY <2>2, AllEased
    <3>2. ASSUME NEW x \in Talks PROVE Num(s, x)' = Num(s, x) - Taken({Ctos(x, s)})
      <4>1. Num(s, x)' = Num(s, x) - Taken({Ctos(x, s)}) + (IF Asks("Start") = x THEN 1 ELSE 0)
        BY <2>2 DEF Told
      <4>2. Asks("Start") # x
        BY TalkKinds DEF Asks
      <4>3. Num(s, x) \in Nat /\ Taken({Ctos(x, s)}) \in 0..1
        BY NumTyped DEF Taken
      <4> QED
        BY <4>1, <4>2, <4>3
    <3> QED
      BY <2>1, <3>1, <3>2 DEF Unpressed
  <2>3. CASE Unasked(s)
    BY <2>1, <2>3, AllEased DEF Unasked, Unpressed
  <2> QED
    BY <2>1, <2>2, <2>3
<1>5. ASSUME NEW s \in Seats PROVE Still(s)'
  <2>1. Request # Ctos("LeaveGame", s)
    BY <1>1 DEF Ctos
  <2> QED
    BY <1>1, <1>3, <1>4, <2>1, StillSpeaks DEF Talking
<1>6. OpenGates'
  BY <1>1 DEF Talking, OpenGates, Present
<1>7. Talk'
  BY <1>1, <1>4, EasedAsked DEF Talking, Talk
<1>8. Rounds'
  <2>1. \A s \in Seats : Decks(s)' <= Decks(s)
    BY <1>1, <1>4, DecksEased, TalkKinds DEF Eased
  <2>2. \A type \in {"RecreateDuel", "JudgeContinueMatch"} : Waiting(type)' <= Waiting(type)
    BY <1>3, WaitingTypedAll
  <2> QED
    BY <1>1, <2>1, <2>2, RoundsStay DEF Talking
<1>9. OneRun'
  <2>1. Tokens = 1 /\ Tokens' = 1 /\ stage = "Dueling"
    BY <1>1, <1>3, TokensSum DEF Talking, OneRun, OpenGates
  <2>2. ~core.started /\ ~core.input /\ \A s \in Seats : ~Waited(s)
    BY <1>1, <1>3, <2>1 DEF Talking, OneRun
  <2>3. Waiting("DuelInit")' = 0 /\ Waiting("DuelStart")' = 0
    <3>1. /\ Waiting("DuelInit") \in Nat /\ Waiting("DuelStart") \in Nat /\ Waiting("Evolve") \in Nat
          /\ Waiting("DuelStart") > 0
      BY <1>1, <1>3, WaitingTypedAll
    <3>2. Waiting("DuelInit") + Waiting("DuelStart") + Waiting("Evolve") = 1
      BY <2>1 DEF Tokens
    <3>3. Waiting("DuelInit")' = Waiting("DuelInit") - 0 + 0 /\ Waiting("DuelStart")' = Waiting("DuelStart") - 1 + 0
      <4>1. /\ Gone("DuelInit") = 0 /\ Adds(r, "DuelInit") = 0
            /\ Gone("DuelStart") = 1 /\ Adds(r, "DuelStart") = 0
        BY <1>1 DEF Gone, Adds
      <4> QED
        BY <1>3, <4>1 DEF Runs
    <3> QED
      BY <3>1, <3>2, <3>3
  <2>5. \A s \in Seats : ~Waited(s)'
    BY <1>1, <2>2 DEF Waited
  <2> QED
    BY <1>1, <1>2, <2>1, <2>2, <2>3, <2>5 DEF OneRun
<1> QED
  BY <1>5, <1>6, <1>7, <1>8, <1>9 DEF Talking, Quiet

\* Whom the engine is about to ask, nobody has been asked by it and not answered.
LEMMA NobodyAsked ==
  ASSUME TypeOK, Talking, Evolving
  PROVE  /\ queue # <<>> /\ Request.type = "Evolve" /\ stage = "Dueling" /\ Tokens = 1
         /\ \A s \in Seats, x \in Talks : Taken({Ctos(x, s)}) = 0
         /\ \A s \in Seats : /\ ~Waited(s)
                             /\ \A x \in Duelling \cup {"TimeConfirm"} : Num(s, x) = 0
<1>1. queue # <<>> /\ Request.type = "Evolve" /\ core.started
  BY DEF Evolving, Receive
<1>2. Tokens = 1 /\ stage = "Dueling"
  <2>1. Gone("Evolve") = 1 /\ Gone("Evolve") <= Waiting("Evolve") /\ Waiting("Evolve") \in Nat
    BY <1>1, WaitingHead DEF Gone
  <2>2. Waiting("Evolve") <= Tokens /\ Tokens \in Nat /\ Tokens <= 1
    BY TokensSum DEF Runs, Talking, OneRun
  <2> QED
    BY <1>1, <2>1, <2>2 DEF Talking, OneRun
<1>3. \A s \in Seats : ~Waited(s)
  BY <1>2 DEF Talking, OneRun
<1>4. \A s \in Seats, x \in Talks : Taken({Ctos(x, s)}) = 0
  BY <1>1, TakenInner, TalksAreCtos DEF CtosTypes
<1>5. ASSUME NEW s \in Seats, NEW x \in Duelling \cup {"TimeConfirm"} PROVE Num(s, x) = 0
  <2>1. InDueling(s)
    BY <1>2 DEF Talking, Talk, Asked
  <2>2. Num(s, x) \in Nat
    BY NumTyped
  <2>3. ~(Num(s, x) > 0)
    <3>1. Num(s, "HandResult") = 0 /\ Num(s, "TpResult") = 0
      BY <2>1 DEF InDueling
    <3>2. ~(Num(s, "Response") > 0) /\ ~(Num(s, "TimeConfirm") > 0)
      BY <1>3, <2>1 DEF InDueling, Waited
    <3> QED
      BY <3>1, <3>2, TalkKinds
  <2> QED
    BY <2>2, <2>3
<1> QED
  BY <1>1, <1>2, <1>3, <1>4, <1>5

\* The engine asks somebody.
LEMMA QuestionKept ==
  ASSUME TypeOK, TypeOK', Talking, Evolving, Done(<<>>), NEW s \in Seats, SetWaiting(s),
         UNCHANGED <<clients, stage, first_attack_player, duel_winner>>,
         core'.started = core.started, ~core'.input
  PROVE  Talking'
<1> DEFINE b == IF Timed THEN <<"TimeLimit", "Select">> ELSE <<"Select">>
<1>1. /\ queue # <<>> /\ Request.type = "Evolve" /\ stage = "Dueling" /\ Tokens = 1
      /\ \A t \in Seats, x \in Talks : Taken({Ctos(x, t)}) = 0
      /\ \A t \in Seats : /\ ~Waited(t)
                          /\ \A x \in Duelling \cup {"TimeConfirm"} : Num(t, x) = 0
  BY NobodyAsked
<1>2. /\ UNCHANGED <<clients, stage, first_attack_player, duel_winner>>
      /\ Inner(<<>>) /\ <<>> \in Seq(Requests) /\ Done(<<>>) /\ core.started
  BY InnerRequests, Queues DEF Evolving
<1>3. b \in Seq(StocMessages) /\ Send(ToOne(s, b)) /\ last_response' = s
  <2>1. <<"TimeLimit", "Select">> \in Seq(StocMessages) /\ <<"Select">> \in Seq(StocMessages)
    BY DEF StocMessages
  <2> QED
    BY <2>1 DEF SetWaiting
<1>4. ASSUME NEW t \in Seats
      PROVE  /\ players'[t].here = players[t].here /\ players'[t].ready = players[t].ready
             /\ t # s \/ ~Present(s) => players'[t] = players[t]
             /\ t = s /\ Present(s) => players'[t].state = IF Timed THEN "TimeConfirm" ELSE "Response"
  <2>1. players' = IF Present(s)
                   THEN [players EXCEPT ![s].state = IF Timed THEN "TimeConfirm" ELSE "Response"]
                   ELSE players
    BY DEF SetWaiting
  <2>2. players \in [Seats -> PlayerRecords]
    BY DEF TypeOK
  <2> QED
    BY <2>1, <2>2 DEF PlayerRecords
<1> HIDE DEF b
<1>5. ASSUME NEW t \in Seats
      PROVE  /\ SpeaksTo(<<>>, ToOne(s, b), t) /\ ToOne(s, b) \in Boxes
             /\ t # s \/ ~Present(s) => Unasked(t)
             /\ t = s /\ Present(s) => IF Timed THEN Pressed(t) ELSE Told(t, "Select")
  <2>1. /\ SpeaksTo(<<>>, ToOne(s, b), t) /\ ToOne(s, b) \in Boxes
        /\ t # s \/ ~Present(t) => Unasked(t)
        /\ \A m \in StocMessages : t = s /\ Present(t) /\ b = <<m>> => Told(t, m)
        /\ t = s /\ Present(t) /\ b = <<"TimeLimit", "Select">> => Pressed(t)
    BY <1>1, <1>2, <1>3, <1>4, TellsOne DEF Talking
  <2>2. "Select" \in StocMessages /\ b = IF Timed THEN <<"TimeLimit", "Select">> ELSE <<"Select">>
    BY DEF StocMessages, b
  <2> QED
    BY <2>1, <2>2
<1>6. ASSUME NEW t \in Seats PROVE Still(t)'
  <2>1. Request # Ctos("LeaveGame", t)
    BY <1>1 DEF Ctos
  <2>2. players'[t].state = "Any" => players[t].state = "Any" /\ Unpressed(t)
    BY <1>4, <1>5 DEF Unasked, Unpressed
  <2>3. ~Present(t) => players'[t] = players[t]
    BY <1>4
  <2> QED
    BY <1>2, <1>5, <2>1, <2>2, <2>3, StillSpeaks DEF Talking
<1>7. OpenGates'
  <2>1. \A t \in Seats : players'[t].here => players'[t].state \in GatesOf["Dueling"]
    BY <1>1, <1>4 DEF Talking, OpenGates, GatesOf, Present
  <2>2. \A t \in Seats : players'[t].state = "TimeConfirm" => Timed
    BY <1>4 DEF Talking, OpenGates
  <2> QED
    BY <1>1, <1>2, <2>1, <2>2 DEF Talking, OpenGates, Present
<1>8. ASSUME NEW t \in Seats PROVE Num(t, "UpdateDeck")' <= Num(t, "UpdateDeck") /\ Num(t, "UpdateDeck") \in Nat
  <2>1. Num(t, "UpdateDeck") \in Nat /\ Taken({Ctos("UpdateDeck", t)}) = 0
    BY <1>1, NumTyped, TalkKinds
  <2>2. CASE Unasked(t)
    BY <2>1, <2>2, AllEased, TalkKinds DEF Eased
  <2>3. CASE Pressed(t)
    <3>1. Num(t, "UpdateDeck")' = Num(t, "UpdateDeck") - Taken({Ctos("UpdateDeck", t)}) + 0
      BY <2>3, TalkKinds DEF Pressed
    <3> QED
      BY <2>1, <3>1
  <2>4. CASE Told(t, "Select")
    <3>1. Num(t, "UpdateDeck")' = Num(t, "UpdateDeck") - Taken({Ctos("UpdateDeck", t)}) + 0
      BY <2>4, TalkKinds DEF Told, Asks
    <3> QED
      BY <2>1, <3>1
  <2> QED
    BY <1>5, <2>2, <2>3, <2>4
<1>9. Talk'
  <2>1. ASSUME NEW t \in Seats PROVE Asked(t)'
    <3>0. Asked(t) /\ InDueling(t)
      BY <1>1 DEF Talking, Talk, Asked
    <3>1. CASE t # s \/ ~Present(s)
      BY <1>2, <1>4, <1>5, <3>0, <3>1, AllEased, EasedAsked
    <3>2. CASE t = s /\ Present(s)
      <4>1. ASSUME NEW x \in {"HandResult", "TpResult", "Response", "TimeConfirm"}
            PROVE  Num(t, x)' = IF x = "Response" \/ (x = "TimeConfirm" /\ Timed) THEN 1 ELSE 0
        <5>1. Num(t, x) = 0 /\ Taken({Ctos(x, t)}) = 0 /\ x \in Talks
          BY <1>1, TalkKinds
        <5>2. CASE Timed
          <6>1. Num(t, x)' = Num(t, x) - Taken({Ctos(x, t)}) + (IF x \in {"TimeConfirm", "Response"} THEN 1 ELSE 0)
            BY <1>5, <3>2, <5>1, <5>2 DEF Pressed
          <6> QED
            BY <5>1, <5>2, <6>1
        <5>3. CASE ~Timed
          <6>1. Num(t, x)' = Num(t, x) - Taken({Ctos(x, t)}) + (IF Asks("Select") = x THEN 1 ELSE 0)
            BY <1>5, <3>2, <5>1, <5>3 DEF Told
          <6>2. Asks("Select") = "Response"
            BY DEF Asks
          <6> QED
            BY <5>1, <5>3, <6>1, <6>2
        <5> QED
          BY <5>2, <5>3
      <4>2. Num(t, "UpdateDeck")' > 0 => players'[t].ready
        <5>1. Num(t, "UpdateDeck") > 0 => players[t].ready
          BY <3>0 DEF InDueling
        <5>2. Num(t, "UpdateDeck")' <= Num(t, "UpdateDeck") /\ Num(t, "UpdateDeck") \in Nat /\ Num(t, "UpdateDeck")' \in Nat
          BY <1>8, NumTypedNext
        <5> QED
          BY <1>4, <5>1, <5>2
      <4>3. /\ Num(t, "HandResult")' = 0 /\ Num(t, "TpResult")' = 0 /\ Num(t, "Response")' = 1
            /\ Num(t, "TimeConfirm")' = IF Timed THEN 1 ELSE 0
        BY <4>1
      <4>4. Waited(t)' /\ (Timed => players'[t].state = "TimeConfirm")
        BY <1>4, <3>2 DEF Waited
      <4>5. InDueling(t)'
        BY <4>2, <4>3, <4>4 DEF InDueling
      <4> QED
        BY <1>1, <1>2, <4>3, <4>5 DEF Asked
    <3> QED
      BY <3>1, <3>2
  <2> QED
    BY <2>1 DEF Talk
<1>10. Plain /\ Tokens' = 0
  <2>1. Plain /\ Tokens' = Tokens - 1
    BY <1>1, <1>2, PlainDone DEF Runs
  <2> QED
    BY <1>1, <2>1
<1>11. Rounds'
  <2>1. \A t \in Seats : Decks(t)' <= Decks(t)
    BY <1>4, <1>8, DecksEased
  <2> QED
    BY <1>2, <1>10, <2>1, RoundsStay DEF Talking, Plain
<1>12. OneRun'
  <2>1. \A t \in Seats : Waited(t)' => t = s
    BY <1>1, <1>4 DEF Waited
  <2>2. Waiting("DuelInit")' = 0 /\ Waiting("DuelStart")' = 0
    <3>1. Waiting("DuelInit") = 0 /\ Waiting("DuelStart") = 0
      BY <1>2 DEF Talking, OneRun
    <3>2. /\ Waiting("DuelInit")' <= Waiting("DuelInit") /\ Waiting("DuelStart")' <= Waiting("DuelStart")
          /\ Waiting("DuelInit")' \in Nat /\ Waiting("DuelStart")' \in Nat
      BY <1>10, WaitingTypedAll DEF Plain, Runs
    <3> QED
      BY <3>1, <3>2
  <2> QED
    BY <1>1, <1>2, <1>3, <1>10, <2>1, <2>2 DEF OneRun
<1> QED
  BY <1>6, <1>7, <1>9, <1>11, <1>12 DEF Talking, Quiet

\* Whether it asks anew or once more.
LEMMA EvolveKept ==
  ASSUME TypeOK, TypeOK', Talking, OnEvolveSelect \/ OnEvolveRetry
  PROVE  Talking'
<1>1. /\ Evolving /\ Done(<<>>) /\ core \in CoreRecords
      /\ UNCHANGED <<clients, stage, first_attack_player, duel_winner>>
  BY TypeFolded DEF OnEvolveSelect, OnEvolveRetry, Steady, Typed
<1>2. core'.started = core.started /\ core'.ended = core.ended /\ ~core'.input
  BY <1>1 DEF OnEvolveSelect, OnEvolveRetry, CoreRecords
<1>3. CASE \E s \in Seats : SetWaiting(s)
  BY <1>1, <1>2, <1>3, QuestionKept
<1>4. CASE UNCHANGED <<players, last_response, stoc>>
  <2>1. /\ queue # <<>> /\ Request.type = "Evolve"
        /\ Inner(<<>>) /\ <<>> \in Seq(Requests)
    BY <1>1, NobodyAsked, InnerRequests, Queues
  <2>2. ASSUME NEW s \in Seats PROVE SpeaksTo(<<>>, Nothing, s) /\ Nothing \in Boxes /\ Unasked(s)
    BY <1>1, <1>4, <2>1, TellsNobody DEF Talking
  <2>3. ASSUME NEW s \in Seats PROVE Still(s)'
    <3>1. Unpressed(s) /\ Request # Ctos("LeaveGame", s)
      BY <2>1, <2>2 DEF Unasked, Unpressed, Ctos
    <3> QED
      BY <1>4, <2>1, <2>2, <3>1, StillSpeaks DEF Talking
  <2>4. Plain
    BY <1>1, <2>1, PlainDone
  <2>5. \A s \in Seats : Eased(s)
    BY <2>2, AllEased
  <2> QED
    BY <1>1, <1>2, <1>4, <2>3, <2>4, <2>5, Kept DEF Quiet
<1>5. (\E s \in Seats : SetWaiting(s)) \/ UNCHANGED <<players, last_response, stoc>>
  <2>1. last_response \in Seats \cup {None}
    BY DEF TypeOK
  <2> QED
    BY <2>1 DEF OnEvolveSelect, OnEvolveRetry
<1> QED
  BY <1>3, <1>4, <1>5

\* A chain is started by something that is not part of one.
LEMMA StartsOn ==
  ASSUME TypeOK, TypeOK', queue # <<>>, NEW r \in Requests, Request.type \notin Runs \cup {"RecreateDuel", "JudgeContinueMatch"},
         r.type \in Runs, Done(<<r>>)
  PROVE  /\ Inner(<<r>>) /\ <<r>> \in Seq(Requests) /\ Tokens' = Tokens + 1
         /\ \A type \in Runs \cup {"RecreateDuel", "JudgeContinueMatch"} : Waiting(type)' = Waiting(type) + Adds(r, type)
<1>1. \A type : Waiting(type)' = Waiting(type) - Gone(type) + Adds(r, type)
  BY AfterOne
<1>2. Inner(<<r>>) /\ <<r>> \in Seq(Requests)
  <2>1. r.type \notin CtosTypes
    BY DEF Runs, CtosTypes
  <2> QED
    BY <2>1, Queues, InnerRequests
<1>3. ASSUME NEW type \in Runs \cup {"RecreateDuel", "JudgeContinueMatch"} PROVE Waiting(type)' = Waiting(type) + Adds(r, type)
  <2>1. Gone(type) = 0 /\ Waiting(type) \in Nat /\ Adds(r, type) \in 0..1
    BY WaitingTypedAll DEF Gone, Adds
  <2>2. Waiting(type)' = Waiting(type) - Gone(type) + Adds(r, type)
    BY <1>1
  <2> QED
    BY <2>1, <2>2
<1>4. /\ Waiting("DuelInit")' = Waiting("DuelInit") + Adds(r, "DuelInit")
      /\ Waiting("DuelStart")' = Waiting("DuelStart") + Adds(r, "DuelStart")
      /\ Waiting("Evolve")' = Waiting("Evolve") + Adds(r, "Evolve")
      /\ Waiting("DuelInit") \in Nat /\ Waiting("DuelStart") \in Nat /\ Waiting("Evolve") \in Nat
  BY <1>3, WaitingTypedAll DEF Runs
<1>5. /\ Adds(r, "DuelInit") + Adds(r, "DuelStart") + Adds(r, "Evolve") = 1
      /\ Adds(r, "DuelInit") \in 0..1 /\ Adds(r, "DuelStart") \in 0..1 /\ Adds(r, "Evolve") \in 0..1
  BY DEF Adds, Runs
<1>6. /\ Tokens = Waiting("DuelInit") + Waiting("DuelStart") + Waiting("Evolve")
      /\ Tokens' = Waiting("DuelInit")' + Waiting("DuelStart")' + Waiting("Evolve")'
  BY DEF Tokens
<1>7. Tokens' = Tokens + 1
  BY <1>4, <1>5, <1>6
<1> QED
  BY <1>2, <1>3, <1>7

\* Who answers the engine or confirms its time has been asked, and nobody else is.
LEMMA AnswerSent ==
  ASSUME TypeOK, Talking, NEW x \in {"Response", "TimeConfirm"}, ReceiveFrom(x)
  PROVE  /\ queue # <<>> /\ Request.type = x /\ Request.from \in Seats /\ Request = Ctos(x, Request.from)
         /\ Present(Request.from) /\ players[Request.from].state = x
         /\ stage = "Dueling" /\ core.started /\ Tokens = 0 /\ last_response \in {Request.from, None}
         /\ \A s \in Seats : Waited(s) => s = Request.from
         /\ Num(Request.from, x) - 1 = 0
         /\ x = "Response" => Num(Request.from, "TimeConfirm") = 0
<1>1. PICK f \in Seats : f = Request.from
  BY Sender, TalkKinds, TalksAreCtos DEF Talking
<1>2. /\ queue # <<>> /\ Request.type = x /\ Request = Ctos(x, f) /\ Present(f) /\ players[f].state = x
      /\ Num(f, x) > 0
  BY <1>1, Sender, TalkKinds, TalksAreCtos DEF Talking
<1>3. Waited(f)
  BY <1>2 DEF Waited
<1>4. stage = "Dueling" /\ core.started /\ Tokens = 0 /\ last_response \in {f, None} /\ \A s \in Seats : Waited(s) => s = f
  BY <1>3 DEF Talking, OneRun
<1>5. Asked(f) /\ InDueling(f)
  BY <1>4 DEF Talking, Talk, Asked
<1>6. Num(f, x) <= 1 /\ Num(f, x) \in Nat
  <2>1. \A y \in {"HandResult", "TpResult", "Response", "TimeConfirm"} : Num(f, y) \in Nat
    BY NumTyped, TalkKinds
  <2>2. Num(f, "HandResult") + Num(f, "TpResult") + Num(f, "Response") <= 1 /\ Num(f, "TimeConfirm") <= 1
    BY <1>5 DEF Asked
  <2>3. /\ Num(f, "HandResult") \in Nat /\ Num(f, "TpResult") \in Nat /\ Num(f, "Response") \in Nat
        /\ Num(f, "TimeConfirm") \in Nat
    BY <2>1
  <2>4. Num(f, "Response") <= 1
    BY <2>2, <2>3
  <2> QED
    BY <2>2, <2>3, <2>4
<1>7. x = "Response" => Num(f, "TimeConfirm") = 0
  <2>1. x = "Response" => ~(Num(f, "TimeConfirm") > 0)
    BY <1>2, <1>5 DEF InDueling
  <2>2. Num(f, "TimeConfirm") \in Nat
    BY NumTyped
  <2> QED
    BY <2>1, <2>2
<1> QED
  BY <1>1, <1>2, <1>4, <1>6, <1>7

\* The gate of whoever has answered moves on, or closes.
LEMMA AnsweredAsked ==
  ASSUME TypeOK, TypeOK', Talking, NEW x \in {"Response", "TimeConfirm"}, ReceiveFrom(x),
         NEW f \in Seats, f = Request.from, Unasked(f), stage' = stage, players'[f].ready = players[f].ready,
         x = "TimeConfirm" => players'[f].state = "Response"
  PROVE  Asked(f)'
<1>1. /\ Request = Ctos(x, f) /\ stage = "Dueling" /\ Num(f, x) - 1 = 0
      /\ x = "Response" => Num(f, "TimeConfirm") = 0
  BY AnswerSent
<1>2. Asked(f) /\ InDueling(f)
  BY <1>1 DEF Talking, Talk, Asked
<1>3. ASSUME NEW y \in Talks
      PROVE  /\ Num(f, y)' \in Nat /\ Num(f, y) \in Nat
             /\ Num(f, y)' = IF y = x THEN 0 ELSE Num(f, y)
  <2>1. Num(f, y)' = Num(f, y) - Taken({Ctos(y, f)}) /\ Num(f, y) \in Nat
    BY NumTyped DEF Unasked
  <2>2. Taken({Ctos(y, f)}) = IF y = x THEN 1 ELSE 0
    BY <1>1, TakenFrom
  <2>3. CASE y = x
    BY <1>1, <2>1, <2>2, <2>3
  <2>4. CASE y # x
    BY <2>1, <2>2, <2>4
  <2> QED
    BY <2>3, <2>4
<1>4. Num(f, "HandResult") = 0 /\ Num(f, "TpResult") = 0 /\ Num(f, "TimeConfirm") <= 1
  BY <1>2 DEF Asked, InDueling
<1>5. Num(f, "HandResult")' = 0 /\ Num(f, "TpResult")' = 0 /\ Num(f, "TimeConfirm")' = 0
      /\ (x = "Response" => Num(f, "Response")' = 0) /\ Num(f, "Response")' <= Num(f, "Response")
      /\ Num(f, "Response") \in Nat /\ Num(f, "Response")' \in Nat /\ Num(f, "UpdateDeck")' = Num(f, "UpdateDeck")
  <2>1. Num(f, "TimeConfirm")' = 0
    BY <1>1, <1>3, TalkKinds
  <2>2. Num(f, "HandResult")' = 0 /\ Num(f, "TpResult")' = 0 /\ Num(f, "UpdateDeck")' = Num(f, "UpdateDeck")
    BY <1>3, <1>4, TalkKinds
  <2>3. /\ (x = "Response" => Num(f, "Response")' = 0)
        /\ (x # "Response" => Num(f, "Response")' = Num(f, "Response"))
        /\ Num(f, "Response") \in Nat /\ Num(f, "Response")' \in Nat
    BY <1>3, TalkKinds
  <2> QED
    BY <2>1, <2>2, <2>3
<1>6. Num(f, "Response")' <= 1
  <2>1. Num(f, "HandResult") + Num(f, "TpResult") + Num(f, "Response") <= 1
    BY <1>2 DEF Asked
  <2> QED
    BY <1>4, <1>5, <2>1
<1>7. InDueling(f)'
  <2>1. Num(f, "Response")' > 0 => Waited(f)'
    BY <1>5 DEF Waited
  <2>2. Num(f, "UpdateDeck")' > 0 => players'[f].ready
    BY <1>2, <1>5 DEF InDueling
  <2> QED
    BY <1>5, <2>1, <2>2 DEF InDueling
<1>8. Num(f, "HandResult")' + Num(f, "TpResult")' + Num(f, "Response")' <= 1
  BY <1>5, <1>6
<1> QED
  BY <1>1, <1>5, <1>7, <1>8 DEF Asked

\* An answer is handed to the engine.
LEMMA ResponseKept ==
  ASSUME TypeOK, TypeOK', Talking, OnResponse
  PROVE  Talking'
<1>1. ReceiveFrom("Response")
  BY DEF OnResponse
<1>2. PICK f \in Seats : f = Request.from
  BY <1>1, AnswerSent
<1>3. /\ queue # <<>> /\ Request.type = "Response" /\ Request = Ctos("Response", f)
      /\ Present(f) /\ players[f].state = "Response" /\ stage = "Dueling" /\ core.started /\ Tokens = 0
      /\ \A s \in Seats : Waited(s) => s = f
  BY <1>1, <1>2, AnswerSent
<1>4. CASE core.ended
  <2>1. Chain(<<>>)
    BY <1>4 DEF OnResponse, Ignored
  <2> QED
    BY <1>3, <2>1, ChainKept DEF Runs
<1>5. CASE ~core.ended
  <2> DEFINE r == Ex("Evolve")
  <2>1. /\ Done(<<r>>) /\ r \in Requests /\ r.type = "Evolve"
        /\ UNCHANGED <<clients, stoc, stage, first_attack_player, duel_winner, last_response>>
    <3>1. r \in Requests /\ r.type = "Evolve"
      BY RequestsTyped DEF ExTypes, Ex
    <3> QED
      BY <1>5, <3>1 DEF OnResponse, Steady
  <2>2. core'.started = core.started /\ core'.ended = core.ended
    <3>1. core' = [core EXCEPT !.input = TRUE] /\ core \in CoreRecords
      BY <1>5, TypeFolded DEF OnResponse, Typed
    <3> QED
      BY <3>1 DEF CoreRecords
  <2>3. ASSUME NEW s \in Seats
        PROVE  /\ players'[s].here = players[s].here /\ players'[s].ready = players[s].ready
               /\ s # f => players'[s] = players[s]
               /\ s = f => players'[s].state = "None"
    <3>1. players' = [players EXCEPT ![f].state = "None"] /\ players \in [Seats -> PlayerRecords]
      BY <1>2, <1>3, <1>5 DEF OnResponse, Closed, TypeOK
    <3> QED
      BY <3>1 DEF PlayerRecords
  <2> HIDE DEF r
  <2>4. /\ Inner(<<r>>) /\ <<r>> \in Seq(Requests) /\ Tokens' = 1
        /\ \A type \in Runs \cup {"RecreateDuel", "JudgeContinueMatch"} : Waiting(type)' = Waiting(type) + Adds(r, type)
    <3>1. Request.type \notin Runs \cup {"RecreateDuel", "JudgeContinueMatch"} /\ r.type \in Runs
      BY <1>3, <2>1 DEF Runs
    <3>2. /\ Inner(<<r>>) /\ <<r>> \in Seq(Requests) /\ Tokens' = Tokens + 1
          /\ \A type \in Runs \cup {"RecreateDuel", "JudgeContinueMatch"} : Waiting(type)' = Waiting(type) + Adds(r, type)
      BY <1>3, <2>1, <3>1, StartsOn
    <3> QED
      BY <1>3, <3>2
  <2>5. ASSUME NEW s \in Seats PROVE SpeaksTo(<<r>>, Nothing, s) /\ Nothing \in Boxes /\ Unasked(s)
    BY <1>3, <2>1, <2>3, <2>4, TellsNobody DEF Talking
  <2>6. ASSUME NEW s \in Seats PROVE Still(s)'
    <3>1. Unpressed(s) /\ Request # Ctos("LeaveGame", s)
      BY <1>3, <2>5 DEF Unasked, Unpressed, Ctos
    <3>2. ~Present(s) => players'[s] = players[s]
      BY <1>3, <2>3
    <3>3. players'[s].state = "Any" => players[s].state = "Any"
      BY <2>3
    <3> QED
      BY <1>3, <2>4, <2>5, <3>1, <3>2, <3>3, StillSpeaks DEF Talking
  <2>7. OpenGates'
    <3>1. \A t \in Seats : players'[t].here => players'[t].state \in GatesOf["Dueling"]
      BY <1>3, <2>3 DEF Talking, OpenGates, GatesOf, Present
    <3>2. \A t \in Seats : players'[t].state = "TimeConfirm" => Timed
      BY <2>3 DEF Talking, OpenGates
    <3> QED
      BY <1>3, <2>1, <3>1, <3>2 DEF Talking, OpenGates, Present
  <2>8. Talk'
    <3>1. ASSUME NEW s \in Seats PROVE Asked(s)'
      <4>1. CASE s = f
        BY <1>1, <1>2, <2>1, <2>3, <2>5, <4>1, AnsweredAsked
      <4>2. CASE s # f
        BY <2>1, <2>3, <2>5, <4>2, AllEased, EasedAsked DEF Talking, Talk
      <4> QED
        BY <4>1, <4>2
    <3> QED
      BY <3>1 DEF Talk
  <2>9. Rounds'
    <3>1. \A s \in Seats : Decks(s)' <= Decks(s)
      BY <2>3, <2>5, AllEased, DecksEased, TalkKinds DEF Eased
    <3>2. ASSUME NEW type \in {"RecreateDuel", "JudgeContinueMatch"} PROVE Waiting(type)' <= Waiting(type)
      <4>1. Adds(r, type) = 0 /\ Waiting(type) \in Nat /\ Waiting(type)' = Waiting(type) + Adds(r, type)
        BY <2>1, <2>4, WaitingTypedAll DEF Adds
      <4> QED
        BY <4>1
    <3> QED
      BY <2>1, <3>1, <3>2, RoundsStay DEF Talking
  <2>10. OneRun'
    <3>1. \A s \in Seats : ~Waited(s)'
      BY <1>3, <2>3 DEF Waited
    <3>2. Waiting("DuelInit")' = 0 /\ Waiting("DuelStart")' = 0
      <4>1. Waiting("DuelInit") = 0 /\ Waiting("DuelStart") = 0
        BY <1>3 DEF Talking, OneRun
      <4>2. Adds(r, "DuelInit") = 0 /\ Adds(r, "DuelStart") = 0
        BY <2>1 DEF Adds
      <4> QED
        BY <2>4, <4>1, <4>2 DEF Runs
    <3> QED
      BY <1>3, <2>1, <2>2, <2>4, <3>1, <3>2 DEF OneRun
  <2> QED
    BY <2>6, <2>7, <2>8, <2>9, <2>10 DEF Talking, Quiet
<1> QED
  BY <1>4, <1>5

\* A time is confirmed.
LEMMA TimeConfirmKept ==
  ASSUME TypeOK, TypeOK', Talking, OnTimeConfirm
  PROVE  Talking'
<1>1. ReceiveFrom("TimeConfirm")
  BY DEF OnTimeConfirm
<1>2. PICK f \in Seats : f = Request.from
  BY <1>1, AnswerSent
<1>3. /\ queue # <<>> /\ Request.type = "TimeConfirm" /\ Request = Ctos("TimeConfirm", f)
      /\ Present(f) /\ players[f].state = "TimeConfirm" /\ stage = "Dueling" /\ core.started /\ Tokens = 0
      /\ \A s \in Seats : Waited(s) => s = f
  BY <1>1, <1>2, AnswerSent
<1>4. CASE Chain(<<>>)
  BY <1>3, <1>4, ChainKept DEF Runs
<1>5. CASE ~Chain(<<>>)
  <2>1. /\ Done(<<>>) /\ players' = [players EXCEPT ![f].state = "Response"]
        /\ UNCHANGED <<clients, stoc, stage, first_attack_player, duel_winner, last_response, core>>
    BY <1>2, <1>5 DEF OnTimeConfirm, Steady, Ignored
  <2>3. ASSUME NEW s \in Seats
        PROVE  /\ players'[s].here = players[s].here /\ players'[s].ready = players[s].ready
               /\ s # f => players'[s] = players[s]
               /\ s = f => players'[s].state = "Response"
    <3>1. players \in [Seats -> PlayerRecords]
      BY DEF TypeOK
    <3> QED
      BY <2>1, <3>1 DEF PlayerRecords
  <2>4. Inner(<<>>) /\ <<>> \in Seq(Requests)
    BY InnerRequests, Queues
  <2>5. ASSUME NEW s \in Seats PROVE SpeaksTo(<<>>, Nothing, s) /\ Nothing \in Boxes /\ Unasked(s)
    BY <1>3, <2>1, <2>3, <2>4, TellsNobody DEF Talking
  <2>6. ASSUME NEW s \in Seats PROVE Still(s)'
    <3>1. Unpressed(s) /\ Request # Ctos("LeaveGame", s)
      BY <1>3, <2>5 DEF Unasked, Unpressed, Ctos
    <3>2. ~Present(s) => players'[s] = players[s]
      BY <1>3, <2>3
    <3>3. players'[s].state = "Any" => players[s].state = "Any"
      BY <2>3
    <3> QED
      BY <1>3, <2>4, <2>5, <3>1, <3>2, <3>3, StillSpeaks DEF Talking
  <2>7. OpenGates'
    <3>1. \A t \in Seats : players'[t].here => players'[t].state \in GatesOf["Dueling"]
      BY <1>3, <2>3 DEF Talking, OpenGates, GatesOf, Present
    <3>2. \A t \in Seats : players'[t].state = "TimeConfirm" => Timed
      BY <2>3 DEF Talking, OpenGates
    <3> QED
      BY <1>3, <2>1, <3>1, <3>2 DEF Talking, OpenGates, Present
  <2>8. Talk'
    <3>1. ASSUME NEW s \in Seats PROVE Asked(s)'
      <4>1. CASE s = f
        BY <1>1, <1>2, <2>1, <2>3, <2>5, <4>1, AnsweredAsked
      <4>2. CASE s # f
        BY <2>1, <2>3, <2>5, <4>2, AllEased, EasedAsked DEF Talking, Talk
      <4> QED
        BY <4>1, <4>2
    <3> QED
      BY <3>1 DEF Talk
  <2>9. Plain /\ Tokens' = Tokens
    BY <1>3, <2>1, PlainDone DEF Runs
  <2>10. Rounds'
    <3>1. \A s \in Seats : Decks(s)' <= Decks(s)
      BY <2>3, <2>5, AllEased, DecksEased, TalkKinds DEF Eased
    <3> QED
      BY <2>1, <2>9, <3>1, RoundsStay DEF Talking, Plain
  <2>11. OneRun'
    <3>1. \A s \in Seats : (Waited(s)' => Waited(s)) /\ (players'[s].ready => players[s].ready)
      BY <1>3, <2>3 DEF Waited
    <3> QED
      BY <2>1, <2>9, <3>1, OneRunKept DEF Talking, Plain
  <2> QED
    BY <2>6, <2>7, <2>8, <2>10, <2>11 DEF Talking, Quiet
<1> QED
  BY <1>4, <1>5

-----------------------------------------------------------------------------
(* One more duel.                                                           *)

\* The match goes on: a duel that has ended makes room for one siding.
LEMMA JudgeKept ==
  ASSUME TypeOK, TypeOK', Talking, OnJudgeContinueMatch, ~MustEnd
  PROVE  Talking'
<1> DEFINE r == Ex("RecreateDuel")
<1>1. /\ queue # <<>> /\ Request.type = "JudgeContinueMatch" /\ Chain(<<r>>) /\ Done(<<r>>)
      /\ r \in Requests /\ r.type = "RecreateDuel" /\ UNCHANGED <<duel, clients, stoc>>
  <2>1. r \in Requests /\ r.type = "RecreateDuel"
    BY RequestsTyped DEF ExTypes, Ex
  <2> QED
    BY <2>1 DEF OnJudgeContinueMatch, Receive, Chain, outside
<1> HIDE DEF r
<1>2. Inner(<<r>>) /\ <<r>> \in Seq(Requests)
  <2>1. r.type \notin CtosTypes
    BY <1>1 DEF CtosTypes
  <2> QED
    BY <1>1, <2>1, Queues, InnerRequests
<1>3. /\ \A type : Waiting(type)' = Waiting(type) - Gone(type) + Adds(r, type)
      /\ \A a, b : AheadOf(a, b)' => AheadOf(a, b) \/ (b = r.type /\ Waiting(a) - Gone(a) > 0)
  BY <1>1, AfterOne
<1>4. ASSUME NEW s \in Seats PROVE Unasked(s) /\ Still(s)'
  <2>1. Request # Ctos("LeaveGame", s)
    BY <1>1 DEF Ctos
  <2> QED
    BY <1>1, <1>2, <2>1, ChainSays DEF Talking
<1>5. ASSUME NEW type \in Runs PROVE Waiting(type)' = Waiting(type)
  <2>1. Gone(type) = 0 /\ Adds(r, type) = 0 /\ Waiting(type) \in Nat
    BY <1>1, WaitingTypedAll DEF Gone, Adds, Runs
  <2>2. Waiting(type)' = Waiting(type) - Gone(type) + Adds(r, type)
    BY <1>3
  <2> QED
    BY <2>1, <2>2
<1>6. UNCHANGED <<stage, players, first_attack_player, last_response, duel_winner, core>>
  BY <1>1 DEF duel
<1>7. OpenGates'
  BY <1>6 DEF Talking, OpenGates, Present
<1>8. Talk'
  BY <1>4, <1>6, AllEased, EasedAsked DEF Talking, Talk
<1>9. Rounds'
  <2>1. Len(duel_winner) <= 2
    <3>1. ~(Len(duel_winner) >= EndCount)
      BY DEF MustEnd, Decided
    <3>2. EndCount \in {1, 3}
      BY DEF EndCount
    <3>3. duel_winner \in Seq(Seats \cup {None})
      BY DEF TypeOK
    <3>4. Len(duel_winner) \in Nat
      BY <3>3
    <3> QED
      BY <3>1, <3>2, <3>4
  <2>2. duel_winner \in Seq(Seats \cup {None}) /\ duel_winner' = duel_winner
    BY <1>6 DEF TypeOK
  <2>3. Len(duel_winner) \in Nat
    BY <2>2
  <2>4. /\ Waiting("RecreateDuel")' = Waiting("RecreateDuel") - 0 + 1
        /\ Waiting("JudgeContinueMatch")' = Waiting("JudgeContinueMatch") - 1 + 0
        /\ Waiting("RecreateDuel") \in Nat /\ Waiting("JudgeContinueMatch") \in Nat
        /\ Waiting("JudgeContinueMatch") >= 1
    <3>1. /\ Gone("RecreateDuel") = 0 /\ Adds(r, "RecreateDuel") = 1
          /\ Gone("JudgeContinueMatch") = 1 /\ Adds(r, "JudgeContinueMatch") = 0
      BY <1>1 DEF Gone, Adds
    <3>2. Waiting("JudgeContinueMatch") \in Nat /\ Gone("JudgeContinueMatch") <= Waiting("JudgeContinueMatch")
      BY <1>1, WaitingHead
    <3> QED
      BY <1>3, <3>1, <3>2, WaitingTypedAll
  <2>5. ASSUME NEW s \in Seats
        PROVE  /\ Decks(s)' + Waiting("RecreateDuel")' <= 2
               /\ Decks(s)' + Waiting("RecreateDuel")' + Waiting("JudgeContinueMatch")' <= Len(duel_winner')
    <3>1. Decks(s)' <= Decks(s)
      BY <1>4, <1>6, AllEased, DecksEased, TalkKinds DEF Eased
    <3>2. Decks(s) \in Nat /\ Decks(s)' \in Nat
      BY DecksTyped
    <3>3. Decks(s) + Waiting("RecreateDuel") + Waiting("JudgeContinueMatch") <= Len(duel_winner)
      BY DEF Talking, Rounds
    <3> QED
      BY <2>1, <2>2, <2>3, <2>4, <3>1, <3>2, <3>3
  <2> QED
    BY <2>5 DEF Rounds
<1>10. OneRun'
  <2>1. Tokens' = Tokens
    BY <1>5 DEF Tokens, Runs
  <2>2. \A a, b : b \in Runs /\ AheadOf(a, b)' => AheadOf(a, b)
    BY <1>1, <1>3 DEF Runs
  <2>3. \A type \in Runs : Waiting(type)' <= Waiting(type)
    BY <1>5, WaitingTypedAll
  <2>4. \A s \in Seats : (Waited(s)' => Waited(s)) /\ (players'[s].ready => players[s].ready)
    BY <1>6 DEF Waited
  <2> QED
    BY <1>6, <2>1, <2>2, <2>3, <2>4, OneRunKept DEF Talking
<1> QED
  BY <1>4, <1>7, <1>8, <1>9, <1>10 DEF Talking, Quiet

\* Nobody in an empty seat is asked for anything.
LEMMA NobodyThere ==
  ASSUME TypeOK, NEW s \in Seats, Still(s), ~Present(s), NEW x \in Talks
  PROVE  Num(s, x) = 0
<1>1. clients[s] = NoClient /\ stoc[s] = <<>> /\ Mine(s) = 0
  BY DEF Still
<1>2. Sent(s, x) = 0
  <2>1. Sent(s, x) <= Mine(s) /\ Sent(s, x) \in Nat
    BY SentIsMine, TalksAreCtos, NumTyped
  <2> QED
    BY <1>1, <2>1
<1>3. Owing(s, x) = 0
  BY <1>1, TalkKinds DEF Owing, NoClient
<1>4. Coming(s, x) = 0
  BY <1>1, WhatIsSaid DEF Coming
<1> QED
  BY <1>2, <1>3, <1>4 DEF Num

\* While a siding is due, nobody who is ready has been asked for a deck before.
LEMMA DeckOnce ==
  ASSUME TypeOK, Talking, Waiting("RecreateDuel") > 0, NEW s \in Seats
  PROVE  /\ players[s].ready => Num(s, "UpdateDeck") = 0
         /\ stage = "Dueling" => Num(s, "UpdateDeck") = 0
         /\ \A x \in Talks \ {"UpdateDeck"} : ~Before(s, "UpdateDeck", x)
<1>1. Num(s, "UpdateDeck") \in Nat
  BY NumTyped
<1>2. players[s].ready => Num(s, "UpdateDeck") = 0
  <2> SUFFICES ASSUME players[s].ready, Num(s, "UpdateDeck") > 0 PROVE FALSE
    BY <1>1
  <2>1. Decks(s) = Num(s, "UpdateDeck") + 1
    BY DEF Decks
  <2>2. Decks(s) + Waiting("RecreateDuel") <= 2
    BY DEF Talking, Rounds
  <2>3. Waiting("RecreateDuel") \in Nat
    BY WaitingTypedAll
  <2> QED
    BY <1>1, <2>1, <2>2, <2>3
<1>3. stage \in {"Firstgo", "Dueling"} => Num(s, "UpdateDeck") = 0
  <2>1. stage \in {"Firstgo", "Dueling"} /\ Num(s, "UpdateDeck") > 0 => players[s].ready
    BY DEF Talking, Talk, Asked, InFirstgo, InDueling
  <2> QED
    BY <1>1, <1>2, <2>1
<1>4. ASSUME NEW x \in Talks \ {"UpdateDeck"} PROVE ~Before(s, "UpdateDeck", x)
  <2>1. CASE Num(s, "UpdateDeck") = 0
    BY <2>1, UnderWay
  <2>2. CASE Num(s, "UpdateDeck") # 0
    <3>1. ~players[s].ready /\ stage \notin {"Firstgo", "Dueling"}
      BY <1>2, <1>3, <2>2
    <3>2. stage # "Finger"
      BY <2>2 DEF Talking, Talk, Asked, InFinger
    <3>3. stage = "Siding"
      BY <3>1, <3>2 DEF TypeOK, Stages
    <3> QED
      BY <3>1, <3>3 DEF Talking, Talk, Asked, InSiding
  <2> QED
    BY <2>1, <2>2
<1> QED
  BY <1>2, <1>3, <1>4

\* Who is told to side is asked for a deck, behind everything it has been asked for.
LEMMA SidingAsked ==
  ASSUME TypeOK, TypeOK', NEW s \in Seats, Asked(s), Told(s, "ChangeSide"), stage' = "Siding", ~players'[s].ready,
         \A x \in Talks \ {"UpdateDeck"} : ~Before(s, "UpdateDeck", x)
  PROVE  /\ Asked(s)'
         /\ Num(s, "UpdateDeck")' <= Num(s, "UpdateDeck") + 1
<1>1. Asks("ChangeSide") = "UpdateDeck" /\ "ChangeSide" \in StocMessages
  BY DEF Asks, StocMessages
<1>2. ASSUME NEW x \in Talks
      PROVE  /\ Num(s, x)' \in Nat /\ Num(s, x) \in Nat
             /\ Num(s, x)' <= Num(s, x) + (IF x = "UpdateDeck" THEN 1 ELSE 0)
  <2>1. Num(s, x)' = Num(s, x) - Taken({Ctos(x, s)}) + (IF Asks("ChangeSide") = x THEN 1 ELSE 0)
    BY DEF Told
  <2>2. Num(s, x) \in Nat /\ Num(s, x)' \in Nat /\ Taken({Ctos(x, s)}) \in 0..1
    BY NumTyped, NumTypedNext DEF Taken
  <2>3. CASE x = "UpdateDeck"
    BY <1>1, <2>1, <2>2, <2>3
  <2>4. CASE x # "UpdateDeck"
    BY <1>1, <2>1, <2>2, <2>4
  <2> QED
    BY <2>3, <2>4
<1>3. ASSUME NEW x \in {"HandResult", "TpResult", "Response", "TimeConfirm"}
      PROVE  Num(s, x)' <= Num(s, x) /\ Num(s, x)' \in Nat /\ Num(s, x) \in Nat
  <2>1. x \in Talks /\ x # "UpdateDeck"
    BY TalkKinds
  <2>2. Num(s, x)' <= Num(s, x) + 0 /\ Num(s, x)' \in Nat /\ Num(s, x) \in Nat
    BY <1>2, <2>1
  <2> QED
    BY <2>2
<1>4. Num(s, "HandResult")' + Num(s, "TpResult")' + Num(s, "Response")' <= 1 /\ Num(s, "TimeConfirm")' <= 1
  <2>1. Num(s, "HandResult") + Num(s, "TpResult") + Num(s, "Response") <= 1 /\ Num(s, "TimeConfirm") <= 1
    BY DEF Asked
  <2>2. /\ Num(s, "HandResult")' <= Num(s, "HandResult") /\ Num(s, "TpResult")' <= Num(s, "TpResult")
        /\ Num(s, "Response")' <= Num(s, "Response") /\ Num(s, "TimeConfirm")' <= Num(s, "TimeConfirm")
        /\ Num(s, "HandResult") \in Nat /\ Num(s, "TpResult") \in Nat /\ Num(s, "Response") \in Nat
        /\ Num(s, "TimeConfirm") \in Nat
        /\ Num(s, "HandResult")' \in Nat /\ Num(s, "TpResult")' \in Nat /\ Num(s, "Response")' \in Nat
        /\ Num(s, "TimeConfirm")' \in Nat
    BY <1>3
  <2> QED
    BY <2>1, <2>2
<1>5. \A x \in Talks \ {"UpdateDeck"} : ~Before(s, "UpdateDeck", x)'
  BY <1>1, TalkKinds DEF Told
<1>6. ASSUME NEW x \in Duelling PROVE ~Lasting(s, x)'
  <2>1. x \in Talks /\ x # "UpdateDeck" /\ "UpdateDeck" \in Owable \ {x}
    BY TalkKinds
  <2>2. "ChangeSide" \in Spoils(x)
    BY <1>1, <2>1 DEF Spoils
  <2> QED
    BY <1>1, <2>1, <2>2 DEF Told
<1>7. InSiding(s)'
  BY <1>5, <1>6 DEF InSiding
<1>8. Num(s, "UpdateDeck")' <= Num(s, "UpdateDeck") + 1
  BY <1>2, TalkKinds
<1> QED
  BY <1>4, <1>7, <1>8 DEF Asked

\* The next duel is made, and both are asked for a deck.
LEMMA RecreateKept ==
  ASSUME TypeOK, TypeOK', Talking, OnRecreateDuel
  PROVE  Talking'
<1>1. /\ queue # <<>> /\ Request.type = "RecreateDuel" /\ Done(<<>>) /\ Inner(<<>>) /\ <<>> \in Seq(Requests)
      /\ UNCHANGED <<clients, duel_winner, last_response>> /\ stage' = "Siding" /\ core' = NewCore
      /\ first_attack_player' = None /\ Send(ToAll("ChangeSide")) /\ "ChangeSide" \in StocMessages
  BY InnerRequests, Queues DEF OnRecreateDuel, Receive, Steady, StocMessages
<1>2. ASSUME NEW s \in Seats
      PROVE  /\ players'[s].here = players[s].here /\ ~players'[s].ready
             /\ ~Present(s) => players'[s] = players[s] /\ players[s] = EmptySlot
             /\ Present(s) => players'[s].state = "UpdateDeck"
  <2>1. players'[s] = ToSide(players[s])
    BY DEF OnRecreateDuel
  <2>2. players[s] \in PlayerRecords
    BY DEF TypeOK
  <2>3. ~Present(s) => players[s] = EmptySlot
    BY DEF Talking, Quiet, Still
  <2> QED
    BY <2>1, <2>2, <2>3 DEF ToSide, Present, PlayerRecords, EmptySlot
<1>3. Waiting("RecreateDuel") > 0
  <2>1. Gone("RecreateDuel") = 1 /\ Gone("RecreateDuel") <= Waiting("RecreateDuel") /\ Waiting("RecreateDuel") \in Nat
    BY <1>1, WaitingHead DEF Gone
  <2> QED
    BY <2>1
<1>4. ASSUME NEW s \in Seats
      PROVE  /\ SpeaksTo(<<>>, ToAll("ChangeSide"), s) /\ ToAll("ChangeSide") \in Boxes
             /\ (Present(s) /\ Told(s, "ChangeSide")) \/ (~Present(s) /\ Unasked(s))
  BY <1>1, <1>2, ToldAll DEF Talking
<1>5. ASSUME NEW s \in Seats PROVE Still(s)'
  <2>1. Request # Ctos("LeaveGame", s)
    BY <1>1 DEF Ctos
  <2>2. players'[s].state # "Any"
    BY <1>2 DEF EmptySlot
  <2> QED
    BY <1>1, <1>2, <1>4, <2>1, <2>2, StillSpeaks DEF Talking
<1>6. OpenGates'
  <2>1. \A s \in Seats : players'[s].here => players'[s].state \in GatesOf["Siding"]
    BY <1>2 DEF GatesOf, Present
  <2>2. \A s \in Seats : players'[s].state # "TimeConfirm"
    BY <1>2 DEF EmptySlot
  <2> QED
    BY <1>1, <2>1, <2>2 DEF OpenGates, Present
<1>7. ASSUME NEW s \in Seats PROVE Asked(s)' /\ Num(s, "UpdateDeck")' <= Num(s, "UpdateDeck") + 1
  <2>1. CASE Present(s)
    <3>1. Told(s, "ChangeSide")
      BY <1>4, <2>1
    <3>2. \A x \in Talks \ {"UpdateDeck"} : ~Before(s, "UpdateDeck", x)
      BY <1>3, DeckOnce
    <3> QED
      BY <1>1, <1>2, <3>1, <3>2, SidingAsked DEF Talking, Talk
  <2>2. CASE ~Present(s)
    <3>1. ASSUME NEW x \in Talks PROVE Num(s, x)' = 0 /\ Num(s, x) = 0
      <4>1. Num(s, x) = 0
        BY <2>2, NobodyThere DEF Talking, Quiet
      <4>2. Num(s, x)' <= Num(s, x) /\ Num(s, x)' \in Nat
        BY <1>4, <2>2, AllEased, NumTypedNext DEF Eased
      <4> QED
        BY <4>1, <4>2
    <3>2. Asked(s)'
      BY <3>1, UntoldAsked
    <3> QED
      BY <3>1, <3>2, TalkKinds
  <2> QED
    BY <2>1, <2>2
<1>8. \A type : Waiting(type)' = Waiting(type) - Gone(type)
  BY <1>1, AfterNone
<1>9. \A a, b : AheadOf(a, b)' => AheadOf(a, b)
  BY <1>1, AfterNone
<1>10. Rounds'
  <2>1. /\ Waiting("RecreateDuel")' = Waiting("RecreateDuel") - 1
        /\ Waiting("JudgeContinueMatch")' = Waiting("JudgeContinueMatch") - 0
        /\ Waiting("RecreateDuel") \in Nat /\ Waiting("JudgeContinueMatch") \in Nat
    <3>1. Gone("RecreateDuel") = 1 /\ Gone("JudgeContinueMatch") = 0
      BY <1>1 DEF Gone
    <3> QED
      BY <1>8, <3>1, WaitingTypedAll
  <2>2. duel_winner \in Seq(Seats \cup {None}) /\ duel_winner' = duel_winner
    BY <1>1 DEF TypeOK
  <2>3. Len(duel_winner) \in Nat
    BY <2>2
  <2>4. ASSUME NEW s \in Seats
        PROVE  /\ Decks(s)' + Waiting("RecreateDuel")' <= 2
               /\ Decks(s)' + Waiting("RecreateDuel")' + Waiting("JudgeContinueMatch")' <= Len(duel_winner')
    <3>1. Decks(s)' = Num(s, "UpdateDeck")'
      <4>1. Num(s, "UpdateDeck")' \in Nat
        BY NumTypedNext
      <4>2. Decks(s)' = Num(s, "UpdateDeck")' + (IF players'[s].ready /\ Num(s, "UpdateDeck")' > 0 THEN 1 ELSE 0)
        BY DEF Decks
      <4> QED
        BY <1>2, <4>1, <4>2
    <3>2. Num(s, "UpdateDeck") <= Decks(s) /\ Num(s, "UpdateDeck") \in Nat /\ Decks(s) \in Nat
      <4>1. Num(s, "UpdateDeck") \in Nat
        BY NumTyped
      <4>2. Decks(s) = Num(s, "UpdateDeck") + (IF players[s].ready /\ Num(s, "UpdateDeck") > 0 THEN 1 ELSE 0)
        BY DEF Decks
      <4> QED
        BY <4>1, <4>2
    <3>3. /\ Decks(s) + Waiting("RecreateDuel") <= 2
          /\ Decks(s) + Waiting("RecreateDuel") + Waiting("JudgeContinueMatch") <= Len(duel_winner)
      BY DEF Talking, Rounds
    <3>4. Num(s, "UpdateDeck")' <= Num(s, "UpdateDeck") + 1 /\ Num(s, "UpdateDeck")' \in Nat
      BY <1>7, NumTypedNext
    <3> QED
      BY <2>1, <2>2, <2>3, <3>1, <3>2, <3>3, <3>4
  <2> QED
    BY <2>4 DEF Rounds
<1>11. OneRun'
  <2>1. Tokens' = Tokens /\ Tokens <= 1
    <3>1. Tokens' = Tokens
      BY <1>1, PlainDone DEF Runs
    <3> QED
      BY <3>1 DEF Talking, OneRun
  <2>2. \A s \in Seats : ~Waited(s)'
    BY <1>2 DEF Waited, EmptySlot
  <2>3. Waiting("DuelInit")' > 0 => ~AheadOf("UpdateDeck", "DuelInit")'
    <3> SUFFICES ASSUME AheadOf("UpdateDeck", "DuelInit")' PROVE FALSE
      OBVIOUS
    <3>1. AheadOf("UpdateDeck", "DuelInit")
      BY <1>9
    <3>2. Waiting("DuelInit") > 0
      BY <3>1, AheadWaits
    <3>3. stage # "Siding"
      BY <3>1, <3>2 DEF Talking, OneRun
    <3>4. stage # "Dueling"
      <4> SUFFICES ASSUME stage = "Dueling" PROVE FALSE
        OBVIOUS
      <4>1. ASSUME NEW s \in Seats PROVE Sent(s, "UpdateDeck") = 0
        <5>1. Num(s, "UpdateDeck") = 0
          BY <1>3, DeckOnce
        <5>2. /\ Sent(s, "UpdateDeck") \in Nat /\ Owing(s, "UpdateDeck") \in 0..1 /\ Coming(s, "UpdateDeck") \in Nat
              /\ Num(s, "UpdateDeck") = Sent(s, "UpdateDeck") + Owing(s, "UpdateDeck") + Coming(s, "UpdateDeck")
          BY NumTyped DEF Num
        <5> QED
          BY <5>1, <5>2
      <4>2. ~AheadOf("UpdateDeck", "DuelInit")
        BY <4>1, NobodySent, TalkKinds, TalksAreCtos
      <4> QED
        BY <3>1, <4>2
    <3>5. stage \notin {"Finger", "Firstgo"}
      <4>1. Tokens > 0 /\ Waiting("DuelInit") # 0
        BY <3>2, TokensSum, WaitingTypedAll DEF Runs
      <4> QED
        BY <4>1 DEF Talking, OneRun
    <3> QED
      BY <3>3, <3>4, <3>5 DEF TypeOK, Stages
  <2>4. ~core'.started /\ ~core'.input
    BY <1>1 DEF NewCore
  <2> QED
    BY <1>1, <1>2, <2>1, <2>2, <2>3, <2>4 DEF OneRun
<1> QED
  BY <1>5, <1>6, <1>7, <1>10, <1>11 DEF Talking, Quiet, Talk

\* Who hands in a deck has been asked for it in Siding, and for nothing else before or since.
LEMMA DeckSent ==
  ASSUME TypeOK, Talking, ReceiveFrom("UpdateDeck"), ~players[Request.from].ready
  PROVE  /\ queue # <<>> /\ Request.type = "UpdateDeck" /\ Request.from \in Seats
         /\ Request = Ctos("UpdateDeck", Request.from) /\ Present(Request.from)
         /\ players[Request.from].state = "UpdateDeck"
         /\ stage = "Siding" /\ Waiting("DuelInit") = 0 /\ ~core.started /\ ~core.input
         /\ first_attack_player = None
         /\ \A s \in Seats : ~Waited(s)
         /\ Num(Request.from, "UpdateDeck") > 0
         /\ \A s \in Seats, x \in Talks \ {"UpdateDeck"} : s = Request.from \/ players[s].ready => Num(s, x) = 0
<1>1. PICK f \in Seats : f = Request.from
  BY Sender, TalkKinds, TalksAreCtos DEF Talking
<1>2. /\ queue # <<>> /\ Request.type = "UpdateDeck" /\ Request = Ctos("UpdateDeck", f) /\ Present(f)
      /\ players[f].state = "UpdateDeck" /\ Num(f, "UpdateDeck") > 0 /\ ~players[f].ready
  BY <1>1, Sender, TalkKinds, TalksAreCtos DEF Talking
<1>3. stage = "Siding"
  BY <1>2, GateTells DEF Talking
<1>4. Waiting("DuelInit") = 0
  <2> SUFFICES ASSUME Waiting("DuelInit") > 0 PROVE FALSE
    BY WaitingTypedAll
  <2>1. ~AheadOf("UpdateDeck", "DuelInit")
    BY <1>3 DEF Talking, OneRun
  <2>2. Waiting("DuelInit") = 0
    BY <1>2, <2>1, WaitingHead
  <2> QED
    BY <2>2
<1>5. ~core.started /\ ~core.input /\ \A s \in Seats : ~Waited(s)
  BY <1>3 DEF Talking, OneRun
<1>6. first_attack_player = None
  BY <1>3 DEF Talking, OpenGates
<1>7. ASSUME NEW s \in Seats, NEW x \in Talks \ {"UpdateDeck"}, s = f \/ players[s].ready PROVE Num(s, x) = 0
  <2>1. InSiding(s)
    BY <1>3 DEF Talking, Talk, Asked
  <2>2. CASE players[s].ready
    BY <2>1, <2>2 DEF InSiding
  <2>3. CASE s = f
    <3>1. ~Before(f, "UpdateDeck", x)
      BY <1>2, <2>1, <2>3 DEF InSiding
    <3> QED
      BY <1>2, <2>3, <3>1, HeadFirst
  <2> QED
    BY <1>7, <2>2, <2>3
<1> QED
  BY <1>1, <1>2, <1>3, <1>4, <1>5, <1>6, <1>7

\* One deck less to wait for.
LEMMA DeckTaken ==
  ASSUME TypeOK, NEW s \in Seats, ~players[s].ready, Num(s, "UpdateDeck") > 0,
         Num(s, "UpdateDeck")' = Num(s, "UpdateDeck") - 1
  PROVE  Decks(s)' <= Decks(s)
<1>1. Num(s, "UpdateDeck") \in Nat
  BY NumTyped
<1>2. Decks(s) = Num(s, "UpdateDeck")
  BY <1>1 DEF Decks
<1>3. Decks(s)' = Num(s, "UpdateDeck")' + (IF players'[s].ready /\ Num(s, "UpdateDeck")' > 0 THEN 1 ELSE 0)
  BY DEF Decks
<1> QED
  BY <1>1, <1>2, <1>3

\* Whoever has been asked for nothing but decks.
LEMMA OnlyDecks ==
  ASSUME TypeOK', NEW s \in Seats, stage' = "Siding", \A x \in Talks \ {"UpdateDeck"} : Num(s, x)' = 0
  PROVE  Asked(s)'
<1>1. /\ Num(s, "HandResult")' = 0 /\ Num(s, "TpResult")' = 0 /\ Num(s, "Response")' = 0
      /\ Num(s, "TimeConfirm")' = 0
  BY TalkKinds
<1>2. \A x \in Talks \ {"UpdateDeck"} : ~Before(s, "UpdateDeck", x)'
  BY UnderWayNext
<1>3. \A x \in Duelling : ~Lasting(s, x)'
  <2>1. \A x \in Duelling : x \in Talks \ {"UpdateDeck"}
    BY TalkKinds
  <2> QED
    BY <2>1, UnderWayNext
<1>4. InSiding(s)'
  BY <1>2, <1>3 DEF InSiding
<1> QED
  BY <1>1, <1>4 DEF Asked

\* A deck that does not fit is asked for again.
LEMMA SideErrorKept ==
  ASSUME TypeOK, TypeOK', Talking, ReceiveFrom("UpdateDeck"), ~players[Request.from].ready, Done(<<>>),
         UNCHANGED <<stage, players, clients, first_attack_player, duel_winner, last_response, core>>,
         Send(ToOne(Request.from, <<"SideError">>))
  PROVE  Talking'
<1>1. /\ Done(<<>>) /\ Inner(<<>>) /\ <<>> \in Seq(Requests)
      /\ UNCHANGED <<stage, players, clients, first_attack_player, duel_winner, last_response, core>>
  BY InnerRequests, Queues
<1>2. PICK f \in Seats : f = Request.from
  BY DeckSent
<1>3. /\ queue # <<>> /\ Request.type = "UpdateDeck" /\ Request = Ctos("UpdateDeck", f) /\ Present(f)
      /\ players[f].state = "UpdateDeck" /\ stage = "Siding"
      /\ \A x \in Talks \ {"UpdateDeck"} : Num(f, x) = 0
      /\ Num(f, "UpdateDeck") > 0 /\ ~core.input
  BY <1>2, DeckSent
<1>4. "SideError" \in StocMessages /\ Asks("SideError") = "UpdateDeck" /\ <<"SideError">> \in Seq(StocMessages)
      /\ Send(ToOne(f, <<"SideError">>))
  BY <1>2 DEF StocMessages, Asks
<1>5. ASSUME NEW s \in Seats
      PROVE  /\ SpeaksTo(<<>>, ToOne(f, <<"SideError">>), s) /\ ToOne(f, <<"SideError">>) \in Boxes
             /\ IF s = f THEN Told(s, "SideError") ELSE Unasked(s)
  BY <1>1, <1>3, <1>4, TellsOne DEF Talking
<1>6. ASSUME NEW s \in Seats PROVE Still(s)'
  <2>1. Request # Ctos("LeaveGame", s)
    BY <1>3 DEF Ctos
  <2>2. players'[s].state = "Any" => players[s].state = "Any" /\ Unpressed(s)
    BY <1>1, <1>3, <1>5 DEF Unasked, Unpressed
  <2> QED
    BY <1>1, <1>3, <1>5, <2>1, <2>2, StillSpeaks DEF Talking
<1>7. ASSUME NEW x \in Talks PROVE Num(f, x)' = Num(f, x)
  <2>1. Num(f, x)' = Num(f, x) - Taken({Ctos(x, f)}) + (IF x = "UpdateDeck" THEN 1 ELSE 0)
    BY <1>4, <1>5 DEF Told
  <2>2. Taken({Ctos(x, f)}) = (IF x = "UpdateDeck" THEN 1 ELSE 0) /\ Num(f, x) \in Nat
    BY <1>3, TakenFrom, NumTyped
  <2>3. CASE x = "UpdateDeck"
    BY <2>1, <2>2, <2>3
  <2>4. CASE x # "UpdateDeck"
    BY <2>1, <2>2, <2>4
  <2> QED
    BY <2>3, <2>4
<1>8. OpenGates'
  BY <1>1 DEF Talking, OpenGates, Present
<1>9. ASSUME NEW s \in Seats PROVE Asked(s)'
  <2>1. CASE s = f
    <3>1. \A x \in Talks \ {"UpdateDeck"} : Num(f, x)' = 0
      BY <1>3, <1>7
    <3> QED
      BY <1>1, <1>3, <2>1, <3>1, OnlyDecks
  <2>2. CASE s # f
    BY <1>1, <1>5, <2>2, AllEased, EasedAsked DEF Talking, Talk
  <2> QED
    BY <2>1, <2>2
<1>10. Plain /\ Tokens' = Tokens
  BY <1>1, <1>3, PlainDone DEF Runs
<1>11. Rounds'
  <2>1. ASSUME NEW s \in Seats PROVE Num(s, "UpdateDeck")' <= Num(s, "UpdateDeck")
    <3>1. CASE s = f
      <4>1. Num(f, "UpdateDeck") \in Nat /\ Num(f, "UpdateDeck")' = Num(f, "UpdateDeck")
        BY <1>7, NumTyped, TalkKinds
      <4> QED
        BY <3>1, <4>1
    <3>2. CASE s # f
      BY <1>5, <3>2, AllEased, TalkKinds DEF Eased
    <3> QED
      BY <3>1, <3>2
  <2>2. \A s \in Seats : Decks(s)' <= Decks(s)
    BY <1>1, <2>1, DecksEased
  <2> QED
    BY <1>1, <1>10, <2>2, RoundsStay DEF Talking, Plain
<1>12. OneRun'
  <2>1. \A s \in Seats : (Waited(s)' => Waited(s)) /\ (players'[s].ready => players[s].ready)
    BY <1>1 DEF Waited
  <2> QED
    BY <1>1, <1>10, <2>1, OneRunKept DEF Talking, Plain
<1> QED
  BY <1>6, <1>8, <1>9, <1>11, <1>12 DEF Talking, Quiet, Talk

\* A deck fits, and the other's is awaited.
LEMMA DeckInKept ==
  ASSUME TypeOK, TypeOK', Talking, ReceiveFrom("UpdateDeck"), ~players[Request.from].ready, Done(<<>>),
         UNCHANGED <<stage, stoc, clients, first_attack_player, duel_winner, last_response, core>>,
         \A s \in Seats : /\ players'[s].here = players[s].here /\ players'[s].state = players[s].state
                          /\ s # Request.from => players'[s] = players[s]
                          /\ s = Request.from => players'[s].ready
  PROVE  Talking'
<1>1. /\ Done(<<>>) /\ Inner(<<>>) /\ <<>> \in Seq(Requests)
      /\ UNCHANGED <<stage, stoc, clients, first_attack_player, duel_winner, last_response, core>>
  BY InnerRequests, Queues
<1>2. PICK f \in Seats : f = Request.from
  BY DeckSent
<1>3. /\ queue # <<>> /\ Request.type = "UpdateDeck" /\ Request = Ctos("UpdateDeck", f) /\ Present(f)
      /\ players[f].state = "UpdateDeck" /\ stage = "Siding" /\ ~players[f].ready
      /\ \A x \in Talks \ {"UpdateDeck"} : Num(f, x) = 0
      /\ Num(f, "UpdateDeck") > 0 /\ ~core.input /\ ~core.started /\ Waiting("DuelInit") = 0
      /\ \A s \in Seats : ~Waited(s)
  BY <1>2, DeckSent
<1>4. ASSUME NEW s \in Seats
      PROVE  /\ players'[s].here = players[s].here /\ players'[s].state = players[s].state
             /\ s # f => players'[s] = players[s]
  BY <1>2
<1>5. ASSUME NEW s \in Seats PROVE SpeaksTo(<<>>, Nothing, s) /\ Nothing \in Boxes /\ Unasked(s)
  BY <1>1, <1>3, <1>4, TellsNobody DEF Talking
<1>6. ASSUME NEW s \in Seats PROVE Still(s)'
  <2>1. Request # Ctos("LeaveGame", s) /\ Unpressed(s)
    BY <1>3, <1>5 DEF Ctos, Unasked, Unpressed
  <2> QED
    BY <1>1, <1>3, <1>4, <1>5, <2>1, StillSpeaks DEF Talking
<1>7. ASSUME NEW x \in Talks PROVE Num(f, x)' = IF x = "UpdateDeck" THEN Num(f, x) - 1 ELSE Num(f, x)
  <2>1. Num(f, x)' = Num(f, x) - Taken({Ctos(x, f)})
    BY <1>5 DEF Unasked
  <2>2. Taken({Ctos(x, f)}) = (IF x = "UpdateDeck" THEN 1 ELSE 0) /\ Num(f, x) \in Nat
    BY <1>3, TakenFrom, NumTyped
  <2>3. CASE x = "UpdateDeck"
    BY <2>1, <2>2, <2>3
  <2>4. CASE x # "UpdateDeck"
    BY <2>1, <2>2, <2>4
  <2> QED
    BY <2>3, <2>4
<1>8. OpenGates'
  BY <1>1, <1>4 DEF Talking, OpenGates, Present
<1>9. ASSUME NEW s \in Seats PROVE Asked(s)'
  <2>1. CASE s = f
    <3>1. \A x \in Talks \ {"UpdateDeck"} : Num(f, x)' = 0
      BY <1>3, <1>7
    <3> QED
      BY <1>1, <1>3, <2>1, <3>1, OnlyDecks
  <2>2. CASE s # f
    BY <1>1, <1>4, <1>5, <2>2, AllEased, EasedAsked DEF Talking, Talk
  <2> QED
    BY <2>1, <2>2
<1>10. Plain /\ Tokens' = Tokens
  BY <1>1, <1>3, PlainDone DEF Runs
<1>11. Rounds'
  <2>1. ASSUME NEW s \in Seats PROVE Decks(s)' <= Decks(s)
    <3>1. CASE s = f
      <4>1. Num(f, "UpdateDeck")' = Num(f, "UpdateDeck") - 1
        BY <1>7, TalkKinds
      <4> QED
        BY <1>3, <3>1, <4>1, DeckTaken
    <3>2. CASE s # f
      BY <1>4, <1>5, <3>2, AllEased, DecksEased, TalkKinds DEF Eased
    <3> QED
      BY <3>1, <3>2
  <2> QED
    BY <1>1, <1>10, <2>1, RoundsStay DEF Talking, Plain
<1>12. OneRun'
  <2>1. \A s \in Seats : ~Waited(s)'
    BY <1>3, <1>4 DEF Waited
  <2>2. Waiting("DuelInit")' = 0 /\ Tokens' <= 1
    <3>1. Waiting("DuelInit")' <= 0 /\ Waiting("DuelInit")' \in Nat
      BY <1>3, <1>10, WaitingTypedAll DEF Plain, Runs
    <3> QED
      BY <1>10, <3>1 DEF Talking, OneRun
  <2> QED
    BY <1>1, <1>3, <2>1, <2>2 DEF OneRun
<1> QED
  BY <1>6, <1>8, <1>9, <1>11, <1>12 DEF Talking, Quiet, Talk

\* The last deck fits: somebody is asked who attacks first.
LEMMA DecksInKept ==
  ASSUME TypeOK, TypeOK', Talking, ReceiveFrom("UpdateDeck"), ~players[Request.from].ready, Done(<<>>),
         UNCHANGED <<clients, first_attack_player, duel_winner, last_response, core>>, stage' = "Firstgo",
         NEW d \in Seats, Send(ToOne(d, <<"SelectTp">>)),
         \A s \in Seats : s = Request.from \/ players[s].ready,
         \A s \in Seats : /\ players'[s].here = players[s].here /\ players'[s].ready
                          /\ Present(s) /\ players'[s].state = IF s = d THEN "TpResult" ELSE "None"
  PROVE  Talking'
<1>1. /\ Done(<<>>) /\ Inner(<<>>) /\ <<>> \in Seq(Requests) /\ stage' = "Firstgo"
      /\ UNCHANGED <<clients, first_attack_player, duel_winner, last_response, core>>
  BY InnerRequests, Queues
<1>2. PICK f \in Seats : f = Request.from
  BY DeckSent
<1>3. /\ queue # <<>> /\ Request.type = "UpdateDeck" /\ Request = Ctos("UpdateDeck", f)
      /\ stage = "Siding" /\ ~players[f].ready /\ Num(f, "UpdateDeck") > 0
      /\ ~core.input /\ ~core.started /\ Waiting("DuelInit") = 0 /\ first_attack_player = None
  BY <1>2, DeckSent
<1>a. ASSUME NEW s \in Seats, NEW x \in Talks \ {"UpdateDeck"} PROVE Num(s, x) = 0
  BY DeckSent
<1>4. ASSUME NEW s \in Seats
      PROVE  /\ players'[s].here = players[s].here /\ players'[s].ready /\ Present(s)
             /\ players'[s].state = IF s = d THEN "TpResult" ELSE "None"
             /\ s = f \/ players[s].ready
  BY <1>2
<1>m. "SelectTp" \in StocMessages /\ Asks("SelectTp") = "TpResult" /\ <<"SelectTp">> \in Seq(StocMessages)
  BY DEF StocMessages, Asks
<1>5. ASSUME NEW s \in Seats
      PROVE  /\ SpeaksTo(<<>>, ToOne(d, <<"SelectTp">>), s) /\ ToOne(d, <<"SelectTp">>) \in Boxes
             /\ IF s = d THEN Told(s, "SelectTp") ELSE Unasked(s)
  BY <1>1, <1>3, <1>4, <1>m, TellsOne DEF Talking
<1>6. ASSUME NEW s \in Seats PROVE Still(s)'
  <2>1. Request # Ctos("LeaveGame", s)
    BY <1>3 DEF Ctos
  <2> QED
    BY <1>1, <1>3, <1>4, <1>5, <2>1, StillSpeaks DEF Talking
<1>7. ASSUME NEW s \in Seats, NEW x \in Talks \ {"UpdateDeck"}
      PROVE  Num(s, x)' = IF s = d /\ x = "TpResult" THEN 1 ELSE 0
  <2>1. Num(s, x) = 0 /\ Taken({Ctos(x, s)}) = 0
    BY <1>3, <1>a, TakenFrom
  <2>2. CASE s = d
    <3>1. Num(s, x)' = Num(s, x) - Taken({Ctos(x, s)}) + (IF x = "TpResult" THEN 1 ELSE 0)
      BY <1>5, <1>m, <2>2 DEF Told
    <3> QED
      BY <2>1, <2>2, <3>1
  <2>3. CASE s # d
    <3>1. Num(s, x)' = Num(s, x) - Taken({Ctos(x, s)})
      BY <1>5, <2>3 DEF Unasked
    <3> QED
      BY <2>1, <2>3, <3>1
  <2> QED
    BY <2>2, <2>3
<1>8. ASSUME NEW s \in Seats
      PROVE  Num(s, "UpdateDeck")' = Num(s, "UpdateDeck") - (IF s = f THEN 1 ELSE 0) /\ Num(s, "UpdateDeck") \in Nat
  <2>a. Taken({Ctos("UpdateDeck", s)}) = IF s = f THEN 1 ELSE 0
    BY <1>3, TakenFrom
  <2>1. Taken({Ctos("UpdateDeck", s)}) = (IF s = f THEN 1 ELSE 0) /\ Num(s, "UpdateDeck") \in Nat
    BY <2>a, NumTyped
  <2>2. CASE s = d
    <3>1. Num(s, "UpdateDeck")' = Num(s, "UpdateDeck") - Taken({Ctos("UpdateDeck", s)}) + 0
      BY <1>5, <1>m, <2>2, TalkKinds DEF Told
    <3> QED
      BY <2>1, <3>1
  <2>3. CASE s # d
    BY <1>5, <2>1, <2>3, TalkKinds DEF Unasked
  <2> QED
    BY <2>2, <2>3
<1>9. OpenGates'
  BY <1>1, <1>3, <1>4 DEF OpenGates, GatesOf
<1>10. ASSUME NEW s \in Seats PROVE Asked(s)'
  <2>1. /\ Num(s, "HandResult")' = 0 /\ Num(s, "Response")' = 0 /\ Num(s, "TimeConfirm")' = 0
        /\ Num(s, "TpResult")' = IF s = d THEN 1 ELSE 0
    BY <1>7, TalkKinds
  <2>2. InFirstgo(s)'
    BY <1>4, <2>1 DEF InFirstgo
  <2> QED
    BY <1>1, <2>1, <2>2 DEF Asked
<1>11. Plain /\ Tokens' = Tokens
  BY <1>1, <1>3, PlainDone DEF Runs
<1>12. Rounds'
  <2>1. ASSUME NEW s \in Seats PROVE Decks(s)' <= Decks(s)
    <3>1. CASE s = f
      <4>1. Num(f, "UpdateDeck")' = Num(f, "UpdateDeck") - 1
        BY <1>8
      <4> QED
        BY <1>3, <3>1, <4>1, DeckTaken
    <3>2. CASE s # f
      <4>1. Num(s, "UpdateDeck")' <= Num(s, "UpdateDeck")
        BY <1>8, <3>2
      <4> QED
        BY <1>4, <3>2, <4>1, DecksEased
    <3> QED
      BY <3>1, <3>2
  <2> QED
    BY <1>1, <1>11, <2>1, RoundsStay DEF Talking, Plain
<1>13. OneRun'
  <2>1. \A s \in Seats : ~Waited(s)'
    BY <1>4 DEF Waited
  <2>2. Waiting("DuelInit")' = 0 /\ Tokens' <= 1
    <3>1. Waiting("DuelInit")' <= 0 /\ Waiting("DuelInit")' \in Nat
      BY <1>3, <1>11, WaitingTypedAll DEF Plain, Runs
    <3> QED
      BY <1>11, <3>1 DEF Talking, OneRun
  <2>3. \A type \in Runs : ~AheadOf("TpResult", type)'
    <3>1. ASSUME NEW s \in Seats PROVE Sent(s, "TpResult") = 0
      <4>1. Num(s, "TpResult") = 0
        BY <1>a, TalkKinds
      <4>2. /\ Sent(s, "TpResult") \in Nat /\ Owing(s, "TpResult") \in 0..1 /\ Coming(s, "TpResult") \in Nat
            /\ Num(s, "TpResult") = Sent(s, "TpResult") + Owing(s, "TpResult") + Coming(s, "TpResult")
        BY NumTyped DEF Num
      <4> QED
        BY <4>1, <4>2
    <3>2. \A b : ~AheadOf("TpResult", b)
      BY <3>1, NobodySent, TalkKinds, TalksAreCtos
    <3> QED
      BY <1>11, <3>2 DEF Plain
  <2> QED
    BY <1>1, <1>3, <2>1, <2>2, <2>3 DEF OneRun
<1> QED
  BY <1>6, <1>9, <1>10, <1>12, <1>13 DEF Talking, Quiet, Talk

\* Whatever deck is handed in.
LEMMA UpdateKept ==
  ASSUME TypeOK, TypeOK', Talking, OnUpdateDeck
  PROVE  Talking'
<1>1. ReceiveFrom("UpdateDeck") /\ players \in [Seats -> PlayerRecords]
  BY DEF OnUpdateDeck, TypeOK
<1>2. PICK f \in Seats : f = Request.from
  BY <1>1, Sender, TalkKinds, TalksAreCtos DEF Talking
<1>3. queue # <<>> /\ Request.type = "UpdateDeck" /\ Present(f)
  BY <1>1, <1>2, Sender, TalkKinds, TalksAreCtos DEF Talking
<1>4. CASE players[f].ready \/ duel_winner = <<>>
  <2>1. Chain(<<>>)
    BY <1>2, <1>4 DEF OnUpdateDeck, Ignored
  <2> QED
    BY <1>3, <2>1, ChainKept DEF Runs
<1>5. CASE ~players[f].ready /\ duel_winner # <<>>
  <2> DEFINE sided == [players EXCEPT ![f].ready = TRUE]
             d == IF first_attack_decider = None THEN 0 ELSE first_attack_decider
  <2>1. /\ Done(<<>>) /\ UNCHANGED <<clients, first_attack_player, duel_winner, last_response, core>>
        /\ \/ UNCHANGED <<stage, players>> /\ Send(ToOne(f, <<"SideError">>))
           \/ /\ players' = sided
              /\ UNCHANGED <<stage, stoc>>
           \/ /\ \A t \in Seats : sided[t].ready
              /\ players' = Deciding(sided, d)
              /\ stage' = "Firstgo"
              /\ Send(ToOne(d, <<"SelectTp">>))
    BY <1>2, <1>3, <1>5 DEF OnUpdateDeck, Steady
  <2>2. d \in Seats
    BY DEF TypeOK, Seats
  <2>3. sided \in [Seats -> PlayerRecords]
    BY <1>1 DEF PlayerRecords
  <2>4. \A s \in Seats : /\ sided[s].here = players[s].here /\ sided[s].state = players[s].state
                         /\ s # f => sided[s] = players[s]
                         /\ s = f => sided[s].ready
    BY <1>1 DEF PlayerRecords
  <2> HIDE DEF sided, d
  <2>5. CASE UNCHANGED <<stage, players>> /\ Send(ToOne(f, <<"SideError">>))
    BY <1>1, <1>2, <1>5, <2>1, <2>5, SideErrorKept
  <2>6. CASE players' = sided /\ UNCHANGED <<stage, stoc>>
    BY <1>1, <1>2, <1>5, <2>1, <2>4, <2>6, DeckInKept
  <2>7. CASE /\ \A t \in Seats : sided[t].ready
             /\ players' = Deciding(sided, d)
             /\ stage' = "Firstgo"
             /\ Send(ToOne(d, <<"SelectTp">>))
    <3>1. ASSUME NEW s \in Seats
          PROVE  /\ players'[s].here = players[s].here /\ players'[s].ready
                 /\ Present(s) /\ players'[s].state = IF s = d THEN "TpResult" ELSE "None"
      <4>1. players'[s] = IF sided[s].here THEN [sided[s] EXCEPT !.state = IF s = d THEN "TpResult" ELSE "None"] ELSE sided[s]
        BY <2>7 DEF Deciding
      <4>2. sided[s] \in PlayerRecords /\ sided[s].ready
        BY <2>3, <2>7
      <4>3. Present(s)
        <5>1. CASE s = f
          BY <1>3, <5>1
        <5>2. CASE s # f
          <6>1. players[s].ready /\ Still(s)
            BY <2>4, <4>2, <5>2 DEF Talking, Quiet
          <6> QED
            BY <6>1 DEF Still, EmptySlot
        <5> QED
          BY <5>1, <5>2
      <4> QED
        BY <2>4, <4>1, <4>2, <4>3 DEF PlayerRecords, Present
    <3>2. \A s \in Seats : s = Request.from \/ players[s].ready
      BY <1>2, <2>4, <2>7
    <3> QED
      BY <1>1, <1>2, <1>5, <2>1, <2>2, <2>7, <3>1, <3>2, DecksInKept
  <2> QED
    BY <2>1, <2>5, <2>6, <2>7
<1> QED
  BY <1>4, <1>5

-----------------------------------------------------------------------------
(* Whoever leaves, and whoever comes.                                       *)

\* From whom nothing is under way, and to whom nothing.
LEMMA CutOff ==
  ASSUME TypeOK', NEW s \in Seats, Mine(s)' = 0, clients'[s].owes = "None", stoc'[s] = <<>>
  PROVE  /\ \A x \in Talks : Num(s, x)' = 0
         /\ Sent(s, "LeaveGame")' = 0 /\ ~Ahead(queue', {Ctos("LeaveGame", s)}, From(s))
         /\ Asked(s)' /\ Decks(s)' = 0
<1>1. queue' \in Seq(Requests) /\ Count(queue', From(s)) = 0
  BY DEF TypeOK, Mine
<1>2. ASSUME NEW x \in CtosTypes PROVE Sent(s, x)' = 0
  <2>1. {Ctos(x, s)} \subseteq From(s)
    BY RequestsTyped DEF From, Ctos
  <2>2. Count(queue', {Ctos(x, s)}) <= Count(queue', From(s)) /\ Count(queue', {Ctos(x, s)}) \in Nat
    BY <1>1, <2>1, CountWithin, CountTyped
  <2> QED
    BY <1>1, <2>2 DEF Sent
<1>3. ASSUME NEW x \in Talks PROVE Num(s, x)' = 0
  <2>1. Sent(s, x)' = 0
    BY <1>2, TalksAreCtos
  <2>2. Owing(s, x)' = 0
    BY TalkKinds DEF Owing
  <2>3. Coming(s, x)' = 0
    BY WhatIsSaid DEF Coming
  <2> QED
    BY <2>1, <2>2, <2>3 DEF Num
<1>4. ~Ahead(queue', {Ctos("LeaveGame", s)}, From(s))
  <2>1. \A i \in DOMAIN queue' : queue'[i] \notin From(s)
    BY <1>1, CountTyped
  <2> QED
    BY <2>1 DEF Ahead
<1>5. Asked(s)'
  BY <1>3, UntoldAsked
<1>6. Decks(s)' = 0
  BY <1>3, TalkKinds DEF Decks
<1> QED
  BY <1>2, <1>3, <1>4, <1>5, <1>6 DEF CtosTypes

\* Somebody who says nothing more gets up, and the others hear of it.
LEMMA LeaverKept ==
  ASSUME TypeOK, TypeOK', Talking, ReceiveFrom("LeaveGame"), NEW more \in Seq(Requests), NEW news \in Boxes,
         \/ more = <<>> /\ news = Nothing
         \/ \E w \in Seats \cup {None} : more = <<DuelEnd(w)>> /\ news = ToAll("Win"),
         Done(more), Send(news), players' = [players EXCEPT ![Request.from] = EmptySlot],
         UNCHANGED <<clients, stage, first_attack_player, duel_winner, last_response, core>>
  PROVE  Talking'
<1>1. /\ Done(more) /\ Send(news)
      /\ UNCHANGED <<clients, stage, first_attack_player, duel_winner, last_response, core>>
  OBVIOUS
<1>2. PICK f \in Seats : f = Request.from
  BY Sender DEF Talking, CtosTypes
<1>3. /\ queue # <<>> /\ Request.type = "LeaveGame" /\ Request = Ctos("LeaveGame", f) /\ Present(f)
      /\ Sent(f, "LeaveGame") > 0
  BY <1>2, Sender DEF Talking, CtosTypes
<1>4. ASSUME NEW s \in Seats
      PROVE  players'[s] = IF s = f THEN EmptySlot ELSE players[s]
  BY <1>2 DEF TypeOK
<1>5. Inner(more) /\ Plain /\ Tokens' = Tokens
  <2>1. ASSUME NEW w \in Seats \cup {None}, more = <<DuelEnd(w)>> PROVE Inner(more) /\ Plain /\ Tokens' = Tokens
    <3>1. DuelEnd(w) \in Requests /\ DuelEnd(w).type = "DuelEnd"
      BY RequestsTyped DEF DuelEnd
    <3>2. DuelEnd(w).type \notin Runs \cup {"RecreateDuel", "JudgeContinueMatch"} \cup CtosTypes
      BY <3>1 DEF Runs, CtosTypes
    <3> QED
      BY <1>1, <1>3, <2>1, <3>1, <3>2, PlainDone, InnerRequests DEF Runs
  <2>2. CASE more = <<>>
    BY <1>1, <1>3, <2>2, PlainDone, InnerRequests DEF Runs
  <2> QED
    BY <2>1, <2>2
<1>6. Mine(f)' = 0
  <2>1. ~Ahead(queue, {Ctos("LeaveGame", f)}, From(f))
    BY DEF Talking, Quiet, Still
  <2>2. Count(more, From(f)) = 0
    BY <1>5, InnerFromNobody
  <2>3. Count(queue', From(f)) = Count(queue, From(f)) - Taken(From(f)) + Count(more, From(f))
    BY <1>1, <1>3, HandledQueue
  <2>4. Request \in {Ctos("LeaveGame", f)} /\ ~Ahead(queue, {Ctos("LeaveGame", f)}, From(f))
          => Count(queue, From(f)) - Taken(From(f)) = 0
    BY <1>1, <1>3, HandledQueue
  <2> QED
    BY <1>3, <2>1, <2>2, <2>3, <2>4 DEF Mine
<1>7. clients[f] = NoClient
  <2>1. Still(f)
    BY DEF Talking, Quiet
  <2> QED
    BY <1>3, <2>1 DEF Still
<1>8. clients'[f].owes = "None" /\ stoc'[f] = <<>> /\ clients'[f] = NoClient
  <2>1. stoc'[f] = IF players'[f].here THEN stoc[f] \o news[f] ELSE <<>>
    BY <1>1 DEF Send
  <2> QED
    BY <1>1, <1>4, <1>7, <2>1 DEF NoClient, EmptySlot
<1>9. /\ \A x \in Talks : Num(f, x)' = 0
      /\ Sent(f, "LeaveGame")' = 0 /\ ~Ahead(queue', {Ctos("LeaveGame", f)}, From(f))
      /\ Asked(f)' /\ Decks(f)' = 0
  BY <1>6, <1>8, CutOff
<1>10. Still(f)'
  BY <1>4, <1>6, <1>8, <1>9 DEF Still, Present, EmptySlot
<1>11. ASSUME NEW s \in Seats, s # f PROVE SpeaksTo(more, news, s) /\ Eased(s) /\ Unpressed(s)
  <2>1. SpeaksTo(more, news, s)
    BY <1>1, <1>3, <1>4, <1>11 DEF SpeaksTo, Send
  <2>2. /\ ~Present(s) => Unasked(s)
        /\ news[s] = <<>> => Unasked(s)
        /\ \A m \in StocMessages : Present(s) /\ news[s] = <<m>> => Told(s, m)
    BY <1>5, <2>1, Speech DEF Talking
  <2>3. news[s] = <<>> \/ news[s] = <<"Win">>
    BY DEF Nothing, ToAll
  <2>4. Unasked(s) \/ Told(s, "Win")
    BY <2>2, <2>3 DEF StocMessages
  <2>5. ASSUME Told(s, "Win"), NEW x \in Talks PROVE Num(s, x)' = Num(s, x) - Taken({Ctos(x, s)})
    <3>1. Num(s, x)' = Num(s, x) - Taken({Ctos(x, s)}) + (IF Asks("Win") = x THEN 1 ELSE 0)
      BY <2>5 DEF Told
    <3>2. Asks("Win") # x
      BY TalkKinds DEF Asks
    <3>3. Num(s, x) \in Nat /\ Taken({Ctos(x, s)}) \in 0..1
      BY NumTyped DEF Taken
    <3> QED
      BY <3>1, <3>2, <3>3
  <2> QED
    BY <2>1, <2>4, <2>5, AllEased DEF Unasked, Unpressed
<1>12. ASSUME NEW s \in Seats, s # f PROVE Still(s)'
  <2>1. Request # Ctos("LeaveGame", s)
    BY <1>3, <1>12 DEF Ctos
  <2>2. SpeaksTo(more, news, s) /\ Unpressed(s) /\ players'[s] = players[s]
    BY <1>4, <1>11, <1>12
  <2> QED
    BY <1>5, <2>1, <2>2, StillSpeaks DEF Talking
<1>13. OpenGates'
  <2>1. \A s \in Seats : players'[s].here => s # f
    BY <1>4 DEF EmptySlot
  <2>2. \A s \in Seats : players'[s].state \in {"TimeConfirm", "TpResult"} => s # f
    BY <1>4 DEF EmptySlot
  <2> QED
    BY <1>1, <1>4, <2>1, <2>2 DEF Talking, OpenGates, Present
<1>14. ASSUME NEW s \in Seats PROVE Asked(s)'
  <2>1. CASE s = f
    BY <1>9, <2>1
  <2>2. CASE s # f
    BY <1>1, <1>4, <1>11, <2>2, EasedAsked DEF Talking, Talk
  <2> QED
    BY <2>1, <2>2
<1>15. Rounds'
  <2>1. ASSUME NEW s \in Seats PROVE Decks(s)' <= Decks(s)
    <3>1. CASE s = f
      <4>1. Decks(f) \in Nat
        BY DecksTyped
      <4> QED
        BY <1>9, <3>1, <4>1
    <3>2. CASE s # f
      BY <1>4, <1>11, <3>2, DecksEased, TalkKinds DEF Eased
    <3> QED
      BY <3>1, <3>2
  <2> QED
    BY <1>1, <1>5, <2>1, RoundsStay DEF Talking, Plain
<1>16. OneRun'
  <2>1. \A s \in Seats : (Waited(s)' => Waited(s)) /\ (players'[s].ready => players[s].ready)
    BY <1>4 DEF Waited, EmptySlot
  <2> QED
    BY <1>1, <1>5, <2>1, OneRunKept DEF Talking, Plain
<1>17. \A s \in Seats : Still(s)'
  BY <1>10, <1>12
<1> QED
  BY <1>13, <1>14, <1>15, <1>16, <1>17 DEF Talking, Quiet, Talk

\* Whoever leaves, unless the room is gone with him.
LEMMA LeaveKept ==
  ASSUME TypeOK, TypeOK', Talking, OnLeaveGame, running'
  PROVE  Talking'
<1>1. ReceiveFrom("LeaveGame")
  BY DEF OnLeaveGame
<1>2. PICK f \in Seats : f = Request.from
  BY <1>1, Sender DEF Talking, CtosTypes
<1>3. /\ players' = [players EXCEPT ![Request.from] = EmptySlot]
      /\ UNCHANGED <<clients, stage, first_attack_player, duel_winner, last_response, core>>
      /\ IF core.ended
         THEN Done(<<>>) /\ Send(Nothing)
         ELSE Done(<<DuelEnd(ToCore(Other(f)))>>) /\ Send(ToAll("Win"))
  BY <1>2 DEF OnLeaveGame, Break, Steady, Nothing
<1>4. ToCore(Other(f)) \in Seats
  BY SeatsTyped
<1>5. CASE core.ended
  <2>1. <<>> \in Seq(Requests) /\ Nothing \in Boxes
    BY Queues, NewsTyped DEF Nothing, Boxes
  <2> QED
    BY <1>1, <1>3, <1>5, <2>1, LeaverKept
<1>6. CASE ~core.ended
  <2>1. <<DuelEnd(ToCore(Other(f)))>> \in Seq(Requests) /\ ToAll("Win") \in Boxes
    BY <1>4, Queues, RequestsTyped, NewsTyped DEF Boxes, StocMessages
  <2> QED
    BY <1>1, <1>3, <1>4, <1>6, <2>1, LeaverKept
<1> QED
  BY <1>5, <1>6

\* A latecomer has said nothing and been asked nothing.
LEMMA JoinKept ==
  ASSUME TypeOK, TypeOK', Talking, OnJoinGame
  PROVE  Talking'
<1>1. queue # <<>> /\ Request.type = "JoinGame"
  BY DEF OnJoinGame, Receive
<1>2. CASE Missing = {}
  <2>1. Chain(<<>>)
    BY <1>2 DEF OnJoinGame, Ignored
  <2> QED
    BY <1>1, <2>1, ChainKept DEF Runs
<1>3. CASE Missing # {}
  <2>1. PICK c \in Missing : c = CHOOSE t \in Missing : \A u \in Missing : t <= u
    <3>1. Missing \subseteq {0, 1}
      BY DEF Missing, Seats
    <3>2. \E t \in Missing : \A u \in Missing : t <= u
      <4>1. CASE 0 \in Missing
        BY <3>1, <4>1
      <4>2. CASE 0 \notin Missing
        <5>1. Missing = {1}
          BY <1>3, <3>1, <4>2
        <5> QED
          BY <5>1
      <4> QED
        BY <4>1, <4>2
    <3> QED
      BY <3>2
  <2>2. /\ players' = [players EXCEPT ![c] = [here |-> TRUE, ready |-> FALSE, state |-> "Any", hand |-> FALSE]]
        /\ clients' = [clients EXCEPT ![c] = NewClient] /\ Done(<<>>)
        /\ UNCHANGED <<stoc, stage, first_attack_player, duel_winner, last_response, core>>
    BY <1>3, <2>1 DEF OnJoinGame
  <2>3. c \in Seats /\ ~Present(c) /\ Still(c) /\ NoMail
    BY <2>1 DEF Missing, Talking, Quiet, Still, NoMail
  <2>4. ASSUME NEW s \in Seats
        PROVE  /\ s = c => /\ players'[s].here /\ players'[s].state = "Any" /\ ~players'[s].ready
                           /\ clients'[s] = NewClient
               /\ s # c => players'[s] = players[s] /\ clients'[s] = clients[s]
    <3>1. players \in [Seats -> PlayerRecords] /\ DOMAIN clients = Seats
      BY DEF TypeOK
    <3> QED
      BY <2>2, <2>3, <3>1
  <2>5. Inner(<<>>) /\ <<>> \in Seq(Requests) /\ Nothing \in Boxes
    BY InnerRequests, Queues, NewsTyped DEF Nothing, Boxes
  <2>6. Mine(c)' = 0
    <3>1. Mine(c) = 0 /\ Count(<<>>, From(c)) = 0
      BY <2>3, CountShort DEF Still
    <3>2. Count(queue', From(c)) = Count(queue, From(c)) - Taken(From(c)) + Count(<<>>, From(c))
      BY <1>1, <2>2, <2>5, HandledQueue
    <3>3. Count(queue', From(c)) \in Nat /\ Taken(From(c)) \in 0..1
      <4>1. queue' \in Seq(Requests)
        BY DEF TypeOK
      <4> QED
        BY <4>1, CountTyped DEF Taken
    <3> QED
      BY <3>1, <3>2, <3>3 DEF Mine
  <2>7. clients'[c].owes = "None" /\ stoc'[c] = <<>>
    BY <2>2, <2>3, <2>4 DEF NewClient, Still
  <2>8. /\ \A x \in Talks : Num(c, x)' = 0
        /\ Sent(c, "LeaveGame")' = 0 /\ ~Ahead(queue', {Ctos("LeaveGame", c)}, From(c))
        /\ Asked(c)' /\ Decks(c)' = 0
    BY <2>3, <2>6, <2>7, CutOff
  <2>9. Still(c)'
    BY <2>3, <2>4, <2>8 DEF Still, Present, NewClient
  <2>10. ASSUME NEW s \in Seats, s # c PROVE SpeaksTo(<<>>, Nothing, s) /\ Unasked(s)
    <3>1. stoc'[s] = IF players'[s].here THEN stoc[s] \o Nothing[s] ELSE <<>>
      BY <2>2, <2>3, <2>4, <2>10, TellsNothing
    <3>2. SpeaksTo(<<>>, Nothing, s)
      BY <1>1, <2>2, <2>4, <2>10, <3>1 DEF SpeaksTo
    <3>3. Nothing[s] = <<>>
      BY DEF Nothing
    <3> QED
      BY <2>5, <3>2, <3>3, Speech DEF Talking
  <2>11. ASSUME NEW s \in Seats, s # c PROVE Still(s)'
    <3>1. Request # Ctos("LeaveGame", s) /\ Unpressed(s)
      BY <1>1, <2>10, <2>11 DEF Ctos, Unasked, Unpressed
    <3> QED
      BY <2>4, <2>5, <2>10, <2>11, <3>1, StillSpeaks DEF Talking
  <2>12. OpenGates'
    <3>1. \A g \in Stages : "Any" \in GatesOf[g]
      BY DEF Stages, GatesOf
    <3>2. stage' \in Stages
      BY DEF TypeOK
    <3>3. \A s \in Seats : players'[s].here => players'[s].state \in GatesOf[stage']
      BY <2>2, <2>4, <3>1, <3>2 DEF Talking, OpenGates, Present
    <3> QED
      BY <2>2, <2>4, <3>3 DEF Talking, OpenGates, Present
  <2>13. ASSUME NEW s \in Seats PROVE Asked(s)'
    <3>1. CASE s # c
      BY <2>2, <2>4, <2>10, <3>1, AllEased, EasedAsked DEF Talking, Talk
    <3> QED
      BY <2>8, <3>1
  <2>14. Plain /\ Tokens' = Tokens
    BY <1>1, <2>2, PlainDone DEF Runs
  <2>15. Rounds'
    <3>1. ASSUME NEW s \in Seats PROVE Decks(s)' <= Decks(s)
      <4>1. CASE s = c
        <5>1. Decks(c) \in Nat
          BY <2>3, DecksTyped
        <5> QED
          BY <2>8, <4>1, <5>1
      <4>2. CASE s # c
        BY <2>4, <2>10, <4>2, AllEased, DecksEased, TalkKinds DEF Eased
      <4> QED
        BY <4>1, <4>2
    <3> QED
      BY <2>2, <2>14, <3>1, RoundsStay DEF Talking, Plain
  <2>16. OneRun'
    <3>1. \A s \in Seats : (Waited(s)' => Waited(s)) /\ (players'[s].ready => players[s].ready)
      BY <2>4 DEF Waited
    <3> QED
      BY <2>2, <2>14, <3>1, OneRunKept DEF Talking, Plain
  <2>17. \A s \in Seats : Still(s)'
    BY <2>9, <2>11
  <2> QED
    BY <2>12, <2>13, <2>15, <2>16, <2>17 DEF Talking, Quiet, Talk
<1> QED
  BY <1>2, <1>3

-----------------------------------------------------------------------------
(* Whatever happens, what is under way stays in order.                      *)

\* Nothing happens in a room that is gone.
LEMMA OnlyRunning ==
  ASSUME Next
  PROVE  running
<1>1. CASE Actor
  <2>1. CASE \/ Refused \/ OnHandResult \/ OnTpResult \/ OnFirstShuffle \/ OnDuelInit
             \/ OnDuelStartPanics \/ OnDuelStart \/ OnEvolveEnded \/ OnEvolveSelect
             \/ OnEvolveRetry \/ OnEvolveWin
    BY <2>1 DEF Refused, OnHandResult, OnTpResult, OnFirstShuffle, OnDuelInit, OnDuelStartPanics, OnDuelStart,
                OnEvolveEnded, OnEvolveSelect, OnEvolveRetry, OnEvolveWin, Evolving, ReceiveFrom, Receive
  <2>2. CASE \/ OnResponse \/ OnTimeConfirm \/ OnSurrender
             \/ OnLeaveGame \/ OnDuelEnd \/ OnGenerateReplay \/ OnJudgeContinueMatch
             \/ OnMatchEnd \/ OnTerminate \/ OnRecreateDuel \/ OnUpdateDeck \/ OnJoinGame
             \/ OnTimerTick \/ OnTimeout
    BY <2>2 DEF OnResponse, OnTimeConfirm, OnSurrender, OnLeaveGame, OnDuelEnd, OnGenerateReplay,
                OnJudgeContinueMatch, OnMatchEnd, OnTerminate, OnRecreateDuel, OnUpdateDeck, OnJoinGame,
                OnTimerTick, OnTimeout, ReceiveFrom, Receive
  <2> QED
    BY <1>1, <2>1, <2>2 DEF Actor
<1>2. CASE TimerTicks \/ StrangerJoins
  BY <1>2 DEF TimerTicks, StrangerJoins, Post
<1>3. ASSUME NEW s \in Seats, Client(s) PROVE running
  BY <1>3 DEF Client, ClientReads, ClientAnswers, ClientSurrenders, ClientLeaves, Post
<1> QED
  BY <1>1, <1>2, <1>3 DEF Next

\* Every handler but those that end the room.
LEMMA ActorKept ==
  ASSUME TypeOK, TypeOK', Named, Talking, Actor, running'
  PROVE  Talking'
<1>1. CASE \/ Refused \/ OnFirstShuffle \/ OnEvolveEnded \/ OnGenerateReplay \/ OnMatchEnd \/ OnTimerTick
           \/ (OnJudgeContinueMatch /\ MustEnd)
  BY <1>1, ChainsKept
<1>2. CASE OnHandResult \/ OnTpResult
  BY <1>2, HandKept, TpKept
<1>3. CASE OnDuelInit \/ OnDuelStart
  BY <1>3, DuelInitKept, DuelStartKept
<1>4. CASE OnEvolveSelect \/ OnEvolveRetry
  BY <1>4, EvolveKept
<1>5. CASE OnEvolveWin \/ OnSurrender \/ OnTimeout
  BY <1>5, EndingsKept
<1>6. CASE OnResponse \/ OnTimeConfirm
  BY <1>6, ResponseKept, TimeConfirmKept
<1>7. CASE OnDuelEnd \/ (OnJudgeContinueMatch /\ ~MustEnd)
  BY <1>7, DuelEndKept, JudgeKept
<1>8. CASE OnRecreateDuel \/ OnUpdateDeck
  BY <1>8, RecreateKept, UpdateKept
<1>9. CASE OnLeaveGame \/ OnJoinGame
  BY <1>9, LeaveKept, JoinKept
<1>10. CASE OnDuelStartPanics \/ OnTerminate
  BY <1>10 DEF OnDuelStartPanics, OnTerminate, Break
<1> QED
  BY <1>1, <1>2, <1>3, <1>4, <1>5, <1>6, <1>7, <1>8, <1>9, <1>10 DEF Actor

\* Whatever is under way stays in order as long as there is a room.
InOrderWhileRunning == running => Talking

\* Every step of a room that runs afterwards keeps what is under way in order.
LEMMA TalkingKept == TypeOK /\ Named /\ InOrderWhileRunning /\ [Next]_vars => InOrderWhileRunning'
<1> SUFFICES ASSUME TypeOK, Named, running => Talking, [Next]_vars, running'
             PROVE  Talking'
  BY DEF InOrderWhileRunning
<1>1. TypeOK' /\ Named'
  BY TypeKept
<1>2. CASE Next
  <2>1. Talking
    BY <1>2, OnlyRunning
  <2> QED
    BY <1>1, <1>2, <2>1, ActorKept, OutsideKept DEF Next
<1>3. CASE UNCHANGED vars
  <2>1. UNCHANGED <<running, queue, stage, players, first_attack_player, duel_winner, last_response, core, clients, stoc>>
    BY <1>3 DEF vars, duel, outside
  <2>2. Talking
    BY <2>1
  <2>3. Quiet'
    BY <2>1, <2>2 DEF Talking, Quiet, Still, Present, Num, Sent, Owing, Coming, Mine
  <2>4. OpenGates'
    BY <2>1, <2>2 DEF Talking, OpenGates, Present
  <2>5. Talk'
    <3>1. ASSUME NEW s \in Seats PROVE Asked(s)'
      <4>1. Asked(s)
        BY <2>2 DEF Talking, Talk
      <4> QED
        BY <2>1, <4>1 DEF Asked, InFinger, InFirstgo, InDueling, InSiding, Num, Sent, Owing, Coming, Before, Lasting, Waited
    <3> QED
      BY <3>1 DEF Talk
  <2>6. Rounds'
    BY <2>1, <2>2 DEF Talking, Rounds, Decks, Waiting, Num, Sent, Owing, Coming
  <2>7. OneRun'
    BY <2>1, <2>2 DEF Talking, OneRun, Tokens, Waiting, AheadOf, Waited
  <2> QED
    BY <2>3, <2>4, <2>5, <2>6, <2>7 DEF Talking
<1> QED
  BY <1>2, <1>3

-----------------------------------------------------------------------------
(* One answer at a time, and each in the replay once.                       *)

\* A chain under way is one Evolve at most, and nobody is asked meanwhile.
LEMMA OneAtATime ==
  ASSUME TypeOK, Talking
  PROVE  OneOutstanding
<1>1. Evolves = Places(queue, Of("Evolve"))
  <2>1. \A i \in DOMAIN queue : queue[i] \in Requests
    BY DEF TypeOK
  <2> QED
    BY <2>1 DEF Evolves, Places, Of
<1>2. Cardinality(Evolves) = Waiting("Evolve") /\ Waiting("Evolve") \in Nat
  BY <1>1, WaitingTypedAll DEF Waiting, Count
<1>3. Waiting("Evolve") <= Tokens /\ Tokens \in Nat /\ Tokens <= 1
  BY TokensSum DEF Runs, Talking, OneRun
<1> DEFINE W == {s \in Seats : Waited(s)}
<1>4. CASE W = {}
  <2>1. Cardinality(W) = 0
    BY <1>4, FS_EmptySet
  <2> HIDE DEF W
  <2>2. Cardinality(Evolves) + Cardinality(W) <= 1
    BY <1>2, <1>3, <2>1
  <2> QED
    BY <2>2 DEF OneOutstanding, Talking, OneRun, W
<1>5. CASE W # {}
  <2>1. PICK s \in Seats : Waited(s)
    BY <1>5
  <2>2. W = {s}
    BY <2>1 DEF Talking, OneRun
  <2>3. Tokens = 0
    BY <2>1 DEF Talking, OneRun
  <2>4. Cardinality(W) = 1
    BY <2>2, FS_Singleton
  <2> HIDE DEF W
  <2>5. Cardinality(Evolves) + Cardinality(W) <= 1
    BY <1>2, <1>3, <2>3, <2>4
  <2> QED
    BY <2>5 DEF OneOutstanding, Talking, OneRun, W
<1> QED
  BY <1>4, <1>5

\* The same as a state predicate, for the state after a step.
LEMMA OneAtATimeHolds == TypeOK /\ Talking => OneOutstanding
  BY OneAtATime

\* Where neither the queue of prompts grows nor a gate moves.
LEMMA OutstandingKept ==
  ASSUME OneOutstanding, TypeOK, UNCHANGED <<players, last_response>>, queue' \in {queue, <<>>}
  PROVE  OneOutstanding'
<1>1. CASE queue' = queue
  BY <1>1 DEF OneOutstanding, Evolves, Waited
<1>2. CASE queue' = <<>>
  <2> DEFINE W == {s \in Seats : Waited(s)}
             E == Evolves
  <2>1. Evolves' = {}
    BY <1>2 DEF Evolves
  <2>2. Cardinality(Evolves') = 0
    BY <2>1, FS_EmptySet
  <2>3. {s \in Seats : Waited(s)'} = W
    BY DEF Waited
  <2>4. IsFiniteSet(Seats) /\ IsFiniteSet(1..Len(queue)) /\ DOMAIN queue = 1..Len(queue)
    <3>1. queue \in Seq(Requests)
      BY DEF TypeOK
    <3>2. Len(queue) \in Nat /\ DOMAIN queue = 1..Len(queue)
      BY <3>1
    <3>3. 0..1 = Seats
      BY DEF Seats
    <3>4. 0 \in Int /\ 1 \in Int /\ Len(queue) \in Int
      BY <3>2
    <3>5. IsFiniteSet(0..1)
      BY <3>4, FS_Interval
    <3>6. IsFiniteSet(1..Len(queue))
      BY <3>4, FS_Interval
    <3> QED
      BY <3>2, <3>3, <3>5, <3>6
  <2>5. IsFiniteSet(W) /\ IsFiniteSet(E)
    BY <2>4, FS_Subset DEF Evolves
  <2>6. Cardinality(W) \in Nat /\ Cardinality(E) \in Nat
    BY <2>5, FS_CardinalityType
  <2>7. Cardinality(E) + Cardinality(W) <= 1
    BY DEF OneOutstanding
  <2> HIDE DEF W, E
  <2>8. Cardinality(Evolves') + Cardinality(W) <= 1
    BY <2>2, <2>6, <2>7
  <2>9. \A s \in Seats : Waited(s)' => last_response' \in {s, None}
    BY DEF OneOutstanding, Waited
  <2> QED
    BY <2>3, <2>8, <2>9 DEF OneOutstanding
<1> QED
  BY <1>1, <1>2

\* The answers the replay holds are the ones the engine took and the one it was given.
LEMMA ReplayKept ==
  ASSUME TypeOK, Talking, ReplayExact, Next
  PROVE  ReplayExact'
<1>0. core \in CoreRecords /\ client_responses \in Nat /\ core.accepted \in Nat /\ core.input \in BOOLEAN
  <2>1. core \in CoreRecords /\ client_responses \in Nat
    BY TypeFolded DEF Typed
  <2> QED
    BY <2>1 DEF CoreRecords
<1>r. client_responses = core.accepted + (IF core.input THEN 1 ELSE 0)
  BY DEF ReplayExact
<1>1. ASSUME client_responses' = client_responses, core'.accepted = core.accepted, core'.input = core.input
      PROVE  ReplayExact'
  BY <1>1, <1>r DEF ReplayExact
<1>2. CASE UNCHANGED <<client_responses, core>>
  BY <1>1, <1>2
<1>3. CASE OnDuelInit
  <2>1. core' = [core EXCEPT !.loaded = Loaded, !.first = FirstAttacker] /\ client_responses' = client_responses
    BY <1>3 DEF OnDuelInit
  <2> QED
    BY <1>0, <1>1, <2>1 DEF CoreRecords
<1>4. CASE OnDuelStart
  <2>1. core' = [core EXCEPT !.started = ~core.ended] /\ client_responses' = client_responses
    BY <1>4 DEF OnDuelStart
  <2> QED
    BY <1>0, <1>1, <2>1 DEF CoreRecords
<1>5. CASE OnDuelEnd
  <2>1. core' = [core EXCEPT !.ended = TRUE, !.ends = @ + 1] /\ client_responses' = client_responses
    BY <1>5 DEF OnDuelEnd
  <2> QED
    BY <1>0, <1>1, <2>1 DEF CoreRecords
<1>6. CASE OnEvolveSelect \/ OnEvolveWin
  <2>1. core'.accepted = Accepted /\ core'.input = FALSE /\ client_responses' = client_responses
    BY <1>0, <1>6 DEF OnEvolveSelect, OnEvolveWin, CoreRecords
  <2>2. client_responses = Accepted
    BY <1>0, <1>r DEF Accepted
  <2> QED
    BY <1>0, <2>1, <2>2 DEF ReplayExact
<1>7. CASE OnEvolveRetry
  <2>1. core.input /\ core'.accepted = core.accepted /\ core'.input = FALSE
        /\ client_responses' = WithoutLast(client_responses)
    BY <1>0, <1>7 DEF OnEvolveRetry, CoreRecords
  <2>2. client_responses' = core.accepted
    BY <1>0, <1>r, <2>1 DEF WithoutLast
  <2> QED
    BY <1>0, <2>1, <2>2 DEF ReplayExact
<1>8. CASE OnResponse
  <2>1. CASE core.ended
    BY <1>2, <1>8, <2>1 DEF OnResponse, Ignored, Chain, duel
  <2>2. CASE ~core.ended
    <3>1. Tokens = 0
      BY <1>8, AnswerSent DEF OnResponse
    <3>2. ~core.input
      BY <2>2, <3>1 DEF Talking, OneRun
    <3>3. client_responses' = client_responses + 1 /\ core'.accepted = core.accepted /\ core'.input = TRUE
      BY <1>0, <1>8, <2>2 DEF OnResponse, CoreRecords
    <3> QED
      BY <1>0, <1>r, <3>2, <3>3 DEF ReplayExact
  <2> QED
    BY <2>1, <2>2
<1>9. CASE OnRecreateDuel
  BY <1>9 DEF OnRecreateDuel, ReplayExact, NewCore
<1>10. CASE \/ Refused \/ OnHandResult \/ OnTpResult \/ OnFirstShuffle
            \/ OnDuelStartPanics \/ OnEvolveEnded \/ OnTimeConfirm \/ OnSurrender
            \/ OnLeaveGame \/ OnGenerateReplay \/ OnJudgeContinueMatch
            \/ OnMatchEnd \/ OnTerminate \/ OnUpdateDeck \/ OnJoinGame
            \/ OnTimerTick \/ OnTimeout
  <2>1. CASE \/ Refused \/ OnHandResult \/ OnTpResult \/ OnFirstShuffle
             \/ OnDuelStartPanics \/ OnEvolveEnded \/ OnTimeConfirm \/ OnSurrender
    BY <1>2, <2>1 DEF Refused, OnHandResult, OnTpResult, OnFirstShuffle, OnDuelStartPanics, OnEvolveEnded,
                      OnTimeConfirm, OnSurrender, Ignored, Chain, duel
  <2>2. CASE \/ OnLeaveGame \/ OnGenerateReplay \/ OnJudgeContinueMatch \/ OnMatchEnd \/ OnTerminate
             \/ OnTimerTick \/ OnTimeout
    BY <1>2, <2>2 DEF OnLeaveGame, OnGenerateReplay, OnJudgeContinueMatch, OnMatchEnd, OnTerminate,
                      OnTimerTick, OnTimeout, Ignored, Chain, Break, duel
  <2>3. CASE OnUpdateDeck \/ OnJoinGame
    BY <1>2, <2>3 DEF OnUpdateDeck, OnJoinGame, Ignored, Chain, duel
  <2> QED
    BY <1>10, <2>1, <2>2, <2>3
<1>11. CASE TimerTicks \/ StrangerJoins \/ \E s \in Seats : Client(s)
  <2>1. UNCHANGED duel
    BY <1>11, OutsidePasses
  <2> QED
    BY <1>2, <2>1 DEF duel
<1> QED
  BY <1>3, <1>4, <1>5, <1>6, <1>7, <1>8, <1>9, <1>10, <1>11 DEF Next, Actor

\* The end of the room leaves the duel as it was.
LEMMA LastStep ==
  ASSUME TypeOK, Next, ~running'
  PROVE  UNCHANGED <<players, last_response, core>> /\ queue' = <<>>
<1>1. CASE OnDuelStartPanics \/ OnTerminate
  BY <1>1 DEF OnDuelStartPanics, OnTerminate, Break, duel
<1>2. CASE OnLeaveGame
  <2>1. running
    BY OnlyRunning
  <2> QED
    BY <1>2, <2>1 DEF OnLeaveGame, Break, Steady, duel
<1>3. CASE TimerTicks \/ StrangerJoins \/ \E s \in Seats : Client(s)
  BY <1>3, OutsidePasses
<1>4. CASE \/ Refused \/ OnHandResult \/ OnTpResult \/ OnFirstShuffle \/ OnDuelInit
           \/ OnDuelStart \/ OnEvolveEnded \/ OnEvolveSelect
           \/ OnEvolveRetry \/ OnEvolveWin
  <2>1. running' = running
    BY <1>4 DEF Refused, OnHandResult, OnTpResult, OnFirstShuffle, OnDuelInit, OnDuelStart,
                OnEvolveEnded, OnEvolveSelect, OnEvolveRetry, OnEvolveWin, Steady, Ignored, Chain
  <2> QED
    BY <2>1, OnlyRunning
<1>5. CASE \/ OnResponse \/ OnTimeConfirm \/ OnSurrender
           \/ OnDuelEnd \/ OnGenerateReplay \/ OnJudgeContinueMatch
           \/ OnMatchEnd \/ OnRecreateDuel \/ OnUpdateDeck \/ OnJoinGame
           \/ OnTimerTick \/ OnTimeout
  <2>1. running' = running
    BY <1>5 DEF OnResponse, OnTimeConfirm, OnSurrender, OnDuelEnd, OnGenerateReplay,
                OnJudgeContinueMatch, OnMatchEnd, OnRecreateDuel, OnUpdateDeck, OnJoinGame,
                OnTimerTick, OnTimeout, Steady, Ignored, Chain
  <2> QED
    BY <2>1, OnlyRunning
<1> QED
  BY <1>1, <1>2, <1>3, <1>4, <1>5 DEF Next, Actor

\* One answer at a time is given to the engine, and each that it took is in the replay once,
\* whatever the clients, the timer and latecomers send in the middle of a chain.
THEOREM AnswersAcceptedOnce == Spec => []AcceptedOnce
<1> DEFINE Inv == TypeOK /\ Named /\ InOrderWhileRunning /\ AcceptedOnce
<1>1. Init => Inv
  <2> SUFFICES ASSUME Init PROVE Inv
    OBVIOUS
  <2>1. TypeOK /\ Named /\ Talking
    BY TypeInit, InitTalks
  <2>2. OneOutstanding
    BY <2>1, OneAtATime
  <2>3. ReplayExact
    BY DEF Init, ReplayExact, NewCore
  <2> QED
    BY <2>1, <2>2, <2>3 DEF InOrderWhileRunning, AcceptedOnce
<1>2. Inv /\ [Next]_vars => Inv'
  <2> SUFFICES ASSUME Inv, [Next]_vars PROVE Inv'
    OBVIOUS
  <2>1. TypeOK' /\ Named' /\ InOrderWhileRunning'
    BY TypeKept, TalkingKept
  <2>2. CASE Next
    <3>1. Talking
      BY <2>2, OnlyRunning DEF InOrderWhileRunning
    <3>2. ReplayExact'
      BY <2>2, <3>1, ReplayKept DEF AcceptedOnce
    <3>3. CASE running'
      <4>1. TypeOK' /\ Talking'
        BY <2>1, <3>3 DEF InOrderWhileRunning
      <4>2. OneOutstanding'
        BY <4>1, OneAtATimeHolds, PTL
      <4> QED
        BY <2>1, <3>2, <4>2 DEF AcceptedOnce
    <3>4. CASE ~running'
      <4>1. UNCHANGED <<players, last_response>> /\ queue' = <<>>
        BY <2>2, <3>4, LastStep
      <4>2. OneOutstanding'
        BY <4>1, OutstandingKept DEF AcceptedOnce
      <4> QED
        BY <2>1, <3>2, <4>2 DEF AcceptedOnce
    <3> QED
      BY <3>3, <3>4
  <2>3. CASE UNCHANGED vars
    <3>1. UNCHANGED <<players, last_response, queue, client_responses, core>>
      BY <2>3 DEF vars, duel
    <3>2. OneOutstanding' /\ ReplayExact'
      BY <3>1, OutstandingKept DEF AcceptedOnce, ReplayExact
    <3> QED
      BY <2>1, <3>2 DEF AcceptedOnce
  <2> QED
    BY <2>2, <2>3
<1>3. Inv => AcceptedOnce
  OBVIOUS
<1> HIDE DEF Inv
<1> QED
  BY <1>1, <1>2, <1>3, PTL DEF Spec

=============================================================================

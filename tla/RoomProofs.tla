----------------------------- MODULE RoomProofs -----------------------------
(***************************************************************************)
(* Theorems about Room, for every set of clients, every set of decks, every *)
(* terminate policy and every bound, up to the theorem that, seen from the  *)
(* clients, the room behaves like Lobby; and about the decks and lists of   *)
(* DeckRules, for every deck and every file of lists: how they are read,    *)
(* and that the checks of a deck are the rules.                             *)
(***************************************************************************)
EXTENDS MCDecks, FoldFacts

-----------------------------------------------------------------------------
(* Positions and requests.                                                  *)

\* A position of a kind names a slot, or a key, of that kind.
LEMMA PositionKinds ==
  ASSUME NEW pos \in Positions
  PROVE  /\ pos.kind = "Player" => pos.index \in Seats /\ pos = Player(pos.index)
         /\ pos.kind = "Observer" => pos.index \in Slots!Keys /\ pos = Observer(pos.index)
         /\ pos.kind = "Undecided" => pos.index \in Slots!Keys /\ pos = Undecided(pos.index)
  BY DEF Positions, Player, Observer, Undecided, Unknown

\* The positions of slots and keys exist.
LEMMA PositionsTyped ==
  /\ \A s \in Seats : Player(s) \in Positions
  /\ \A k \in Slots!Keys : Observer(k) \in Positions /\ Undecided(k) \in Positions
  /\ Unknown \in Positions
  BY DEF Positions

\* What each type of request carries.
LEMMA RequestFields ==
  ASSUME NEW r \in Requests
  PROVE  /\ r.type = "ClientJoin" => r.client \in Clients
         /\ r.type \in {"JoinGame", "UpdateDeck", "HsKick"} \cup PlainTypes => r.from \in Positions
         /\ r.type = "UpdateDeck" => r.deck \in Decks
         /\ r.type = "HsKick" => r.pos \in Seats
         /\ r.type = "ValidateDeck" => r.player \in Seats /\ r.deck \in Decks
         /\ r.type = "SendDeckValidation" => r.player \in Seats
  BY DEF Requests, PlainTypes

-----------------------------------------------------------------------------
(* Slabs.                                                                   *)

\* Slab operations stay within slabs, with keys in range.
LEMMA EmptySlabTyped == Slots!EmptySlab \in Slots!Slabs(Clients)
<1> DEFINE f == [i \in 1..(MaxKey + 1) |-> i - 1]
<1>1. MaxKey + 1 \in Nat
  BY RoomAssumption
<1>2. f \in [1..(MaxKey + 1) -> Slots!Keys]
  BY <1>1, RoomAssumption DEF Slots!Keys
<1>3. f \in Seq(Slots!Keys)
  BY <1>1, <1>2
<1> QED
  BY <1>3 DEF Slots!EmptySlab, Slots!Slabs

\* An insertion yields a slab and uses a key in range.
LEMMA SlabInsertTyped ==
  ASSUME NEW slab \in Slots!Slabs(Clients), Slots!HasRoom(slab), NEW c \in Clients
  PROVE  /\ Slots!SlabInsert(slab, c) \in Slots!Slabs(Clients)
         /\ Slots!VacantKey(slab) \in Slots!Keys
<1>1. slab.free \in Seq(Slots!Keys) /\ slab.free # <<>>
  BY DEF Slots!Slabs, Slots!HasRoom
<1>2. Head(slab.free) \in Slots!Keys /\ Tail(slab.free) \in Seq(Slots!Keys)
  BY <1>1, HeadTailProperties
<1> QED
  BY <1>2 DEF Slots!Slabs, Slots!SlabInsert, Slots!VacantKey

\* A removal yields a slab.
LEMMA SlabRemoveTyped ==
  ASSUME NEW slab \in Slots!Slabs(Clients), NEW k \in Slots!Keys
  PROVE  Slots!SlabRemove(slab, k) \in Slots!Slabs(Clients)
<1>1. slab.free \in Seq(Slots!Keys) /\ <<k>> \in Seq(Slots!Keys)
  BY DEF Slots!Slabs
<1>2. <<k>> \o slab.free \in Seq(Slots!Keys)
  BY <1>1, ConcatProperties
<1> QED
  BY <1>2 DEF Slots!Slabs, Slots!SlabRemove

\* So does a departure.
LEMMA WithoutTyped ==
  ASSUME NEW slab \in Slots!Slabs(Clients), NEW pos \in Positions,
         NEW kind \in {"Observer", "Undecided"}
  PROVE  Without(slab, kind, pos) \in Slots!Slabs(Clients)
  BY PositionKinds, SlabRemoveTyped DEF Without

\* A stored client is a client.
LEMMA StoredIsClient ==
  ASSUME NEW slab \in Slots!Slabs(Clients), NEW k \in Slots!Keys, Slots!Contains(slab, k)
  PROVE  slab.val[k] \in Clients
  BY DEF Slots!Slabs, Slots!Contains

-----------------------------------------------------------------------------
(* Slots.                                                                   *)

\* The seat JoinGame and HsToDuelist choose is an empty one.
LEMMA FirstEmptySeatIsEmpty ==
  ASSUME AnyEmptySeat
  PROVE  FirstEmptySeat \in Seats /\ ~Occupied(FirstEmptySeat)
<1>1. \E s \in Seats : ~Occupied(s) /\ \A t \in Seats : ~Occupied(t) => s <= t
  <2>1. CASE Occupied(0)
    BY <2>1 DEF AnyEmptySeat, Seats
  <2>2. CASE ~Occupied(0)
    BY <2>2 DEF Seats
  <2> QED BY <2>1, <2>2
<1> QED
  BY <1>1 DEF FirstEmptySeat

\* The seat that succeeds a leaving host is somebody else's.
LEMMA HeirIsSeated ==
  ASSUME NEW leaver, Heirs(leaver) # {}
  PROVE  Heir(leaver) \in Seats /\ Occupied(Heir(leaver)) /\ Player(Heir(leaver)) # leaver
<1>1. \E s \in Heirs(leaver) : \A t \in Heirs(leaver) : s <= t
  <2>1. CASE 0 \in Heirs(leaver)
    BY <2>1 DEF Heirs, Seats
  <2>2. CASE 0 \notin Heirs(leaver)
    BY <2>2 DEF Heirs, Seats
  <2> QED BY <2>1, <2>2
<1>2. Heir(leaver) \in Heirs(leaver)
  BY <1>1 DEF Heir
<1> QED
  BY <1>2 DEF Heirs

-----------------------------------------------------------------------------
(* Type correctness.                                                        *)

\* The head of the mailbox is a request, the rest a mailbox.
LEMMA RequestTyped ==
  ASSUME TypeOK, queue # <<>>
  PROVE  Request \in Requests /\ Tail(queue) \in Seq(Requests)
  BY HeadTailProperties DEF TypeOK, Request

\* No request at all is a mailbox.
LEMMA NoRequestTyped == <<>> \in Seq(Requests)
  OBVIOUS

\* What a handler leaves in the mailbox is a mailbox.
LEMMA DoneTyped ==
  ASSUME TypeOK, queue # <<>>, NEW more \in Seq(Requests), Done(more)
  PROVE  queue' \in Seq(Requests)
  BY RequestTyped, ConcatProperties DEF Done

\* A message sent to one position leaves well-typed inboxes.
LEMMA SendSingleTyped ==
  ASSUME TypeOK, NEW snd, NEW pos, NEW message \in StocMessages, SendSingle(snd, pos, message)
  PROVE  inbox' \in [Clients -> Seq(StocMessages)]
<1>1. \A d \in Clients : inbox[d] \in Seq(StocMessages)
  BY DEF TypeOK
<1>2. \A d \in Clients : Append(inbox[d], message) \in Seq(StocMessages)
  BY <1>1, AppendProperties
<1> QED
  BY <1>1, <1>2 DEF SendSingle

\* The messages a bridge reads have their type.
LEMMA TypeChangeTyped ==
  ASSUME NEW pos \in Positions
  PROVE  TypeChange(pos) \in StocMessages
  BY DEF TypeChange, StocMessages

\* The seating alone: the part of TypeOK most handlers touch.
SlotsTyped ==
  /\ players \in [Seats -> SlotRecords \cup {EmptySlot}]
  /\ observers \in Slots!Slabs(Clients)
  /\ uninit_players \in Slots!Slabs(Clients)
  /\ sender \in [players   : [Seats -> Clients \cup {Nobody}],
                 observers : Slots!Slabs(Clients),
                 undecided : Slots!Slabs(Clients)]
  /\ host_player \in Positions

\* A client who takes a slot makes a player.
LEMMA NewPlayerTyped ==
  ASSUME NEW c \in Clients
  PROVE  NewPlayer(c) \in SlotRecords
  BY RoomAssumption DEF NewPlayer, SlotRecords

\* A room without clients is well typed.
LEMMA EmptySeatingTyped ==
  /\ EmptyPlayers \in [Seats -> SlotRecords \cup {EmptySlot}]
  /\ EmptySender \in [players   : [Seats -> Clients \cup {Nobody}],
                      observers : Slots!Slabs(Clients),
                      undecided : Slots!Slabs(Clients)]
  BY EmptySlabTyped DEF EmptyPlayers, EmptySender

\* So is what is left of a room that has ended.
LEMMA TerminateTyped ==
  ASSUME Terminate
  PROVE  SlotsTyped' /\ running' \in BOOLEAN /\ queue' \in Seq(Requests)
<1>1. running' \in BOOLEAN
  BY ZenonT(30) DEF Terminate
<1>6. queue' \in Seq(Requests)
  BY DEF Terminate
<1>2. players' \in [Seats -> SlotRecords \cup {EmptySlot}]
  BY EmptySeatingTyped DEF Terminate
<1>3. sender' \in [players   : [Seats -> Clients \cup {Nobody}],
                  observers : Slots!Slabs(Clients),
                  undecided : Slots!Slabs(Clients)]
  BY EmptySeatingTyped DEF Terminate
<1>4. observers' \in Slots!Slabs(Clients) /\ uninit_players' \in Slots!Slabs(Clients)
  BY EmptySlabTyped DEF Terminate
<1>5. host_player' \in Positions
  BY PositionsTyped DEF Terminate
<1> QED
  BY <1>1, <1>2, <1>3, <1>4, <1>5, <1>6 DEF SlotsTyped

\* An occupied slot holds a client; an empty one is EmptySlot.
LEMMA OccupiedIsClient ==
  ASSUME TypeOK, NEW s \in Seats, Occupied(s)
  PROVE  players[s] \in SlotRecords /\ players[s].client \in Clients
  BY DEF TypeOK, Occupied, EmptySlot, SlotRecords

\* Types hold at the start.
LEMMA TypeInit == Init => TypeOK
  BY EmptySeatingTyped, EmptySlabTyped, PositionsTyped DEF Init, TypeOK

\* The bridges and the clients.
LEMMA TypeBridges ==
  ASSUME TypeOK, NEW c \in Clients, Bridge(c) \/ ClientActs(c)
  PROVE  TypeOK'
<1>1. CASE Connect(c)
  <2>1. [type |-> "ClientJoin", client |-> c] \in Requests
    BY DEF Requests
  <2>2. queue' \in Seq(Requests)
    BY <1>1, <2>1, AppendProperties DEF Connect, TypeOK
  <2> QED
    BY <1>1, <2>2 DEF Connect, TypeOK, seating
<1>2. CASE ClientSpeaks(c)
  <2>1. PICK m \in Offered(my_position[c]) : queue' = Append(queue, m)
    BY <1>2 DEF ClientSpeaks
  <2>2. my_position[c] \in Positions
    BY DEF TypeOK
  <2>3. m \in Requests
    BY <2>1, <2>2 DEF Offered, Requests, PlainTypes
  <2>4. queue' \in Seq(Requests)
    BY <2>1, <2>3, AppendProperties DEF TypeOK
  <2> QED
    BY <1>2, <2>4 DEF ClientSpeaks, TypeOK, seating, bridges
<1>3. CASE ClientEnds(c)
  <2>1. my_position[c] \in Positions
    BY DEF TypeOK
  <2>2. [type |-> "LeaveGame", from |-> my_position[c]] \in Requests
    BY <2>1 DEF Requests, PlainTypes
  <2>3. queue' \in Seq(Requests)
    BY <1>3, <2>2, AppendProperties DEF ClientEnds, TypeOK
  <2> QED
    BY <1>3, <2>3, PositionsTyped DEF ClientEnds, Close, TypeOK, seating
<1>4. CASE BridgeReads(c)
  <2>1. inbox[c] \in Seq(StocMessages) /\ inbox[c] # <<>>
    BY <1>4 DEF BridgeReads, TypeOK
  <2>2. Head(inbox[c]) \in StocMessages /\ Tail(inbox[c]) \in Seq(StocMessages)
    BY <2>1, HeadTailProperties
  <2>3. Head(inbox[c]).pos \in Positions
    BY <2>2 DEF StocMessages
  <2>4. CASE Close(c)
    BY <1>4, <2>4, PositionsTyped DEF BridgeReads, Close, TypeOK, seating
  <2>5. CASE ~Close(c)
    <3>1. my_position' = my_position \/ my_position' = [my_position EXCEPT ![c] = Head(inbox[c]).pos]
      BY <1>4, <2>5 DEF BridgeReads
    <3>2. my_position' \in [Clients -> Positions]
      BY <3>1, <2>3 DEF TypeOK
    <3>3. inbox' = [inbox EXCEPT ![c] = Tail(@)] /\ UNCHANGED conn
      BY <1>4, <2>5 DEF BridgeReads
    <3>4. inbox' \in [Clients -> Seq(StocMessages)]
      BY <3>3, <2>2 DEF TypeOK
    <3> QED
      BY <1>4, <3>2, <3>3, <3>4 DEF BridgeReads, TypeOK, seating
  <2> QED
    BY <2>4, <2>5
<1>5. CASE BridgeStops(c)
  BY <1>5, PositionsTyped DEF BridgeStops, Close, TypeOK, seating
<1> QED
  BY <1>1, <1>2, <1>3, <1>4, <1>5 DEF Bridge, ClientActs

\* A handler that returns early.
LEMMA TypeIgnored ==
  ASSUME TypeOK, queue # <<>>, Ignored
  PROVE  TypeOK'
<1>1. queue' \in Seq(Requests)
  BY DoneTyped, NoRequestTyped DEF Ignored
<1> QED
  BY <1>1 DEF Ignored, TypeOK, seating, bridges

-----------------------------------------------------------------------------
(* Both copies of the seating.  TypeOK alone is not inductive: that an       *)
(* insertion into the sender's slab finds a vacant key follows from the      *)
(* duel's slab having one, and from the two being equal.                     *)

Kept == TypeOK /\ SenderInStep

\* What a handler that changes the seating has to show.
SeatingKept ==
  /\ players' \in [Seats -> SlotRecords \cup {EmptySlot}]
  /\ observers' \in Slots!Slabs(Clients)
  /\ uninit_players' \in Slots!Slabs(Clients)
  /\ sender' = [players   |-> [s \in Seats |-> players'[s].client],
                observers |-> observers',
                undecided |-> uninit_players']
  /\ host_player' \in Positions

\* The clients of the slots are what Sender.players may hold.
LEMMA ClientsOfPlayers ==
  ASSUME NEW p \in [Seats -> SlotRecords \cup {EmptySlot}]
  PROVE  [s \in Seats |-> p[s].client] \in [Seats -> Clients \cup {Nobody}]
  BY DEF SlotRecords, EmptySlot

\* Types and agreement follow from a seating kept in both copies.
LEMMA SeatingKeptSuffices ==
  ASSUME SeatingKept, running' \in BOOLEAN, stage' \in {"Begin", "Finger"},
         queue' \in Seq(Requests), inbox' \in [Clients -> Seq(StocMessages)],
         conn' \in [Clients -> {"outside", "joining", "open", "closed"}],
         my_position' \in [Clients -> Positions]
  PROVE  Kept'
<1>1. sender' \in [players   : [Seats -> Clients \cup {Nobody}],
                   observers : Slots!Slabs(Clients),
                   undecided : Slots!Slabs(Clients)]
  BY ClientsOfPlayers DEF SeatingKept
<1>2. TypeOK'
  BY <1>1 DEF SeatingKept, TypeOK
<1>3. SenderInStep'
  BY DEF SeatingKept, SenderInStep
<1> QED
  BY <1>2, <1>3 DEF Kept

\* The sender is determined by the seating.
LEMMA SenderDetermined ==
  ASSUME Kept
  PROVE  sender = [players   |-> [s \in Seats |-> players[s].client],
                   observers |-> observers,
                   undecided |-> uninit_players]
  BY DEF Kept, TypeOK, SenderInStep

\* One lemma for each handler: it keeps types and agreement.
LEMMA KeptClientJoin ==
  ASSUME Kept, OnClientJoin
  PROVE  Kept'
<1> DEFINE c == Request.client
           pos == Undecided(Slots!VacantKey(uninit_players))
<1>1. queue # <<>> /\ Request.type = "ClientJoin" /\ Slots!HasRoom(uninit_players)
  BY DEF OnClientJoin, Receive
<1>2. c \in Clients
  BY <1>1, RequestTyped, RequestFields DEF Kept
<1>3. /\ Slots!SlabInsert(uninit_players, c) \in Slots!Slabs(Clients)
      /\ pos \in Positions
  BY <1>1, <1>2, SlabInsertTyped, PositionsTyped DEF Kept, TypeOK
<1>4. /\ uninit_players' = Slots!SlabInsert(uninit_players, c)
      /\ sender' = [sender EXCEPT !.undecided = Slots!SlabInsert(@, c)]
      /\ conn' = [conn EXCEPT ![c] = "open"]
      /\ my_position' = [my_position EXCEPT ![c] = pos]
      /\ Done(<<>>)
      /\ UNCHANGED <<running, stage, players, observers, host_player, inbox>>
  BY DEF OnClientJoin
<1>5. SeatingKept
  <2>1. sender = [players   |-> [s \in Seats |-> players[s].client],
                  observers |-> observers,
                  undecided |-> uninit_players]
    BY SenderDetermined
  <2>2. sender' = [players   |-> [s \in Seats |-> players[s].client],
                   observers |-> observers,
                   undecided |-> Slots!SlabInsert(uninit_players, c)]
    BY <1>4, <2>1
  <2>3. sender' = [players   |-> [s \in Seats |-> players'[s].client],
                   observers |-> observers',
                   undecided |-> uninit_players']
    BY <1>4, <2>2
  <2> QED
    BY <1>3, <1>4, <2>3 DEF SeatingKept, Kept, TypeOK
<1>6. queue' \in Seq(Requests)
  BY <1>1, <1>4, DoneTyped, NoRequestTyped DEF Kept
<1> QED
  BY <1>2, <1>3, <1>4, <1>5, <1>6, SeatingKeptSuffices DEF Kept, TypeOK

\* A slot is filled or cleared in both copies.
LEMMA SetSeat ==
  ASSUME TypeOK, NEW s \in Seats, NEW r \in SlotRecords \cup {EmptySlot}
  PROVE  /\ [players EXCEPT ![s] = r] \in [Seats -> SlotRecords \cup {EmptySlot}]
         /\ [[t \in Seats |-> players[t].client] EXCEPT ![s] = r.client]
              = [t \in Seats |-> [players EXCEPT ![s] = r][t].client]
  BY DEF TypeOK

\* JoinGame: out of the undecided, into a slot or among the observers.
LEMMA KeptJoinGame ==
  ASSUME Kept, OnJoinGame
  PROVE  Kept'
<1> DEFINE k == Request.from.index
           c == uninit_players.val[k]
           pos == IF AnyEmptySeat THEN Player(FirstEmptySeat)
                                  ELSE Observer(Slots!VacantKey(observers))
<1>1. /\ queue # <<>> /\ Request.type = "JoinGame"
      /\ AnyEmptySeat \/ Slots!HasRoom(observers)
      /\ Done(<<>>)
      /\ UNCHANGED <<running, stage, conn, my_position>>
  BY DEF OnJoinGame, Receive
<1>2. queue' \in Seq(Requests)
  BY <1>1, DoneTyped, NoRequestTyped DEF Kept
<1>3. CASE JoinRefused
  BY <1>1, <1>2, <1>3 DEF OnJoinGame, Kept, TypeOK, SenderInStep, seating
<1>4. CASE ~JoinRefused
  <2>1. Request.from \in Positions
    BY <1>1, RequestTyped, RequestFields DEF Kept
  <2>2. k \in Slots!Keys /\ Slots!Contains(uninit_players, k)
    BY <1>4, <2>1, PositionKinds DEF JoinRefused
  <2>3. c \in Clients /\ TakenOut(uninit_players, k) \in Slots!Slabs(Clients)
    BY <2>2, StoredIsClient, SlabRemoveTyped DEF Kept, TypeOK, TakenOut
  <2>4. AnyEmptySeat => FirstEmptySeat \in Seats
    BY FirstEmptySeatIsEmpty
  <2>5. ~AnyEmptySeat => /\ Slots!SlabInsert(observers, c) \in Slots!Slabs(Clients)
                         /\ Slots!VacantKey(observers) \in Slots!Keys
    BY <1>1, <2>3, SlabInsertTyped DEF Kept, TypeOK
  <2>6. pos \in Positions
    BY <2>4, <2>5, PositionsTyped
  <2>7. /\ uninit_players' = TakenOut(uninit_players, k)
        /\ host_player' = pos \/ host_player' = host_player
        /\ SendSingle(sender', pos, TypeChange(pos))
    BY <1>4 DEF OnJoinGame
  <2>8. inbox' \in [Clients -> Seq(StocMessages)]
    BY <2>6, <2>7, SendSingleTyped, TypeChangeTyped DEF Kept
  <2>9. sender = [players   |-> [s \in Seats |-> players[s].client],
                  observers |-> observers,
                  undecided |-> uninit_players]
    BY SenderDetermined
  <2>10. SeatingKept
    <3>1. CASE AnyEmptySeat
      <4> DEFINE s == FirstEmptySeat
      <4>1. /\ players' = [players EXCEPT ![s] = NewPlayer(c)]
            /\ sender' = SetPlayer([sender EXCEPT !.undecided = TakenOut(@, k)], s, c)
            /\ UNCHANGED observers
        BY <1>4, <3>1 DEF OnJoinGame, Player
      <4>2. s \in Seats /\ NewPlayer(c) \in SlotRecords /\ NewPlayer(c).client = c
        BY <2>3, <2>4, <3>1, NewPlayerTyped DEF NewPlayer
      <4>3. sender' = [players   |-> [[t \in Seats |-> players[t].client] EXCEPT ![s] = c],
                       observers |-> observers,
                       undecided |-> TakenOut(uninit_players, k)]
        BY <2>9, <4>1 DEF SetPlayer
      <4>4. sender' = [players   |-> [t \in Seats |-> players'[t].client],
                       observers |-> observers',
                       undecided |-> uninit_players']
        BY <2>7, <4>1, <4>2, <4>3, SetSeat DEF Kept
      <4>5. players' \in [Seats -> SlotRecords \cup {EmptySlot}]
        BY <4>1, <4>2, SetSeat DEF Kept
      <4> QED
        BY <2>3, <2>6, <2>7, <4>1, <4>4, <4>5 DEF SeatingKept, Kept, TypeOK
    <3>2. CASE ~AnyEmptySeat
      <4>1. /\ observers' = Slots!SlabInsert(observers, c)
            /\ sender' = [sender EXCEPT !.undecided = TakenOut(@, k),
                                        !.observers = Slots!SlabInsert(@, c)]
            /\ UNCHANGED players
        BY <1>4, <3>2 DEF OnJoinGame
      <4>2. sender' = [players   |-> [t \in Seats |-> players[t].client],
                       observers |-> Slots!SlabInsert(observers, c),
                       undecided |-> TakenOut(uninit_players, k)]
        BY <2>9, <4>1
      <4>3. sender' = [players   |-> [t \in Seats |-> players'[t].client],
                       observers |-> observers',
                       undecided |-> uninit_players']
        BY <2>7, <4>1, <4>2
      <4> QED
        BY <2>3, <2>5, <2>6, <2>7, <3>2, <4>1, <4>3 DEF SeatingKept, Kept, TypeOK
    <3> QED
      BY <3>1, <3>2
  <2> QED
    BY <1>1, <1>2, <2>8, <2>10, SeatingKeptSuffices DEF Kept, TypeOK
<1> QED
  BY <1>3, <1>4

\* HsToDuelist: from the observers to a slot.
LEMMA KeptToDuelist ==
  ASSUME Kept, OnHsToDuelist
  PROVE  Kept'
<1> DEFINE k == Request.from.index
           s == FirstEmptySeat
           c == observers.val[k]
           refused == \/ Request.from.kind # "Observer"
                      \/ ~AnyEmptySeat
                      \/ ~Slots!Contains(observers, k)
<1>1. queue # <<>> /\ Request.type = "HsToDuelist"
  BY DEF OnHsToDuelist, Receive
<1>2. CASE refused
  <2>1. Ignored
    BY <1>2 DEF OnHsToDuelist
  <2> QED
    BY <1>1, <2>1, TypeIgnored DEF Kept, Ignored, SenderInStep, seating
<1>3. CASE ~refused
  <2>1. Request.from \in Positions
    BY <1>1, RequestTyped, RequestFields DEF Kept, PlainTypes
  <2>2. k \in Slots!Keys /\ Slots!Contains(observers, k) /\ s \in Seats
    BY <1>3, <2>1, PositionKinds, FirstEmptySeatIsEmpty
  <2>3. c \in Clients /\ TakenOut(observers, k) \in Slots!Slabs(Clients)
    BY <2>2, StoredIsClient, SlabRemoveTyped DEF Kept, TypeOK, TakenOut
  <2>4. /\ observers' = TakenOut(observers, k)
        /\ players' = [players EXCEPT ![s] = NewPlayer(c)]
        /\ sender' = SetPlayer([sender EXCEPT !.observers = TakenOut(@, k)], s, c)
        /\ host_player' = Player(s) \/ host_player' = host_player
        /\ SendSingle(sender', Player(s), TypeChange(Player(s)))
        /\ Done(<<>>)
        /\ UNCHANGED <<running, stage, uninit_players, conn, my_position>>
    BY <1>3 DEF OnHsToDuelist, Player
  <2>5. NewPlayer(c) \in SlotRecords /\ NewPlayer(c).client = c /\ Player(s) \in Positions
    BY <2>2, <2>3, NewPlayerTyped, PositionsTyped DEF NewPlayer
  <2>6. sender = [players   |-> [t \in Seats |-> players[t].client],
                  observers |-> observers,
                  undecided |-> uninit_players]
    BY SenderDetermined
  <2>7. sender' = [players   |-> [[t \in Seats |-> players[t].client] EXCEPT ![s] = c],
                   observers |-> TakenOut(observers, k),
                   undecided |-> uninit_players]
    BY <2>4, <2>6 DEF SetPlayer
  <2>8. sender' = [players   |-> [t \in Seats |-> players'[t].client],
                   observers |-> observers',
                   undecided |-> uninit_players']
    BY <2>2, <2>4, <2>5, <2>7, SetSeat DEF Kept
  <2>9. players' \in [Seats -> SlotRecords \cup {EmptySlot}]
    BY <2>2, <2>4, <2>5, SetSeat DEF Kept
  <2>10. SeatingKept
    BY <2>3, <2>4, <2>5, <2>8, <2>9 DEF SeatingKept, Kept, TypeOK
  <2>11. inbox' \in [Clients -> Seq(StocMessages)]
    BY <2>4, <2>5, SendSingleTyped, TypeChangeTyped DEF Kept
  <2>12. queue' \in Seq(Requests)
    BY <1>1, <2>4, DoneTyped, NoRequestTyped DEF Kept
  <2> QED
    BY <2>4, <2>10, <2>11, <2>12, SeatingKeptSuffices DEF Kept, TypeOK
<1> QED
  BY <1>2, <1>3

\* HsToObserver: from a slot to the observers.
LEMMA KeptToObserver ==
  ASSUME Kept, OnHsToObserver
  PROVE  Kept'
<1> DEFINE s == Request.from.index
           c == players[s].client
           pos == Observer(Slots!VacantKey(observers))
           refused == Request.from.kind # "Player" \/ ~Occupied(s)
<1>1. queue # <<>> /\ Request.type = "HsToObserver" /\ Slots!HasRoom(observers)
  BY DEF OnHsToObserver, Receive
<1>2. CASE refused
  <2>1. Ignored
    BY <1>2 DEF OnHsToObserver
  <2> QED
    BY <1>1, <2>1, TypeIgnored DEF Kept, Ignored, SenderInStep, seating
<1>3. CASE ~refused
  <2>1. Request.from \in Positions
    BY <1>1, RequestTyped, RequestFields DEF Kept, PlainTypes
  <2>2. s \in Seats /\ c \in Clients
    BY <1>3, <2>1, PositionKinds, OccupiedIsClient DEF Kept
  <2>3. Slots!SlabInsert(observers, c) \in Slots!Slabs(Clients) /\ pos \in Positions
    BY <1>1, <2>2, SlabInsertTyped, PositionsTyped DEF Kept, TypeOK
  <2>4. /\ players' = [players EXCEPT ![s] = EmptySlot]
        /\ observers' = Slots!SlabInsert(observers, c)
        /\ sender' = [ClearPlayer(sender, s) EXCEPT !.observers = Slots!SlabInsert(@, c)]
        /\ host_player' = pos \/ host_player' = host_player
        /\ SendSingle(sender', pos, TypeChange(pos))
        /\ Done(<<>>)
        /\ UNCHANGED <<running, stage, uninit_players, conn, my_position>>
    BY <1>3 DEF OnHsToObserver
  <2>5. EmptySlot.client = Nobody
    BY DEF EmptySlot
  <2>6. sender = [players   |-> [t \in Seats |-> players[t].client],
                  observers |-> observers,
                  undecided |-> uninit_players]
    BY SenderDetermined
  <2>7. sender' = [players   |-> [[t \in Seats |-> players[t].client] EXCEPT ![s] = Nobody],
                   observers |-> Slots!SlabInsert(observers, c),
                   undecided |-> uninit_players]
    BY <2>4, <2>6 DEF ClearPlayer
  <2>8. sender' = [players   |-> [t \in Seats |-> players'[t].client],
                   observers |-> observers',
                   undecided |-> uninit_players']
    BY <2>2, <2>4, <2>5, <2>7, SetSeat DEF Kept
  <2>9. players' \in [Seats -> SlotRecords \cup {EmptySlot}]
    BY <2>2, <2>4, SetSeat DEF Kept
  <2>10. SeatingKept
    BY <2>3, <2>4, <2>8, <2>9 DEF SeatingKept, Kept, TypeOK
  <2>11. inbox' \in [Clients -> Seq(StocMessages)]
    BY <2>3, <2>4, SendSingleTyped, TypeChangeTyped DEF Kept
  <2>12. queue' \in Seq(Requests)
    BY <1>1, <2>4, DoneTyped, NoRequestTyped DEF Kept
  <2> QED
    BY <2>4, <2>10, <2>11, <2>12, SeatingKeptSuffices DEF Kept, TypeOK
<1> QED
  BY <1>2, <1>3

\* A handler that changes one occupied slot only.
LEMMA KeptOneSlot ==
  ASSUME TypeOK, SenderInStep, queue # <<>>, NEW s \in Seats, Occupied(s),
         NEW r \in BOOLEAN, NEW d \in Decks, NEW e \in BOOLEAN,
         players' \in {players, [players EXCEPT ![s].ready = r],
                       [players EXCEPT ![s].deck_error = e],
                       [players EXCEPT ![s].deck = d, ![s].deck_error = e]},
         NEW more \in Seq(Requests), Done(more),
         UNCHANGED <<running, stage, observers, uninit_players, sender, host_player, bridges>>
  PROVE  Kept'
<1>1. queue' \in Seq(Requests)
  BY DoneTyped
<1>2. players[s] \in SlotRecords
  BY OccupiedIsClient
<1>3. [players[s] EXCEPT !.ready = r] \in SlotRecords
  BY <1>2 DEF SlotRecords
<1>4. [players[s] EXCEPT !.deck_error = e] \in SlotRecords
  BY <1>2 DEF SlotRecords
<1>5. [players[s] EXCEPT !.deck = d, !.deck_error = e] \in SlotRecords
  BY <1>2 DEF SlotRecords
<1>6. players' \in [Seats -> SlotRecords \cup {EmptySlot}]
  <2>1. players \in [Seats -> SlotRecords \cup {EmptySlot}]
    BY DEF TypeOK
  <2>2. CASE players' = players
    BY <2>1, <2>2
  <2>3. CASE players' = [players EXCEPT ![s].ready = r]
    BY <2>1, <2>3, <1>3
  <2>4. CASE players' = [players EXCEPT ![s].deck_error = e]
    BY <2>1, <2>4, <1>4
  <2>5. CASE players' = [players EXCEPT ![s].deck = d, ![s].deck_error = e]
    BY <2>1, <2>5, <1>5
  <2> QED
    BY <2>2, <2>3, <2>4, <2>5
<1>7. \A t \in Seats : players'[t].client = players[t].client
  <2>1. players \in [Seats -> SlotRecords \cup {EmptySlot}]
    BY DEF TypeOK
  <2>2. /\ [players[s] EXCEPT !.ready = r].client = players[s].client
        /\ [players[s] EXCEPT !.deck_error = e].client = players[s].client
        /\ [players[s] EXCEPT !.deck = d, !.deck_error = e].client = players[s].client
    BY <1>2 DEF SlotRecords
  <2>3. CASE players' = players
    BY <2>3
  <2>4. CASE players' = [players EXCEPT ![s].ready = r]
    BY <2>1, <2>2, <2>4
  <2>5. CASE players' = [players EXCEPT ![s].deck_error = e]
    BY <2>1, <2>2, <2>5
  <2>6. CASE players' = [players EXCEPT ![s].deck = d, ![s].deck_error = e]
    BY <2>1, <2>2, <2>6
  <2> QED
    BY <2>3, <2>4, <2>5, <2>6
<1>8. TypeOK'
  BY <1>1, <1>6 DEF TypeOK, bridges
<1>9. SenderInStep'
  BY <1>7 DEF SenderInStep
<1> QED
  BY <1>8, <1>9 DEF Kept

\* The handlers of the deck and the ready mark.
LEMMA KeptReady ==
  ASSUME TypeOK, SenderInStep,
         OnUpdateDeck \/ OnHsReady \/ OnValidateDeck \/ OnSendDeckValidation \/ OnHsNotReady
  PROVE  Kept'
<1>1. queue # <<>> /\ Request \in Requests
  BY RequestTyped DEF OnUpdateDeck, OnHsReady, OnValidateDeck, OnSendDeckValidation,
                      OnHsNotReady, Receive
<1>2. CASE Ignored
  BY <1>1, <1>2, TypeIgnored DEF Kept, Ignored, SenderInStep, seating
<1>3. CASE OnUpdateDeck /\ ~Ignored
  <2>1. Request.type = "UpdateDeck" /\ ~NotUnready(Request.from)
    BY <1>3 DEF OnUpdateDeck, Receive
  <2> DEFINE s == Request.from.index
             e == Request.deck \in Unloadable
  <2>2. s \in Seats /\ Occupied(s) /\ Request.deck \in Decks
    BY <1>1, <2>1, RequestFields, PositionKinds DEF NotUnready
  <2>3. e \in BOOLEAN
    OBVIOUS
  <2>4. players' = [players EXCEPT ![s].deck = Request.deck, ![s].deck_error = e] /\ Done(<<>>)
        /\ UNCHANGED <<running, stage, observers, uninit_players, sender, host_player, bridges>>
    BY <1>3, <2>1 DEF OnUpdateDeck
  <2> QED
    BY <1>1, <2>2, <2>3, <2>4, NoRequestTyped, KeptOneSlot
<1>4. CASE OnHsReady /\ ~Ignored
  <2>1. Request.type = "HsReady" /\ ~NotUnready(Request.from)
    BY <1>4 DEF OnHsReady, Receive
  <2> DEFINE s == Request.from.index
             sdv == <<[type |-> "SendDeckValidation", player |-> s]>>
             vd == <<[type |-> "ValidateDeck", player |-> s, deck |-> players[s].deck]>>
  <2>2. s \in Seats /\ Occupied(s)
    BY <1>1, <2>1, RequestFields, PositionKinds DEF NotUnready, PlainTypes
  <2>3. players[s].deck \in Decks
    BY <2>2, OccupiedIsClient DEF SlotRecords
  <2>4. sdv \in Seq(Requests) /\ vd \in Seq(Requests)
    BY <2>2, <2>3 DEF Requests
  <2>5. /\ \/ players' = [players EXCEPT ![s].ready = TRUE] /\ Done(<<>>)
           \/ players' = players /\ Done(sdv)
           \/ players' = players /\ Done(vd)
        /\ UNCHANGED <<running, stage, observers, uninit_players, sender, host_player, bridges>>
    BY <1>4, <2>1 DEF OnHsReady
  <2> QED
    BY <1>1, <2>2, <2>3, <2>4, <2>5, NoRequestTyped, KeptOneSlot
<1>5. CASE OnValidateDeck
  <2> DEFINE s == Request.player
             e == Request.deck \in Illegal
             sdv == <<[type |-> "SendDeckValidation", player |-> s]>>
  <2>1. s \in Seats
    BY <1>1, <1>5, RequestFields DEF OnValidateDeck, Receive
  <2>2. sdv \in Seq(Requests)
    BY <2>1 DEF Requests
  <2>3. /\ players' = IF Occupied(s) THEN [players EXCEPT ![s].deck_error = e] ELSE players
        /\ Done(sdv)
        /\ UNCHANGED <<running, stage, observers, uninit_players, sender, host_player, bridges>>
    BY <1>5 DEF OnValidateDeck
  <2>4. CASE Occupied(s)
    <3>1. players[s].deck \in Decks
      BY <2>1, <2>4, OccupiedIsClient DEF SlotRecords
    <3>2. e \in BOOLEAN
      OBVIOUS
    <3>3. players' = [players EXCEPT ![s].deck_error = e]
      BY <2>3, <2>4
    <3> QED
      BY <1>1, <2>1, <2>2, <2>3, <2>4, <3>1, <3>2, <3>3, KeptOneSlot
  <2>5. CASE ~Occupied(s)
    <3>1. queue' \in Seq(Requests)
      BY <1>1, <2>2, <2>3, DoneTyped
    <3> QED
      BY <2>3, <2>5, <3>1 DEF Kept, TypeOK, SenderInStep, bridges
  <2> QED
    BY <2>4, <2>5
<1>6. CASE OnSendDeckValidation /\ ~Ignored
  <2> DEFINE s == Request.player
  <2>1. Request.type = "SendDeckValidation" /\ ~NothingToReady(s)
    BY <1>6 DEF OnSendDeckValidation, Receive
  <2>2. s \in Seats /\ Occupied(s)
    BY <1>1, <2>1, RequestFields DEF NothingToReady
  <2>3. players[s].deck \in Decks
    BY <2>2, OccupiedIsClient DEF SlotRecords
  <2>4. players' = [players EXCEPT ![s].ready = TRUE] /\ Done(<<>>)
        /\ UNCHANGED <<running, stage, observers, uninit_players, sender, host_player, bridges>>
    BY <1>6, <2>1 DEF OnSendDeckValidation
  <2> QED
    BY <1>1, <2>2, <2>3, <2>4, NoRequestTyped, KeptOneSlot
<1>7. CASE OnHsNotReady /\ ~Ignored
  <2> DEFINE s == Request.from.index
  <2>1. Request.type = "HsNotReady" /\ Request.from.kind = "Player" /\ Occupied(s)
    BY <1>7 DEF OnHsNotReady, Receive
  <2>2. s \in Seats
    BY <1>1, <2>1, RequestFields, PositionKinds DEF PlainTypes
  <2>3. players[s].deck \in Decks
    BY <2>1, <2>2, OccupiedIsClient DEF SlotRecords
  <2>4. players' = [players EXCEPT ![s].ready = FALSE] /\ Done(<<>>)
        /\ UNCHANGED <<running, stage, observers, uninit_players, sender, host_player, bridges>>
    BY <1>7, <2>1 DEF OnHsNotReady
  <2> QED
    BY <1>1, <2>1, <2>2, <2>3, <2>4, NoRequestTyped, KeptOneSlot
<1> QED
  BY <1>2, <1>3, <1>4, <1>5, <1>6, <1>7

\* The end of the loop empties both copies.
LEMMA KeptTerminate ==
  ASSUME TypeOK, Terminate, UNCHANGED <<stage, conn, my_position>>,
         inbox' \in [Clients -> Seq(StocMessages)]
  PROVE  Kept'
<1>1. SlotsTyped' /\ running' \in BOOLEAN /\ queue' \in Seq(Requests)
  BY TerminateTyped
<1>2. TypeOK'
  BY <1>1 DEF TypeOK, SlotsTyped
<1>3. sender' = EmptySender /\ players' = EmptyPlayers
      /\ observers' = Slots!EmptySlab /\ uninit_players' = Slots!EmptySlab
  BY DEF Terminate
<1>4. SenderInStep'
  BY <1>3 DEF SenderInStep, EmptySender, EmptyPlayers, EmptySlot
<1> QED
  BY <1>2, <1>4 DEF Kept

\* LeaveGame: the host passes on, and the place goes in both copies.
LEMMA KeptLeaveGame ==
  ASSUME Kept, OnLeaveGame
  PROVE  Kept'
<1> DEFINE pos == Request.from
           host_leaves == pos = host_player
           heir == Heir(pos)
           seated == IF host_leaves THEN [players EXCEPT ![heir].ready = FALSE] ELSE players
           left == IF pos.kind = "Player" THEN [seated EXCEPT ![pos.index] = EmptySlot] ELSE seated
           watching == Without(observers, "Observer", pos)
           waiting == Without(uninit_players, "Undecided", pos)
           noPlayers == \A s \in Seats : left[s].client = Nobody
           noObservers == Slots!IsEmptySlab(watching)
           ends == (noPlayers /\ noObservers) \/ IsPlayerLeft(noPlayers, noObservers)
           seats == [s \in Seats |-> players[s].client]
<1>1. /\ queue # <<>> /\ Request.type = "LeaveGame"
      /\ UNCHANGED <<stage, conn, my_position>>
  BY DEF OnLeaveGame, Receive
<1>2. pos \in Positions
  BY <1>1, RequestTyped, RequestFields DEF Kept, PlainTypes
<1>3. CASE host_leaves /\ Heirs(pos) = {}
  <2>1. Terminate /\ UNCHANGED inbox
    BY <1>3 DEF OnLeaveGame
  <2> QED
    BY <1>1, <2>1, KeptTerminate DEF Kept, TypeOK
<1>4. CASE ~host_leaves \/ Heirs(pos) # {}
  <2>1. host_leaves => heir \in Seats /\ Occupied(heir) /\ Player(heir) \in Positions
    BY <1>4, HeirIsSeated, PositionsTyped
  <2>2. inbox' \in [Clients -> Seq(StocMessages)]
    <3>1. CASE host_leaves
      <4>1. SendSingle(sender, Player(heir), TypeChange(Player(heir)))
        BY <1>4, <3>1 DEF OnLeaveGame
      <4> QED
        BY <2>1, <3>1, <4>1, SendSingleTyped, TypeChangeTyped DEF Kept
    <3>2. CASE ~host_leaves
      <4>1. UNCHANGED inbox
        BY <1>4, <3>2 DEF OnLeaveGame
      <4> QED
        BY <4>1 DEF Kept, TypeOK
    <3> QED
      BY <3>1, <3>2
  <2>3. CASE ends
    <3>1. Terminate
      BY <1>4, <2>3 DEF OnLeaveGame
    <3> QED
      BY <1>1, <2>2, <3>1, KeptTerminate DEF Kept
  <2>4. CASE ~ends
    <3>1. /\ players' = left
          /\ observers' = watching
          /\ uninit_players' = waiting
          /\ sender' = [IF pos.kind = "Player" THEN ClearPlayer(sender, pos.index) ELSE sender
               EXCEPT !.observers = IF watching = observers THEN @ ELSE Slots!SlabRemove(@, pos.index),
                      !.undecided = IF pos.kind = "Undecided" /\ Slots!Contains(uninit_players, pos.index)
                                    THEN Slots!SlabRemove(@, pos.index) ELSE @]
          /\ host_player' = IF host_leaves THEN Player(heir) ELSE host_player
          /\ Done(<<>>)
          /\ UNCHANGED running
      BY <1>4, <2>4 DEF OnLeaveGame
    <3>2. seated \in [Seats -> SlotRecords \cup {EmptySlot}]
          /\ [s \in Seats |-> seated[s].client] = seats
      <4>1. CASE host_leaves
        <5>1. players[heir] \in SlotRecords
          BY <2>1, <4>1, OccupiedIsClient DEF Kept
        <5>2. [players[heir] EXCEPT !.ready = FALSE] \in SlotRecords
              /\ [players[heir] EXCEPT !.ready = FALSE].client = players[heir].client
          BY <5>1 DEF SlotRecords
        <5>3. seated = [players EXCEPT ![heir] = [players[heir] EXCEPT !.ready = FALSE]]
          BY <4>1
        <5> QED
          BY <2>1, <4>1, <5>2, <5>3 DEF Kept, TypeOK
      <4>2. CASE ~host_leaves
        BY <4>2 DEF Kept, TypeOK
      <4> QED
        BY <4>1, <4>2
    <3>3. left \in [Seats -> SlotRecords \cup {EmptySlot}]
          /\ [s \in Seats |-> left[s].client]
               = IF pos.kind = "Player" THEN [seats EXCEPT ![pos.index] = Nobody] ELSE seats
      <4>1. CASE pos.kind = "Player"
        <5>1. pos.index \in Seats
          BY <1>2, <4>1, PositionKinds
        <5>2. left = [seated EXCEPT ![pos.index] = EmptySlot]
          BY <4>1
        <5>3. left \in [Seats -> SlotRecords \cup {EmptySlot}]
          BY <3>2, <5>2
        <5>4. [s \in Seats |-> left[s].client] = [seats EXCEPT ![pos.index] = Nobody]
          <6>1. EmptySlot.client = Nobody
            BY DEF EmptySlot
          <6>2. \A s \in Seats : left[s].client = IF s = pos.index THEN Nobody ELSE seats[s]
            BY <3>2, <5>1, <5>2, <6>1
          <6>3. [seats EXCEPT ![pos.index] = Nobody]
                  = [s \in Seats |-> IF s = pos.index THEN Nobody ELSE seats[s]]
            OBVIOUS
          <6> HIDE DEF left, seats
          <6> QED
            BY <6>2, <6>3
        <5> QED
          BY <4>1, <5>3, <5>4
      <4>2. CASE pos.kind # "Player"
        BY <3>2, <4>2
      <4> QED
        BY <4>1, <4>2
    <3>4. watching \in Slots!Slabs(Clients) /\ waiting \in Slots!Slabs(Clients)
      BY <1>2, WithoutTyped DEF Kept, TypeOK
    <3>5. sender = [players |-> seats, observers |-> observers, undecided |-> uninit_players]
      BY SenderDetermined
    <3>6. sender' = [players   |-> IF pos.kind = "Player" THEN [seats EXCEPT ![pos.index] = Nobody] ELSE seats,
                     observers |-> watching,
                     undecided |-> waiting]
      <4>1. (IF pos.kind = "Player" THEN ClearPlayer(sender, pos.index) ELSE sender)
              = [players   |-> IF pos.kind = "Player" THEN [seats EXCEPT ![pos.index] = Nobody] ELSE seats,
                 observers |-> observers,
                 undecided |-> uninit_players]
        BY <3>5 DEF ClearPlayer
      <4>2. (IF watching = observers THEN observers ELSE Slots!SlabRemove(observers, pos.index)) = watching
        BY DEF Without
      <4>3. (IF pos.kind = "Undecided" /\ Slots!Contains(uninit_players, pos.index)
             THEN Slots!SlabRemove(uninit_players, pos.index) ELSE uninit_players) = waiting
        BY DEF Without
      <4> DEFINE kept == IF pos.kind = "Player" THEN ClearPlayer(sender, pos.index) ELSE sender
                 remaining == IF pos.kind = "Player" THEN [seats EXCEPT ![pos.index] = Nobody] ELSE seats
      <4>4. sender' = [kept EXCEPT
                !.observers = IF watching = observers THEN kept.observers
                              ELSE Slots!SlabRemove(kept.observers, pos.index),
                !.undecided = IF pos.kind = "Undecided" /\ Slots!Contains(uninit_players, pos.index)
                              THEN Slots!SlabRemove(kept.undecided, pos.index) ELSE kept.undecided]
        BY <3>1
      <4>5. kept = [players |-> remaining, observers |-> observers, undecided |-> uninit_players]
        BY <4>1
      <4>6. kept.observers = observers /\ kept.undecided = uninit_players
        BY <4>5
      <4>7. sender' = [kept EXCEPT !.observers = watching, !.undecided = waiting]
        BY <4>2, <4>3, <4>4, <4>6
      <4> HIDE DEF kept, remaining, watching, waiting
      <4>8. sender' = [players |-> remaining, observers |-> watching, undecided |-> waiting]
        BY <4>5, <4>7
      <4> QED
        BY <4>8 DEF remaining
    <3>7. SeatingKept
      <4>1. host_player' \in Positions
        BY <2>1, <3>1 DEF Kept, TypeOK
      <4>2. sender' = [players   |-> [s \in Seats |-> players'[s].client],
                       observers |-> observers',
                       undecided |-> uninit_players']
        <5> HIDE DEF left, seats, watching, waiting
        <5> QED
          BY <3>1, <3>3, <3>6
      <4> QED
        BY <3>1, <3>3, <3>4, <4>1, <4>2 DEF SeatingKept
    <3>8. queue' \in Seq(Requests)
      BY <1>1, <3>1, DoneTyped, NoRequestTyped DEF Kept
    <3> QED
      BY <1>1, <2>2, <3>1, <3>7, <3>8, SeatingKeptSuffices DEF Kept, TypeOK
  <2> QED
    BY <2>3, <2>4
<1> QED
  BY <1>3, <1>4

\* HsKick: the slot goes in both copies.
LEMMA KeptKick ==
  ASSUME Kept, OnHsKick
  PROVE  Kept'
<1> DEFINE s == Request.pos
           refused == Request.from # host_player \/ Request.from = Player(s) \/ ~Occupied(s)
<1>1. queue # <<>> /\ Request.type = "HsKick"
  BY DEF OnHsKick, Receive
<1>2. CASE refused
  <2>1. Ignored
    BY <1>2 DEF OnHsKick
  <2> QED
    BY <1>1, <2>1, TypeIgnored DEF Kept, Ignored, SenderInStep, seating
<1>3. CASE ~refused
  <2>1. s \in Seats
    BY <1>1, RequestTyped, RequestFields DEF Kept
  <2>2. /\ sender' = ClearPlayer(sender, s)
        /\ SendSingle(sender', Player(s), [type |-> "LeaveGame", pos |-> Player(s)])
        /\ players' = [players EXCEPT ![s] = EmptySlot]
        /\ Done(<<>>)
        /\ UNCHANGED <<running, stage, observers, uninit_players, host_player, conn, my_position>>
    BY <1>3 DEF OnHsKick
  <2>3. sender = [players   |-> [t \in Seats |-> players[t].client],
                  observers |-> observers,
                  undecided |-> uninit_players]
    BY SenderDetermined
  <2>4. sender' = [players   |-> [[t \in Seats |-> players[t].client] EXCEPT ![s] = Nobody],
                   observers |-> observers,
                   undecided |-> uninit_players]
    BY <2>2, <2>3 DEF ClearPlayer
  <2>5. EmptySlot.client = Nobody
    BY DEF EmptySlot
  <2>6. sender' = [players   |-> [t \in Seats |-> players'[t].client],
                   observers |-> observers',
                   undecided |-> uninit_players']
    BY <2>1, <2>2, <2>4, <2>5, SetSeat DEF Kept
  <2>7. players' \in [Seats -> SlotRecords \cup {EmptySlot}]
    BY <2>1, <2>2, SetSeat DEF Kept
  <2>8. SeatingKept
    BY <2>2, <2>6, <2>7 DEF SeatingKept, Kept, TypeOK
  <2>9. [type |-> "LeaveGame", pos |-> Player(s)] \in StocMessages
    BY <2>1, PositionsTyped DEF StocMessages
  <2>10. inbox' \in [Clients -> Seq(StocMessages)]
    BY <2>2, <2>9, SendSingleTyped DEF Kept
  <2>11. queue' \in Seq(Requests)
    BY <1>1, <2>2, DoneTyped, NoRequestTyped DEF Kept
  <2> QED
    BY <2>2, <2>8, <2>10, <2>11, SeatingKeptSuffices DEF Kept, TypeOK
<1> QED
  BY <1>2, <1>3

\* HsStart: the seating does not change.
LEMMA KeptStart ==
  ASSUME Kept, OnHsStart
  PROVE  Kept'
<1>1. queue # <<>>
  BY DEF OnHsStart, Receive
<1>2. CASE StartRefused
  <2>1. Ignored
    BY <1>2 DEF OnHsStart
  <2> QED
    BY <1>1, <2>1, TypeIgnored DEF Kept, Ignored, SenderInStep, seating
<1>3. CASE ~StartRefused
  <2>1. stage' = "Finger" /\ Done(<<>>) /\ UNCHANGED <<running, seating, bridges>>
    BY <1>3 DEF OnHsStart
  <2>2. queue' \in Seq(Requests)
    BY <1>1, <2>1, DoneTyped, NoRequestTyped DEF Kept
  <2> QED
    BY <2>1, <2>2 DEF Kept, TypeOK, SenderInStep, seating, bridges
<1> QED
  BY <1>2, <1>3

-----------------------------------------------------------------------------
(* The theorems.                                                            *)

\* Types and agreement hold at the start.
LEMMA KeptInit == Init => Kept
<1>1. Init => SenderInStep
  BY DEF Init, SenderInStep, EmptySender, EmptyPlayers, EmptySlot
<1> QED
  BY <1>1, TypeInit DEF Kept

\* Every step keeps types and agreement.
LEMMA KeptNext == Kept /\ [Next]_vars => Kept'
<1> SUFFICES ASSUME Kept, [Next]_vars PROVE Kept'
  OBVIOUS
<1>1. CASE Actor
  BY <1>1, KeptClientJoin, KeptJoinGame, KeptToDuelist, KeptToObserver, KeptLeaveGame,
     KeptReady, KeptKick, KeptStart DEF Actor, Kept
<1>2. ASSUME NEW c \in Clients, Bridge(c) \/ ClientActs(c)
      PROVE  Kept'
  <2>1. TypeOK'
    BY <1>2, TypeBridges DEF Kept
  <2>2. UNCHANGED seating
    BY <1>2 DEF Bridge, ClientActs, BridgeReads, BridgeStops, Connect, ClientSpeaks, ClientEnds
  <2> QED
    BY <2>1, <2>2 DEF Kept, SenderInStep, seating
<1>3. CASE UNCHANGED vars
  BY <1>3 DEF vars, Kept, TypeOK, SenderInStep, seating, bridges
<1> QED
  BY <1>1, <1>2, <1>3 DEF Next

\* In every reachable state of every room each variable has its type: slab keys
\* stay in range, requests and messages carry positions that can exist.
THEOREM TypeCorrect == Spec => []TypeOK
<1>1. Kept => TypeOK
  BY DEF Kept
<1> QED
  BY KeptInit, KeptNext, <1>1, PTL DEF Spec

\* The sender's copy of the seating never drifts from the duel's, whoever joins,
\* moves, is kicked or leaves, in any order and from any stale position.
THEOREM SenderAlwaysInStep == Spec => []SenderInStep
<1>1. Kept => SenderInStep
  BY DEF Kept
<1> QED
  BY KeptInit, KeptNext, <1>1, PTL DEF Spec

-----------------------------------------------------------------------------
(* The host.                                                                *)

\* A host who keeps the position keeps the seat, if nobody but others move.
LEMMA HostStays ==
  ASSUME HostSeated,
         host_player' = host_player,
         ~NoPlayers' \/ ~Slots!IsEmptySlab(observers') => ~NoPlayers \/ ~Slots!IsEmptySlab(observers),
         host_player.kind = "Player" /\ Occupied(host_player.index) => Occupied(host_player.index)',
         host_player.kind = "Observer" /\ Slots!Contains(observers, host_player.index)
           => Slots!Contains(observers', host_player.index)
  PROVE  HostSeated'
  BY DEF HostSeated, Slots!IsEmptySlab, Slots!Contains

\* Handlers that leave the clients where they are.
LEMMA HostUnmoved ==
  ASSUME HostSeated, TypeOK, host_player' = host_player, observers' = observers,
         \A s \in Seats : players'[s].client = players[s].client
  PROVE  HostSeated'
<1>1. \A s \in Seats : Occupied(s)' <=> Occupied(s)
  BY DEF Occupied
<1>2. host_player.kind = "Player" => host_player.index \in Seats
  BY PositionKinds DEF TypeOK
<1> QED
  BY <1>1, <1>2, HostStays DEF NoPlayers

\* A host who gets a slot that is taken is seated.
LEMMA HostMovesToSeat ==
  ASSUME NEW s \in Seats, host_player' = Player(s), players'[s].client # Nobody
  PROVE  HostSeated'
  BY DEF HostSeated, Player, Occupied

\* So is one who gets a key among the observers.
LEMMA HostMovesToObserver ==
  ASSUME NEW k \in Slots!Keys, host_player' = Observer(k), Slots!Contains(observers', k)
  PROVE  HostSeated'
  BY DEF HostSeated, Observer, Slots!Contains

\* An insertion stores at the key it uses and drops no other key.
LEMMA InsertContains ==
  ASSUME NEW slab \in Slots!Slabs(Clients), Slots!HasRoom(slab), NEW c \in Clients
  PROVE  /\ Slots!Contains(Slots!SlabInsert(slab, c), Slots!VacantKey(slab))
         /\ \A k \in Slots!Keys : Slots!Contains(slab, k)
                                    => Slots!Contains(Slots!SlabInsert(slab, c), k)
  BY SlabInsertTyped, RoomAssumption DEF Slots!Contains, Slots!SlabInsert, Slots!Slabs

\* A removal empties one key.
LEMMA RemoveContains ==
  ASSUME NEW slab \in Slots!Slabs(Clients), NEW k \in Slots!Keys, NEW j \in Slots!Keys
  PROVE  Slots!Contains(Slots!SlabRemove(slab, k), j) <=> j # k /\ Slots!Contains(slab, j)
  BY DEF Slots!Contains, Slots!SlabRemove, Slots!Slabs

\* An empty slab contains nothing.
LEMMA EmptyIsNoneContained ==
  ASSUME NEW slab
  PROVE  Slots!IsEmptySlab(slab) <=> \A k \in Slots!Keys : ~Slots!Contains(slab, k)
  BY DEF Slots!IsEmptySlab, Slots!Contains

\* A client who takes a slot occupies it and empties no other.
LEMMA SeatTaken ==
  ASSUME TypeOK, NEW s \in Seats, NEW c, c # Nobody, players' = [players EXCEPT ![s] = NewPlayer(c)]
  PROVE  players'[s].client # Nobody /\ \A t \in Seats : Occupied(t) => Occupied(t)'
<1>1. NewPlayer(c).client = c
  BY DEF NewPlayer
<1>2. \A t \in Seats : players'[t] = IF t = s THEN NewPlayer(c) ELSE players[t]
  BY DEF TypeOK
<1> QED
  BY <1>1, <1>2 DEF Occupied

\* JoinGame: the first to come is the host.
LEMMA HostJoinGame ==
  ASSUME Kept, HostSeated, OnJoinGame
  PROVE  HostSeated'
<1> DEFINE k == Request.from.index
           c == uninit_players.val[k]
<1>1. /\ queue # <<>> /\ Request.type = "JoinGame"
      /\ AnyEmptySeat \/ Slots!HasRoom(observers)
  BY DEF OnJoinGame, Receive
<1>2. CASE JoinRefused
  BY <1>2, HostUnmoved DEF OnJoinGame, Kept, seating
<1>3. CASE ~JoinRefused
  <2>1. Request.from \in Positions
    BY <1>1, RequestTyped, RequestFields DEF Kept
  <2>2. c \in Clients /\ c # Nobody
    BY <1>3, <2>1, PositionKinds, StoredIsClient, RoomAssumption DEF JoinRefused, Kept, TypeOK
  <2>3. host_player.kind = "Player" => host_player.index \in Seats
    BY PositionKinds DEF Kept, TypeOK
  <2>4. host_player.kind = "Observer" => host_player.index \in Slots!Keys
    BY PositionKinds DEF Kept, TypeOK
  <2>5. CASE AnyEmptySeat
    <3> DEFINE s == FirstEmptySeat
    <3>1. s \in Seats /\ ~Occupied(s)
      BY <2>5, FirstEmptySeatIsEmpty
    <3>2. /\ players' = [players EXCEPT ![s] = NewPlayer(c)]
          /\ observers' = observers
          /\ host_player' = IF NoPlayers /\ Slots!IsEmptySlab(observers) THEN Player(s) ELSE host_player
      BY <1>3, <2>5 DEF OnJoinGame, Player
    <3>3. players'[s].client # Nobody /\ \A t \in Seats : Occupied(t) => Occupied(t)'
      BY <2>2, <3>1, <3>2, SeatTaken DEF Kept
    <3>4. CASE NoPlayers /\ Slots!IsEmptySlab(observers)
      BY <3>1, <3>2, <3>3, <3>4, HostMovesToSeat
    <3>5. CASE ~(NoPlayers /\ Slots!IsEmptySlab(observers))
      BY <2>3, <3>2, <3>3, <3>5, HostStays
    <3> QED
      BY <3>4, <3>5
  <2>6. CASE ~AnyEmptySeat
    <3>1. /\ observers' = Slots!SlabInsert(observers, c)
          /\ players' = players
          /\ host_player' = host_player \/ NoPlayers
      BY <1>3, <2>6 DEF OnJoinGame
    <3>2. ~NoPlayers
      BY <2>6 DEF NoPlayers, AnyEmptySeat, Seats
    <3>3. \A j \in Slots!Keys : Slots!Contains(observers, j) => Slots!Contains(observers', j)
      BY <1>1, <2>2, <2>6, <3>1, InsertContains DEF Kept, TypeOK
    <3>4. \A t \in Seats : Occupied(t) => Occupied(t)'
      BY <3>1 DEF Occupied
    <3> QED
      BY <2>3, <2>4, <3>1, <3>2, <3>3, <3>4, HostStays
  <2> QED
    BY <2>5, <2>6
<1> QED
  BY <1>2, <1>3

\* HsToDuelist: the host position follows its owner.
LEMMA HostToDuelist ==
  ASSUME Kept, HostSeated, OnHsToDuelist
  PROVE  HostSeated'
<1> DEFINE k == Request.from.index
           s == FirstEmptySeat
           c == observers.val[k]
           refused == \/ Request.from.kind # "Observer"
                      \/ ~AnyEmptySeat
                      \/ ~Slots!Contains(observers, k)
<1>1. queue # <<>> /\ Request.type = "HsToDuelist"
  BY DEF OnHsToDuelist, Receive
<1>2. CASE refused
  BY <1>2, HostUnmoved DEF OnHsToDuelist, Kept, Ignored, seating
<1>3. CASE ~refused
  <2>1. Request.from \in Positions
    BY <1>1, RequestTyped, RequestFields DEF Kept, PlainTypes
  <2>2. /\ k \in Slots!Keys /\ Request.from = Observer(k) /\ Slots!Contains(observers, k)
        /\ s \in Seats /\ ~Occupied(s)
    BY <1>3, <2>1, PositionKinds, FirstEmptySeatIsEmpty
  <2>3. c # Nobody
    BY <2>2 DEF Slots!Contains
  <2>4. /\ observers' = Slots!SlabRemove(observers, k)
        /\ players' = [players EXCEPT ![s] = NewPlayer(c)]
        /\ host_player' = IF host_player = Request.from THEN Player(s) ELSE host_player
    BY <1>3 DEF OnHsToDuelist, Player, TakenOut
  <2>5. players'[s].client # Nobody /\ \A t \in Seats : Occupied(t) => Occupied(t)'
    BY <2>2, <2>3, <2>4, SeatTaken DEF Kept
  <2>6. CASE host_player = Request.from
    BY <2>2, <2>4, <2>5, <2>6, HostMovesToSeat
  <2>7. CASE host_player # Request.from
    <3>1. host_player.kind = "Player" => host_player.index \in Seats
      BY PositionKinds DEF Kept, TypeOK
    <3>2. host_player.kind = "Observer" => host_player.index \in Slots!Keys /\ host_player.index # k
      BY <2>2, <2>7, PositionKinds DEF Kept, TypeOK
    <3>3. \A j \in Slots!Keys : j # k /\ Slots!Contains(observers, j) => Slots!Contains(observers', j)
      BY <2>2, <2>4, RemoveContains DEF Kept, TypeOK
    <3>4. ~Slots!IsEmptySlab(observers)
      BY <2>2, EmptyIsNoneContained
    <3> QED
      BY <2>4, <2>5, <2>7, <3>1, <3>2, <3>3, <3>4, HostStays
  <2> QED
    BY <2>6, <2>7
<1> QED
  BY <1>2, <1>3

\* HsToObserver: the same.
LEMMA HostToObserver ==
  ASSUME Kept, HostSeated, OnHsToObserver
  PROVE  HostSeated'
<1> DEFINE s == Request.from.index
           c == players[s].client
           k == Slots!VacantKey(observers)
<1>1. queue # <<>> /\ Request.type = "HsToObserver" /\ Slots!HasRoom(observers)
  BY DEF OnHsToObserver, Receive
<1>2. CASE Request.from.kind # "Player" \/ ~Occupied(s)
  BY <1>2, HostUnmoved DEF OnHsToObserver, Kept, Ignored, seating
<1>3. CASE ~(Request.from.kind # "Player" \/ ~Occupied(s))
  <2>1. Request.from \in Positions
    BY <1>1, RequestTyped, RequestFields DEF Kept, PlainTypes
  <2>2. s \in Seats /\ Request.from = Player(s) /\ Occupied(s)
    BY <1>3, <2>1, PositionKinds
  <2>3. c \in Clients
    BY <2>2, OccupiedIsClient DEF Kept
  <2>4. /\ players' = [players EXCEPT ![s] = EmptySlot]
        /\ observers' = Slots!SlabInsert(observers, c)
        /\ host_player' = IF host_player = Request.from THEN Observer(k) ELSE host_player
    BY <1>3 DEF OnHsToObserver
  <2>5. /\ k \in Slots!Keys /\ Slots!Contains(observers', k)
        /\ \A j \in Slots!Keys : Slots!Contains(observers, j) => Slots!Contains(observers', j)
    BY <1>1, <2>3, <2>4, InsertContains, SlabInsertTyped DEF Kept, TypeOK
  <2>6. CASE host_player = Request.from
    BY <2>4, <2>5, <2>6, HostMovesToObserver
  <2>7. CASE host_player # Request.from
    <3>1. host_player.kind = "Player" => host_player.index \in Seats /\ host_player.index # s
      BY <2>2, <2>7, PositionKinds DEF Kept, TypeOK
    <3>2. host_player.kind = "Observer" => host_player.index \in Slots!Keys
      BY PositionKinds DEF Kept, TypeOK
    <3>3. \A t \in Seats : t # s /\ Occupied(t) => Occupied(t)'
      BY <2>4 DEF Occupied, Kept, TypeOK
    <3>4. ~NoPlayers
      BY <2>2 DEF NoPlayers
    <3> QED
      BY <2>4, <2>5, <2>7, <3>1, <3>2, <3>3, <3>4, HostStays
  <2> QED
    BY <2>6, <2>7
<1> QED
  BY <1>2, <1>3

\* HsKick: the host's own slot is refused.
LEMMA HostKick ==
  ASSUME Kept, HostSeated, OnHsKick
  PROVE  HostSeated'
<1> DEFINE s == Request.pos
           refused == Request.from # host_player \/ Request.from = Player(s) \/ ~Occupied(s)
<1>1. queue # <<>> /\ Request.type = "HsKick"
  BY DEF OnHsKick, Receive
<1>2. s \in Seats
  BY <1>1, RequestTyped, RequestFields DEF Kept
<1>3. CASE refused
  BY <1>3, HostUnmoved DEF OnHsKick, Kept, Ignored, seating
<1>4. CASE ~refused
  <2>1. /\ players' = [players EXCEPT ![s] = EmptySlot]
        /\ UNCHANGED <<observers, host_player>>
    BY <1>4 DEF OnHsKick
  <2>2. host_player.kind = "Player" => host_player.index \in Seats /\ host_player.index # s
    BY <1>4, PositionKinds DEF Kept, TypeOK
  <2>3. \A t \in Seats : t # s /\ Occupied(t) => Occupied(t)'
    BY <2>1 DEF Occupied, Kept, TypeOK
  <2>4. ~NoPlayers
    BY <1>2, <1>4 DEF NoPlayers
  <2> QED
    BY <2>1, <2>2, <2>3, <2>4, HostStays
<1> QED
  BY <1>3, <1>4

\* They leave the sender alone, and both before and after it mirrors the seating.
LEMMA HostReady ==
  ASSUME Kept, HostSeated,
         OnUpdateDeck \/ OnHsReady \/ OnValidateDeck \/ OnSendDeckValidation \/ OnHsNotReady
  PROVE  HostSeated'
<1>1. UNCHANGED <<observers, sender, host_player>>
  BY DEF OnUpdateDeck, OnHsReady, OnValidateDeck, OnSendDeckValidation, OnHsNotReady,
         Ignored, seating
<1>2. SenderInStep /\ SenderInStep'
  BY KeptReady DEF Kept
<1>3. sender.players = sender'.players
  BY <1>1
<1>4. \A s \in Seats : sender.players[s] = players[s].client
  BY <1>2 DEF SenderInStep
<1>5. \A s \in Seats : sender'.players[s] = players'[s].client
  BY <1>2 DEF SenderInStep
<1>6. \A s \in Seats : players'[s].client = players[s].client
  BY <1>3, <1>4, <1>5
<1> QED
  BY <1>1, <1>6, HostUnmoved DEF Kept

\* A room that has ended is empty.
LEMMA HostTerminate ==
  ASSUME Terminate
  PROVE  HostSeated'
<1>1. NoPlayers'
  BY DEF Terminate, EmptyPlayers, EmptySlot, NoPlayers, Occupied
<1>2. Slots!IsEmptySlab(observers')
  BY DEF Terminate, Slots!EmptySlab, Slots!IsEmptySlab
<1> QED
  BY <1>1, <1>2 DEF HostSeated, Slots!IsEmptySlab

\* The heir sits, and somebody else's departure does not take the host's seat.
LEMMA HostLeaveGame ==
  ASSUME Kept, HostSeated, OnLeaveGame
  PROVE  HostSeated'
<1> DEFINE pos == Request.from
           host_leaves == pos = host_player
           heir == Heir(pos)
           seated == IF host_leaves THEN [players EXCEPT ![heir].ready = FALSE] ELSE players
           left == IF pos.kind = "Player" THEN [seated EXCEPT ![pos.index] = EmptySlot] ELSE seated
           watching == Without(observers, "Observer", pos)
<1>1. queue # <<>> /\ Request.type = "LeaveGame"
  BY DEF OnLeaveGame, Receive
<1>2. pos \in Positions /\ host_player \in Positions
  BY <1>1, RequestTyped, RequestFields DEF Kept, PlainTypes, TypeOK
<1>3. CASE Terminate
  BY <1>3, HostTerminate
<1>4. CASE /\ ~host_leaves \/ Heirs(pos) # {}
           /\ players' = left
           /\ observers' = watching
           /\ host_player' = IF host_leaves THEN Player(heir) ELSE host_player
  <2>1. CASE host_leaves
    <3>1. heir \in Seats /\ Occupied(heir) /\ Player(heir) # pos
      BY <1>4, <2>1, HeirIsSeated
    <3>2. seated[heir].client # Nobody
      BY <2>1, <3>1 DEF Occupied, Kept, TypeOK, SlotRecords, EmptySlot
    <3>3. pos.kind = "Player" => pos.index # heir
      BY <1>2, <3>1, PositionKinds
    <3>4. left[heir].client = seated[heir].client
      BY <2>1, <3>1, <3>3 DEF Kept, TypeOK
    <3> QED
      BY <1>4, <2>1, <3>1, <3>2, <3>4, HostMovesToSeat
  <2>2. CASE ~host_leaves
    <3>1. host_player.kind = "Player" =>
            host_player.index \in Seats /\ (pos.kind = "Player" => pos.index # host_player.index)
      BY <1>2, <2>2, PositionKinds
    <3>2. host_player.kind = "Observer" =>
            host_player.index \in Slots!Keys /\ (pos.kind = "Observer" => pos.index # host_player.index)
      BY <1>2, <2>2, PositionKinds
    <3>3. \A t \in Seats : players'[t] = IF pos.kind = "Player" /\ t = pos.index
                                         THEN EmptySlot ELSE players[t]
      BY <1>4, <2>2 DEF Kept, TypeOK
    <3>4. \A t \in Seats : Occupied(t)' <=> Occupied(t) /\ ~(pos.kind = "Player" /\ t = pos.index)
      BY <3>3 DEF Occupied, EmptySlot
    <3>5. \A j \in Slots!Keys : Slots!Contains(observers', j)
            <=> Slots!Contains(observers, j) /\ ~(pos.kind = "Observer" /\ j = pos.index)
      BY <1>2, <1>4, PositionKinds, RemoveContains DEF Without, Kept, TypeOK
    <3>6. ~NoPlayers' \/ ~Slots!IsEmptySlab(observers') => ~NoPlayers \/ ~Slots!IsEmptySlab(observers)
      BY <3>4, <3>5, EmptyIsNoneContained DEF NoPlayers
    <3> QED
      BY <1>4, <2>2, <3>1, <3>2, <3>4, <3>5, <3>6, HostStays
  <2> QED
    BY <2>1, <2>2
<1> QED
  BY <1>3, <1>4 DEF OnLeaveGame

\* Nobody is there at the start.
LEMMA HostInit == Init => HostSeated
<1>1. Init => NoPlayers /\ Slots!IsEmptySlab(observers)
  BY DEF Init, EmptyPlayers, EmptySlot, NoPlayers, Occupied, Slots!EmptySlab, Slots!IsEmptySlab
<1> QED
  BY <1>1 DEF HostSeated

\* Every step keeps the host seated.
LEMMA HostNext == Kept /\ HostSeated /\ [Next]_vars => HostSeated'
<1> SUFFICES ASSUME Kept, HostSeated, [Next]_vars PROVE HostSeated'
  OBVIOUS
<1>1. CASE Actor
  <2>1. CASE OnClientJoin
    BY <2>1, HostUnmoved DEF OnClientJoin, Kept
  <2>2. CASE OnHsStart
    BY <2>2, HostUnmoved DEF OnHsStart, Ignored, Kept, seating
  <2> QED
    BY <1>1, <2>1, <2>2, HostJoinGame, HostToDuelist, HostToObserver, HostLeaveGame, HostReady,
       HostKick DEF Actor
<1>2. ASSUME NEW c \in Clients, Bridge(c) \/ ClientActs(c)
      PROVE  HostSeated'
  <2>1. UNCHANGED seating
    BY <1>2 DEF Bridge, ClientActs, BridgeReads, BridgeStops, Connect, ClientSpeaks, ClientEnds
  <2> QED
    BY <2>1, HostUnmoved DEF Kept, seating
<1>3. CASE UNCHANGED vars
  BY <1>3, HostUnmoved DEF vars, Kept, seating
<1> QED
  BY <1>1, <1>2, <1>3 DEF Next

\* As long as anybody sits anywhere, somebody sits where the room believes its
\* host to be: the right to kick and to start is never lost.
THEOREM HostAlwaysSeated == Spec => []HostSeated
  BY KeptInit, KeptNext, HostInit, HostNext, PTL DEF Spec

-----------------------------------------------------------------------------
(* One place.                                                               *)

IsJoin(i) == queue[i].type = "ClientJoin"

\* What keeps a client from being put in a second place: an announcement of a
\* client is in the mailbox once at most, and only while the client is nowhere.
Announced ==
  /\ ~running => queue = <<>>
  /\ \A i \in DOMAIN queue : IsJoin(i) => conn[queue[i].client] = "joining"
  /\ \A i, j \in DOMAIN queue :
       IsJoin(i) /\ IsJoin(j) /\ queue[i].client = queue[j].client => i = j
  /\ \A c \in Clients : conn[c] \in {"outside", "joining"} => Places(c) = {}

Placed == Kept /\ OnePlace /\ Announced

\* Nobody gains a place but the client who moved, who has no other.
LEMMA OneMove ==
  ASSUME OnePlace, NEW c \in Clients, NEW pos,
         \A d \in Clients \ {c} : Places(d)' \subseteq Places(d),
         Places(c)' \subseteq {pos} \/ Places(c)' \subseteq Places(c)
  PROVE  OnePlace'
  BY DEF OnePlace

\* Nobody gains a place.
LEMMA NoMove ==
  ASSUME OnePlace, \A d \in Clients : Places(d)' \subseteq Places(d)
  PROVE  OnePlace'
  BY DEF OnePlace

\* Without a change of the seating nobody moves.
LEMMA SameSeating ==
  ASSUME UNCHANGED seating
  PROVE  \A d \in Clients : Places(d)' = Places(d)
  BY DEF seating, Places

\* A handler queues no announcement and takes none but the head.
LEMMA QueueShrinks ==
  ASSUME Kept, Announced, queue # <<>>, NEW more \in Seq(Requests),
         \A i \in DOMAIN more : more[i].type # "ClientJoin", Done(more),
         \A c \in Clients : conn'[c] = conn[c] \/ (IsJoin(1) /\ c = queue[1].client)
  PROVE  /\ \A i \in DOMAIN queue' : IsJoin(i)' => conn'[queue'[i].client] = "joining"
         /\ \A i, j \in DOMAIN queue' :
              IsJoin(i)' /\ IsJoin(j)' /\ queue'[i].client = queue'[j].client => i = j
<1>1. queue \in Seq(Requests) /\ Tail(queue) \in Seq(Requests)
  BY RequestTyped DEF Kept, TypeOK
<1>2. /\ Len(Tail(queue)) = Len(queue) - 1
      /\ \A i \in 1..(Len(queue) - 1) : Tail(queue)[i] = queue[i + 1]
      /\ Len(queue) \in Nat
  BY <1>1, HeadTailProperties, LenProperties
<1>3. /\ Len(queue') = Len(queue) - 1 + Len(more)
      /\ \A i \in 1..Len(queue') :
           queue'[i] = IF i <= Len(queue) - 1 THEN queue[i + 1] ELSE more[i - (Len(queue) - 1)]
  BY <1>1, <1>2, ConcatProperties DEF Done
<1>4. \A i \in DOMAIN queue' : IsJoin(i)' => i + 1 \in DOMAIN queue /\ queue'[i] = queue[i + 1]
  <2> SUFFICES ASSUME NEW i \in DOMAIN queue', IsJoin(i)'
               PROVE  i + 1 \in DOMAIN queue /\ queue'[i] = queue[i + 1]
    OBVIOUS
  <2>1. /\ queue' \in Seq(Requests) /\ more \in Seq(Requests)
        /\ Len(queue') \in Nat /\ DOMAIN queue' = 1..Len(queue')
        /\ Len(more) \in Nat /\ DOMAIN more = 1..Len(more) /\ DOMAIN queue = 1..Len(queue)
    BY <1>1, ConcatProperties, LenProperties DEF Done
  <2>2. CASE i <= Len(queue) - 1
    BY <1>2, <1>3, <2>1, <2>2
  <2>3. CASE ~(i <= Len(queue) - 1)
    <3>1. queue'[i] = more[i - (Len(queue) - 1)] /\ i - (Len(queue) - 1) \in DOMAIN more
      BY <1>2, <1>3, <2>1, <2>3
    <3> QED
      BY <3>1 DEF IsJoin
  <2> QED
    BY <2>2, <2>3
<1>5. \A i \in DOMAIN queue' : IsJoin(i)' => conn'[queue'[i].client] = "joining"
  <2> SUFFICES ASSUME NEW i \in DOMAIN queue', IsJoin(i)'
               PROVE  conn'[queue'[i].client] = "joining"
    OBVIOUS
  <2>1. i + 1 \in DOMAIN queue /\ queue'[i] = queue[i + 1] /\ IsJoin(i + 1)
    BY <1>4 DEF IsJoin
  <2>2. conn[queue[i + 1].client] = "joining" /\ queue[i + 1].client \in Clients
    BY <1>1, <2>1, RequestFields DEF Announced, IsJoin
  <2>3. i \in Nat /\ i # 0 /\ 1 \in DOMAIN queue
    BY <1>1, <1>2, <1>3, <2>1 DEF Done
  <2>4. ~(IsJoin(1) /\ queue[i + 1].client = queue[1].client)
    BY <2>1, <2>3 DEF Announced
  <2> QED
    BY <2>1, <2>2, <2>4
<1>6. \A i, j \in DOMAIN queue' :
        IsJoin(i)' /\ IsJoin(j)' /\ queue'[i].client = queue'[j].client => i = j
  <2> SUFFICES ASSUME NEW i \in DOMAIN queue', NEW j \in DOMAIN queue', IsJoin(i)', IsJoin(j)',
                      queue'[i].client = queue'[j].client
               PROVE  i = j
    OBVIOUS
  <2>1. /\ i + 1 \in DOMAIN queue /\ queue'[i] = queue[i + 1] /\ IsJoin(i + 1)
        /\ j + 1 \in DOMAIN queue /\ queue'[j] = queue[j + 1] /\ IsJoin(j + 1)
    BY <1>4 DEF IsJoin
  <2>2. i + 1 = j + 1
    BY <2>1 DEF Announced
  <2>3. i \in Int /\ j \in Int
    BY <1>3, RequestTyped DEF Done, Kept
  <2> QED
    BY <2>2, <2>3
<1> QED
  BY <1>5, <1>6

\* Who is in a slab after an insertion.
LEMMA InsertedVals ==
  ASSUME NEW slab \in Slots!Slabs(Clients), Slots!HasRoom(slab), NEW c \in Clients,
         NEW d \in Clients, NEW j \in Slots!Keys, Slots!SlabInsert(slab, c).val[j] = d
  PROVE  slab.val[j] = d \/ (d = c /\ j = Slots!VacantKey(slab))
<1>1. slab.val \in [Slots!Keys -> Clients \cup {Nobody}]
  BY DEF Slots!Slabs
<1>2. Slots!SlabInsert(slab, c).val = [slab.val EXCEPT ![Slots!VacantKey(slab)] = c]
  BY DEF Slots!SlabInsert
<1>3. Slots!SlabInsert(slab, c).val[j] = IF j = Slots!VacantKey(slab) THEN c ELSE slab.val[j]
  BY <1>1, <1>2
<1> QED
  BY <1>3

\* Who is in a slab after a removal.
LEMMA RemovedVals ==
  ASSUME NEW slab \in Slots!Slabs(Clients), NEW k \in Slots!Keys,
         NEW d \in Clients, NEW j \in Slots!Keys, Slots!SlabRemove(slab, k).val[j] = d
  PROVE  slab.val[j] = d /\ j # k
  BY RoomAssumption DEF Slots!SlabRemove, Slots!Slabs

\* A handler that moves one client at most, who was somewhere before.
LEMMA PlacedHandled ==
  ASSUME Placed, Kept', running, running', queue # <<>>, conn' = conn,
         NEW more \in Seq(Requests), \A i \in DOMAIN more : more[i].type # "ClientJoin", Done(more),
         NEW c \in Clients, NEW pos, Places(c) # {}, Places(c)' \subseteq {pos},
         \A d \in Clients \ {c} : Places(d)' \subseteq Places(d)
  PROVE  Placed'
<1>1. OnePlace'
  BY OneMove DEF Placed
<1>2. \A d \in Clients : conn'[d] \in {"outside", "joining"} => Places(d)' = {}
  BY DEF Placed, Announced
<1>3. Kept /\ Announced /\ \A d \in Clients : conn'[d] = conn[d]
  BY DEF Placed
<1>4. /\ \A i \in DOMAIN queue' : IsJoin(i)' => conn'[queue'[i].client] = "joining"
      /\ \A i, j \in DOMAIN queue' :
           IsJoin(i)' /\ IsJoin(j)' /\ queue'[i].client = queue'[j].client => i = j
  BY <1>3, QueueShrinks
<1>5. Announced'
  BY <1>2, <1>4 DEF Announced
<1> QED
  BY <1>1, <1>5 DEF Placed

\* A handler that moves nobody to a new place.
LEMMA PlacedUnmoved ==
  ASSUME Placed, Kept', running, running', queue # <<>>, conn' = conn,
         NEW more \in Seq(Requests), \A i \in DOMAIN more : more[i].type # "ClientJoin", Done(more),
         \A d \in Clients : Places(d)' \subseteq Places(d)
  PROVE  Placed'
<1>1. OnePlace'
  BY NoMove DEF Placed
<1>2. \A d \in Clients : conn'[d] \in {"outside", "joining"} => Places(d)' = {}
  BY DEF Placed, Announced
<1>3. Kept /\ Announced /\ \A d \in Clients : conn'[d] = conn[d]
  BY DEF Placed
<1>4. /\ \A i \in DOMAIN queue' : IsJoin(i)' => conn'[queue'[i].client] = "joining"
      /\ \A i, j \in DOMAIN queue' :
           IsJoin(i)' /\ IsJoin(j)' /\ queue'[i].client = queue'[j].client => i = j
  BY <1>3, QueueShrinks
<1>5. Announced'
  BY <1>2, <1>4 DEF Announced
<1> QED
  BY <1>1, <1>5 DEF Placed

\* A request that is ignored moves nobody.
LEMMA PlacedIgnored ==
  ASSUME Placed, Kept', running, queue # <<>>, Ignored
  PROVE  Placed'
<1>1. running' /\ conn' = conn /\ Done(<<>>) /\ UNCHANGED seating
  BY DEF Ignored, bridges
<1>2. <<>> \in Seq(Requests) /\ \A i \in DOMAIN <<>> : <<>>[i].type # "ClientJoin"
  OBVIOUS
<1> QED
  BY <1>1, <1>2, SameSeating, PlacedUnmoved

\* ClientJoin: whoever is announced is nowhere, then undecided.
LEMMA PlacedClientJoin ==
  ASSUME Placed, OnClientJoin
  PROVE  Placed'
<1> DEFINE k == Slots!VacantKey(uninit_players)
<1>1. running /\ queue # <<>> /\ Request.type = "ClientJoin" /\ Slots!HasRoom(uninit_players)
  BY DEF OnClientJoin, Receive
<1>2. Request.client \in Clients /\ uninit_players \in Slots!Slabs(Clients)
  BY <1>1, RequestTyped, RequestFields DEF Placed, Kept, TypeOK
<1>3. PICK c \in Clients : c = Request.client
  BY <1>2
<1>4. /\ uninit_players' = Slots!SlabInsert(uninit_players, c)
      /\ conn' = [conn EXCEPT ![c] = "open"]
      /\ Done(<<>>)
      /\ UNCHANGED <<running, players, observers>>
  BY <1>3 DEF OnClientJoin
<1>5. 1 \in DOMAIN queue /\ IsJoin(1) /\ c = queue[1].client
  BY <1>1, <1>3 DEF IsJoin, Request, Placed, Kept, TypeOK
<1>6. Places(c) = {}
  BY <1>5 DEF Placed, Announced
<1>7. \A d \in Clients, j \in Slots!Keys :
        uninit_players'.val[j] = d => uninit_players.val[j] = d \/ (d = c /\ j = k)
  BY <1>1, <1>2, <1>4, InsertedVals
<1>8. \A d \in Clients \ {c} : Places(d)' \subseteq Places(d)
  BY <1>4, <1>7 DEF Places
<1>9. Places(c)' \subseteq {Undecided(k)}
  <2> SUFFICES ASSUME NEW p \in Places(c)' PROVE p = Undecided(k)
    OBVIOUS
  <2> QED
    BY <1>4, <1>6, <1>7 DEF Places
<1>10. Kept' /\ OnePlace'
  BY <1>8, <1>9, KeptClientJoin, OneMove DEF Placed
<1>11. conn \in [Clients -> {"outside", "joining", "open", "closed"}]
  BY DEF Placed, Kept, TypeOK
<1>12. \A d \in Clients : conn'[d] \in {"outside", "joining"} => Places(d)' = {}
  <2> SUFFICES ASSUME NEW d \in Clients, conn'[d] \in {"outside", "joining"}
               PROVE  Places(d)' = {}
    OBVIOUS
  <2>1. d # c /\ conn'[d] = conn[d]
    BY <1>4, <1>11
  <2>2. Places(d) = {}
    BY <2>1 DEF Placed, Announced
  <2> QED
    BY <1>8, <2>1, <2>2
<1>13. \A d \in Clients : conn'[d] = conn[d] \/ (IsJoin(1) /\ d = queue[1].client)
  BY <1>4, <1>5, <1>11
<1>14. <<>> \in Seq(Requests) /\ \A i \in DOMAIN <<>> : <<>>[i].type # "ClientJoin"
  OBVIOUS
<1>15. /\ \A i \in DOMAIN queue' : IsJoin(i)' => conn'[queue'[i].client] = "joining"
       /\ \A i, j \in DOMAIN queue' :
            IsJoin(i)' /\ IsJoin(j)' /\ queue'[i].client = queue'[j].client => i = j
  BY <1>1, <1>4, <1>13, <1>14, QueueShrinks DEF Placed
<1>16. Announced'
  BY <1>1, <1>4, <1>12, <1>15 DEF Announced
<1> QED
  BY <1>10, <1>16 DEF Placed

\* A handler that queues nothing queues no announcement.
LEMMA NothingMore == <<>> \in Seq(Requests) /\ \A i \in DOMAIN <<>> : <<>>[i].type # "ClientJoin"
  OBVIOUS

\* Who sits where after a slot is taken.
LEMMA SeatGiven ==
  ASSUME TypeOK, NEW s \in Seats, NEW c \in Clients, players' = [players EXCEPT ![s] = NewPlayer(c)]
  PROVE  \A t \in Seats : players'[t].client = IF t = s THEN c ELSE players[t].client
<1>1. NewPlayer(c).client = c
  BY DEF NewPlayer
<1>2. \A t \in Seats : players'[t] = IF t = s THEN NewPlayer(c) ELSE players[t]
  BY DEF TypeOK
<1> QED
  BY <1>1, <1>2

\* Who sits where after a slot is cleared.
LEMMA SeatCleared ==
  ASSUME TypeOK, NEW s \in Seats, players' = [players EXCEPT ![s] = EmptySlot]
  PROVE  \A t \in Seats : players'[t].client = IF t = s THEN Nobody ELSE players[t].client
<1>1. EmptySlot.client = Nobody
  BY DEF EmptySlot
<1>2. \A t \in Seats : players'[t] = IF t = s THEN EmptySlot ELSE players[t]
  BY DEF TypeOK
<1> QED
  BY <1>1, <1>2

\* JoinGame: the one place moves from the undecided slab.
LEMMA PlacedJoinGame ==
  ASSUME Placed, OnJoinGame
  PROVE  Placed'
<1>1. /\ running /\ running' /\ queue # <<>> /\ Request.type = "JoinGame"
      /\ AnyEmptySeat \/ Slots!HasRoom(observers)
      /\ conn' = conn /\ Done(<<>>)
  BY DEF OnJoinGame, Receive
<1>2. Kept'
  BY KeptJoinGame DEF Placed
<1>3. CASE JoinRefused
  BY <1>1, <1>2, <1>3, NothingMore, SameSeating, PlacedUnmoved DEF OnJoinGame
<1>4. CASE ~JoinRefused
  <2>1. Request.from \in Positions
    BY <1>1, RequestTyped, RequestFields DEF Placed, Kept
  <2>2. Request.from.index \in Slots!Keys /\ Slots!Contains(uninit_players, Request.from.index)
    BY <1>4, <2>1, PositionKinds DEF JoinRefused
  <2>3. PICK k \in Slots!Keys : k = Request.from.index
    BY <2>2
  <2>4. PICK c \in Clients : c = uninit_players.val[k]
    BY <2>2, <2>3, StoredIsClient DEF Placed, Kept, TypeOK
  <2>5. Undecided(k) \in Places(c)
    BY <2>4 DEF Places
  <2>6. Places(c) \subseteq {Undecided(k)}
    BY <2>5 DEF Placed, OnePlace
  <2>7. uninit_players' = Slots!SlabRemove(uninit_players, k)
    BY <1>4, <2>3 DEF OnJoinGame, TakenOut
  <2>8. \A d \in Clients, j \in Slots!Keys :
          uninit_players'.val[j] = d => uninit_players.val[j] = d /\ j # k
    BY <2>7, RemovedVals DEF Placed, Kept, TypeOK
  <2>9. CASE AnyEmptySeat
    <3>1. PICK s \in Seats : s = FirstEmptySeat
      BY <2>9, FirstEmptySeatIsEmpty
    <3>2. players' = [players EXCEPT ![s] = NewPlayer(c)] /\ observers' = observers
      <4>1. /\ players' = [players EXCEPT ![FirstEmptySeat]
                              = NewPlayer(uninit_players.val[Request.from.index])]
            /\ observers' = observers
        BY <1>4, <2>9 DEF OnJoinGame, Player
      <4> QED
        BY <2>3, <2>4, <3>1, <4>1
    <3>3. \A t \in Seats : players'[t].client = IF t = s THEN c ELSE players[t].client
      BY <2>4, <3>2, SeatGiven DEF Placed, Kept
    <3>4. Places(c)' \subseteq {Player(s)}
      <4> SUFFICES ASSUME NEW p \in Places(c)' PROVE p \in {Player(s)}
        OBVIOUS
      <4>1. \/ \E t \in Seats : p = Player(t) /\ (t = s \/ players[t].client = c)
            \/ \E j \in Slots!Keys : p = Observer(j) /\ observers.val[j] = c
            \/ \E j \in Slots!Keys : p = Undecided(j) /\ uninit_players.val[j] = c /\ j # k
        BY <2>8, <3>2, <3>3 DEF Places
      <4> QED
        BY <2>6, <4>1 DEF Places, Player, Observer, Undecided
    <3>5. \A d \in Clients \ {c} : Places(d)' \subseteq Places(d)
      BY <2>8, <3>2, <3>3 DEF Places
    <3> QED
      BY <1>1, <1>2, <2>5, <3>4, <3>5, NothingMore, PlacedHandled
  <2>10. CASE ~AnyEmptySeat
    <3> DEFINE o == Slots!VacantKey(observers)
    <3>1. players' = players /\ observers' = Slots!SlabInsert(observers, c)
      BY <1>4, <2>3, <2>4, <2>10 DEF OnJoinGame
    <3>2. \A d \in Clients, j \in Slots!Keys :
            observers'.val[j] = d => observers.val[j] = d \/ (d = c /\ j = o)
      BY <1>1, <2>10, <3>1, InsertedVals DEF Placed, Kept, TypeOK
    <3>3. Places(c)' \subseteq {Observer(o)}
      <4> SUFFICES ASSUME NEW p \in Places(c)' PROVE p \in {Observer(o)}
        OBVIOUS
      <4>1. \/ \E t \in Seats : p = Player(t) /\ players[t].client = c
            \/ \E j \in Slots!Keys : p = Observer(j) /\ (observers.val[j] = c \/ j = o)
            \/ \E j \in Slots!Keys : p = Undecided(j) /\ uninit_players.val[j] = c /\ j # k
        BY <2>8, <3>1, <3>2 DEF Places
      <4> QED
        BY <2>6, <4>1 DEF Places, Player, Observer, Undecided
    <3>4. \A d \in Clients \ {c} : Places(d)' \subseteq Places(d)
      BY <2>8, <3>1, <3>2 DEF Places
    <3> QED
      BY <1>1, <1>2, <2>5, <3>3, <3>4, NothingMore, PlacedHandled
  <2> QED
    BY <2>9, <2>10
<1> QED
  BY <1>3, <1>4

\* HsToDuelist: the one place moves from the observers to a slot.
LEMMA PlacedToDuelist ==
  ASSUME Placed, OnHsToDuelist
  PROVE  Placed'
<1> DEFINE refused == \/ Request.from.kind # "Observer"
                      \/ ~AnyEmptySeat
                      \/ ~Slots!Contains(observers, Request.from.index)
<1>1. running /\ queue # <<>> /\ Request.type = "HsToDuelist"
  BY DEF OnHsToDuelist, Receive
<1>2. Kept'
  BY KeptToDuelist DEF Placed
<1>3. CASE refused
  BY <1>1, <1>2, <1>3, PlacedIgnored DEF OnHsToDuelist
<1>4. CASE ~refused
  <2>1. Request.from \in Positions
    BY <1>1, RequestTyped, RequestFields DEF Placed, Kept, PlainTypes
  <2>2. Request.from.index \in Slots!Keys /\ Slots!Contains(observers, Request.from.index)
    BY <1>4, <2>1, PositionKinds
  <2>3. PICK k \in Slots!Keys : k = Request.from.index
    BY <2>2
  <2>4. PICK c \in Clients : c = observers.val[k]
    BY <2>2, <2>3, StoredIsClient DEF Placed, Kept, TypeOK
  <2>5. PICK s \in Seats : s = FirstEmptySeat
    BY <1>4, FirstEmptySeatIsEmpty
  <2>6. Places(c) \subseteq {Observer(k)} /\ Places(c) # {}
    <3>1. Observer(k) \in Places(c)
      BY <2>4 DEF Places
    <3> QED
      BY <3>1 DEF Placed, OnePlace
  <2>7. /\ observers' = Slots!SlabRemove(observers, k)
        /\ players' = [players EXCEPT ![s] = NewPlayer(c)]
        /\ running' /\ conn' = conn /\ Done(<<>>) /\ uninit_players' = uninit_players
    <3>1. /\ observers' = Slots!SlabRemove(observers, Request.from.index)
          /\ players' = [players EXCEPT ![FirstEmptySeat]
                            = NewPlayer(observers.val[Request.from.index])]
          /\ Done(<<>>) /\ UNCHANGED <<running, uninit_players, conn>>
      BY <1>4 DEF OnHsToDuelist, Player, TakenOut
    <3> QED
      BY <1>1, <2>3, <2>4, <2>5, <3>1
  <2>8. \A d \in Clients, j \in Slots!Keys :
          observers'.val[j] = d => observers.val[j] = d /\ j # k
    BY <2>7, RemovedVals DEF Placed, Kept, TypeOK
  <2>9. \A t \in Seats : players'[t].client = IF t = s THEN c ELSE players[t].client
    BY <2>4, <2>7, SeatGiven DEF Placed, Kept
  <2>10. Places(c)' \subseteq {Player(s)}
    <3> SUFFICES ASSUME NEW p \in Places(c)' PROVE p \in {Player(s)}
      OBVIOUS
    <3>1. \/ \E t \in Seats : p = Player(t) /\ (t = s \/ players[t].client = c)
          \/ \E j \in Slots!Keys : p = Observer(j) /\ observers.val[j] = c /\ j # k
          \/ \E j \in Slots!Keys : p = Undecided(j) /\ uninit_players.val[j] = c
      BY <2>7, <2>8, <2>9 DEF Places
    <3> QED
      BY <2>6, <3>1 DEF Places, Player, Observer, Undecided
  <2>11. \A d \in Clients \ {c} : Places(d)' \subseteq Places(d)
    BY <2>7, <2>8, <2>9 DEF Places
  <2> QED
    BY <1>1, <1>2, <2>6, <2>7, <2>10, <2>11, NothingMore, PlacedHandled
<1> QED
  BY <1>3, <1>4

\* HsToObserver: the one place moves from a slot to the observers.
LEMMA PlacedToObserver ==
  ASSUME Placed, OnHsToObserver
  PROVE  Placed'
<1> DEFINE refused == Request.from.kind # "Player" \/ ~Occupied(Request.from.index)
           o == Slots!VacantKey(observers)
<1>1. running /\ queue # <<>> /\ Request.type = "HsToObserver" /\ Slots!HasRoom(observers)
  BY DEF OnHsToObserver, Receive
<1>2. Kept'
  BY KeptToObserver DEF Placed
<1>3. CASE refused
  BY <1>1, <1>2, <1>3, PlacedIgnored DEF OnHsToObserver
<1>4. CASE ~refused
  <2>1. Request.from \in Positions
    BY <1>1, RequestTyped, RequestFields DEF Placed, Kept, PlainTypes
  <2>2. Request.from.index \in Seats /\ Occupied(Request.from.index)
    BY <1>4, <2>1, PositionKinds
  <2>3. PICK s \in Seats : s = Request.from.index
    BY <2>2
  <2>4. PICK c \in Clients : c = players[s].client
    BY <2>2, <2>3, OccupiedIsClient DEF Placed, Kept
  <2>5. Places(c) \subseteq {Player(s)} /\ Places(c) # {}
    <3>1. Player(s) \in Places(c)
      BY <2>4 DEF Places
    <3> QED
      BY <3>1 DEF Placed, OnePlace
  <2>6. /\ players' = [players EXCEPT ![s] = EmptySlot]
        /\ observers' = Slots!SlabInsert(observers, c)
        /\ running' /\ conn' = conn /\ Done(<<>>) /\ uninit_players' = uninit_players
    <3>1. /\ players' = [players EXCEPT ![Request.from.index] = EmptySlot]
          /\ observers' = Slots!SlabInsert(observers, players[Request.from.index].client)
          /\ Done(<<>>) /\ UNCHANGED <<running, uninit_players, conn>>
      BY <1>4 DEF OnHsToObserver
    <3> QED
      BY <1>1, <2>3, <2>4, <3>1
  <2>7. \A d \in Clients, j \in Slots!Keys :
          observers'.val[j] = d => observers.val[j] = d \/ (d = c /\ j = o)
    BY <1>1, <2>6, InsertedVals DEF Placed, Kept, TypeOK
  <2>8. \A t \in Seats : players'[t].client = IF t = s THEN Nobody ELSE players[t].client
    BY <2>6, SeatCleared DEF Placed, Kept
  <2>9. Places(c)' \subseteq {Observer(o)}
    <3> SUFFICES ASSUME NEW p \in Places(c)' PROVE p \in {Observer(o)}
      OBVIOUS
    <3>1. \/ \E t \in Seats : p = Player(t) /\ t # s /\ players[t].client = c
          \/ \E j \in Slots!Keys : p = Observer(j) /\ (observers.val[j] = c \/ j = o)
          \/ \E j \in Slots!Keys : p = Undecided(j) /\ uninit_players.val[j] = c
      BY <2>6, <2>7, <2>8, RoomAssumption DEF Places
    <3> QED
      BY <2>5, <3>1 DEF Places, Player, Observer, Undecided
  <2>10. \A d \in Clients \ {c} : Places(d)' \subseteq Places(d)
    BY <2>6, <2>7, <2>8, RoomAssumption DEF Places
  <2> QED
    BY <1>1, <1>2, <2>5, <2>6, <2>9, <2>10, NothingMore, PlacedHandled
<1> QED
  BY <1>3, <1>4

\* Nobody is anywhere once the loop is left.
LEMMA PlacedTerminate ==
  ASSUME Placed, Kept', Terminate
  PROVE  Placed'
<1>1. /\ \A s \in Seats : players'[s].client = Nobody
      /\ \A k \in Slots!Keys : observers'.val[k] = Nobody /\ uninit_players'.val[k] = Nobody
  BY DEF Terminate, EmptyPlayers, EmptySlot, Slots!EmptySlab
<1>2. \A c \in Clients : Places(c)' = {}
  BY <1>1, RoomAssumption DEF Places
<1>3. queue' = <<>>
  BY DEF Terminate
<1> QED
  BY <1>2, <1>3 DEF Placed, OnePlace, Announced

\* LeaveGame: places are given up only.
LEMMA PlacedLeaveGame ==
  ASSUME Placed, OnLeaveGame
  PROVE  Placed'
<1> DEFINE pos == Request.from
           host_leaves == pos = host_player
           heir == Heir(pos)
           seated == IF host_leaves THEN [players EXCEPT ![heir].ready = FALSE] ELSE players
           left == IF pos.kind = "Player" THEN [seated EXCEPT ![pos.index] = EmptySlot] ELSE seated
<1>1. running /\ queue # <<>> /\ Request.type = "LeaveGame" /\ conn' = conn
  BY DEF OnLeaveGame, Receive
<1>2. Kept'
  BY KeptLeaveGame DEF Placed
<1>3. pos \in Positions
  BY <1>1, RequestTyped, RequestFields DEF Placed, Kept, PlainTypes
<1>4. CASE Terminate
  BY <1>2, <1>4, PlacedTerminate
<1>5. CASE /\ ~host_leaves \/ Heirs(pos) # {}
           /\ players' = left
           /\ observers' = Without(observers, "Observer", pos)
           /\ uninit_players' = Without(uninit_players, "Undecided", pos)
           /\ Done(<<>>)
           /\ UNCHANGED running
  <2>1. \A d \in Clients, j \in Slots!Keys : observers'.val[j] = d => observers.val[j] = d
    BY <1>3, <1>5, PositionKinds, RemovedVals DEF Without, Placed, Kept, TypeOK
  <2>2. \A d \in Clients, j \in Slots!Keys : uninit_players'.val[j] = d => uninit_players.val[j] = d
    BY <1>3, <1>5, PositionKinds, RemovedVals DEF Without, Placed, Kept, TypeOK
  <2>3. \A d \in Clients, t \in Seats : players'[t].client = d => players[t].client = d
    <3>1. \A t \in Seats : seated[t].client = players[t].client
      <4>1. CASE host_leaves
        <5>1. heir \in Seats /\ Occupied(heir)
          BY <1>5, <4>1, HeirIsSeated
        <5>2. players[heir] \in SlotRecords
          BY <5>1, OccupiedIsClient DEF Placed, Kept
        <5>3. [players[heir] EXCEPT !.ready = FALSE].client = players[heir].client
          BY <5>2 DEF SlotRecords
        <5> QED
          BY <4>1, <5>1, <5>3 DEF Placed, Kept, TypeOK
      <4>2. CASE ~host_leaves
        BY <4>2
      <4> QED
        BY <4>1, <4>2
    <3>2. DOMAIN seated = Seats
      BY DEF Placed, Kept, TypeOK
    <3>3. EmptySlot.client = Nobody /\ Nobody \notin Clients
      BY RoomAssumption DEF EmptySlot
    <3> QED
      BY <1>5, <3>1, <3>2, <3>3
  <2>4. \A d \in Clients : Places(d)' \subseteq Places(d)
    BY <2>1, <2>2, <2>3 DEF Places
  <2> QED
    BY <1>1, <1>2, <1>5, <2>4, NothingMore, PlacedUnmoved
<1> QED
  BY <1>4, <1>5 DEF OnLeaveGame

\* HsKick: one slot is given up.
LEMMA PlacedKick ==
  ASSUME Placed, OnHsKick
  PROVE  Placed'
<1> DEFINE s == Request.pos
           refused == Request.from # host_player \/ Request.from = Player(s) \/ ~Occupied(s)
<1>1. running /\ queue # <<>> /\ Request.type = "HsKick"
  BY DEF OnHsKick, Receive
<1>2. Kept'
  BY KeptKick DEF Placed
<1>3. CASE refused
  BY <1>1, <1>2, <1>3, PlacedIgnored DEF OnHsKick
<1>4. CASE ~refused
  <2>1. /\ players' = [players EXCEPT ![s] = EmptySlot]
        /\ Done(<<>>)
        /\ UNCHANGED <<running, observers, uninit_players, conn>>
    BY <1>4 DEF OnHsKick
  <2>2. \A t \in Seats : players'[t].client \in {players[t].client, Nobody}
    BY <2>1 DEF EmptySlot, Placed, Kept, TypeOK
  <2>3. \A d \in Clients : Places(d)' \subseteq Places(d)
    BY <2>1, <2>2, RoomAssumption DEF Places
  <2> QED
    BY <1>1, <1>2, <2>1, <2>3, NothingMore, PlacedUnmoved
<1> QED
  BY <1>3, <1>4

\* Sender and seating agree before and after, and the sender does not change.
LEMMA PlacedReady ==
  ASSUME Placed,
         OnUpdateDeck \/ OnHsReady \/ OnValidateDeck \/ OnSendDeckValidation \/ OnHsNotReady
  PROVE  Placed'
<1>1. running /\ queue # <<>> /\ Request \in Requests
  BY RequestTyped DEF OnUpdateDeck, OnHsReady, OnValidateDeck, OnSendDeckValidation,
                      OnHsNotReady, Receive, Placed, Kept
<1>2. Kept'
  BY KeptReady DEF Placed, Kept
<1>3. UNCHANGED <<running, observers, uninit_players, sender, conn>>
  BY DEF OnUpdateDeck, OnHsReady, OnValidateDeck, OnSendDeckValidation, OnHsNotReady,
         Ignored, seating, bridges
<1>4. \A s \in Seats : players'[s].client = players[s].client
  <2>1. \A s \in Seats : sender.players[s] = players[s].client
    BY DEF Placed, Kept, SenderInStep
  <2>2. \A s \in Seats : sender'.players[s] = players'[s].client
    BY <1>2 DEF Kept, SenderInStep
  <2> QED
    BY <1>3, <2>1, <2>2
<1>5. \A d \in Clients : Places(d)' \subseteq Places(d)
  BY <1>3, <1>4 DEF Places
<1>6. \E more \in Seq(Requests) :
        Done(more) /\ \A i \in DOMAIN more : more[i].type # "ClientJoin"
  <2>1. ASSUME NEW r \in Requests, r.type # "ClientJoin"
        PROVE  <<r>> \in Seq(Requests) /\ \A i \in DOMAIN <<r>> : <<r>>[i].type # "ClientJoin"
    BY <2>1
  <2>2. CASE Done(<<>>)
    BY <2>2, NothingMore
  <2>3. CASE OnHsReady /\ ~Done(<<>>)
    <3> DEFINE s == Request.from.index
               sdv == [type |-> "SendDeckValidation", player |-> s]
               vd == [type |-> "ValidateDeck", player |-> s, deck |-> players[s].deck]
    <3>1. Request.type = "HsReady" /\ ~NotUnready(Request.from) /\ (Done(<<sdv>>) \/ Done(<<vd>>))
      BY <2>3 DEF OnHsReady, Receive, Ignored
    <3>2. s \in Seats /\ Occupied(s)
      BY <1>1, <3>1, RequestFields, PositionKinds DEF NotUnready, PlainTypes
    <3>3. players[s].deck \in Decks
      BY <3>2, OccupiedIsClient DEF SlotRecords, Placed, Kept
    <3>4. sdv \in Requests /\ vd \in Requests /\ sdv.type # "ClientJoin" /\ vd.type # "ClientJoin"
      BY <3>2, <3>3 DEF Requests
    <3> QED
      BY <2>1, <3>1, <3>4
  <2>4. CASE OnValidateDeck
    <3> DEFINE sdv == [type |-> "SendDeckValidation", player |-> Request.player]
    <3>1. Request.player \in Seats /\ Done(<<sdv>>)
      BY <1>1, <2>4, RequestFields DEF OnValidateDeck, Receive
    <3>2. sdv \in Requests /\ sdv.type # "ClientJoin"
      BY <3>1 DEF Requests
    <3> QED
      BY <2>1, <3>1, <3>2
  <2> QED
    BY <2>2, <2>3, <2>4 DEF OnUpdateDeck, OnHsReady, OnSendDeckValidation, OnHsNotReady, Ignored
<1> QED
  BY <1>1, <1>2, <1>3, <1>5, <1>6, PlacedUnmoved

\* Nobody is anywhere at the start.
LEMMA PlacedInit == Init => Placed
<1> SUFFICES ASSUME Init PROVE Placed
  OBVIOUS
<1>1. /\ \A s \in Seats : players[s].client = Nobody
      /\ \A k \in Slots!Keys : observers.val[k] = Nobody /\ uninit_players.val[k] = Nobody
  BY DEF Init, EmptyPlayers, EmptySlot, Slots!EmptySlab
<1>2. \A c \in Clients : Places(c) = {}
  BY <1>1, RoomAssumption DEF Places
<1>3. queue = <<>>
  BY DEF Init
<1> QED
  BY <1>2, <1>3, KeptInit DEF Placed, OnePlace, Announced

\* What a client does to the mailbox: one more request, or none.
LEMMA QueueGrows ==
  ASSUME Kept, NEW r, NEW i \in DOMAIN Append(queue, r)
  PROVE  \/ i \in DOMAIN queue /\ Append(queue, r)[i] = queue[i]
         \/ i = Len(queue) + 1 /\ Append(queue, r)[i] = r
  BY DEF Kept, TypeOK

\* Bridges move nobody; a client announces itself once.
LEMMA PlacedBridges ==
  ASSUME Placed, Kept', NEW c \in Clients, Bridge(c) \/ ClientActs(c)
  PROVE  Placed'
<1>1. UNCHANGED <<running, seating>>
  BY DEF Bridge, ClientActs, BridgeReads, BridgeStops, Connect, ClientSpeaks, ClientEnds
<1>2. \A d \in Clients : Places(d)' = Places(d)
  BY <1>1, SameSeating
<1>3. OnePlace'
  BY <1>2 DEF Placed, OnePlace
<1>4. conn \in [Clients -> {"outside", "joining", "open", "closed"}]
  BY DEF Placed, Kept, TypeOK
<1>5. \A d \in Clients : conn'[d] = IF d = c THEN conn'[c] ELSE conn[d]
  BY <1>4 DEF Bridge, ClientActs, BridgeReads, BridgeStops, Connect, ClientSpeaks, ClientEnds,
              Close, bridges
<1>6. \A d \in Clients : conn'[d] \in {"outside", "joining"} => conn[d] \in {"outside", "joining"}
  BY <1>4 DEF Bridge, ClientActs, BridgeReads, BridgeStops, Connect, ClientSpeaks, ClientEnds,
              Close, bridges
<1>7. \A d \in Clients : conn'[d] \in {"outside", "joining"} => Places(d)' = {}
  BY <1>2, <1>6 DEF Placed, Announced
<1>8. \A i \in DOMAIN queue : IsJoin(i) => queue[i].client \in Clients
  BY RequestFields DEF IsJoin, Placed, Kept, TypeOK
<1>9. CASE Connect(c)
  <2> DEFINE r == [type |-> "ClientJoin", client |-> c]
  <2>1. conn[c] = "outside" /\ conn' = [conn EXCEPT ![c] = "joining"]
    BY <1>9 DEF Connect
  <2>2. CASE ~running
    BY <1>1, <1>3, <1>7, <1>9, <2>2 DEF Connect, Placed, Announced, IsJoin
  <2>3. CASE running
    <3>1. queue' = Append(queue, r)
      BY <1>9, <2>3 DEF Connect
    <3>2. \A i \in DOMAIN queue : IsJoin(i) => queue[i].client # c
      BY <2>1 DEF Placed, Announced
    <3>3. \A i \in DOMAIN queue' : \/ i \in DOMAIN queue /\ queue'[i] = queue[i]
                                   \/ i = Len(queue) + 1 /\ queue'[i] = r
      BY <3>1, QueueGrows DEF Placed
    <3>4. \A i \in DOMAIN queue' : IsJoin(i)' => conn'[queue'[i].client] = "joining"
      BY <1>4, <1>8, <2>1, <3>3 DEF Placed, Announced, IsJoin
    <3>5. \A i, j \in DOMAIN queue' :
            IsJoin(i)' /\ IsJoin(j)' /\ queue'[i].client = queue'[j].client => i = j
      BY <3>2, <3>3 DEF Placed, Announced, IsJoin
    <3> QED
      BY <1>1, <1>3, <1>7, <2>3, <3>4, <3>5 DEF Placed, Announced
  <2> QED
    BY <2>2, <2>3
<1>10. CASE ~Connect(c)
  <2>1. \/ queue' = queue
        \/ running /\ \E r : r.type # "ClientJoin" /\ queue' = Append(queue, r)
    <3>1. CASE ClientSpeaks(c)
      <4>1. \A m \in Offered(my_position[c]) : m.type # "ClientJoin"
        BY DEF Offered
      <4> QED
        BY <3>1, <4>1 DEF ClientSpeaks
    <3>2. CASE ClientEnds(c)
      BY <3>2 DEF ClientEnds
    <3>3. CASE Bridge(c)
      BY <3>3 DEF Bridge, BridgeReads, BridgeStops
    <3> QED
      BY <1>10, <3>1, <3>2, <3>3 DEF ClientActs
  <2>2. \A i \in DOMAIN queue' : IsJoin(i)' => i \in DOMAIN queue /\ queue'[i] = queue[i]
    BY <2>1, QueueGrows DEF Placed, IsJoin
  <2>3. ~running => queue' = queue
    BY <2>1
  <2>4. conn'[c] = conn[c] \/ conn[c] = "open" \/ queue = <<>>
    BY <1>10 DEF Bridge, ClientActs, BridgeReads, BridgeStops, ClientSpeaks, ClientEnds,
                bridges, Placed, Announced
  <2>5. \A i \in DOMAIN queue' : IsJoin(i)' => conn'[queue'[i].client] = "joining"
    BY <1>5, <1>8, <2>2, <2>4 DEF Placed, Announced, IsJoin
  <2>6. \A i, j \in DOMAIN queue' :
          IsJoin(i)' /\ IsJoin(j)' /\ queue'[i].client = queue'[j].client => i = j
    BY <2>2 DEF Placed, Announced, IsJoin
  <2> QED
    BY <1>1, <1>3, <1>7, <2>3, <2>5, <2>6 DEF Placed, Announced
<1> QED
  BY <1>9, <1>10

\* Every step keeps clients in one place.
LEMMA PlacedNext == Placed /\ [Next]_vars => Placed'
<1> SUFFICES ASSUME Placed, [Next]_vars PROVE Placed'
  OBVIOUS
<1>1. Kept'
  BY KeptNext DEF Placed
<1>2. CASE Actor
  <2>1. CASE OnHsStart
    <3>1. running /\ queue # <<>>
      BY <2>1 DEF OnHsStart, Receive
    <3>2. running' /\ conn' = conn /\ Done(<<>>) /\ UNCHANGED seating
      BY <2>1, <3>1 DEF OnHsStart, Ignored, bridges
    <3> QED
      BY <1>1, <3>1, <3>2, NothingMore, SameSeating, PlacedUnmoved
  <2> QED
    BY <1>2, <2>1, PlacedClientJoin, PlacedJoinGame, PlacedToDuelist, PlacedToObserver,
       PlacedLeaveGame, PlacedReady, PlacedKick DEF Actor
<1>3. ASSUME NEW c \in Clients, Bridge(c) \/ ClientActs(c)
      PROVE  Placed'
  BY <1>1, <1>3, PlacedBridges
<1>4. CASE UNCHANGED vars
  <2>1. OnePlace' /\ \A d \in Clients : Places(d)' = Places(d)
    BY <1>4, SameSeating DEF vars, seating, Placed, OnePlace
  <2> QED
    BY <1>1, <1>4, <2>1 DEF vars, bridges, Placed, Announced, IsJoin
<1> QED
  BY <1>2, <1>3, <1>4 DEF Next

\* A client is in at most one place, however joins, seat changes, kicks and
\* departures interleave.
THEOREM AlwaysOnePlace == Spec => []OnePlace
<1>1. Placed => OnePlace
  BY DEF Placed
<1> QED
  BY PlacedInit, PlacedNext, <1>1, PTL DEF Spec

-----------------------------------------------------------------------------
(* What SingleDuel starts from.                                             *)

Started == stage = "Finger" => \A s \in Seats : Occupied(s) /\ players[s].ready

\* HsStart is refused unless both sit and are ready, and nothing moves afterwards.
LEMMA StartedNext == Started /\ [Next]_vars => Started'
<1> SUFFICES ASSUME Started, [Next]_vars PROVE Started'
  OBVIOUS
<1>1. CASE OnHsStart
  <2>1. UNCHANGED players
    BY <1>1 DEF OnHsStart, Ignored, seating
  <2>2. CASE StartRefused
    BY <1>1, <2>1, <2>2 DEF OnHsStart, Receive, Ignored, Started
  <2>3. CASE ~StartRefused
    BY <2>1, <2>3 DEF StartRefused, Started, Occupied
  <2> QED
    BY <2>2, <2>3
<1>2. CASE Actor /\ ~OnHsStart
  <2>1. stage = "Begin" /\ stage' = stage
    BY <1>2 DEF Actor, OnClientJoin, OnJoinGame, OnHsToDuelist, OnHsToObserver, OnLeaveGame,
               OnUpdateDeck, OnHsReady, OnValidateDeck, OnSendDeckValidation, OnHsNotReady,
               OnHsKick, Receive, Ignored
  <2> QED
    BY <2>1 DEF Started
<1>3. ASSUME NEW c \in Clients, Bridge(c) \/ ClientActs(c)
      PROVE  Started'
  <2>1. UNCHANGED <<stage, players>>
    BY <1>3 DEF Bridge, ClientActs, BridgeReads, BridgeStops, Connect, ClientSpeaks, ClientEnds,
               seating
  <2> QED
    BY <2>1 DEF Started, Occupied
<1>4. CASE UNCHANGED vars
  BY <1>4 DEF vars, seating, Started, Occupied
<1> QED
  BY <1>1, <1>2, <1>3, <1>4 DEF Next

\* Whenever the lobby hands over to the match, two different clients sit in the
\* slots, both ready, and the host is one of those who are there.
THEOREM HandOverSafe == Spec => []HandOver
<1>1. Init => Started
  BY DEF Init, Started
<1>2. Placed /\ HostSeated /\ Started => HandOver
  <2> SUFFICES ASSUME Placed, HostSeated, Started, stage = "Finger" PROVE HandOver
    BY DEF HandOver
  <2>1. \A s \in Seats : Occupied(s) /\ players[s].ready
    BY DEF Started
  <2>2. 0 \in Seats /\ 1 \in Seats /\ Player(0) # Player(1)
    BY DEF Seats, Player
  <2>3. players[0].client \in Clients
    BY <2>1, <2>2, OccupiedIsClient DEF Placed, Kept
  <2>4. ASSUME players[0].client = players[1].client PROVE FALSE
    <3>1. Player(0) \in Places(players[0].client) /\ Player(1) \in Places(players[0].client)
      BY <2>2, <2>4 DEF Places
    <3> QED
      BY <2>2, <2>3, <3>1 DEF Placed, OnePlace
  <2> QED
    BY <2>1, <2>4 DEF HandOver
<1> QED
  BY PlacedInit, PlacedNext, KeptInit, KeptNext, HostInit, HostNext, StartedNext, <1>1, <1>2,
     PTL DEF Spec, Placed

-----------------------------------------------------------------------------
(* Positions.  The handler that moves a client sends the new place to the    *)
(* channel found there, after the move.  No LeaveGame ever reaches a bridge: *)
(* the kick that sends it has emptied the slot before.                       *)

OnlyTold ==
  \A c \in Clients : /\ conn[c] # "open" => inbox[c] = <<>>
                     /\ \A i \in DOMAIN inbox[c] : inbox[c][i].type = "TypeChange"

Tracked == OnlyTold /\ PositionTold

\* A message that is appended is the last one, and the others stay what they are.
LEMMA AppendedLast ==
  ASSUME NEW s \in Seq(StocMessages), NEW m \in StocMessages
  PROVE  /\ Append(s, m) # <<>> /\ Append(s, m)[Len(Append(s, m))] = m
         /\ \A i \in DOMAIN Append(s, m) : \/ Append(s, m)[i] = m
                                           \/ i \in DOMAIN s /\ Append(s, m)[i] = s[i]
<1>1. /\ Append(s, m) \in Seq(StocMessages)
      /\ Len(Append(s, m)) = Len(s) + 1 /\ Len(s) \in Nat
      /\ \A i \in 1..Len(s) : Append(s, m)[i] = s[i]
      /\ Append(s, m)[Len(s) + 1] = m
  BY AppendProperties, LenProperties
<1>2. DOMAIN Append(s, m) = 1..(Len(s) + 1) /\ DOMAIN s = 1..Len(s)
  BY <1>1
<1> QED
  BY <1>1, <1>2

\* A client whose inbox and places stay, or who loses the place, is told as before.
LEMMA ToldAsBefore ==
  ASSUME Placed, PositionTold, NEW c \in Clients,
         conn'[c] = conn[c], my_position'[c] = my_position[c], inbox'[c] = inbox[c],
         Places(c)' \subseteq Places(c), conn'[c] = "open", Held(c)'
  PROVE  Told(c)' \in Places(c)'
<1>1. Told(c)' = Told(c)
  BY DEF Told
<1>2. PICK p : p \in Places(c)'
  BY DEF Held
<1>3. Held(c) /\ p \in Places(c)
  BY <1>2 DEF Held
<1>4. Told(c) \in Places(c)
  BY <1>3 DEF PositionTold
<1>5. Told(c) = p
  BY <1>3, <1>4 DEF Placed, OnePlace
<1> QED
  BY <1>1, <1>2, <1>5

\* A handler that moves nobody to a new place and sends nothing to a bridge.
LEMMA TrackedUnmoved ==
  ASSUME Placed, Tracked, UNCHANGED <<conn, my_position, inbox>>,
         \A d \in Clients : Places(d)' \subseteq Places(d)
  PROVE  Tracked'
<1>1. OnlyTold'
  BY DEF Tracked, OnlyTold
<1>2. PositionTold'
  BY ToldAsBefore DEF Tracked, PositionTold
<1> QED
  BY <1>1, <1>2 DEF Tracked

\* A place that is told goes to one open inbox, behind what waits there.
LEMMA OnlyToldSent ==
  ASSUME Placed, OnlyTold, conn' = conn, NEW snd, NEW pos \in Positions,
         SendSingle(snd, pos, TypeChange(pos))
  PROVE  /\ OnlyTold'
         /\ \A d \in Clients : inbox'[d] = IF d = ChannelAt(snd, pos) /\ conn[d] = "open"
                                           THEN Append(inbox[d], TypeChange(pos)) ELSE inbox[d]
<1>1. TypeChange(pos) \in StocMessages /\ TypeChange(pos).type = "TypeChange"
  BY TypeChangeTyped DEF TypeChange
<1>2. \A d \in Clients : inbox'[d] = IF d = ChannelAt(snd, pos) /\ conn[d] = "open"
                                     THEN Append(inbox[d], TypeChange(pos)) ELSE inbox[d]
  BY DEF SendSingle
<1>3. \A d \in Clients : inbox[d] \in Seq(StocMessages)
  BY DEF Placed, Kept, TypeOK
<1>4. ASSUME NEW d \in Clients
      PROVE  /\ conn'[d] # "open" => inbox'[d] = <<>>
             /\ \A i \in DOMAIN inbox'[d] : inbox'[d][i].type = "TypeChange"
  <2>1. CASE d = ChannelAt(snd, pos) /\ conn[d] = "open"
    <3>1. inbox'[d] = Append(inbox[d], TypeChange(pos))
      BY <1>2, <2>1
    <3>2. \A i \in DOMAIN inbox'[d] : \/ inbox'[d][i] = TypeChange(pos)
                                      \/ i \in DOMAIN inbox[d] /\ inbox'[d][i] = inbox[d][i]
      BY <1>1, <1>3, <3>1, AppendedLast
    <3> QED
      BY <1>1, <2>1, <3>2 DEF OnlyTold
  <2>2. CASE ~(d = ChannelAt(snd, pos) /\ conn[d] = "open")
    BY <1>2, <2>2 DEF OnlyTold
  <2> QED
    BY <2>1, <2>2
<1> QED
  BY <1>2, <1>4 DEF OnlyTold

\* A handler that moves one client and tells it where it is now.
LEMMA TrackedMoved ==
  ASSUME Placed, Tracked, UNCHANGED <<conn, my_position>>, NEW c \in Clients, NEW snd,
         NEW pos \in Positions, SendSingle(snd, pos, TypeChange(pos)), ChannelAt(snd, pos) = c,
         pos \in Places(c)', \A d \in Clients \ {c} : Places(d)' \subseteq Places(d)
  PROVE  Tracked'
<1>1. TypeChange(pos) \in StocMessages /\ TypeChange(pos).pos = pos
  BY TypeChangeTyped DEF TypeChange
<1>2. OnlyTold' /\ \A d \in Clients : inbox'[d] = IF d = c /\ conn[d] = "open"
                                                  THEN Append(inbox[d], TypeChange(pos)) ELSE inbox[d]
  BY OnlyToldSent DEF Tracked
<1>3. inbox[c] \in Seq(StocMessages)
  BY DEF Placed, Kept, TypeOK
<1>4. ASSUME NEW d \in Clients, conn'[d] = "open", Held(d)'
      PROVE  Told(d)' \in Places(d)'
  <2>1. CASE d = c
    <3>1. inbox'[d] = Append(inbox[d], TypeChange(pos))
      BY <1>2, <1>4, <2>1
    <3>2. inbox'[d] # <<>> /\ inbox'[d][Len(inbox'[d])] = TypeChange(pos)
      BY <1>1, <1>3, <2>1, <3>1, AppendedLast
    <3> QED
      BY <1>1, <2>1, <3>2 DEF Told
  <2>2. CASE d # c
    <3>1. inbox'[d] = inbox[d] /\ Places(d)' \subseteq Places(d)
      BY <1>2, <2>2
    <3> QED
      BY <1>4, <3>1, ToldAsBefore DEF Tracked
  <2> QED
    BY <2>1, <2>2
<1> QED
  BY <1>2, <1>4 DEF Tracked, PositionTold

\* A handler that ignores its request.
LEMMA TrackedIgnored ==
  ASSUME Placed, Tracked, Ignored
  PROVE  Tracked'
  BY SameSeating, TrackedUnmoved DEF Ignored, bridges

\* ClientJoin: the position the bridge was waiting for.
LEMMA TrackedClientJoin ==
  ASSUME Placed, Tracked, OnClientJoin
  PROVE  Tracked'
<1> DEFINE k == Slots!VacantKey(uninit_players)
<1>1. running /\ queue # <<>> /\ Request.type = "ClientJoin" /\ Slots!HasRoom(uninit_players)
  BY DEF OnClientJoin, Receive
<1>2. Request.client \in Clients /\ uninit_players \in Slots!Slabs(Clients)
  BY <1>1, RequestTyped, RequestFields DEF Placed, Kept, TypeOK
<1>3. PICK c \in Clients : c = Request.client
  BY <1>2
<1>4. /\ uninit_players' = Slots!SlabInsert(uninit_players, c)
      /\ conn' = [conn EXCEPT ![c] = "open"]
      /\ my_position' = [my_position EXCEPT ![c] = Undecided(k)]
      /\ UNCHANGED <<players, observers, inbox>>
  BY <1>3 DEF OnClientJoin
<1>5. k \in Slots!Keys
  BY <1>1, <1>2, SlabInsertTyped
<1>6. conn[c] = "joining"
  <2>1. 1 \in DOMAIN queue /\ IsJoin(1) /\ c = queue[1].client
    BY <1>1, <1>3 DEF IsJoin, Request, Placed, Kept, TypeOK
  <2> QED
    BY <2>1 DEF Placed, Announced
<1>7. inbox[c] = <<>> /\ Places(c) = {}
  BY <1>6 DEF Tracked, OnlyTold, Placed, Announced
<1>8. \A d \in Clients, j \in Slots!Keys :
        uninit_players'.val[j] = d => uninit_players.val[j] = d \/ (d = c /\ j = k)
  BY <1>1, <1>2, <1>4, InsertedVals
<1>9. \A d \in Clients \ {c} : Places(d)' \subseteq Places(d)
  BY <1>4, <1>8 DEF Places
<1>10. Undecided(k) \in Places(c)'
  <2>1. uninit_players'.val[k] = c
    BY <1>2, <1>4, <1>5 DEF Slots!SlabInsert, Slots!Slabs
  <2> QED
    BY <1>5, <2>1 DEF Places
<1>11. conn \in [Clients -> {"outside", "joining", "open", "closed"}] /\ my_position \in [Clients -> Positions]
  BY DEF Placed, Kept, TypeOK
<1>12. OnlyTold'
  BY <1>4, <1>7, <1>11 DEF Tracked, OnlyTold
<1>13. ASSUME NEW d \in Clients, conn'[d] = "open", Held(d)'
       PROVE  Told(d)' \in Places(d)'
  <2>1. CASE d = c
    BY <1>4, <1>7, <1>10, <1>11, <2>1 DEF Told
  <2>2. CASE d # c
    <3>1. conn'[d] = conn[d] /\ my_position'[d] = my_position[d] /\ inbox'[d] = inbox[d]
      BY <1>4, <1>11, <2>2
    <3> QED
      BY <1>9, <1>13, <2>2, <3>1, ToldAsBefore DEF Tracked
  <2> QED
    BY <2>1, <2>2
<1> QED
  BY <1>12, <1>13 DEF Tracked, PositionTold

\* The channel at a slot is that of the client who sits there.
LEMMA AtSeat ==
  ASSUME SenderInStep, NEW s \in Seats, NEW c \in Clients, players[s].client = c
  PROVE  ChannelAt(sender, Player(s)) = c /\ Player(s) \in Places(c)
<1>1. sender.players[s] = c
  BY DEF SenderInStep
<1>2. ChannelAt(sender, Player(s)) = sender.players[s]
  BY DEF ChannelAt, Player
<1>3. Player(s) \in Places(c)
  BY DEF Places
<1> QED
  BY <1>1, <1>2, <1>3

\* The same after a step of the actor.
LEMMA AtSeatNext ==
  ASSUME Kept', NEW s \in Seats, NEW c \in Clients, players'[s].client = c
  PROVE  ChannelAt(sender', Player(s)) = c /\ Player(s) \in Places(c)'
<1>1. sender'.players[s] = c
  BY DEF Kept, SenderInStep
<1>2. ChannelAt(sender', Player(s)) = sender'.players[s]
  BY DEF ChannelAt, Player
<1>3. Player(s) \in Places(c)'
  BY DEF Places
<1> QED
  BY <1>1, <1>2, <1>3

\* The same for an observer.
LEMMA AtKeyNext ==
  ASSUME Kept', NEW k \in Slots!Keys, NEW c \in Clients, observers'.val[k] = c
  PROVE  ChannelAt(sender', Observer(k)) = c /\ Observer(k) \in Places(c)'
<1>1. sender'.observers.val[k] = c
  BY DEF Kept, SenderInStep
<1>2. ChannelAt(sender', Observer(k)) = sender'.observers.val[k]
  BY DEF ChannelAt, Observer
<1>3. Observer(k) \in Places(c)'
  BY DEF Places
<1> QED
  BY <1>1, <1>2, <1>3

\* JoinGame: the new player or observer is told the place.
LEMMA TrackedJoinGame ==
  ASSUME Placed, Tracked, OnJoinGame
  PROVE  Tracked'
<1>1. /\ queue # <<>> /\ Request.type = "JoinGame"
      /\ AnyEmptySeat \/ Slots!HasRoom(observers)
      /\ UNCHANGED <<conn, my_position>>
  BY DEF OnJoinGame, Receive
<1>2. Kept'
  BY KeptJoinGame DEF Placed
<1>3. CASE JoinRefused
  BY <1>1, <1>3, SameSeating, TrackedUnmoved DEF OnJoinGame
<1>4. CASE ~JoinRefused
  <2>1. Request.from \in Positions
    BY <1>1, RequestTyped, RequestFields DEF Placed, Kept
  <2>2. Request.from.index \in Slots!Keys /\ Slots!Contains(uninit_players, Request.from.index)
    BY <1>4, <2>1, PositionKinds DEF JoinRefused
  <2>3. PICK k \in Slots!Keys : k = Request.from.index
    BY <2>2
  <2>4. PICK c \in Clients : c = uninit_players.val[k]
    BY <2>2, <2>3, StoredIsClient DEF Placed, Kept, TypeOK
  <2>5. uninit_players' = Slots!SlabRemove(uninit_players, k)
    BY <1>4, <2>3 DEF OnJoinGame, TakenOut
  <2>6. \A d \in Clients, j \in Slots!Keys :
          uninit_players'.val[j] = d => uninit_players.val[j] = d /\ j # k
    BY <2>5, RemovedVals DEF Placed, Kept, TypeOK
  <2>8. CASE AnyEmptySeat
    <3>1. PICK s \in Seats : s = FirstEmptySeat
      BY <2>8, FirstEmptySeatIsEmpty
    <3>2. /\ players' = [players EXCEPT ![s] = NewPlayer(c)] /\ observers' = observers
          /\ SendSingle(sender', Player(s), TypeChange(Player(s)))
      <4>1. /\ players' = [players EXCEPT ![FirstEmptySeat]
                              = NewPlayer(uninit_players.val[Request.from.index])]
            /\ observers' = observers
            /\ SendSingle(sender', Player(FirstEmptySeat), TypeChange(Player(FirstEmptySeat)))
        BY <1>4, <2>8 DEF OnJoinGame, Player
      <4> QED
        BY <2>3, <2>4, <3>1, <4>1
    <3>3. \A t \in Seats : players'[t].client = IF t = s THEN c ELSE players[t].client
      BY <2>4, <3>2, SeatGiven DEF Placed, Kept
    <3>4. ChannelAt(sender', Player(s)) = c /\ Player(s) \in Places(c)'
      BY <1>2, <3>3, AtSeatNext
    <3>5. \A d \in Clients \ {c} : Places(d)' \subseteq Places(d)
      BY <2>6, <3>2, <3>3 DEF Places
    <3>6. Player(s) \in Positions
      BY PositionsTyped
    <3> QED
      BY <1>1, <3>2, <3>4, <3>5, <3>6, TrackedMoved
  <2>9. CASE ~AnyEmptySeat
    <3> DEFINE o == Slots!VacantKey(observers)
    <3>1. /\ players' = players /\ observers' = Slots!SlabInsert(observers, c)
          /\ SendSingle(sender', Observer(o), TypeChange(Observer(o)))
      BY <1>4, <2>3, <2>4, <2>9 DEF OnJoinGame
    <3>2. o \in Slots!Keys /\ observers \in Slots!Slabs(Clients)
      BY <1>1, <2>9, SlabInsertTyped DEF Placed, Kept, TypeOK
    <3>3. \A d \in Clients, j \in Slots!Keys :
            observers'.val[j] = d => observers.val[j] = d \/ (d = c /\ j = o)
      BY <1>1, <2>9, <3>1, <3>2, InsertedVals
    <3>4. observers'.val[o] = c
      BY <3>1, <3>2 DEF Slots!SlabInsert, Slots!Slabs
    <3>5. ChannelAt(sender', Observer(o)) = c /\ Observer(o) \in Places(c)'
      BY <1>2, <3>2, <3>4, AtKeyNext
    <3>6. \A d \in Clients \ {c} : Places(d)' \subseteq Places(d)
      BY <2>6, <3>1, <3>3 DEF Places
    <3>7. Observer(o) \in Positions
      BY <3>2, PositionsTyped
    <3> QED
      BY <1>1, <3>1, <3>5, <3>6, <3>7, TrackedMoved
  <2> QED
    BY <2>8, <2>9
<1> QED
  BY <1>3, <1>4

\* HsToDuelist: the observer is told the slot.
LEMMA TrackedToDuelist ==
  ASSUME Placed, Tracked, OnHsToDuelist
  PROVE  Tracked'
<1> DEFINE refused == \/ Request.from.kind # "Observer"
                      \/ ~AnyEmptySeat
                      \/ ~Slots!Contains(observers, Request.from.index)
<1>1. queue # <<>> /\ Request.type = "HsToDuelist"
  BY DEF OnHsToDuelist, Receive
<1>2. Kept'
  BY KeptToDuelist DEF Placed
<1>3. CASE refused
  BY <1>3, TrackedIgnored DEF OnHsToDuelist
<1>4. CASE ~refused
  <2>1. Request.from \in Positions
    BY <1>1, RequestTyped, RequestFields DEF Placed, Kept, PlainTypes
  <2>2. Request.from.index \in Slots!Keys /\ Slots!Contains(observers, Request.from.index)
    BY <1>4, <2>1, PositionKinds
  <2>3. PICK k \in Slots!Keys : k = Request.from.index
    BY <2>2
  <2>4. PICK c \in Clients : c = observers.val[k]
    BY <2>2, <2>3, StoredIsClient DEF Placed, Kept, TypeOK
  <2>5. PICK s \in Seats : s = FirstEmptySeat
    BY <1>4, FirstEmptySeatIsEmpty
  <2>6. /\ observers' = Slots!SlabRemove(observers, k)
        /\ players' = [players EXCEPT ![s] = NewPlayer(c)]
        /\ SendSingle(sender', Player(s), TypeChange(Player(s)))
        /\ UNCHANGED <<uninit_players, conn, my_position>>
    <3>1. /\ observers' = Slots!SlabRemove(observers, Request.from.index)
          /\ players' = [players EXCEPT ![FirstEmptySeat]
                            = NewPlayer(observers.val[Request.from.index])]
          /\ SendSingle(sender', Player(FirstEmptySeat), TypeChange(Player(FirstEmptySeat)))
          /\ UNCHANGED <<uninit_players, conn, my_position>>
      BY <1>4 DEF OnHsToDuelist, Player, TakenOut
    <3> QED
      BY <2>3, <2>4, <2>5, <3>1
  <2>7. \A d \in Clients, j \in Slots!Keys :
          observers'.val[j] = d => observers.val[j] = d /\ j # k
    BY <2>6, RemovedVals DEF Placed, Kept, TypeOK
  <2>8. \A t \in Seats : players'[t].client = IF t = s THEN c ELSE players[t].client
    BY <2>4, <2>6, SeatGiven DEF Placed, Kept
  <2>10. ChannelAt(sender', Player(s)) = c /\ Player(s) \in Places(c)'
    BY <1>2, <2>8, AtSeatNext
  <2>11. \A d \in Clients \ {c} : Places(d)' \subseteq Places(d)
    BY <2>6, <2>7, <2>8 DEF Places
  <2>12. Player(s) \in Positions
    BY PositionsTyped
  <2> QED
    BY <2>6, <2>10, <2>11, <2>12, TrackedMoved
<1> QED
  BY <1>3, <1>4

\* HsToObserver: the player is told the key.
LEMMA TrackedToObserver ==
  ASSUME Placed, Tracked, OnHsToObserver
  PROVE  Tracked'
<1> DEFINE refused == Request.from.kind # "Player" \/ ~Occupied(Request.from.index)
           o == Slots!VacantKey(observers)
<1>1. queue # <<>> /\ Request.type = "HsToObserver" /\ Slots!HasRoom(observers)
  BY DEF OnHsToObserver, Receive
<1>2. Kept'
  BY KeptToObserver DEF Placed
<1>3. CASE refused
  BY <1>3, TrackedIgnored DEF OnHsToObserver
<1>4. CASE ~refused
  <2>1. Request.from \in Positions
    BY <1>1, RequestTyped, RequestFields DEF Placed, Kept, PlainTypes
  <2>2. Request.from.index \in Seats /\ Occupied(Request.from.index)
    BY <1>4, <2>1, PositionKinds
  <2>3. PICK s \in Seats : s = Request.from.index
    BY <2>2
  <2>4. PICK c \in Clients : c = players[s].client
    BY <2>2, <2>3, OccupiedIsClient DEF Placed, Kept
  <2>5. /\ players' = [players EXCEPT ![s] = EmptySlot]
        /\ observers' = Slots!SlabInsert(observers, c)
        /\ SendSingle(sender', Observer(o), TypeChange(Observer(o)))
        /\ UNCHANGED <<uninit_players, conn, my_position>>
    <3>1. /\ players' = [players EXCEPT ![Request.from.index] = EmptySlot]
          /\ observers' = Slots!SlabInsert(observers, players[Request.from.index].client)
          /\ SendSingle(sender', Observer(o), TypeChange(Observer(o)))
          /\ UNCHANGED <<uninit_players, conn, my_position>>
      BY <1>4 DEF OnHsToObserver
    <3> QED
      BY <2>3, <2>4, <3>1
  <2>6. o \in Slots!Keys /\ observers \in Slots!Slabs(Clients)
    BY <1>1, SlabInsertTyped DEF Placed, Kept, TypeOK
  <2>7. \A d \in Clients, j \in Slots!Keys :
          observers'.val[j] = d => observers.val[j] = d \/ (d = c /\ j = o)
    BY <1>1, <2>5, <2>6, InsertedVals
  <2>8. \A t \in Seats : players'[t].client = IF t = s THEN Nobody ELSE players[t].client
    BY <2>5, SeatCleared DEF Placed, Kept
  <2>9. observers'.val[o] = c
    BY <2>5, <2>6 DEF Slots!SlabInsert, Slots!Slabs
  <2>11. ChannelAt(sender', Observer(o)) = c /\ Observer(o) \in Places(c)'
    BY <1>2, <2>6, <2>9, AtKeyNext
  <2>12. \A d \in Clients \ {c} : Places(d)' \subseteq Places(d)
    BY <2>5, <2>7, <2>8, RoomAssumption DEF Places
  <2>13. Observer(o) \in Positions
    BY <2>6, PositionsTyped
  <2> QED
    BY <2>5, <2>11, <2>12, <2>13, TrackedMoved
<1> QED
  BY <1>3, <1>4

\* LeaveGame: the heir keeps the seat and is told it once more; the others lose
\* a place at most, all of them when the room closes.
LEMMA TrackedLeaveGame ==
  ASSUME Placed, Tracked, OnLeaveGame
  PROVE  Tracked'
<1> DEFINE pos == Request.from
           host_leaves == pos = host_player
           heir == Heir(pos)
           seated == IF host_leaves THEN [players EXCEPT ![heir].ready = FALSE] ELSE players
           left == IF pos.kind = "Player" THEN [seated EXCEPT ![pos.index] = EmptySlot] ELSE seated
           told == host_leaves /\ Heirs(pos) # {}
<1>1. queue # <<>> /\ Request.type = "LeaveGame" /\ UNCHANGED <<conn, my_position>>
  BY DEF OnLeaveGame, Receive
<1>2. Kept' /\ Kept
  BY KeptLeaveGame DEF Placed
<1>3. pos \in Positions
  BY <1>1, RequestTyped, RequestFields DEF Placed, Kept, PlainTypes
<1>4. IF told THEN SendSingle(sender, Player(heir), TypeChange(Player(heir))) ELSE UNCHANGED inbox
  BY DEF OnLeaveGame
<1>5. ASSUME told
      PROVE  /\ heir \in Seats /\ Occupied(heir) /\ Player(heir) # pos
             /\ Player(heir) \in Positions
             /\ players[heir] \in SlotRecords /\ players[heir].client \in Clients
  <2>1. heir \in Seats /\ Occupied(heir) /\ Player(heir) # pos
    BY <1>5, HeirIsSeated
  <2> QED
    BY <1>2, <2>1, PositionsTyped, OccupiedIsClient DEF Kept
<1>6. CASE Terminate
  <2>1. \A c \in Clients : Places(c)' = {}
    <3>1. /\ \A s \in Seats : players'[s].client = Nobody
          /\ \A k \in Slots!Keys : observers'.val[k] = Nobody /\ uninit_players'.val[k] = Nobody
      BY <1>6 DEF Terminate, EmptyPlayers, EmptySlot, Slots!EmptySlab
    <3> QED
      BY <3>1, RoomAssumption DEF Places
  <2>2. PositionTold'
    BY <2>1 DEF PositionTold, Held
  <2>3. CASE told
    BY <1>1, <1>4, <1>5, <2>2, <2>3, OnlyToldSent DEF Tracked
  <2>4. CASE ~told
    BY <1>1, <1>4, <2>2, <2>4 DEF Tracked, OnlyTold
  <2> QED
    BY <2>3, <2>4
<1>7. CASE /\ ~host_leaves \/ Heirs(pos) # {}
           /\ players' = left
           /\ observers' = Without(observers, "Observer", pos)
           /\ uninit_players' = Without(uninit_players, "Undecided", pos)
  <2>1. \A d \in Clients, j \in Slots!Keys : observers'.val[j] = d => observers.val[j] = d
    BY <1>3, <1>7, PositionKinds, RemovedVals DEF Without, Placed, Kept, TypeOK
  <2>2. \A d \in Clients, j \in Slots!Keys : uninit_players'.val[j] = d => uninit_players.val[j] = d
    BY <1>3, <1>7, PositionKinds, RemovedVals DEF Without, Placed, Kept, TypeOK
  <2>3. DOMAIN seated = Seats /\ \A t \in Seats : seated[t].client = players[t].client
    <3>1. CASE host_leaves
      <4>1. [players[heir] EXCEPT !.ready = FALSE].client = players[heir].client
        BY <1>5, <1>7, <3>1 DEF SlotRecords
      <4>2. heir \in Seats
        BY <1>5, <1>7, <3>1
      <4> QED
        BY <1>2, <3>1, <4>1, <4>2 DEF Kept, TypeOK
    <3>2. CASE ~host_leaves
      BY <1>2, <3>2 DEF Kept, TypeOK
    <3> QED
      BY <3>1, <3>2
  <2>4. \A d \in Clients, t \in Seats : players'[t].client = d => players[t].client = d
    <3>1. EmptySlot.client = Nobody /\ Nobody \notin Clients
      BY RoomAssumption DEF EmptySlot
    <3> QED
      BY <1>7, <2>3, <3>1
  <2>5. \A d \in Clients : Places(d)' \subseteq Places(d)
    BY <2>1, <2>2, <2>4 DEF Places
  <2>6. CASE told
    <3>1. PICK h \in Seats : h = heir
      BY <1>5, <2>6
    <3>2. PICK c \in Clients : c = players[h].client
      BY <1>5, <2>6, <3>1
    <3>3. ChannelAt(sender, Player(h)) = c
      BY <1>2, <3>2, AtSeat DEF Kept
    <3>4. players'[h].client = c
      <4>1. ~(pos.kind = "Player" /\ pos.index = h)
        BY <1>3, <1>5, <2>6, <3>1, PositionKinds DEF Player, Positions
      <4> QED
        BY <1>7, <2>3, <3>2, <4>1
    <3>5. Player(h) \in Places(c)'
      BY <1>2, <3>4, AtSeatNext
    <3> QED
      BY <1>1, <1>4, <1>5, <2>5, <2>6, <3>1, <3>3, <3>5, TrackedMoved
  <2>7. CASE ~told
    BY <1>1, <1>4, <2>5, <2>7, TrackedUnmoved
  <2> QED
    BY <2>6, <2>7
<1> QED
  BY <1>6, <1>7 DEF OnLeaveGame

\* HsKick: the channel at the slot is the dummy by the time LeaveGame is sent.
LEMMA TrackedKick ==
  ASSUME Placed, Tracked, OnHsKick
  PROVE  Tracked'
<1> DEFINE s == Request.pos
           refused == Request.from # host_player \/ Request.from = Player(s) \/ ~Occupied(s)
<1>1. queue # <<>> /\ Request.type = "HsKick"
  BY DEF OnHsKick, Receive
<1>2. s \in Seats
  BY <1>1, RequestTyped, RequestFields DEF Placed, Kept
<1>3. CASE refused
  BY <1>3, TrackedIgnored DEF OnHsKick
<1>4. CASE ~refused
  <2>1. /\ players' = [players EXCEPT ![s] = EmptySlot] /\ sender' = ClearPlayer(sender, s)
        /\ SendSingle(sender', Player(s), [type |-> "LeaveGame", pos |-> Player(s)])
        /\ UNCHANGED <<observers, uninit_players, conn, my_position>>
    BY <1>4 DEF OnHsKick
  <2>2. sender'.players[s] = Nobody
    BY <1>2, <2>1 DEF ClearPlayer, Placed, Kept, TypeOK
  <2>3. ChannelAt(sender', Player(s)) = sender'.players[s]
    BY DEF ChannelAt, Player
  <2>4. inbox' = inbox
    <3>1. inbox' = [d \in Clients |-> inbox[d]]
      BY <2>1, <2>2, <2>3, RoomAssumption DEF SendSingle
    <3> QED
      BY <3>1 DEF Placed, Kept, TypeOK
  <2>5. \A t \in Seats : players'[t].client \in {players[t].client, Nobody}
    BY <2>1 DEF EmptySlot, Placed, Kept, TypeOK
  <2>6. \A d \in Clients : Places(d)' \subseteq Places(d)
    BY <2>1, <2>5, RoomAssumption DEF Places
  <2> QED
    BY <2>1, <2>4, <2>6, TrackedUnmoved
<1> QED
  BY <1>3, <1>4

\* Decks and readiness: nobody moves.
LEMMA TrackedReady ==
  ASSUME Placed, Tracked,
         OnUpdateDeck \/ OnHsReady \/ OnValidateDeck \/ OnSendDeckValidation \/ OnHsNotReady
  PROVE  Tracked'
<1>1. Kept'
  BY KeptReady DEF Placed, Kept
<1>2. UNCHANGED <<observers, uninit_players, sender, conn, my_position, inbox>>
  BY DEF OnUpdateDeck, OnHsReady, OnValidateDeck, OnSendDeckValidation, OnHsNotReady,
         Ignored, seating, bridges
<1>3. \A s \in Seats : players'[s].client = players[s].client
  <2>1. \A s \in Seats : sender.players[s] = players[s].client
    BY DEF Placed, Kept, SenderInStep
  <2>2. \A s \in Seats : sender'.players[s] = players'[s].client
    BY <1>1 DEF Kept, SenderInStep
  <2> QED
    BY <1>2, <2>1, <2>2
<1>4. \A d \in Clients : Places(d)' \subseteq Places(d)
  BY <1>2, <1>3 DEF Places
<1> QED
  BY <1>2, <1>4, TrackedUnmoved

\* Reading the head leaves the last message the last one.
LEMMA LastRemains ==
  ASSUME NEW s \in Seq(StocMessages), s # <<>>
  PROVE  IF Tail(s) = <<>> THEN Len(s) = 1 ELSE Tail(s)[Len(Tail(s))] = s[Len(s)]
<1>1. PICK n \in Nat : n = Len(s)
  BY LenProperties
<1>2. PICK t : t = Tail(s)
  OBVIOUS
<1>3. t \in Seq(StocMessages) /\ Len(t) = n - 1 /\ \A i \in 1..Len(t) : t[i] = s[i + 1]
  BY <1>1, <1>2, HeadTailProperties
<1>4. Len(<<>>) = 0 /\ (t # <<>> => Len(t) \in Nat \ {0})
  BY <1>3, EmptySeq
<1>5. CASE t = <<>>
  <2>1. Len(t) = 0 /\ Len(t) = n - 1
    BY <1>3, <1>4, <1>5
  <2>2. n = 1
    BY <2>1
  <2> QED
    BY <1>1, <1>2, <1>5, <2>2
<1>6. CASE t # <<>>
  <2>1. n - 1 \in 1..(n - 1)
    BY <1>3, <1>4, <1>6
  <2>2. t[n - 1] = s[n - 1 + 1] /\ n - 1 + 1 = n
    BY <1>1, <1>3, <2>1
  <2> QED
    BY <1>1, <1>2, <1>3, <1>6, <2>2
<1> QED
  BY <1>2, <1>5, <1>6

\* A bridge that reads on believes what it was told; a closed one nothing.
LEMMA TrackedBridges ==
  ASSUME Placed, Tracked, NEW c \in Clients, Bridge(c) \/ ClientActs(c)
  PROVE  Tracked'
<1>1. \A d \in Clients : Places(d)' = Places(d)
  <2>1. UNCHANGED seating
    BY DEF Bridge, ClientActs, BridgeReads, BridgeStops, Connect, ClientSpeaks, ClientEnds
  <2> QED
    BY <2>1, SameSeating
<1>2. /\ conn \in [Clients -> {"outside", "joining", "open", "closed"}]
      /\ my_position \in [Clients -> Positions] /\ inbox \in [Clients -> Seq(StocMessages)]
  BY DEF Placed, Kept, TypeOK
<1>3. ASSUME Close(c)
      PROVE  Tracked'
  <2>1. conn'[c] = "closed" /\ inbox'[c] = <<>>
    BY <1>2, <1>3 DEF Close
  <2>2. \A d \in Clients \ {c} : /\ conn'[d] = conn[d] /\ inbox'[d] = inbox[d]
                                 /\ my_position'[d] = my_position[d]
    BY <1>2, <1>3 DEF Close
  <2>3. OnlyTold'
    BY <2>1, <2>2 DEF Tracked, OnlyTold
  <2>4. ASSUME NEW d \in Clients, conn'[d] = "open", Held(d)'
        PROVE  Told(d)' \in Places(d)'
    BY <1>1, <2>1, <2>2, <2>4, ToldAsBefore DEF Tracked
  <2> QED
    BY <2>3, <2>4 DEF Tracked, PositionTold
<1>4. CASE Connect(c)
  <2>1. conn[c] = "outside" /\ conn' = [conn EXCEPT ![c] = "joining"]
        /\ UNCHANGED <<my_position, inbox>>
    BY <1>4 DEF Connect
  <2>2. OnlyTold'
    BY <1>2, <2>1 DEF Tracked, OnlyTold
  <2>3. ASSUME NEW d \in Clients, conn'[d] = "open", Held(d)'
        PROVE  Told(d)' \in Places(d)'
    <3>1. conn'[d] = conn[d]
      BY <1>2, <2>1, <2>3
    <3> QED
      BY <1>1, <2>1, <2>3, <3>1, ToldAsBefore DEF Tracked
  <2> QED
    BY <2>2, <2>3 DEF Tracked, PositionTold
<1>5. CASE ClientSpeaks(c)
  BY <1>1, <1>5, TrackedUnmoved DEF ClientSpeaks, bridges
<1>6. CASE BridgeReads(c) /\ ~Close(c)
  <2>1. /\ conn[c] = "open" /\ inbox[c] # <<>> /\ conn' = conn
        /\ inbox' = [inbox EXCEPT ![c] = Tail(@)]
        /\ my_position' = IF Head(inbox[c]).type = "TypeChange"
                          THEN [my_position EXCEPT ![c] = Head(inbox[c]).pos] ELSE my_position
    BY <1>6 DEF BridgeReads
  <2> DEFINE q == inbox[c]
  <2>2. /\ q \in Seq(StocMessages) /\ q # <<>> /\ Tail(q) \in Seq(StocMessages)
        /\ Len(q) \in Nat /\ Len(q) >= 1 /\ Len(Tail(q)) = Len(q) - 1 /\ Head(q) = q[1]
        /\ \A i \in 1..(Len(q) - 1) : Tail(q)[i] = q[i + 1]
    BY <1>2, <2>1, HeadTailProperties, LenProperties
  <2>3. DOMAIN q = 1..Len(q) /\ DOMAIN Tail(q) = 1..(Len(q) - 1)
    BY <2>2
  <2>4. \A i \in DOMAIN q : q[i].type = "TypeChange"
    BY DEF Tracked, OnlyTold
  <2>5. inbox'[c] = Tail(q) /\ my_position'[c] = q[1].pos
    BY <1>2, <2>1, <2>2, <2>3, <2>4, SMTT(30)
  <2>6. \A d \in Clients \ {c} : inbox'[d] = inbox[d] /\ my_position'[d] = my_position[d]
    BY <1>2, <2>1
  <2>7. \A i \in DOMAIN inbox'[c] : inbox'[c][i].type = "TypeChange"
    BY <2>2, <2>3, <2>4, <2>5
  <2>8. OnlyTold'
    BY <2>1, <2>6, <2>7 DEF Tracked, OnlyTold
  <2>9. Told(c)' = Told(c)
    BY <1>2, <2>1, <2>5, LastRemains DEF Told
  <2>10. ASSUME NEW d \in Clients, conn'[d] = "open", Held(d)'
         PROVE  Told(d)' \in Places(d)'
    <3>1. CASE d = c
      <4>1. Held(c) /\ conn[c] = "open"
        BY <1>1, <2>1, <2>10, <3>1 DEF Held
      <4>2. Told(c) \in Places(c)
        BY <4>1 DEF Tracked, PositionTold
      <4> QED
        BY <1>1, <2>9, <3>1, <4>2
    <3>2. CASE d # c
      BY <1>1, <2>1, <2>6, <2>10, <3>2, ToldAsBefore DEF Tracked
    <3> QED
      BY <3>1, <3>2
  <2> QED
    BY <2>8, <2>10 DEF Tracked, PositionTold
<1> QED
  BY <1>3, <1>4, <1>5, <1>6 DEF Bridge, ClientActs, BridgeStops, ClientEnds

\* Nobody is told anything at the start.
LEMMA TrackedInit == Init => Tracked
<1> SUFFICES ASSUME Init PROVE Tracked
  OBVIOUS
<1>1. \A c \in Clients : conn[c] = "outside" /\ inbox[c] = <<>>
  BY DEF Init
<1> QED
  BY <1>1 DEF Tracked, OnlyTold, PositionTold

\* Every step keeps the bridges told.
LEMMA TrackedNext == Placed /\ Tracked /\ [Next]_vars => Tracked'
<1> SUFFICES ASSUME Placed, Tracked, [Next]_vars PROVE Tracked'
  OBVIOUS
<1>1. CASE Actor
  <2>1. CASE OnHsStart
    BY <2>1, SameSeating, TrackedUnmoved DEF OnHsStart, Ignored, bridges
  <2> QED
    BY <1>1, <2>1, TrackedClientJoin, TrackedJoinGame, TrackedToDuelist, TrackedToObserver,
       TrackedLeaveGame, TrackedReady, TrackedKick DEF Actor
<1>2. ASSUME NEW c \in Clients, Bridge(c) \/ ClientActs(c)
      PROVE  Tracked'
  BY <1>2, TrackedBridges
<1>3. CASE UNCHANGED vars
  BY <1>3, SameSeating, TrackedUnmoved DEF vars, bridges
<1> QED
  BY <1>1, <1>2, <1>3 DEF Next

\* A bridge that has read what is waiting for it tags its client's requests with
\* the place the client really holds, as long as the room holds the client.
THEOREM PositionAlwaysTold == Spec => []PositionTold
<1>1. Tracked => PositionTold
  BY DEF Tracked
<1> QED
  BY PlacedInit, PlacedNext, TrackedInit, TrackedNext, <1>1, PTL DEF Spec

-----------------------------------------------------------------------------
(* Decks.                                                                    *)

\* No seat that is ready, and stays so, has its deck replaced.
DeckKept(s) == players[s].ready /\ players'[s].ready => players'[s].deck = players[s].deck
DecksKept == \A s \in Seats : DeckKept(s)

\* A handler that touches one slot, which was not ready, is not ready any more,
\* or keeps its deck.
LEMMA OneSlotKept ==
  ASSUME TypeOK, NEW s, NEW r, players' = [players EXCEPT ![s] = r],
         s \in Seats => ~players[s].ready \/ ~r.ready \/ r.deck = players[s].deck
  PROVE  DecksKept
<1>1. \A t \in Seats : players'[t] = IF t = s THEN r ELSE players[t]
  BY DEF TypeOK
<1> QED
  BY <1>1 DEF DecksKept, DeckKept

\* A client who takes a seat is not ready.
LEMMA TakenKept ==
  ASSUME TypeOK, NEW s, NEW c, players' = [players EXCEPT ![s] = NewPlayer(c)]
  PROVE  DecksKept
<1>1. ~NewPlayer(c).ready
  BY DEF NewPlayer
<1> QED
  BY <1>1, OneSlotKept

\* An empty slot is not ready.
LEMMA ClearedKept ==
  ASSUME TypeOK, NEW s, players' = [players EXCEPT ![s] = EmptySlot]
  PROVE  DecksKept
<1>1. ~EmptySlot.ready
  BY DEF EmptySlot
<1> QED
  BY <1>1, OneSlotKept

\* LeaveGame: whoever goes and whoever inherits is not ready afterwards.
LEMMA LeaveKept ==
  ASSUME Kept, OnLeaveGame
  PROVE  DecksKept
<1> DEFINE pos == Request.from
           heir == Heir(pos)
           seated == IF pos = host_player THEN [players EXCEPT ![heir].ready = FALSE] ELSE players
           left == IF pos.kind = "Player" THEN [seated EXCEPT ![pos.index] = EmptySlot] ELSE seated
<1>1. ~EmptySlot.ready
  BY DEF EmptySlot
<1>2. CASE Terminate
  <2>1. \A s \in Seats : players'[s] = EmptySlot
    BY <1>2 DEF Terminate, EmptyPlayers
  <2> QED
    BY <1>1, <2>1 DEF DecksKept, DeckKept
<1>3. CASE players' = left /\ (pos # host_player \/ Heirs(pos) # {})
  <2>1. \A s \in Seats : seated[s] = players[s] \/ ~seated[s].ready
    <3>1. CASE pos = host_player
      <4>1. heir \in Seats /\ Occupied(heir)
        BY <1>3, <3>1, HeirIsSeated
      <4>2. players[heir] \in SlotRecords
        BY <4>1, OccupiedIsClient DEF Kept
      <4>3. ~[players[heir] EXCEPT !.ready = FALSE].ready
        BY <4>2 DEF SlotRecords
      <4> QED
        BY <3>1, <4>1, <4>3 DEF Kept, TypeOK
    <3>2. CASE pos # host_player
      BY <3>2
    <3> QED
      BY <3>1, <3>2
  <2>2. DOMAIN seated = Seats
    BY DEF Kept, TypeOK
  <2>3. \A s \in Seats : players'[s] = seated[s] \/ players'[s] = EmptySlot
    BY <1>3, <2>2
  <2> QED
    BY <1>1, <2>1, <2>3 DEF DecksKept, DeckKept
<1> QED
  BY <1>2, <1>3 DEF OnLeaveGame

\* Decks are taken from, and checks are started for, players who are not ready.
LEMMA ReadyKept ==
  ASSUME TypeOK, queue # <<>>,
         OnUpdateDeck \/ OnHsReady \/ OnValidateDeck \/ OnSendDeckValidation \/ OnHsNotReady
  PROVE  DecksKept
<1>1. CASE UNCHANGED players
  BY <1>1 DEF DecksKept, DeckKept
<1>2. CASE OnUpdateDeck /\ ~UNCHANGED players
  <2> DEFINE s == Request.from.index
  <2>1. /\ ~players[s].ready
        /\ players' = [players EXCEPT ![s] = [@ EXCEPT !.deck = Request.deck,
                                                       !.deck_error = (Request.deck \in Unloadable)]]
    BY <1>2 DEF OnUpdateDeck, NotUnready, Ignored, seating
  <2> QED
    BY <2>1, OneSlotKept
<1>3. CASE OnHsReady /\ ~UNCHANGED players
  <2> DEFINE s == Request.from.index
  <2>1. ~players[s].ready /\ players' = [players EXCEPT ![s] = [@ EXCEPT !.ready = TRUE]]
    BY <1>3 DEF OnHsReady, NotUnready, Ignored, seating
  <2> QED
    BY <2>1, OneSlotKept
<1>4. CASE OnValidateDeck /\ ~UNCHANGED players
  <2> DEFINE s == Request.player
             e == [players[s] EXCEPT !.deck_error = (Request.deck \in Illegal)]
  <2>1. Occupied(s) /\ players' = [players EXCEPT ![s] = e]
    BY <1>4 DEF OnValidateDeck
  <2>2. s \in Seats => e.deck = players[s].deck
    BY <2>1, OccupiedIsClient DEF SlotRecords
  <2> QED
    BY <2>1, <2>2, OneSlotKept
<1>5. CASE OnSendDeckValidation /\ ~UNCHANGED players
  <2> DEFINE s == Request.player
  <2>1. ~players[s].ready /\ players' = [players EXCEPT ![s] = [@ EXCEPT !.ready = TRUE]]
    BY <1>5 DEF OnSendDeckValidation, NothingToReady, Ignored, seating
  <2> QED
    BY <2>1, OneSlotKept
<1>6. CASE OnHsNotReady /\ ~UNCHANGED players
  <2> DEFINE s == Request.from.index
             e == [players[s] EXCEPT !.ready = FALSE]
  <2>1. Occupied(s) /\ players' = [players EXCEPT ![s] = e]
    BY <1>6 DEF OnHsNotReady, Ignored, seating
  <2>2. s \in Seats => ~e.ready
    BY <2>1, OccupiedIsClient DEF SlotRecords
  <2> QED
    BY <2>1, <2>2, OneSlotKept
<1> QED
  BY <1>1, <1>2, <1>3, <1>4, <1>5, <1>6

\* While a player is ready, no request, validation or late answer of a check
\* replaces the deck the match will start with.
THEOREM ReadyDeckAlwaysFrozen == Spec => ReadyDeckFrozen
<1> DEFINE Frozen == \A s \in Seats :
             players[s].ready /\ players'[s].ready /\ players'[s].client = players[s].client
               => players'[s].deck = players[s].deck
<1>1. ASSUME Kept, Next
      PROVE  DecksKept
  <2>1. ASSUME UNCHANGED players
        PROVE  DecksKept
    BY <2>1 DEF DecksKept, DeckKept
  <2>2. CASE OnJoinGame
    BY <1>1, <2>1, <2>2, TakenKept DEF OnJoinGame, seating, Kept
  <2>3. CASE OnHsToDuelist
    BY <1>1, <2>1, <2>3, TakenKept DEF OnHsToDuelist, Ignored, seating, Kept
  <2>4. CASE OnHsToObserver
    BY <1>1, <2>1, <2>4, ClearedKept DEF OnHsToObserver, Ignored, seating, Kept
  <2>5. CASE OnHsKick
    BY <1>1, <2>1, <2>5, ClearedKept DEF OnHsKick, Ignored, seating, Kept
  <2>6. CASE OnUpdateDeck \/ OnHsReady \/ OnValidateDeck \/ OnSendDeckValidation \/ OnHsNotReady
    <3>1. queue # <<>>
      BY <2>6 DEF OnUpdateDeck, OnHsReady, OnValidateDeck, OnSendDeckValidation, OnHsNotReady, Receive
    <3> QED
      BY <1>1, <2>6, <3>1, ReadyKept DEF Kept
  <2>7. CASE OnClientJoin \/ OnHsStart
    BY <2>1, <2>7 DEF OnClientJoin, OnHsStart, Ignored, seating
  <2>8. ASSUME NEW c \in Clients, Bridge(c) \/ ClientActs(c)
        PROVE  DecksKept
    BY <2>1, <2>8 DEF Bridge, ClientActs, BridgeReads, BridgeStops, Connect, ClientSpeaks,
                      ClientEnds, seating
  <2> QED
    BY <1>1, <2>2, <2>3, <2>4, <2>5, <2>6, <2>7, <2>8, LeaveKept DEF Next, Actor
<1>2. DecksKept => Frozen
  BY DEF DecksKept, DeckKept
<1>3. Kept /\ [Next]_vars => [Frozen]_vars
  BY <1>1, <1>2
<1> QED
  BY KeptInit, KeptNext, <1>3, PTL DEF Spec, ReadyDeckFrozen

-----------------------------------------------------------------------------
(* Seen from the clients the room behaves like Lobby.                       *)

-----------------------------------------------------------------------------
(* Slabs hand out no key that is taken, so that an insertion overwrites      *)
(* nobody.                                                                   *)

Sound(slab) ==
  /\ \A i \in DOMAIN slab.free : slab.val[slab.free[i]] = Nobody
  /\ \A i, j \in DOMAIN slab.free : slab.free[i] = slab.free[j] => i = j

SlabsSound == Sound(observers) /\ Sound(uninit_players)

\* A new slab hands out every key once.
LEMMA EmptySlabSound == Sound(Slots!EmptySlab)
<1>1. Slots!EmptySlab.free = [i \in 1..(MaxKey + 1) |-> i - 1]
  BY DEF Slots!EmptySlab
<1>2. Slots!EmptySlab.val = [k \in Slots!Keys |-> Nobody]
  BY DEF Slots!EmptySlab
<1>3. \A i \in 1..(MaxKey + 1) : i - 1 \in Slots!Keys
  BY RoomAssumption DEF Slots!Keys
<1> QED
  BY <1>1, <1>2, <1>3 DEF Sound

\* An insertion takes the key it uses from the free ones.
LEMMA InsertSound ==
  ASSUME NEW slab \in Slots!Slabs(Clients), Slots!HasRoom(slab), Sound(slab), NEW c
  PROVE  Sound(Slots!SlabInsert(slab, c))
<1> DEFINE free == slab.free
           after == Slots!SlabInsert(slab, c)
<1>1. free \in Seq(Slots!Keys) /\ free # <<>> /\ slab.val \in [Slots!Keys -> Clients \cup {Nobody}]
  BY DEF Slots!Slabs, Slots!HasRoom
<1>2. /\ DOMAIN Tail(free) = 1..(Len(free) - 1) /\ Len(free) \in Nat /\ Len(free) >= 1
      /\ DOMAIN free = 1..Len(free) /\ Head(free) = free[1]
      /\ \A i \in DOMAIN Tail(free) : Tail(free)[i] = free[i + 1]
  BY <1>1
<1>3. after.free = Tail(free) /\ after.val = [slab.val EXCEPT ![Head(free)] = c]
  BY DEF Slots!SlabInsert, Slots!VacantKey
<1>4. ASSUME NEW i \in DOMAIN Tail(free)
      PROVE  after.val[Tail(free)[i]] = Nobody
  <2>1. i + 1 \in DOMAIN free /\ 1 \in DOMAIN free /\ i + 1 # 1
    BY <1>2
  <2>2. free[i + 1] # free[1] /\ slab.val[free[i + 1]] = Nobody
    BY <2>1 DEF Sound
  <2>3. free[i + 1] \in Slots!Keys
    BY <1>1, <2>1
  <2> QED
    BY <1>1, <1>2, <1>3, <2>2, <2>3
<1>5. ASSUME NEW i \in DOMAIN Tail(free), NEW j \in DOMAIN Tail(free), Tail(free)[i] = Tail(free)[j]
      PROVE  i = j
  <2>1. i + 1 \in DOMAIN free /\ j + 1 \in DOMAIN free /\ free[i + 1] = free[j + 1]
    BY <1>2, <1>5
  <2>2. i + 1 = j + 1
    BY <2>1 DEF Sound
  <2> QED
    BY <1>2, <2>2
<1> QED
  BY <1>3, <1>4, <1>5 DEF Sound

\* A removal gives back the key of somebody, which was not free.
LEMMA RemoveSound ==
  ASSUME NEW slab \in Slots!Slabs(Clients), Sound(slab), NEW k \in Slots!Keys, Slots!Contains(slab, k)
  PROVE  Sound(Slots!SlabRemove(slab, k))
<1> DEFINE free == slab.free
           after == Slots!SlabRemove(slab, k)
           more == <<k>> \o free
<1>1. free \in Seq(Slots!Keys) /\ slab.val \in [Slots!Keys -> Clients \cup {Nobody}]
  BY DEF Slots!Slabs
<1>2. /\ DOMAIN more = 1..(Len(free) + 1) /\ Len(free) \in Nat /\ DOMAIN free = 1..Len(free)
      /\ more[1] = k /\ \A i \in 2..(Len(free) + 1) : more[i] = free[i - 1]
  BY <1>1
<1>3. after.free = more /\ after.val = [slab.val EXCEPT ![k] = Nobody]
  BY DEF Slots!SlabRemove
<1>4. \A i \in DOMAIN free : free[i] # k /\ free[i] \in Slots!Keys
  BY <1>1 DEF Sound, Slots!Contains
<1>5. ASSUME NEW i \in DOMAIN more
      PROVE  after.val[more[i]] = Nobody
  <2>1. CASE i = 1
    BY <1>1, <1>2, <1>3, <2>1
  <2>2. CASE i # 1
    <3>1. i \in 2..(Len(free) + 1) /\ i - 1 \in DOMAIN free
      BY <1>2, <2>2
    <3> QED
      BY <1>1, <1>2, <1>3, <1>4, <3>1 DEF Sound
  <2> QED
    BY <2>1, <2>2
<1>6. ASSUME NEW i \in DOMAIN more, NEW j \in DOMAIN more, more[i] = more[j]
      PROVE  i = j
  <2>1. CASE i = 1 \/ j = 1
    <3>1. ASSUME NEW l \in DOMAIN more, l # 1
          PROVE  more[l] # k
      <4>1. l \in 2..(Len(free) + 1) /\ l - 1 \in DOMAIN free
        BY <1>2, <3>1
      <4> QED
        BY <1>2, <1>4, <4>1
    <3> QED
      BY <1>2, <1>6, <2>1, <3>1
  <2>2. CASE i # 1 /\ j # 1
    <3>1. /\ i \in 2..(Len(free) + 1) /\ j \in 2..(Len(free) + 1)
          /\ i - 1 \in DOMAIN free /\ j - 1 \in DOMAIN free
      BY <1>2, <2>2
    <3>2. free[i - 1] = free[j - 1]
      BY <1>2, <1>6, <3>1
    <3>3. i - 1 = j - 1
      BY <3>1, <3>2 DEF Sound
    <3> QED
      BY <3>1, <3>3
  <2> QED
    BY <2>1, <2>2
<1> QED
  BY <1>3, <1>5, <1>6 DEF Sound

\* A departure removes a key only that is there.
LEMMA WithoutSound ==
  ASSUME NEW slab \in Slots!Slabs(Clients), Sound(slab), NEW pos \in Positions,
         NEW kind \in {"Observer", "Undecided"}
  PROVE  Sound(Without(slab, kind, pos))
<1>1. CASE pos.kind = kind /\ Slots!Contains(slab, pos.index)
  <2>1. pos.index \in Slots!Keys
    BY <1>1, PositionKinds
  <2>2. Sound(Slots!SlabRemove(slab, pos.index))
    BY <1>1, <2>1, RemoveSound
  <2> QED
    BY <1>1, <2>2 DEF Without
<1>2. CASE ~(pos.kind = kind /\ Slots!Contains(slab, pos.index))
  <2>1. Without(slab, kind, pos) = slab
    BY <1>2 DEF Without
  <2> QED
    BY <2>1
<1> QED
  BY <1>1, <1>2

-----------------------------------------------------------------------------
(* Who is in a slab.                                                         *)

\* An insertion adds one client and moves nobody.
LEMMA InInserted ==
  ASSUME NEW slab \in Slots!Slabs(Clients), Slots!HasRoom(slab), Sound(slab), NEW c \in Clients
  PROVE  /\ In(Slots!SlabInsert(slab, c)) = In(slab) \cup {c}
         /\ Slots!VacantKey(slab) \in Slots!Keys
         /\ Slots!SlabInsert(slab, c).val[Slots!VacantKey(slab)] = c
         /\ \A j \in Slots!Keys : Slots!Contains(slab, j)
                                    => Slots!SlabInsert(slab, c).val[j] = slab.val[j]
<1> DEFINE k == Slots!VacantKey(slab)
           after == Slots!SlabInsert(slab, c)
<1>1. k \in Slots!Keys /\ slab.val \in [Slots!Keys -> Clients \cup {Nobody}]
  BY SlabInsertTyped DEF Slots!Slabs
<1>2. after.val = [slab.val EXCEPT ![k] = c]
  BY DEF Slots!SlabInsert
<1>3. slab.val[k] = Nobody
  <2>1. slab.free \in Seq(Slots!Keys) /\ slab.free # <<>>
    BY DEF Slots!Slabs, Slots!HasRoom
  <2>2. 1 \in DOMAIN slab.free /\ k = slab.free[1]
    BY <2>1 DEF Slots!VacantKey
  <2> QED
    BY <2>2 DEF Sound
<1>4. after.val[k] = c /\ \A j \in Slots!Keys : j # k => after.val[j] = slab.val[j]
  BY <1>1, <1>2
<1>5. In(after) = In(slab) \cup {c}
  BY <1>1, <1>3, <1>4, RoomAssumption DEF In
<1> QED
  BY <1>1, <1>3, <1>4, <1>5 DEF Slots!Contains

\* A removal takes one client out and moves nobody.
LEMMA InRemoved ==
  ASSUME NEW slab \in Slots!Slabs(Clients), NEW k \in Slots!Keys, NEW c \in Clients, slab.val[k] = c,
         \A j \in Slots!Keys : slab.val[j] = c => j = k
  PROVE  /\ In(Slots!SlabRemove(slab, k)) = In(slab) \ {c}
         /\ \A j \in Slots!Keys : j # k => Slots!SlabRemove(slab, k).val[j] = slab.val[j]
<1> DEFINE after == Slots!SlabRemove(slab, k)
<1>1. slab.val \in [Slots!Keys -> Clients \cup {Nobody}]
  BY DEF Slots!Slabs
<1>2. after.val = [slab.val EXCEPT ![k] = Nobody]
  BY DEF Slots!SlabRemove
<1>3. after.val[k] = Nobody /\ \A j \in Slots!Keys : j # k => after.val[j] = slab.val[j]
  BY <1>1, <1>2
<1>4. In(after) = In(slab) \ {c}
  BY <1>3, RoomAssumption DEF In
<1> QED
  BY <1>3, <1>4

-----------------------------------------------------------------------------
(* Every step keeps the slabs sound.                                         *)

\* ClientJoin takes a key of the undecided.
LEMMA SoundClientJoin ==
  ASSUME Kept, SlabsSound, OnClientJoin
  PROVE  SlabsSound'
<1>1. queue # <<>> /\ Request.type = "ClientJoin" /\ Slots!HasRoom(uninit_players)
  BY DEF OnClientJoin, Receive
<1>2. Request.client \in Clients /\ uninit_players \in Slots!Slabs(Clients)
  BY <1>1, RequestTyped, RequestFields DEF Kept, TypeOK
<1>3. uninit_players' = Slots!SlabInsert(uninit_players, Request.client) /\ observers' = observers
  BY DEF OnClientJoin
<1> QED
  BY <1>1, <1>2, <1>3, InsertSound DEF SlabsSound

\* JoinGame gives that key back and may take one of the observers.
LEMMA SoundJoinGame ==
  ASSUME Kept, SlabsSound, OnJoinGame
  PROVE  SlabsSound'
<1>1. queue # <<>> /\ Request.type = "JoinGame" /\ (AnyEmptySeat \/ Slots!HasRoom(observers))
  BY DEF OnJoinGame, Receive
<1>2. CASE JoinRefused
  BY <1>2 DEF OnJoinGame, seating, SlabsSound
<1>3. CASE ~JoinRefused
  <2>1. Request.from \in Positions /\ observers \in Slots!Slabs(Clients)
        /\ uninit_players \in Slots!Slabs(Clients)
    BY <1>1, RequestTyped, RequestFields DEF Kept, TypeOK
  <2>2. PICK k \in Slots!Keys : k = Request.from.index
    BY <1>3, <2>1, PositionKinds DEF JoinRefused
  <2>3. Slots!Contains(uninit_players, k)
    BY <1>3, <2>2 DEF JoinRefused
  <2>4. uninit_players' = Slots!SlabRemove(uninit_players, k)
    BY <1>3, <2>2 DEF OnJoinGame, TakenOut
  <2>5. Sound(uninit_players')
    BY <2>1, <2>3, <2>4, RemoveSound DEF SlabsSound
  <2>6. CASE AnyEmptySeat
    BY <1>3, <2>5, <2>6 DEF OnJoinGame, SlabsSound
  <2>7. CASE ~AnyEmptySeat
    <3>1. observers' = Slots!SlabInsert(observers, uninit_players.val[Request.from.index])
      BY <1>3, <2>7 DEF OnJoinGame
    <3> QED
      BY <1>1, <2>1, <2>5, <2>7, <3>1, InsertSound DEF SlabsSound
  <2> QED
    BY <2>6, <2>7
<1> QED
  BY <1>2, <1>3

\* HsToDuelist gives a key of the observers back, HsToObserver takes one.
LEMMA SoundChange ==
  ASSUME Kept, SlabsSound, OnHsToDuelist \/ OnHsToObserver
  PROVE  SlabsSound'
<1>1. queue # <<>> /\ observers \in Slots!Slabs(Clients)
      /\ Request.type \in {"HsToDuelist", "HsToObserver"}
  BY DEF OnHsToDuelist, OnHsToObserver, Receive, Kept, TypeOK
<1>2. Request.from \in Positions
  BY <1>1, RequestTyped, RequestFields DEF Kept, PlainTypes
<1>3. CASE Ignored
  BY <1>3 DEF Ignored, seating, SlabsSound
<1>4. CASE OnHsToDuelist /\ ~Ignored
  <2>1. /\ Request.from.kind = "Observer" /\ Slots!Contains(observers, Request.from.index)
        /\ observers' = Slots!SlabRemove(observers, Request.from.index)
        /\ uninit_players' = uninit_players
    BY <1>4 DEF OnHsToDuelist, TakenOut
  <2>2. Request.from.index \in Slots!Keys
    BY <1>2, <2>1, PositionKinds
  <2> QED
    BY <1>1, <2>1, <2>2, RemoveSound DEF SlabsSound
<1>5. CASE OnHsToObserver /\ ~Ignored
  <2>1. /\ Slots!HasRoom(observers)
        /\ observers' = Slots!SlabInsert(observers, players[Request.from.index].client)
        /\ uninit_players' = uninit_players
    BY <1>5 DEF OnHsToObserver
  <2> QED
    BY <1>1, <2>1, InsertSound DEF SlabsSound
<1> QED
  BY <1>3, <1>4, <1>5

\* A room that has ended has new slabs.
LEMMA SoundTerminate ==
  ASSUME Terminate
  PROVE  SlabsSound'
BY EmptySlabSound DEF Terminate, SlabsSound

\* LeaveGame gives back the key that is there.
LEMMA SoundLeaveGame ==
  ASSUME Kept, SlabsSound, OnLeaveGame
  PROVE  SlabsSound'
<1>1. queue # <<>> /\ Request.type = "LeaveGame"
  BY DEF OnLeaveGame, Receive
<1>2. Request.from \in Positions /\ observers \in Slots!Slabs(Clients)
      /\ uninit_players \in Slots!Slabs(Clients)
  BY <1>1, RequestTyped, RequestFields DEF Kept, TypeOK, PlainTypes
<1>3. CASE Terminate
  BY <1>3, SoundTerminate
<1>4. CASE ~Terminate
  <2>1. /\ observers' = Without(observers, "Observer", Request.from)
        /\ uninit_players' = Without(uninit_players, "Undecided", Request.from)
    BY <1>4 DEF OnLeaveGame
  <2> QED
    BY <1>2, <2>1, WithoutSound DEF SlabsSound
<1> QED
  BY <1>3, <1>4

\* Slabs are sound at the start.
LEMMA SoundInit == Init => SlabsSound
BY EmptySlabSound DEF Init, SlabsSound

\* Every step keeps them sound.
LEMMA SoundNext == Kept /\ SlabsSound /\ [Next]_vars => SlabsSound'
<1> SUFFICES ASSUME Kept, SlabsSound, [Next]_vars
             PROVE  SlabsSound'
  OBVIOUS
<1>1. CASE UNCHANGED vars
  BY <1>1 DEF vars, seating, SlabsSound
<1>2. CASE \E c \in Clients : Bridge(c) \/ ClientActs(c)
  <2>1. UNCHANGED <<observers, uninit_players>>
    BY <1>2 DEF Bridge, BridgeReads, BridgeStops, ClientActs, Connect, ClientSpeaks, ClientEnds, seating
  <2> QED
    BY <2>1 DEF SlabsSound
<1>3. CASE OnUpdateDeck \/ OnHsReady \/ OnValidateDeck \/ OnSendDeckValidation \/ OnHsNotReady
           \/ OnHsKick \/ OnHsStart
  <2>1. UNCHANGED <<observers, uninit_players>>
    BY <1>3 DEF OnUpdateDeck, OnHsReady, OnValidateDeck, OnSendDeckValidation, OnHsNotReady,
                OnHsKick, OnHsStart, Ignored, seating
  <2> QED
    BY <2>1 DEF SlabsSound
<1> QED
  BY <1>1, <1>2, <1>3, SoundClientJoin, SoundJoinGame, SoundChange, SoundLeaveGame DEF Next, Actor

-----------------------------------------------------------------------------
(* Places and clients.                                                       *)

\* Who holds a place holds no other.
LEMMA OnlyHere ==
  ASSUME OnePlace, NEW c \in Clients
  PROVE  /\ \A s \in Seats : players[s].client = c =>
              /\ \A t \in Seats : players[t].client = c => t = s
              /\ c \notin In(observers) /\ c \notin In(uninit_players)
         /\ \A k \in Slots!Keys : observers.val[k] = c =>
              /\ \A j \in Slots!Keys : observers.val[j] = c => j = k
              /\ \A t \in Seats : players[t].client # c
              /\ c \notin In(uninit_players)
         /\ \A k \in Slots!Keys : uninit_players.val[k] = c =>
              /\ \A j \in Slots!Keys : uninit_players.val[j] = c => j = k
              /\ \A t \in Seats : players[t].client # c
              /\ c \notin In(observers)
<1>1. /\ \A s \in Seats : players[s].client = c => Player(s) \in Places(c)
      /\ \A k \in Slots!Keys : observers.val[k] = c => Observer(k) \in Places(c)
      /\ \A k \in Slots!Keys : uninit_players.val[k] = c => Undecided(k) \in Places(c)
  BY DEF Places
<1>2. \A p, q \in Places(c) : p = q
  BY DEF OnePlace
<1>3. /\ \A s, t \in Seats : Player(s) = Player(t) => s = t
      /\ \A k, j \in Slots!Keys : (Observer(k) = Observer(j) => k = j) /\ (Undecided(k) = Undecided(j) => k = j)
      /\ \A s \in Seats, k \in Slots!Keys : Player(s) # Observer(k) /\ Player(s) # Undecided(k)
      /\ \A k, j \in Slots!Keys : Observer(k) # Undecided(j)
  BY DEF Player, Observer, Undecided
<1> QED
  BY <1>1, <1>2, <1>3 DEF In

\* The host sits where host_player points.
LEMMA HostThere ==
  ASSUME Kept, NEW c \in Clients, Host = c
  PROVE  /\ host_player \in Places(c)
         /\ \/ \E s \in Seats : host_player = Player(s) /\ players[s].client = c
            \/ \E k \in Slots!Keys : host_player = Observer(k) /\ observers.val[k] = c
<1>1. host_player \in Positions /\ Nobody \notin Clients
  BY RoomAssumption DEF Kept, TypeOK
<1>2. CASE host_player.kind = "Player"
  <2>1. host_player.index \in Seats /\ host_player = Player(host_player.index)
    BY <1>1, <1>2, PositionKinds
  <2>2. players[host_player.index].client = c
    BY <1>2 DEF Host
  <2> QED
    BY <2>1, <2>2 DEF Places
<1>3. CASE host_player.kind = "Observer"
  <2>1. host_player.index \in Slots!Keys /\ host_player = Observer(host_player.index)
    BY <1>1, <1>3, PositionKinds
  <2>2. observers.val[host_player.index] = c
    BY <1>3 DEF Host
  <2> QED
    BY <2>1, <2>2 DEF Places
<1>4. CASE host_player.kind \notin {"Player", "Observer"}
  BY <1>1, <1>4 DEF Host
<1> QED
  BY <1>2, <1>3, <1>4

\* Who holds the place of the host is the host.
LEMMA HostPlace ==
  ASSUME NEW c \in Clients
  PROVE  /\ \A s \in Seats : host_player = Player(s) => Host = players[s].client
         /\ \A k \in Slots!Keys : host_player = Observer(k) => Host = observers.val[k]
BY DEF Host, Player, Observer

\* The host stays the host where the place and who holds it do not change.
LEMMA SameHost ==
  ASSUME host_player' = host_player,
         host_player.kind = "Player" => players'[host_player.index].client = players[host_player.index].client,
         host_player.kind = "Observer" => observers'.val[host_player.index] = observers.val[host_player.index]
  PROVE  Host' = Host
BY DEF Host

\* A step that leaves the clients where they are is none for Lobby.
LEMMA Unseen ==
  ASSUME UNCHANGED <<running, stage, observers, uninit_players, host_player>>,
         \A s \in Seats : players'[s].client = players[s].client, Kept
  PROVE  UNCHANGED Promise!lobby
<1>1. host_player \in Positions
  BY DEF Kept, TypeOK
<1>2. Host' = Host
  BY <1>1, PositionKinds, SameHost
<1>3. In(observers)' = In(observers) /\ In(uninit_players)' = In(uninit_players)
  BY DEF In
<1> QED
  BY <1>2, <1>3 DEF Promise!lobby

\* A request that is ignored, and whatever changes no seating.
LEMMA UnseenSeating ==
  ASSUME Kept, UNCHANGED <<running, stage, seating>>
  PROVE  UNCHANGED Promise!lobby
BY Unseen DEF seating

-----------------------------------------------------------------------------
(* What each handler is for Lobby.                                           *)

Served == Placed /\ SlabsSound /\ HostSeated

Promised == Promise!Next \/ UNCHANGED Promise!lobby

\* ClientJoin lets a client in who is nowhere.
LEMMA ClientJoinPromised ==
  ASSUME Served, OnClientJoin
  PROVE  Promised
<1>1. /\ running /\ stage = "Begin" /\ queue # <<>> /\ Request.type = "ClientJoin"
      /\ Slots!HasRoom(uninit_players) /\ UNCHANGED <<running, stage, players, observers, host_player>>
  BY DEF OnClientJoin, Receive
<1>2. Request.client \in Clients /\ uninit_players \in Slots!Slabs(Clients)
  BY <1>1, RequestTyped, RequestFields DEF Served, Placed, Kept, TypeOK
<1>3. PICK c \in Clients : c = Request.client
  BY <1>2
<1>4. uninit_players' = Slots!SlabInsert(uninit_players, c)
  BY <1>3 DEF OnClientJoin
<1>5. In(uninit_players)' = In(uninit_players) \cup {c}
  <2>1. In(Slots!SlabInsert(uninit_players, c)) = In(uninit_players) \cup {c}
    BY <1>1, <1>2, InInserted DEF Served, SlabsSound
  <2> QED
    BY <1>4, <2>1 DEF In
<1>6. Places(c) = {}
  <2>1. 1 \in DOMAIN queue /\ IsJoin(1) /\ c = queue[1].client
    BY <1>1, <1>3 DEF IsJoin, Request, Served, Placed, Kept, TypeOK
  <2>2. conn[c] = "joining"
    BY <2>1 DEF Served, Placed, Announced
  <2> QED
    BY <2>2 DEF Served, Placed, Announced
<1>7. c \notin In(uninit_players) /\ c \notin In(observers) /\ \A s \in Seats : players[s].client # c
  BY <1>6 DEF Places, In
<1>8. Host' = Host /\ In(observers)' = In(observers)
  BY <1>1 DEF Host, In
<1>9. Promise!Enter(c)
  BY <1>1, <1>5, <1>7, <1>8
     DEF Promise!Enter, Promise!Inside, Promise!Playing, Promise!Seats, Seats
<1> QED
  BY <1>9 DEF Promised, Promise!Next

\* The host stays when a client takes an empty seat.
LEMMA HostOfSeatTaken ==
  ASSUME Kept, HostSeated, ~NoPlayers \/ ~Slots!IsEmptySlab(observers), host_player' = host_player,
         NEW s \in Seats, ~Occupied(s),
         \A t \in Seats : t # s => players'[t].client = players[t].client,
         host_player.kind = "Observer" => observers'.val[host_player.index] = observers.val[host_player.index]
  PROVE  Host' = Host
<1>1. host_player.kind = "Player" => Occupied(host_player.index) /\ host_player.index \in Seats
  BY PositionKinds DEF HostSeated, Kept, TypeOK
<1>2. host_player.kind = "Player" => players'[host_player.index].client = players[host_player.index].client
  BY <1>1
<1> QED
  BY <1>2, SameHost

\* Nobody is there to start, and only then nobody is the host already.
LEMMA NobodyThere ==
  ASSUME Kept
  PROVE  /\ NoPlayers <=> Promise!Playing = {}
         /\ Slots!IsEmptySlab(observers) <=> In(observers) = {}
<1>1. \A s \in Seats : Occupied(s) => players[s].client \in Clients
  BY OccupiedIsClient DEF Kept
<1>2. \A k \in Slots!Keys : observers.val[k] # Nobody => observers.val[k] \in Clients
  BY DEF Kept, TypeOK, Slots!Slabs
<1>3. NoPlayers <=> Promise!Playing = {}
  BY <1>1, RoomAssumption DEF NoPlayers, Occupied, Promise!Playing, Promise!Seats, Seats
<1>4. Slots!IsEmptySlab(observers) <=> In(observers) = {}
  BY <1>2, RoomAssumption DEF Slots!IsEmptySlab, In
<1> QED
  BY <1>3, <1>4

\* JoinGame seats an undecided client, or lets it watch.
LEMMA JoinGamePromised ==
  ASSUME Served, OnJoinGame
  PROVE  Promised
<1>1. /\ running /\ stage = "Begin" /\ queue # <<>> /\ Request.type = "JoinGame"
      /\ AnyEmptySeat \/ Slots!HasRoom(observers)
      /\ UNCHANGED <<running, stage>>
  BY DEF OnJoinGame, Receive
<1>2. /\ Kept /\ TypeOK /\ OnePlace /\ HostSeated /\ Sound(observers)
      /\ observers \in Slots!Slabs(Clients) /\ uninit_players \in Slots!Slabs(Clients)
  BY DEF Served, Placed, Kept, TypeOK, SlabsSound
<1>3. CASE JoinRefused
  BY <1>1, <1>2, <1>3, UnseenSeating DEF OnJoinGame, Promised
<1>4. CASE ~JoinRefused
  <2>1. Request.from \in Positions
    BY <1>1, <1>2, RequestTyped, RequestFields
  <2>2. PICK k \in Slots!Keys : k = Request.from.index
    BY <1>4, <2>1, PositionKinds DEF JoinRefused
  <2>3. Slots!Contains(uninit_players, k)
    BY <1>4, <2>2 DEF JoinRefused
  <2>4. PICK c \in Clients : c = uninit_players.val[k]
    BY <1>2, <2>3, StoredIsClient
  <2>5. /\ uninit_players' = Slots!SlabRemove(uninit_players, k)
        /\ host_player' = IF NoPlayers /\ Slots!IsEmptySlab(observers)
                          THEN IF AnyEmptySeat THEN Player(FirstEmptySeat) ELSE Observer(Slots!VacantKey(observers))
                          ELSE host_player
    BY <1>4, <2>2 DEF OnJoinGame, TakenOut
  <2>6. c \in In(uninit_players) /\ In(uninit_players)' = In(uninit_players) \ {c}
    <3>1. \A j \in Slots!Keys : uninit_players.val[j] = c => j = k
      BY <1>2, <2>4, OnlyHere
    <3>2. In(Slots!SlabRemove(uninit_players, k)) = In(uninit_players) \ {c}
      BY <1>2, <2>4, <3>1, InRemoved
    <3>3. c \in In(uninit_players)
      BY <2>4 DEF In
    <3> QED
      BY <2>5, <3>2, <3>3 DEF In
  <2>7. NoPlayers /\ Slots!IsEmptySlab(observers) <=> Promise!Playing \cup In(observers) = {}
    BY <1>2, NobodyThere
  <2>8. CASE AnyEmptySeat
    <3>1. PICK s \in Seats : s = FirstEmptySeat /\ ~Occupied(s)
      BY <2>8, FirstEmptySeatIsEmpty
    <3>2. players' = [players EXCEPT ![s] = NewPlayer(c)] /\ observers' = observers
      <4>1. /\ players' = [players EXCEPT ![FirstEmptySeat]
                              = NewPlayer(uninit_players.val[Request.from.index])]
            /\ observers' = observers
        BY <1>4, <2>8 DEF OnJoinGame, Player
      <4> QED
        BY <2>2, <2>4, <3>1, <4>1
    <3>3. \A t \in Seats : players'[t].client = IF t = s THEN c ELSE players[t].client
      BY <1>2, <3>2, SeatGiven
    <3>4. [t \in Seats |-> players'[t].client] = [[t \in Seats |-> players[t].client] EXCEPT ![s] = c]
      BY <3>3
    <3>5. In(observers)' = In(observers)
      BY <3>2 DEF In
    <3>6. Host' = IF Promise!Playing \cup In(observers) = {} THEN c ELSE Host
      <4>1. CASE Promise!Playing \cup In(observers) = {}
        <5>1. host_player' = Player(s)
          BY <2>5, <2>7, <2>8, <3>1, <4>1
        <5> QED
          BY <3>3, <4>1, <5>1 DEF Host, Player
      <4>2. CASE Promise!Playing \cup In(observers) # {}
        <5>1. host_player' = host_player /\ (~NoPlayers \/ ~Slots!IsEmptySlab(observers))
          BY <2>5, <2>7, <4>2
        <5>2. \A t \in Seats : t # s => players'[t].client = players[t].client
          BY <3>3
        <5> QED
          BY <1>2, <3>1, <3>2, <4>2, <5>1, <5>2, HostOfSeatTaken
      <4> QED
        BY <4>1, <4>2
    <3>7. s \in Promise!Free
      BY <3>1 DEF Promise!Free, Promise!Seats, Seats, Occupied
    <3>8. Promise!Join(c)
      BY <1>1, <2>6, <3>4, <3>5, <3>6, <3>7 DEF Promise!Join
    <3> QED
      BY <3>8 DEF Promised, Promise!Next
  <2>9. CASE ~AnyEmptySeat
    <3> DEFINE o == Slots!VacantKey(observers)
    <3>1. players' = players /\ observers' = Slots!SlabInsert(observers, c)
      BY <1>4, <2>2, <2>4, <2>9 DEF OnJoinGame
    <3>2. In(observers)' = In(observers) \cup {c}
      <4>1. In(Slots!SlabInsert(observers, c)) = In(observers) \cup {c}
        BY <1>1, <1>2, <2>9, InInserted
      <4> QED
        BY <3>1, <4>1 DEF In
    <3>3. \A j \in Slots!Keys : Slots!Contains(observers, j) => observers'.val[j] = observers.val[j]
      BY <1>1, <1>2, <2>9, <3>1, InInserted
    <3>4. Promise!Free = {} /\ ~NoPlayers /\ Promise!Playing \cup In(observers) # {}
      <4>1. ~NoPlayers /\ \A s \in Seats : players[s].client # Nobody
        BY <2>9 DEF AnyEmptySeat, NoPlayers, Occupied, Seats
      <4> QED
        BY <2>7, <4>1 DEF Promise!Free, Promise!Seats, Seats
    <3>5. Host' = Host
      <4>1. host_player' = host_player /\ host_player \in Positions
        BY <1>2, <2>5, <3>4 DEF TypeOK
      <4>2. host_player.kind = "Observer" => observers'.val[host_player.index] = observers.val[host_player.index]
        BY <1>2, <3>3, <3>4, <4>1, PositionKinds DEF HostSeated
      <4> QED
        BY <3>1, <4>1, <4>2, SameHost
    <3>6. Promise!Join(c)
      BY <1>1, <2>6, <3>1, <3>2, <3>4, <3>5 DEF Promise!Join
    <3> QED
      BY <3>6 DEF Promised, Promise!Next
  <2> QED
    BY <2>8, <2>9
<1> QED
  BY <1>3, <1>4

\* HsToDuelist seats a client that watches.
LEMMA ToDuelistPromised ==
  ASSUME Served, OnHsToDuelist
  PROVE  Promised
<1> DEFINE refused == \/ Request.from.kind # "Observer"
                      \/ ~AnyEmptySeat
                      \/ ~Slots!Contains(observers, Request.from.index)
<1>1. running /\ stage = "Begin" /\ queue # <<>> /\ Request.type = "HsToDuelist"
  BY DEF OnHsToDuelist, Receive
<1>2. /\ Kept /\ TypeOK /\ OnePlace /\ HostSeated /\ observers \in Slots!Slabs(Clients)
      /\ host_player \in Positions
  BY DEF Served, Placed, Kept, TypeOK
<1>3. CASE refused
  BY <1>2, <1>3, UnseenSeating DEF OnHsToDuelist, Ignored, Promised
<1>4. CASE ~refused
  <2>1. Request.from \in Positions
    BY <1>1, <1>2, RequestTyped, RequestFields DEF PlainTypes
  <2>2. PICK k \in Slots!Keys : k = Request.from.index /\ Request.from = Observer(k)
    BY <1>4, <2>1, PositionKinds
  <2>3. Slots!Contains(observers, k)
    BY <1>4, <2>2
  <2>4. PICK c \in Clients : c = observers.val[k]
    BY <1>2, <2>3, StoredIsClient
  <2>5. PICK s \in Seats : s = FirstEmptySeat /\ ~Occupied(s)
    BY <1>4, FirstEmptySeatIsEmpty
  <2>6. /\ observers' = Slots!SlabRemove(observers, k)
        /\ players' = [players EXCEPT ![s] = NewPlayer(c)]
        /\ host_player' = IF host_player = Observer(k) THEN Player(s) ELSE host_player
        /\ UNCHANGED <<running, stage, uninit_players>>
    <3>1. /\ observers' = Slots!SlabRemove(observers, Request.from.index)
          /\ players' = [players EXCEPT ![FirstEmptySeat]
                            = NewPlayer(observers.val[Request.from.index])]
          /\ host_player' = IF host_player = Request.from THEN Player(FirstEmptySeat) ELSE host_player
          /\ UNCHANGED <<running, stage, uninit_players>>
      BY <1>4 DEF OnHsToDuelist, Player, TakenOut
    <3> QED
      BY <2>2, <2>4, <2>5, <3>1
  <2>7. \A t \in Seats : players'[t].client = IF t = s THEN c ELSE players[t].client
    BY <1>2, <2>6, SeatGiven
  <2>8. [t \in Seats |-> players'[t].client] = [[t \in Seats |-> players[t].client] EXCEPT ![s] = c]
    BY <2>7
  <2>9. /\ c \in In(observers) /\ In(observers)' = In(observers) \ {c}
        /\ \A j \in Slots!Keys : j # k => observers'.val[j] = observers.val[j]
    <3>1. \A j \in Slots!Keys : observers.val[j] = c => j = k
      BY <1>2, <2>4, OnlyHere
    <3>2. /\ In(Slots!SlabRemove(observers, k)) = In(observers) \ {c}
          /\ \A j \in Slots!Keys : j # k => Slots!SlabRemove(observers, k).val[j] = observers.val[j]
      BY <1>2, <2>4, <3>1, InRemoved
    <3>3. c \in In(observers)
      BY <2>4 DEF In
    <3> QED
      BY <2>6, <3>2, <3>3 DEF In
  <2>10. Host' = Host
    <3>1. CASE host_player = Observer(k)
      <4>1. Host = c
        BY <2>4, <3>1 DEF Host, Observer
      <4>2. host_player' = Player(s)
        BY <2>6, <3>1
      <4> QED
        BY <2>7, <4>1, <4>2 DEF Host, Player
    <3>2. CASE host_player # Observer(k)
      <4>1. host_player' = host_player /\ ~Slots!IsEmptySlab(observers)
        BY <2>3, <2>6, <3>2, EmptyIsNoneContained
      <4>2. host_player.kind = "Observer" => host_player.index \in Slots!Keys /\ host_player.index # k
        BY <1>2, <3>2, PositionKinds
      <4>3. host_player.kind = "Observer" => observers'.val[host_player.index] = observers.val[host_player.index]
        BY <2>9, <4>2
      <4>4. \A t \in Seats : t # s => players'[t].client = players[t].client
        BY <2>7
      <4> QED
        BY <1>2, <2>5, <4>1, <4>3, <4>4, HostOfSeatTaken
    <3> QED
      BY <3>1, <3>2
  <2>11. s \in Promise!Free /\ In(uninit_players)' = In(uninit_players)
    BY <2>5, <2>6 DEF Promise!Free, Promise!Seats, Seats, Occupied, In
  <2>12. Promise!Sit(c)
    BY <1>1, <2>6, <2>8, <2>9, <2>10, <2>11 DEF Promise!Sit
  <2> QED
    BY <2>12 DEF Promised, Promise!Next
<1> QED
  BY <1>3, <1>4

\* HsToObserver lets a player watch.
LEMMA ToObserverPromised ==
  ASSUME Served, OnHsToObserver
  PROVE  Promised
<1> DEFINE refused == Request.from.kind # "Player" \/ ~Occupied(Request.from.index)
           o == Slots!VacantKey(observers)
<1>1. running /\ stage = "Begin" /\ queue # <<>> /\ Request.type = "HsToObserver" /\ Slots!HasRoom(observers)
  BY DEF OnHsToObserver, Receive
<1>2. /\ Kept /\ TypeOK /\ OnePlace /\ HostSeated /\ observers \in Slots!Slabs(Clients)
      /\ host_player \in Positions /\ Sound(observers)
  BY DEF Served, Placed, Kept, TypeOK, SlabsSound
<1>3. CASE refused
  BY <1>2, <1>3, UnseenSeating DEF OnHsToObserver, Ignored, Promised
<1>4. CASE ~refused
  <2>1. Request.from \in Positions
    BY <1>1, <1>2, RequestTyped, RequestFields DEF PlainTypes
  <2>2. PICK s \in Seats : s = Request.from.index /\ Request.from = Player(s)
    BY <1>4, <2>1, PositionKinds
  <2>3. Occupied(s)
    BY <1>4, <2>2
  <2>4. PICK c \in Clients : c = players[s].client
    BY <1>2, <2>3, OccupiedIsClient
  <2>5. /\ players' = [players EXCEPT ![s] = EmptySlot]
        /\ observers' = Slots!SlabInsert(observers, c)
        /\ host_player' = IF host_player = Player(s) THEN Observer(o) ELSE host_player
        /\ UNCHANGED <<running, stage, uninit_players>>
    <3>1. /\ players' = [players EXCEPT ![Request.from.index] = EmptySlot]
          /\ observers' = Slots!SlabInsert(observers, players[Request.from.index].client)
          /\ host_player' = IF host_player = Request.from THEN Observer(o) ELSE host_player
          /\ UNCHANGED <<running, stage, uninit_players>>
      BY <1>4 DEF OnHsToObserver
    <3> QED
      BY <2>2, <2>4, <3>1
  <2>6. \A t \in Seats : players'[t].client = IF t = s THEN Nobody ELSE players[t].client
    BY <1>2, <2>5, SeatCleared
  <2>7. [t \in Seats |-> players'[t].client] = [[t \in Seats |-> players[t].client] EXCEPT ![s] = Nobody]
    BY <2>6
  <2>8. /\ In(observers)' = In(observers) \cup {c} /\ observers'.val[o] = c
        /\ \A j \in Slots!Keys : Slots!Contains(observers, j) => observers'.val[j] = observers.val[j]
    <3>1. /\ In(Slots!SlabInsert(observers, c)) = In(observers) \cup {c}
          /\ Slots!SlabInsert(observers, c).val[o] = c
          /\ \A j \in Slots!Keys : Slots!Contains(observers, j)
                                     => Slots!SlabInsert(observers, c).val[j] = observers.val[j]
      BY <1>1, <1>2, InInserted
    <3> QED
      BY <2>5, <3>1 DEF In
  <2>9. Host' = Host
    <3>1. CASE host_player = Player(s)
      <4>1. Host = c
        BY <2>4, <3>1 DEF Host, Player
      <4>2. host_player' = Observer(o)
        BY <2>5, <3>1
      <4> QED
        BY <2>8, <4>1, <4>2 DEF Host, Observer
    <3>2. CASE host_player # Player(s)
      <4>1. host_player' = host_player /\ ~NoPlayers
        BY <2>3, <2>5, <3>2 DEF NoPlayers
      <4>2. host_player.kind = "Player" => host_player.index \in Seats /\ host_player.index # s
        BY <1>2, <3>2, PositionKinds
      <4>3. host_player.kind = "Player" => players'[host_player.index].client = players[host_player.index].client
        BY <2>6, <4>2
      <4>4. host_player.kind = "Observer" => host_player.index \in Slots!Keys
                                             /\ Slots!Contains(observers, host_player.index)
        BY <1>2, <4>1, PositionKinds DEF HostSeated
      <4>5. host_player.kind = "Observer" => observers'.val[host_player.index] = observers.val[host_player.index]
        BY <2>8, <4>4
      <4> QED
        BY <4>1, <4>3, <4>5, SameHost
    <3> QED
      BY <3>1, <3>2
  <2>10. s \in Promise!Seats /\ In(uninit_players)' = In(uninit_players)
    BY <2>5 DEF Promise!Seats, Seats, In
  <2>11. c \in Promise!Playing
    BY <2>4, <2>10 DEF Promise!Playing, Promise!Seats, Seats
  <2>12. Promise!Watch(c)
    BY <1>1, <2>4, <2>5, <2>7, <2>8, <2>9, <2>10, <2>11 DEF Promise!Watch
  <2> QED
    BY <2>12 DEF Promised, Promise!Next
<1> QED
  BY <1>3, <1>4

\* A slab somebody is not in is left as it is; the other loses the one who is in it.
LEMMA InWithout ==
  ASSUME Kept, OnePlace, NEW pos \in Positions, NEW c \in Clients, pos \in Places(c)
  PROVE  /\ In(Without(observers, "Observer", pos)) = In(observers) \ {c}
         /\ In(Without(uninit_players, "Undecided", pos)) = In(uninit_players) \ {c}
         /\ \A t \in Seats : pos = Player(t) <=> players[t].client = c
<1>1. /\ observers \in Slots!Slabs(Clients) /\ uninit_players \in Slots!Slabs(Clients)
      /\ Nobody \notin Clients
  BY RoomAssumption DEF Kept, TypeOK
<1>2. CASE \E s \in Seats : pos = Player(s) /\ players[s].client = c
  <2>1. PICK s \in Seats : pos = Player(s) /\ players[s].client = c
    BY <1>2
  <2>2. /\ c \notin In(observers) /\ c \notin In(uninit_players)
        /\ \A t \in Seats : players[t].client = c => t = s
    BY <2>1, OnlyHere
  <2>3. Without(observers, "Observer", pos) = observers /\ Without(uninit_players, "Undecided", pos) = uninit_players
    BY <2>1 DEF Without, Player
  <2>4. \A t \in Seats : Player(t) = Player(s) => t = s
    BY DEF Player
  <2>5. \A t \in Seats : pos = Player(t) <=> players[t].client = c
    BY <2>1, <2>2, <2>4
  <2> QED
    BY <2>2, <2>3, <2>5
<1>3. CASE \E k \in Slots!Keys : pos = Observer(k) /\ observers.val[k] = c
  <2>1. PICK k \in Slots!Keys : pos = Observer(k) /\ observers.val[k] = c
    BY <1>3
  <2>2. /\ \A j \in Slots!Keys : observers.val[j] = c => j = k
        /\ \A t \in Seats : players[t].client # c
        /\ c \notin In(uninit_players)
    BY <2>1, OnlyHere
  <2>3. /\ Without(observers, "Observer", pos) = Slots!SlabRemove(observers, k)
        /\ Without(uninit_players, "Undecided", pos) = uninit_players
    BY <1>1, <2>1 DEF Without, Observer, Slots!Contains
  <2>4. In(Slots!SlabRemove(observers, k)) = In(observers) \ {c}
    BY <1>1, <2>1, <2>2, InRemoved
  <2>5. \A t \in Seats : pos # Player(t)
    BY <2>1 DEF Player, Observer
  <2> QED
    BY <2>2, <2>3, <2>4, <2>5
<1>4. CASE \E k \in Slots!Keys : pos = Undecided(k) /\ uninit_players.val[k] = c
  <2>1. PICK k \in Slots!Keys : pos = Undecided(k) /\ uninit_players.val[k] = c
    BY <1>4
  <2>2. /\ \A j \in Slots!Keys : uninit_players.val[j] = c => j = k
        /\ \A t \in Seats : players[t].client # c
        /\ c \notin In(observers)
    BY <2>1, OnlyHere
  <2>3. /\ Without(uninit_players, "Undecided", pos) = Slots!SlabRemove(uninit_players, k)
        /\ Without(observers, "Observer", pos) = observers
    BY <1>1, <2>1 DEF Without, Undecided, Slots!Contains
  <2>4. In(Slots!SlabRemove(uninit_players, k)) = In(uninit_players) \ {c}
    BY <1>1, <2>1, <2>2, InRemoved
  <2>5. \A t \in Seats : pos # Player(t)
    BY <2>1 DEF Player, Undecided
  <2> QED
    BY <2>2, <2>3, <2>4, <2>5
<1> QED
  BY <1>2, <1>3, <1>4 DEF Places

\* A place nobody holds is empty already.
LEMMA NobodyWithout ==
  ASSUME Kept, NEW pos \in Positions, \A c \in Clients : pos \notin Places(c)
  PROVE  /\ Without(observers, "Observer", pos) = observers
         /\ Without(uninit_players, "Undecided", pos) = uninit_players
         /\ \A t \in Seats : pos = Player(t) => players[t].client = Nobody
<1>1. /\ observers \in Slots!Slabs(Clients) /\ uninit_players \in Slots!Slabs(Clients)
  BY DEF Kept, TypeOK
<1>2. ASSUME pos.kind = "Observer"
      PROVE  ~Slots!Contains(observers, pos.index)
  <2>1. pos.index \in Slots!Keys /\ pos = Observer(pos.index)
    BY <1>2, PositionKinds
  <2> QED
    BY <1>1, <2>1, StoredIsClient DEF Places
<1>3. ASSUME pos.kind = "Undecided"
      PROVE  ~Slots!Contains(uninit_players, pos.index)
  <2>1. pos.index \in Slots!Keys /\ pos = Undecided(pos.index)
    BY <1>3, PositionKinds
  <2> QED
    BY <1>1, <2>1, StoredIsClient DEF Places
<1>4. ASSUME NEW t \in Seats, pos = Player(t)
      PROVE  players[t].client = Nobody
  <2>1. SUFFICES ASSUME Occupied(t)
                 PROVE  FALSE
    BY DEF Occupied
  <2>2. PICK c \in Clients : c = players[t].client
    BY <2>1, OccupiedIsClient DEF Kept
  <2>3. pos \in Places(c)
    BY <1>4, <2>2 DEF Places
  <2> QED
    BY <2>3
<1> QED
  BY <1>2, <1>3, <1>4 DEF Without

\* A place is given up; if it was the host's, a player takes over.
LEMMA GonePromised ==
  ASSUME Kept, OnePlace, running, stage = "Begin", UNCHANGED <<running, stage>>, NEW pos \in Positions,
         \A t \in Seats : players'[t].client = IF pos = Player(t) THEN Nobody ELSE players[t].client,
         observers' = Without(observers, "Observer", pos),
         uninit_players' = Without(uninit_players, "Undecided", pos),
         \/ host_player' = host_player /\ pos # host_player
         \/ /\ pos = host_player /\ HostSeated
            /\ \E h \in Seats : Occupied(h) /\ Player(h) # pos /\ host_player' = Player(h)
  PROVE  Promised
<1>1. host_player \in Positions /\ Nobody \notin Clients
  BY RoomAssumption DEF Kept, TypeOK
<1>2. CASE \A c \in Clients : pos \notin Places(c)
  <2>1. observers' = observers /\ uninit_players' = uninit_players
        /\ \A t \in Seats : players'[t].client = players[t].client
    BY <1>2, NobodyWithout
  <2>2. host_player' = host_player
    <3>1. SUFFICES ASSUME pos = host_player, HostSeated, \E h \in Seats : Occupied(h)
                   PROVE  FALSE
      OBVIOUS
    <3>2. \/ host_player.kind = "Player" /\ Occupied(host_player.index)
          \/ host_player.kind = "Observer" /\ Slots!Contains(observers, host_player.index)
      BY <3>1 DEF HostSeated, NoPlayers
    <3>3. CASE host_player.kind = "Player" /\ Occupied(host_player.index)
      <4>1. host_player.index \in Seats /\ host_player = Player(host_player.index)
        BY <1>1, <3>3, PositionKinds
      <4>2. players[host_player.index].client = Nobody
        BY <1>1, <1>2, <3>1, <4>1, NobodyWithout
      <4> QED
        BY <3>3, <4>2 DEF Occupied
    <3>4. CASE host_player.kind = "Observer" /\ Slots!Contains(observers, host_player.index)
      <4>1. host_player.index \in Slots!Keys /\ host_player = Observer(host_player.index)
        BY <1>1, <3>4, PositionKinds
      <4>2. PICK c \in Clients : c = observers.val[host_player.index]
        BY <3>4, <4>1, StoredIsClient DEF Kept, TypeOK
      <4> QED
        BY <1>2, <3>1, <4>1, <4>2 DEF Places
    <3> QED
      BY <3>2, <3>3, <3>4
  <2> QED
    BY <2>1, <2>2, Unseen DEF Promised
<1>3. CASE \E c \in Clients : pos \in Places(c)
  <2>1. PICK c \in Clients : pos \in Places(c)
    BY <1>3
  <2>2. /\ In(observers)' = In(observers) \ {c} /\ In(uninit_players)' = In(uninit_players) \ {c}
        /\ \A t \in Seats : pos = Player(t) <=> players[t].client = c
    BY <2>1, InWithout DEF In
  <2>3. [t \in Seats |-> players'[t].client]
          = [t \in Seats |-> IF players[t].client = c THEN Nobody ELSE players[t].client]
    BY <2>2
  <2>4. c \in Promise!Inside
    BY <2>1 DEF Places, In, Promise!Inside, Promise!Playing, Promise!Seats, Seats
  <2>5. c = Host <=> pos = host_player
    <3>1. ASSUME c = Host
          PROVE  pos = host_player
      BY <2>1, <3>1, HostThere DEF OnePlace
    <3>2. ASSUME pos = host_player
          PROVE  c = Host
      <4>1. CASE \E s \in Seats : pos = Player(s) /\ players[s].client = c
        BY <3>2, <4>1, HostPlace
      <4>2. CASE \E k \in Slots!Keys : pos = Observer(k) /\ observers.val[k] = c
        BY <3>2, <4>2, HostPlace
      <4>3. CASE \E k \in Slots!Keys : pos = Undecided(k) /\ uninit_players.val[k] = c
        <5>1. host_player.kind = "Undecided"
          BY <3>2, <4>3 DEF Undecided
        <5>2. \E h \in Seats : Occupied(h)
          BY <3>2
        <5> QED
          BY <3>2, <5>1, <5>2 DEF HostSeated, NoPlayers
      <4> QED
        BY <2>1, <4>1, <4>2, <4>3 DEF Places
    <3> QED
      BY <3>1, <3>2
  <2>6. CASE pos # host_player
    <3>1. host_player' = host_player
      BY <2>6
    <3>2. host_player.kind = "Player" => players'[host_player.index].client = players[host_player.index].client
      <4>1. host_player.kind = "Player" => host_player.index \in Seats /\ host_player = Player(host_player.index)
        BY <1>1, PositionKinds
      <4> QED
        BY <2>6, <4>1
    <3>3. host_player.kind = "Observer" => observers'.val[host_player.index] = observers.val[host_player.index]
      <4>1. ASSUME host_player.kind = "Observer", pos.kind = "Observer", Slots!Contains(observers, pos.index)
            PROVE  observers'.val[host_player.index] = observers.val[host_player.index]
        <5>1. /\ pos.index \in Slots!Keys /\ host_player.index \in Slots!Keys
              /\ host_player.index # pos.index
          BY <1>1, <2>6, <4>1, PositionKinds
        <5>2. observers'.val = [observers.val EXCEPT ![pos.index] = Nobody]
          BY <4>1 DEF Without, Slots!SlabRemove
        <5>3. observers.val \in [Slots!Keys -> Clients \cup {Nobody}]
          BY DEF Kept, TypeOK, Slots!Slabs
        <5> QED
          BY <5>1, <5>2, <5>3
      <4>2. CASE ~(pos.kind = "Observer" /\ Slots!Contains(observers, pos.index))
        BY <4>2 DEF Without
      <4> QED
        BY <4>1, <4>2
    <3>4. Host' = Host
      BY <3>1, <3>2, <3>3, SameHost
    <3>5. Promise!Leave(c)
      BY <2>2, <2>3, <2>4, <2>5, <2>6, <3>4 DEF Promise!Leave, Promise!Seats, Seats
    <3> QED
      BY <3>5 DEF Promised, Promise!Next
  <2>7. CASE pos = host_player
    <3>1. PICK h \in Seats : Occupied(h) /\ Player(h) # pos /\ host_player' = Player(h)
      BY <2>7
    <3>2. Host' = players[h].client
      <4>1. players'[h].client = players[h].client
        BY <3>1
      <4>2. Host' = players'[h].client
        BY <3>1 DEF Host, Player
      <4> QED
        BY <4>1, <4>2
    <3>3. players[h].client \in Clients /\ players[h].client # c
      BY <2>2, <3>1, OccupiedIsClient DEF Kept
    <3>4. Host' \in Promise!Playing \ {c}
      BY <3>2, <3>3 DEF Promise!Playing, Promise!Seats, Seats
    <3>5. Promise!Leave(c)
      BY <2>2, <2>3, <2>4, <2>5, <2>7, <3>4 DEF Promise!Leave, Promise!Seats, Seats
    <3> QED
      BY <3>5 DEF Promised, Promise!Next
  <2> QED
    BY <2>6, <2>7
<1> QED
  BY <1>2, <1>3

\* HsKick: somebody else than the host is gone.
LEMMA KickPromised ==
  ASSUME Served, OnHsKick
  PROVE  Promised
<1> DEFINE s == Request.pos
           refused == Request.from # host_player \/ Request.from = Player(s) \/ ~Occupied(s)
<1>1. running /\ stage = "Begin" /\ queue # <<>> /\ Request.type = "HsKick"
  BY DEF OnHsKick, Receive
<1>2. Kept /\ TypeOK /\ OnePlace
  BY DEF Served, Placed, Kept
<1>3. PICK t \in Seats : t = s
  BY <1>1, <1>2, RequestTyped, RequestFields
<1>4. CASE refused
  BY <1>2, <1>4, UnseenSeating DEF OnHsKick, Ignored, Promised
<1>5. CASE ~refused
  <2>1. /\ players' = [players EXCEPT ![t] = EmptySlot]
        /\ UNCHANGED <<running, stage, observers, uninit_players, host_player>>
    BY <1>3, <1>5 DEF OnHsKick
  <2>2. \A u \in Seats : players'[u].client = IF Player(t) = Player(u) THEN Nobody ELSE players[u].client
    <3>1. \A u \in Seats : players'[u].client = IF u = t THEN Nobody ELSE players[u].client
      BY <1>2, <2>1, SeatCleared
    <3>2. \A u \in Seats : Player(t) = Player(u) <=> u = t
      BY DEF Player
    <3> QED
      BY <3>1, <3>2
  <2>3. /\ Without(observers, "Observer", Player(t)) = observers
        /\ Without(uninit_players, "Undecided", Player(t)) = uninit_players
    BY DEF Without, Player
  <2>4. Player(t) # host_player /\ Player(t) \in Positions
    BY <1>3, <1>5, PositionsTyped
  <2> QED
    BY <1>1, <1>2, <2>1, <2>2, <2>3, <2>4, GonePromised
<1> QED
  BY <1>4, <1>5

\* HsStart needs two players; everything stays as it is.
LEMMA StartPromised ==
  ASSUME Served, OnHsStart
  PROVE  Promised
<1>1. running /\ stage = "Begin" /\ Kept
  BY DEF OnHsStart, Receive, Served, Placed
<1>2. CASE StartRefused
  BY <1>1, <1>2, UnseenSeating DEF OnHsStart, Ignored, Promised
<1>3. CASE ~StartRefused
  <2>1. /\ stage' = "Finger" /\ running' = running
        /\ UNCHANGED <<players, observers, uninit_players, host_player>>
    BY <1>3 DEF OnHsStart, seating
  <2>2. In(observers)' = In(observers) /\ In(uninit_players)' = In(uninit_players) /\ Host' = Host
    BY <2>1 DEF In, Host
  <2>3. Promise!Free = {}
    BY <1>3 DEF StartRefused, Occupied, Promise!Free, Promise!Seats, Seats
  <2>4. Promise!Start
    BY <1>1, <2>1, <2>2, <2>3 DEF Promise!Start
  <2> QED
    BY <2>4 DEF Promised, Promise!Next
<1> QED
  BY <1>2, <1>3

\* The end of the loop closes the room.
LEMMA ClosePromised ==
  ASSUME running, stage = "Begin", Terminate,
         \E c \in Promise!Inside \cup {Nobody} : Promise!Deserted(c)
  PROVE  Promised
<1>1. /\ \A s \in Seats : players'[s].client = Nobody
      /\ \A k \in Slots!Keys : observers'.val[k] = Nobody /\ uninit_players'.val[k] = Nobody
      /\ host_player' = Unknown /\ running' = FALSE
  BY DEF Terminate, EmptyPlayers, EmptySlot, Slots!EmptySlab
<1>2. In(observers)' = {} /\ In(uninit_players)' = {} /\ Host' = Nobody
  BY <1>1, RoomAssumption DEF In, Host, Unknown
<1>3. Promise!Close
  BY <1>1, <1>2 DEF Promise!Close, Promise!Seats, Seats
<1> QED
  BY <1>3 DEF Promised, Promise!Next

\* A leaving host without an heir was the last player.
LEMMA DesertedByHost ==
  ASSUME Kept, Heirs(host_player) = {}
  PROVE  \E c \in Promise!Inside \cup {Nobody} : Promise!Deserted(c)
<1>1. \A s \in Seats : Occupied(s) => Host = players[s].client
  BY HostPlace, OccupiedIsClient DEF Heirs, Kept
<1>2. Promise!Playing \subseteq {Host}
  BY <1>1, RoomAssumption DEF Promise!Playing, Promise!Seats, Seats, Occupied
<1>3. Promise!Deserted(Host)
  BY <1>2 DEF Promise!Deserted
<1>4. CASE Host \in Clients
  <2>1. Host \in Promise!Inside
    BY <1>4, HostThere DEF In, Promise!Inside, Promise!Playing, Promise!Seats, Seats
  <2> QED
    BY <1>3, <2>1
<1>5. CASE Host \notin Clients
  <2>1. Promise!Playing = {}
    BY <1>2, <1>5 DEF Promise!Playing
  <2>2. host_player \in Positions
    BY DEF Kept, TypeOK
  <2>3. Host = Nobody
    <3>1. CASE host_player.kind = "Player"
      <4>1. host_player.index \in Seats
        BY <2>2, <3>1, PositionKinds
      <4> QED
        BY <1>5, <3>1, <4>1, OccupiedIsClient DEF Kept, Host, Occupied
    <3>2. CASE host_player.kind = "Observer"
      <4>1. host_player.index \in Slots!Keys
        BY <2>2, <3>2, PositionKinds
      <4> QED
        BY <1>5, <3>2, <4>1 DEF Host, Kept, TypeOK, Slots!Slabs
    <3>3. CASE host_player.kind \notin {"Player", "Observer"}
      BY <3>3 DEF Host
    <3> QED
      BY <3>1, <3>2, <3>3
  <2> QED
    BY <1>3, <2>3
<1> QED
  BY <1>4, <1>5

\* When nobody is left for whom the room is kept, one client has left at most.
LEMMA DesertedByLast ==
  ASSUME Kept, OnePlace, NEW pos \in Positions, NEW noPlayers, NEW noObservers,
         noPlayers => \A t \in Seats : Occupied(t) => pos = Player(t),
         noObservers => Slots!IsEmptySlab(Without(observers, "Observer", pos)),
         (noPlayers /\ noObservers) \/ IsPlayerLeft(noPlayers, noObservers)
  PROVE  \E c \in Promise!Inside \cup {Nobody} : Promise!Deserted(c)
<1>1. /\ Nobody \notin Clients /\ TerminateWhen \in {"All", "AllPlayer", "AllObserver", "None"}
  BY RoomAssumption
<1>2. \/ noPlayers /\ noObservers
      \/ noPlayers /\ TerminateWhen = "AllPlayer"
      \/ noObservers /\ TerminateWhen = "AllObserver"
  <2>1. CASE TerminateWhen = "All"
    BY <2>1 DEF IsPlayerLeft
  <2>2. CASE TerminateWhen = "AllPlayer"
    BY <2>2 DEF IsPlayerLeft
  <2>3. CASE TerminateWhen = "AllObserver"
    BY <2>3 DEF IsPlayerLeft
  <2>4. CASE TerminateWhen = "None"
    BY <2>4 DEF IsPlayerLeft
  <2> QED
    BY <1>1, <2>1, <2>2, <2>3, <2>4
<1>3. noObservers => In(Without(observers, "Observer", pos)) = {}
  BY <1>1 DEF Slots!IsEmptySlab, In
<1>4. CASE \E c \in Clients : pos \in Places(c)
  <2>1. PICK c \in Clients : pos \in Places(c)
    BY <1>4
  <2>2. noPlayers => Promise!Playing \subseteq {c}
    <3>1. SUFFICES ASSUME noPlayers, NEW d \in Clients, NEW s \in Seats, players[s].client = d
                   PROVE  d = c
      BY DEF Promise!Playing, Promise!Seats, Seats
    <3>2. pos = Player(s)
      BY <1>1, <3>1 DEF Occupied
    <3> QED
      BY <2>1, <3>1, <3>2, InWithout
  <2>3. noObservers => In(observers) \subseteq {c}
    BY <1>3, <2>1, InWithout
  <2>4. Promise!Deserted(c)
    BY <1>2, <2>2, <2>3 DEF Promise!Deserted
  <2>5. c \in Promise!Inside
    BY <2>1 DEF Places, In, Promise!Inside, Promise!Playing, Promise!Seats, Seats
  <2> QED
    BY <2>4, <2>5
<1>5. CASE \A c \in Clients : pos \notin Places(c)
  <2>1. noPlayers => Promise!Playing \subseteq {Nobody}
    <3>1. SUFFICES ASSUME noPlayers, NEW d \in Clients, NEW s \in Seats, players[s].client = d
                   PROVE  FALSE
      BY DEF Promise!Playing, Promise!Seats, Seats
    <3>2. pos = Player(s)
      BY <1>1, <3>1 DEF Occupied
    <3> QED
      BY <1>5, <3>1, <3>2 DEF Places
  <2>2. noObservers => In(observers) \subseteq {Nobody}
    BY <1>3, <1>5, NobodyWithout
  <2>3. Promise!Deserted(Nobody)
    BY <1>2, <2>1, <2>2 DEF Promise!Deserted
  <2> QED
    BY <2>3
<1> QED
  BY <1>4, <1>5

\* LeaveGame: a client is gone, or the room closes.
LEMMA LeaveGamePromised ==
  ASSUME Served, OnLeaveGame
  PROVE  Promised
<1> DEFINE pos == Request.from
           host_leaves == pos = host_player
           heir == Heir(pos)
           seated == IF host_leaves THEN [players EXCEPT ![heir].ready = FALSE] ELSE players
           left == IF pos.kind = "Player" THEN [seated EXCEPT ![pos.index] = EmptySlot] ELSE seated
           watching == Without(observers, "Observer", pos)
           noPlayers == \A s \in Seats : left[s].client = Nobody
           noObservers == Slots!IsEmptySlab(watching)
           over == (noPlayers /\ noObservers) \/ IsPlayerLeft(noPlayers, noObservers)
<1>1. running /\ stage = "Begin" /\ queue # <<>> /\ Request.type = "LeaveGame" /\ stage' = stage
  BY DEF OnLeaveGame, Receive
<1>2. Kept /\ TypeOK /\ OnePlace /\ HostSeated
  BY DEF Served, Placed, Kept
<1>3. pos \in Positions
  BY <1>1, <1>2, RequestTyped, RequestFields DEF PlainTypes
<1>4. CASE host_leaves /\ Heirs(pos) = {}
  BY <1>1, <1>2, <1>4, DesertedByHost, ClosePromised DEF OnLeaveGame
<1>5. CASE ~host_leaves \/ Heirs(pos) # {}
  <2>1. host_leaves => heir \in Seats /\ Occupied(heir) /\ Player(heir) # pos
    BY <1>5, HeirIsSeated
  <2>2. DOMAIN seated = Seats /\ \A t \in Seats : seated[t].client = players[t].client
    <3>1. CASE host_leaves
      <4>1. players[heir] \in SlotRecords
        BY <1>2, <2>1, <3>1, OccupiedIsClient
      <4>2. [players[heir] EXCEPT !.ready = FALSE].client = players[heir].client
        BY <4>1 DEF SlotRecords
      <4> QED
        BY <1>2, <2>1, <3>1, <4>2 DEF TypeOK
    <3>2. CASE ~host_leaves
      BY <1>2, <3>2 DEF TypeOK
    <3> QED
      BY <3>1, <3>2
  <2>3. \A t \in Seats : left[t].client = IF pos = Player(t) THEN Nobody ELSE players[t].client
    <3>1. \A t \in Seats : pos = Player(t) <=> pos.kind = "Player" /\ pos.index = t
      BY <1>3, PositionKinds DEF Player
    <3>2. EmptySlot.client = Nobody
      BY DEF EmptySlot
    <3> QED
      BY <2>2, <3>1, <3>2
  <2>4. CASE over
    <3>1. noPlayers => \A t \in Seats : Occupied(t) => pos = Player(t)
      BY <2>3 DEF Occupied
    <3>2. \E c \in Promise!Inside \cup {Nobody} : Promise!Deserted(c)
      BY <1>2, <1>3, <2>4, <3>1, DesertedByLast
    <3>3. Terminate
      BY <1>5, <2>4 DEF OnLeaveGame
    <3> QED
      BY <1>1, <3>2, <3>3, ClosePromised
  <2>5. CASE ~over
    <3>1. /\ players' = left /\ observers' = watching
          /\ uninit_players' = Without(uninit_players, "Undecided", pos)
          /\ host_player' = IF host_leaves THEN Player(heir) ELSE host_player
          /\ running' = running
      BY <1>5, <2>5 DEF OnLeaveGame
    <3>2. \/ host_player' = host_player /\ pos # host_player
          \/ /\ pos = host_player /\ HostSeated
             /\ \E h \in Seats : Occupied(h) /\ Player(h) # pos /\ host_player' = Player(h)
      BY <1>2, <2>1, <3>1
    <3>3. \A t \in Seats : players'[t].client = IF pos = Player(t) THEN Nobody ELSE players[t].client
      BY <2>3, <3>1
    <3> QED
      BY <1>1, <1>2, <1>3, <3>1, <3>2, <3>3, GonePromised
  <2> QED
    BY <2>4, <2>5
<1> QED
  BY <1>4, <1>5

\* The deck and the ready mark are nothing Lobby knows of.
LEMMA ReadyPromised ==
  ASSUME Served, OnUpdateDeck \/ OnHsReady \/ OnValidateDeck \/ OnSendDeckValidation \/ OnHsNotReady
  PROVE  Promised
<1>1. Kept /\ TypeOK
  BY DEF Served, Placed, Kept
<1>2. UNCHANGED <<running, stage, observers, uninit_players, host_player, sender>>
  BY DEF OnUpdateDeck, OnHsReady, OnValidateDeck, OnSendDeckValidation, OnHsNotReady, Ignored, seating
<1>3. \A s \in Seats : players'[s].client = players[s].client
  <2>1. Kept'
    BY <1>1, KeptReady DEF Kept
  <2> QED
    BY <1>1, <1>2, <2>1 DEF Kept, SenderInStep
<1> QED
  BY <1>1, <1>2, <1>3, Unseen DEF Promised

-----------------------------------------------------------------------------
(* The theorem.                                                              *)

\* Every step is one of Lobby, or none.
LEMMA StepPromised == Served /\ [Next]_vars => Promised
<1> SUFFICES ASSUME Served, [Next]_vars
             PROVE  Promised
  OBVIOUS
<1>1. Kept
  BY DEF Served, Placed
<1>2. CASE UNCHANGED vars
  BY <1>1, <1>2, UnseenSeating DEF vars, Promised
<1>3. CASE \E c \in Clients : Bridge(c) \/ ClientActs(c)
  <2>1. UNCHANGED <<running, stage, seating>>
    BY <1>3 DEF Bridge, BridgeReads, BridgeStops, ClientActs, Connect, ClientSpeaks, ClientEnds
  <2> QED
    BY <1>1, <2>1, UnseenSeating DEF Promised
<1> QED
  BY <1>2, <1>3, ClientJoinPromised, JoinGamePromised, ToDuelistPromised, ToObserverPromised,
     LeaveGamePromised, KickPromised, StartPromised, ReadyPromised DEF Next, Actor

\* The empty room is Lobby's.
LEMMA InitPromised == Init => Promise!Init
<1> SUFFICES ASSUME Init
             PROVE  Promise!Init
  OBVIOUS
<1>1. /\ \A s \in Seats : players[s].client = Nobody
      /\ \A k \in Slots!Keys : observers.val[k] = Nobody /\ uninit_players.val[k] = Nobody
      /\ running /\ stage = "Begin" /\ host_player = Unknown
  BY DEF Init, EmptyPlayers, EmptySlot, Slots!EmptySlab
<1>2. In(observers) = {} /\ In(uninit_players) = {} /\ Host = Nobody
  BY <1>1, RoomAssumption DEF In, Host, Unknown
<1> QED
  BY <1>1, <1>2 DEF Promise!Init, Promise!Seats, Seats

\* Whatever positions requests carry by the time they are handled, every step of every
\* room is, seen from the clients, one that Lobby allows: Room implements Lobby.
THEOREM LobbyImplemented == Spec => KeepsLobby
<1>1. Init => Served /\ Promise!Init
  BY PlacedInit, SoundInit, HostInit, InitPromised DEF Served
<1>2. Served /\ [Next]_vars => Served'
  BY PlacedNext, SoundNext, HostNext DEF Served, Placed
<1>3. Served /\ [Next]_vars => [Promise!Next]_(Promise!lobby)
  BY StepPromised DEF Promised
<1> QED
  BY <1>1, <1>2, <1>3, PTL DEF Spec, KeepsLobby, Promise!Spec

-----------------------------------------------------------------------------
(* Decks and lists: what loading makes of a deck, what is read from a text  *)
(* or a file, and what the checks of a deck let pass.                        *)

\* Retain goes on element by element.
LEMMA RetainOn ==
  ASSUME NEW B, NEW S
  PROVE  /\ Retain(<<>>, S) = <<>>
         /\ \A s \in Seq(B) : Retain(s, S) \in Seq(B)
         /\ \A s \in Seq(B), x \in B :
              Retain(Append(s, x), S) = (IF x \in S THEN Append(Retain(s, S), x) ELSE Retain(s, S))
<1> DEFINE f == [y \in Seq(B) \X B |-> (IF y[2] \in S THEN Append(y[1], y[2]) ELSE y[1])]
<1>1. /\ f \in [Seq(B) \X B -> Seq(B)]
      /\ \A y \in Seq(B), x \in B : f[<<y, x>>] = (IF x \in S THEN Append(y, x) ELSE y)
      /\ <<>> \in Seq(B)
  <2>1. \A y \in Seq(B), x \in B : (IF x \in S THEN Append(y, x) ELSE y) \in Seq(B)
    OBVIOUS
  <2>2. <<>> \in Seq(B)
    OBVIOUS
  <2> QED BY <2>1, <2>2
<1>2. ASSUME NEW s \in Seq(B) PROVE Retain(s, S) = Led(Seq(B), f, <<>>, s)
  <2> DEFINE Up(h) == h = [t \in SUBSET DOMAIN s |->
                             IF t = {} THEN <<>>
                             ELSE (IF s[Max(t)] \in S THEN Append(h[t \ {Max(t)}], s[Max(t)]) ELSE h[t \ {Max(t)}])]
             way == CHOOSE h : Up(h)
  <2>1. Retain(s, S) = way[DOMAIN s]
    BY DEF Retain, FoldLeft, MapThenFoldSet
  <2>2. DOMAIN s = 1..Len(s) /\ Len(s) \in Nat /\ \A i \in DOMAIN s : s[i] \in B
    OBVIOUS
  <2>3. PICK g \in [SUBSET DOMAIN s -> Seq(B)] : Climbs(g, f, <<>>, s)
    BY <1>1, Climbing
  <2>4. \A t \in SUBSET DOMAIN s : t # {} => Max(t) \in DOMAIN s /\ t \ {Max(t)} \in SUBSET DOMAIN s
    BY <2>2, Highest
  <2> HIDE DEF f
  <2>5. \A t \in SUBSET DOMAIN s :
          g[t] = IF t = {} THEN <<>>
                 ELSE (IF s[Max(t)] \in S THEN Append(g[t \ {Max(t)}], s[Max(t)]) ELSE g[t \ {Max(t)}])
    <3>1. \A t \in SUBSET DOMAIN s : g[t] = IF t = {} THEN <<>> ELSE f[<<g[t \ {Max(t)}], s[Max(t)]>>]
      BY <2>3 DEF Climbs
    <3>2. ASSUME NEW t \in SUBSET DOMAIN s, t # {}
          PROVE  f[<<g[t \ {Max(t)}], s[Max(t)]>>] = (IF s[Max(t)] \in S THEN Append(g[t \ {Max(t)}], s[Max(t)]) ELSE g[t \ {Max(t)}])
      <4>1. g[t \ {Max(t)}] \in Seq(B) /\ s[Max(t)] \in B
        BY <2>2, <2>3, <2>4, <3>2
      <4> QED BY <1>1, <4>1
    <3> QED BY <3>1, <3>2
  <2>6. Up(g)
    BY <2>3, <2>5
  <2>7. Up(way)
    <3> HIDE DEF Up
    <3> QED BY <2>6
  <2> HIDE DEF way
  <2>8. Starts(way, Seq(B), f, <<>>, s, Len(s))
    <3>1. DOMAIN s = 1..Len(s) /\ {} \in SUBSET DOMAIN s
      BY <2>2
    <3>2. way[{}] = <<>>
      BY <2>7, <3>1
    <3>3. ASSUME NEW t \in SUBSET (1..Len(s)), t # {}, way[t \ {Max(t)}] \in Seq(B)
          PROVE  way[t] = f[<<way[t \ {Max(t)}], s[Max(t)]>>]
      <4>1. t \in SUBSET DOMAIN s /\ s[Max(t)] \in B
        BY <2>2, <2>4, <3>1, <3>3
      <4>2. way[t] = (IF s[Max(t)] \in S THEN Append(way[t \ {Max(t)}], s[Max(t)]) ELSE way[t \ {Max(t)}])
        BY <2>7, <3>3, <4>1
      <4> QED BY <1>1, <3>3, <4>1, <4>2
    <3> QED BY <3>2, <3>3 DEF Starts
  <2>9. Ground(Seq(B), B, f, <<>>, s)
    BY <1>1 DEF Ground, FoldSteps
  <2> QED BY <2>1, <2>8, <2>9, FoundWay
<1> HIDE DEF f
<1>3. /\ Led(Seq(B), f, <<>>, <<>>) = <<>>
      /\ \A s \in Seq(B) : Led(Seq(B), f, <<>>, s) \in Seq(B)
      /\ \A s \in Seq(B), x \in B :
           Led(Seq(B), f, <<>>, Append(s, x)) = f[<<Led(Seq(B), f, <<>>, s), x>>]
  <2>1. FoldSteps(Seq(B), B, f, <<>>)
    BY <1>1 DEF FoldSteps
  <2> QED BY <2>1, LedOn
<1>4. <<>> \in Seq(B) /\ \A s \in Seq(B), x \in B : Append(s, x) \in Seq(B)
  OBVIOUS
<1>5. Retain(<<>>, S) = <<>>
  BY <1>2, <1>3, <1>4
<1>6. \A s \in Seq(B) : Retain(s, S) \in Seq(B)
  BY <1>2, <1>3
<1>7. ASSUME NEW s \in Seq(B), NEW x \in B
      PROVE  Retain(Append(s, x), S) = (IF x \in S THEN Append(Retain(s, S), x) ELSE Retain(s, S))
  <2>1. Retain(Append(s, x), S) = f[<<Retain(s, S), x>>]
    BY <1>2, <1>3, <1>4
  <2> QED BY <1>1, <1>6, <2>1
<1> QED BY <1>5, <1>6, <1>7

-----------------------------------------------------------------------------
(* Cards.                                                                   *)

\* Partial functions.
Maps(K, V) == UNION {[keys -> V] : keys \in SUBSET K}
Cards == [type : CardTypes, ot : SUBSET Origins, alias : Nat, rule_code : Nat]

\* One more entry of a function.
LEMMA InsertIs ==
  /\ \A map, key, value : DOMAIN Insert(map, key, value) = DOMAIN map \cup {key}
  /\ \A map, key, value : Insert(map, key, value)[key] = value
  /\ \A map, key, value, k : k \in DOMAIN map /\ k # key => Insert(map, key, value)[k] = map[k]
BY DEF Insert

\* One more entry of a partial function.
LEMMA Inserted ==
  ASSUME NEW K, NEW V, NEW map \in Maps(K, V)
  PROVE  /\ \A key \in K, value \in V : Insert(map, key, value) \in Maps(K, V)
         /\ \A k \in DOMAIN map : k \in K /\ map[k] \in V
<1>1. PICK keys \in SUBSET K : map \in [keys -> V]
  BY DEF Maps
<1>2. ASSUME NEW key \in K, NEW value \in V PROVE Insert(map, key, value) \in Maps(K, V)
  <2>1. keys \cup {key} \in SUBSET K /\ DOMAIN map = keys
    BY <1>1
  <2>2. Insert(map, key, value) \in [keys \cup {key} -> V]
    BY <1>1, <2>1 DEF Insert
  <2> QED BY <2>1, <2>2 DEF Maps
<1> QED BY <1>1, <1>2

\* No entry at all.
LEMMA NoEntry ==
  ASSUME NEW K, NEW V
  PROVE  <<>> \in Maps(K, V) /\ DOMAIN <<>> = {}
<1>1. <<>> \in [{} -> V]
  OBVIOUS
<1> QED BY <1>1 DEF Maps

\* A row is a card.
LEMMA CardTyped == \A row \in Rows : CardOf(row) \in Cards /\ row.code \in Nat
BY DEF Rows, CardOf, Cards

\* The cards of the rows so far.
LEMMA InsertCardsOn ==
  /\ InsertCards(<<>>) = <<>>
  /\ \A s \in Seq(Rows) : InsertCards(s) \in Maps(Nat, Cards)
  /\ \A s \in Seq(Rows), x \in Rows :
              InsertCards(Append(s, x)) = Insert(InsertCards(s), x.code, CardOf(x))
<1> DEFINE f == [y \in Maps(Nat, Cards) \X Rows |-> Insert(y[1], y[2].code, CardOf(y[2]))]
<1>1. /\ f \in [Maps(Nat, Cards) \X Rows -> Maps(Nat, Cards)]
      /\ \A y \in Maps(Nat, Cards), x \in Rows : f[<<y, x>>] = Insert(y, x.code, CardOf(x))
      /\ <<>> \in Maps(Nat, Cards)
  <2>1. \A y \in Maps(Nat, Cards), x \in Rows : Insert(y, x.code, CardOf(x)) \in Maps(Nat, Cards)
    BY CardTyped, Inserted
  <2>2. <<>> \in Maps(Nat, Cards)
    BY NoEntry
  <2> QED BY <2>1, <2>2
<1>2. ASSUME NEW s \in Seq(Rows) PROVE InsertCards(s) = Led(Maps(Nat, Cards), f, <<>>, s)
  <2> DEFINE Up(h) == h = [t \in SUBSET DOMAIN s |->
                             IF t = {} THEN <<>>
                             ELSE Insert(h[t \ {Max(t)}], s[Max(t)].code, CardOf(s[Max(t)]))]
             way == CHOOSE h : Up(h)
  <2>1. InsertCards(s) = way[DOMAIN s]
    BY DEF InsertCards, FoldLeft, MapThenFoldSet
  <2>2. DOMAIN s = 1..Len(s) /\ Len(s) \in Nat /\ \A i \in DOMAIN s : s[i] \in Rows
    OBVIOUS
  <2>3. PICK g \in [SUBSET DOMAIN s -> Maps(Nat, Cards)] : Climbs(g, f, <<>>, s)
    BY <1>1, Climbing
  <2>4. \A t \in SUBSET DOMAIN s : t # {} => Max(t) \in DOMAIN s /\ t \ {Max(t)} \in SUBSET DOMAIN s
    BY <2>2, Highest
  <2> HIDE DEF f
  <2>5. \A t \in SUBSET DOMAIN s :
          g[t] = IF t = {} THEN <<>>
                 ELSE Insert(g[t \ {Max(t)}], s[Max(t)].code, CardOf(s[Max(t)]))
    <3>1. \A t \in SUBSET DOMAIN s : g[t] = IF t = {} THEN <<>> ELSE f[<<g[t \ {Max(t)}], s[Max(t)]>>]
      BY <2>3 DEF Climbs
    <3>2. ASSUME NEW t \in SUBSET DOMAIN s, t # {}
          PROVE  f[<<g[t \ {Max(t)}], s[Max(t)]>>] = Insert(g[t \ {Max(t)}], s[Max(t)].code, CardOf(s[Max(t)]))
      <4>1. g[t \ {Max(t)}] \in Maps(Nat, Cards) /\ s[Max(t)] \in Rows
        BY <2>2, <2>3, <2>4, <3>2
      <4> QED BY <1>1, <4>1
    <3> QED BY <3>1, <3>2
  <2>6. Up(g)
    BY <2>3, <2>5
  <2>7. Up(way)
    <3> HIDE DEF Up
    <3> QED BY <2>6
  <2> HIDE DEF way
  <2>8. Starts(way, Maps(Nat, Cards), f, <<>>, s, Len(s))
    <3>1. DOMAIN s = 1..Len(s) /\ {} \in SUBSET DOMAIN s
      BY <2>2
    <3>2. way[{}] = <<>>
      BY <2>7, <3>1
    <3>3. ASSUME NEW t \in SUBSET (1..Len(s)), t # {}, way[t \ {Max(t)}] \in Maps(Nat, Cards)
          PROVE  way[t] = f[<<way[t \ {Max(t)}], s[Max(t)]>>]
      <4>1. t \in SUBSET DOMAIN s /\ s[Max(t)] \in Rows
        BY <2>2, <2>4, <3>1, <3>3
      <4>2. way[t] = Insert(way[t \ {Max(t)}], s[Max(t)].code, CardOf(s[Max(t)]))
        BY <2>7, <3>3, <4>1
      <4> QED BY <1>1, <3>3, <4>1, <4>2
    <3> QED BY <3>2, <3>3 DEF Starts
  <2>9. Ground(Maps(Nat, Cards), Rows, f, <<>>, s)
    BY <1>1 DEF Ground, FoldSteps
  <2> QED BY <2>1, <2>8, <2>9, FoundWay
<1> HIDE DEF f
<1>3. /\ Led(Maps(Nat, Cards), f, <<>>, <<>>) = <<>>
      /\ \A s \in Seq(Rows) : Led(Maps(Nat, Cards), f, <<>>, s) \in Maps(Nat, Cards)
      /\ \A s \in Seq(Rows), x \in Rows :
           Led(Maps(Nat, Cards), f, <<>>, Append(s, x)) = f[<<Led(Maps(Nat, Cards), f, <<>>, s), x>>]
  <2>1. FoldSteps(Maps(Nat, Cards), Rows, f, <<>>)
    BY <1>1 DEF FoldSteps
  <2> QED BY <2>1, LedOn
<1>4. <<>> \in Seq(Rows) /\ \A s \in Seq(Rows), x \in Rows : Append(s, x) \in Seq(Rows)
  OBVIOUS
<1>5. InsertCards(<<>>) = <<>>
  BY <1>2, <1>3, <1>4
<1>6. \A s \in Seq(Rows) : InsertCards(s) \in Maps(Nat, Cards)
  BY <1>2, <1>3
<1>7. ASSUME NEW s \in Seq(Rows), NEW x \in Rows
      PROVE  InsertCards(Append(s, x)) = Insert(InsertCards(s), x.code, CardOf(x))
  <2>1. InsertCards(Append(s, x)) = f[<<InsertCards(s), x>>]
    BY <1>2, <1>3, <1>4
  <2> QED BY <1>1, <1>6, <2>1
<1> QED BY <1>5, <1>6, <1>7

\* What is retained.
LEMMA Retained ==
  ASSUME NEW B, NEW S, NEW s \in Seq(B)
  PROVE  Retain(s, S) \in Seq(B) /\ ToSet(Retain(s, S)) = ToSet(s) \cap S
<1> DEFINE Good == {r \in Seq(B) : ToSet(Retain(r, S)) = ToSet(r) \cap S}
<1>1. ASSUME NEW r \in Seq(B), NEW x \in B PROVE ToSet(Append(r, x)) = ToSet(r) \cup {x}
  BY AppendProperties DEF ToSet
<1>2. /\ Retain(<<>>, S) = <<>>
      /\ \A r \in Seq(B) : Retain(r, S) \in Seq(B)
      /\ \A r \in Seq(B), x \in B :
           Retain(Append(r, x), S) = IF x \in S THEN Append(Retain(r, S), x) ELSE Retain(r, S)
  BY RetainOn
<1>3. <<>> \in Good
  BY <1>2 DEF ToSet
<1>4. ASSUME NEW r \in Good, NEW x \in B PROVE Append(r, x) \in Good
  <2>1. r \in Seq(B) /\ Retain(r, S) \in Seq(B) /\ Append(r, x) \in Seq(B)
    BY <1>2
  <2>2. ToSet(Append(r, x)) = ToSet(r) \cup {x}
    BY <1>1, <2>1
  <2>3. CASE x \in S
    <3>1. ToSet(Retain(Append(r, x), S)) = ToSet(Retain(r, S)) \cup {x}
      BY <1>1, <1>2, <2>1, <2>3
    <3> QED BY <2>1, <2>2, <2>3, <3>1
  <2>4. CASE x \notin S
    <3>1. ToSet(Retain(Append(r, x), S)) = ToSet(Retain(r, S))
      BY <1>2, <2>1, <2>4
    <3> QED BY <2>1, <2>2, <2>4, <3>1
  <2> QED BY <2>3, <2>4
<1>5. Good = Seq(B)
  <2> HIDE DEF Good
  <2>1. Good \in SUBSET Seq(B)
    BY DEF Good
  <2> QED BY <2>1, <1>3, <1>4, Appending
<1> QED BY <1>2, <1>5

\* Rows of different codes are all found again.
LEMMA CardsOfRows ==
  ASSUME NEW rows \in Seq(Rows),
         \A i, j \in DOMAIN rows : rows[i].code = rows[j].code => i = j
  PROVE  /\ InsertCards(rows) \in Maps(Nat, Cards)
         /\ DOMAIN InsertCards(rows) = {rows[i].code : i \in DOMAIN rows}
         /\ \A i \in DOMAIN rows : InsertCards(rows)[rows[i].code] = CardOf(rows[i])
<1> DEFINE Apart(r) == \A i, j \in DOMAIN r : r[i].code = r[j].code => i = j
           Found(r) == /\ DOMAIN InsertCards(r) = {r[i].code : i \in DOMAIN r}
                       /\ \A i \in DOMAIN r : InsertCards(r)[r[i].code] = CardOf(r[i])
           Good == {r \in Seq(Rows) : Apart(r) => Found(r)}
<1>1. <<>> \in Good
  <2>1. InsertCards(<<>>) = <<>> /\ DOMAIN <<>> = {} /\ <<>> \in Seq(Rows)
    BY InsertCardsOn
  <2> QED BY <2>1
<1>2. ASSUME NEW r \in Good, NEW x \in Rows PROVE Append(r, x) \in Good
  <2> DEFINE u == Append(r, x)
             n == Len(r)
  <2>1. /\ u \in Seq(Rows) /\ DOMAIN u = 1..(n + 1) /\ DOMAIN r = 1..n /\ n \in Nat
        /\ u[n + 1] = x /\ \A i \in 1..n : u[i] = r[i]
    BY AppendProperties
  <2> HIDE DEF u, n
  <2> SUFFICES ASSUME Apart(u) PROVE Found(u)
    BY <2>1 DEF u
  <2>2. Apart(r)
    <3> SUFFICES ASSUME NEW i \in DOMAIN r, NEW j \in DOMAIN r, r[i].code = r[j].code PROVE i = j
      OBVIOUS
    <3>1. i \in DOMAIN u /\ j \in DOMAIN u /\ u[i] = r[i] /\ u[j] = r[j]
      BY <2>1
    <3> QED BY <3>1
  <2>3. Found(r)
    BY <2>2
  <2> DEFINE cards == InsertCards(r)
             next == InsertCards(u)
  <2>4. cards \in Maps(Nat, Cards) /\ next = Insert(cards, x.code, CardOf(x))
    BY InsertCardsOn DEF u
  <2> HIDE DEF cards, next
  <2>5. /\ DOMAIN next = DOMAIN cards \cup {x.code}
        /\ next[x.code] = CardOf(x)
        /\ \A k \in DOMAIN cards : k # x.code => next[k] = cards[k]
    <3>1. DOMAIN next = DOMAIN cards \cup {x.code}
      BY <2>4 DEF Insert
    <3>2. next[x.code] = CardOf(x)
      BY <2>4, InsertIs
    <3>3. \A k \in DOMAIN cards : k # x.code => next[k] = cards[k]
      BY <2>4, InsertIs
    <3> QED BY <3>1, <3>2, <3>3
  <2>6. \A i \in 1..n : r[i].code # x.code
    <3> SUFFICES ASSUME NEW i \in 1..n, r[i].code = x.code PROVE FALSE
      OBVIOUS
    <3>1. i \in DOMAIN u /\ n + 1 \in DOMAIN u /\ u[i].code = u[n + 1].code
      BY <2>1
    <3>2. i = n + 1
      BY <3>1
    <3> QED BY <2>1, <3>2
  <2>7. DOMAIN cards = {r[i].code : i \in 1..n} /\ \A i \in 1..n : cards[r[i].code] = CardOf(r[i])
    BY <2>1, <2>3 DEF cards
  <2>8. \A i \in 1..(n + 1) : next[u[i].code] = CardOf(u[i])
    <3> SUFFICES ASSUME NEW i \in 1..(n + 1) PROVE next[u[i].code] = CardOf(u[i])
      OBVIOUS
    <3>1. CASE i = n + 1
      BY <2>1, <2>5, <3>1
    <3>2. CASE i # n + 1
      <4>1. i \in 1..n
        BY <2>1, <3>2
      <4>2. r[i].code \in DOMAIN cards /\ r[i].code # x.code /\ cards[r[i].code] = CardOf(r[i]) /\ u[i] = r[i]
        BY <2>1, <2>6, <2>7, <4>1
      <4> QED BY <2>5, <4>2
    <3> QED BY <3>1, <3>2
  <2>9. DOMAIN next = {u[i].code : i \in 1..(n + 1)}
    <3>1. \A k \in {r[i].code : i \in 1..n} : \E i \in 1..(n + 1) : k = u[i].code
      BY <2>1
    <3>2. n + 1 \in 1..(n + 1) /\ u[n + 1].code = x.code
      BY <2>1
    <3>3. \A i \in 1..(n + 1) : u[i].code \in {r[k].code : k \in 1..n} \cup {x.code}
      <4> SUFFICES ASSUME NEW i \in 1..(n + 1), i # n + 1 PROVE u[i].code \in {r[k].code : k \in 1..n}
        BY <2>1
      <4>1. i \in 1..n
        BY <2>1
      <4> QED BY <2>1, <4>1
    <3>4. DOMAIN next = {r[i].code : i \in 1..n} \cup {x.code}
      BY <2>5, <2>7
    <3>5. PICK old : old = {r[i].code : i \in 1..n}
      OBVIOUS
    <3>6. PICK new : new = {u[i].code : i \in 1..(n + 1)}
      OBVIOUS
    <3>7. old \subseteq new
      BY <3>1, <3>5, <3>6
    <3>8. x.code \in new
      BY <3>2, <3>6
    <3>9. new \subseteq old \cup {x.code}
      BY <3>3, <3>5, <3>6
    <3> QED BY <3>4, <3>5, <3>6, <3>7, <3>8, <3>9
  <2> QED BY <2>1, <2>8, <2>9 DEF next
<1>3. Good = Seq(Rows)
  <2> HIDE DEF Good
  <2>1. Good \in SUBSET Seq(Rows)
    BY DEF Good
  <2> QED BY <2>1, <1>1, <1>2, Appending
<1> QED BY <1>3, InsertCardsOn

\* When the aliases of main deck cards lead to cards, at most over an artwork of a card
\* treated as another, a card is counted with what it stands for.
LEMMA CountedAsAlias ==
  ASSUME NEW S \in SUBSET (Nat \ {0}), NEW alias \in [S -> S \cup {0}],
         NEW cards \in Maps(Nat, Cards), DOMAIN cards = S,
         \A c \in S : cards[c] = CardOf(Row(c, "Main", {}, alias[c])),
         NEW code \in S, alias[code] # 0,
         \/ alias[alias[code]] = 0
         \/ /\ IsAlternative(code, alias[code])
            /\ ~IsAlternative(alias[code], alias[alias[code]])
            /\ alias[alias[alias[code]]] = 0
  PROVE  DuelCodeIn(Finalized(cards), code) = DuelCodeIn(Finalized(cards), alias[code])
<1> DEFINE a == alias[code]
           final == Finalized(cards)
           treated(c) == alias[c] # 0 /\ ~IsAlternative(c, alias[c])
<1>1. \A c \in S : /\ treated(c) => cards[c].alias = 0 /\ cards[c].rule_code = alias[c]
                   /\ ~treated(c) => cards[c].alias = alias[c] /\ cards[c].rule_code = 0
                   /\ cards[c].type = "Main"
  BY DEF CardOf, Row, TreatedAs
<1>2. a \in S /\ a # 0 /\ 0 \notin S
  OBVIOUS
<1>3. DOMAIN final = S
  BY DEF Finalized
<1>4. ASSUME NEW c \in S
      PROVE  /\ treated(c) => final[c] = cards[c]
             /\ alias[c] = 0 => final[c] = cards[c]
             /\ ~treated(c) /\ alias[c] # 0 =>
                  /\ final[c].alias = alias[c]
                  /\ final[c].rule_code = cards[alias[c]].rule_code
  <2>1. final[c] = IF cards[c].rule_code # 0 \/ cards[c].alias = 0 \/ cards[c].type = "Token"
                   THEN cards[c]
                   ELSE [cards[c] EXCEPT !.rule_code = RuleCodeIn(cards, cards[c].alias)]
    BY DEF Finalized
  <2>2. treated(c) \/ alias[c] = 0 => final[c] = cards[c]
    BY <1>1, <2>1
  <2>3. ASSUME ~treated(c), alias[c] # 0
        PROVE  final[c].alias = alias[c] /\ final[c].rule_code = cards[alias[c]].rule_code
    <3>1. cards[c].alias = alias[c] /\ cards[c].rule_code = 0 /\ cards[c].type = "Main"
      BY <1>1, <2>3
    <3>2. final[c] = [cards[c] EXCEPT !.rule_code = RuleCodeIn(cards, alias[c])]
      BY <2>1, <2>3, <3>1
    <3>3. alias[c] \in DOMAIN cards
      BY <2>3
    <3>4. RuleCodeIn(cards, alias[c]) = cards[alias[c]].rule_code
      BY <3>3 DEF RuleCodeIn
    <3>5. cards[c] \in Cards
      BY Inserted, NoEntry, CardTyped DEF Maps
    <3> QED BY <3>1, <3>2, <3>4, <3>5 DEF Cards
  <2> QED BY <2>2, <2>3
<1>5. \A c \in S : DuelCodeIn(final, c) = IF final[c].rule_code # 0 THEN final[c].rule_code
                                          ELSE IF final[c].alias # 0 THEN final[c].alias ELSE c
  BY <1>3 DEF DuelCodeIn, OriginalCode
<1> HIDE DEF final
<1>6. CASE alias[a] = 0
  <2>1. ~treated(a) /\ final[a] = cards[a] /\ cards[a].alias = 0 /\ cards[a].rule_code = 0
    BY <1>1, <1>2, <1>4, <1>6
  <2>2. DuelCodeIn(final, a) = a
    BY <1>2, <1>5, <2>1
  <2>3. CASE treated(code)
    <3>1. final[code].alias = 0 /\ final[code].rule_code = a
      BY <1>1, <1>4, <2>3
    <3> QED BY <1>2, <1>5, <2>2, <3>1 DEF final
  <2>4. CASE ~treated(code)
    <3>1. final[code].alias = a /\ final[code].rule_code = 0
      BY <1>4, <2>1, <2>4
    <3> QED BY <1>2, <1>5, <2>2, <3>1 DEF final
  <2> QED BY <2>3, <2>4
<1>7. CASE alias[a] # 0
  <2>1. ~treated(code) /\ treated(a)
    BY <1>7
  <2>2. cards[a].alias = 0 /\ cards[a].rule_code = alias[a] /\ final[a] = cards[a]
    BY <1>1, <1>2, <1>4, <2>1
  <2>3. final[code].alias = a /\ final[code].rule_code = alias[a]
    BY <1>4, <2>1, <2>2
  <2> QED BY <1>2, <1>5, <1>7, <2>2, <2>3 DEF final
<1> QED BY <1>6, <1>7

\* The databases of four cards.
LEMMA AliasesAgree == \A code \in DOMAIN AliasTable : AliasTable[code]
<1> DEFINE S == {1, 2, 10, 11}
           codes == <<1, 2, 10, 11>>
<1> SUFFICES ASSUME NEW code \in S, NEW alias \in Codings, Plain(alias), alias[code] # 0
             PROVE  DuelCodeIn(CardsOf(alias), code) = DuelCodeIn(CardsOf(alias), alias[code])
  BY DEF AliasTable
<1> DEFINE rows == [i \in 1..4 |-> Row(codes[i], "Main", {}, alias[codes[i]])]
           cards == InsertCards(rows)
<1>1. CardsOf(alias) = Finalized(cards)
  BY DEF CardsOf
<1>2. alias \in [S -> S \cup {0}] /\ S \in SUBSET (Nat \ {0})
  BY DEF Codings
<1>3. \A i \in 1..4 : codes[i] \in S /\ alias[codes[i]] \in Nat
  BY <1>2
<1>4. rows \in Seq(Rows) /\ DOMAIN rows = 1..4 /\ \A i \in 1..4 : rows[i].code = codes[i]
  <2>1. \A i \in 1..4 : Row(codes[i], "Main", {}, alias[codes[i]]) \in Rows
    BY <1>2, <1>3 DEF Row, Rows, CardTypes
  <2> QED BY <2>1 DEF Row
<1>5. \A i, j \in 1..4 : codes[i] = codes[j] => i = j
  OBVIOUS
<1>6. \A c \in S : \E i \in 1..4 : c = codes[i]
  OBVIOUS
<1>7. rows[1] = Row(1, "Main", {}, alias[1]) /\ rows[2] = Row(2, "Main", {}, alias[2])
      /\ rows[3] = Row(10, "Main", {}, alias[10]) /\ rows[4] = Row(11, "Main", {}, alias[11])
  OBVIOUS
<1> HIDE DEF rows, codes
<1>8. /\ cards \in Maps(Nat, Cards)
      /\ DOMAIN cards = {rows[i].code : i \in DOMAIN rows}
      /\ \A i \in DOMAIN rows : cards[rows[i].code] = CardOf(rows[i])
  <2>1. \A i, j \in DOMAIN rows : rows[i].code = rows[j].code => i = j
    BY <1>4, <1>5
  <2> QED BY <1>4, <2>1, CardsOfRows
<1> HIDE DEF cards
<1>9. DOMAIN cards = S
  <2>1. \A i \in DOMAIN rows : rows[i].code \in S
    BY <1>3, <1>4
  <2>2. \A c \in S : \E i \in DOMAIN rows : c = rows[i].code
    BY <1>4, <1>6
  <2> HIDE DEF S
  <2> QED BY <1>8, <2>1, <2>2
<1>10. ASSUME NEW c \in S PROVE cards[c] = CardOf(Row(c, "Main", {}, alias[c]))
  <2>1. rows[1].code = 1 /\ rows[2].code = 2 /\ rows[3].code = 10 /\ rows[4].code = 11
    BY <1>7 DEF Row
  <2>2. \A i \in {1, 2, 3, 4} : cards[rows[i].code] = CardOf(rows[i])
    BY <1>4, <1>8
  <2> QED BY <1>7, <2>1, <2>2
<1>11. \/ alias[alias[code]] = 0
       \/ /\ IsAlternative(code, alias[code])
          /\ ~IsAlternative(alias[code], alias[alias[code]])
          /\ alias[alias[alias[code]]] = 0
  <2>1. code \in DOMAIN alias
    BY <1>2
  <2> QED BY <2>1 DEF Plain
<1> HIDE DEF S
<1> QED BY <1>1, <1>2, <1>8, <1>9, <1>10, <1>11, CountedAsAlias

-----------------------------------------------------------------------------
(* What is loaded.                                                          *)
DeckTypes == [main : Seq(Nat), extra : Seq(Nat), side : Seq(Nat)]

\* The members of two sequences in a row.
LEMMA MembersOfBoth ==
  ASSUME NEW B, NEW s \in Seq(B), NEW t \in Seq(B)
  PROVE  s \o t \in Seq(B) /\ ToSet(s \o t) = ToSet(s) \cup ToSet(t)
<1>1. /\ s \o t \in Seq(B)
      /\ Len(s) \in Nat /\ Len(t) \in Nat
      /\ DOMAIN s = 1..Len(s) /\ DOMAIN t = 1..Len(t) /\ DOMAIN (s \o t) = 1..(Len(s) + Len(t))
      /\ \A i \in 1..Len(s) : (s \o t)[i] = s[i]
      /\ \A i \in 1..Len(t) : (s \o t)[Len(s) + i] = t[i]
  OBVIOUS
<1> DEFINE u == s \o t
<1> HIDE DEF u
<1>2. \A i \in 1..(Len(s) + Len(t)) : u[i] \in ToSet(s) \cup ToSet(t)
  <2> SUFFICES ASSUME NEW i \in 1..(Len(s) + Len(t)), i \notin 1..Len(s) PROVE u[i] \in ToSet(t)
    BY <1>1 DEF u, ToSet
  <2>1. i - Len(s) \in 1..Len(t) /\ Len(s) + (i - Len(s)) = i
    BY <1>1
  <2> QED BY <1>1, <2>1 DEF u, ToSet
<1>3. \A i \in 1..Len(s) : s[i] \in ToSet(u)
  <2> SUFFICES ASSUME NEW i \in 1..Len(s) PROVE s[i] \in ToSet(u)
    OBVIOUS
  <2>1. i \in DOMAIN u /\ u[i] = s[i]
    BY <1>1 DEF u
  <2> QED BY <2>1 DEF ToSet
<1>4. \A i \in 1..Len(t) : t[i] \in ToSet(u)
  <2> SUFFICES ASSUME NEW i \in 1..Len(t) PROVE t[i] \in ToSet(u)
    OBVIOUS
  <2>1. Len(s) + i \in DOMAIN u /\ u[Len(s) + i] = t[i]
    BY <1>1 DEF u
  <2> QED BY <2>1 DEF ToSet
<1>5. ToSet(u) \subseteq ToSet(s) \cup ToSet(t)
  <2>1. DOMAIN u = 1..(Len(s) + Len(t))
    BY <1>1 DEF u
  <2>2. ToSet(u) = {u[i] : i \in DOMAIN u}
    BY DEF ToSet
  <2> QED BY <1>2, <2>1, <2>2
<1>6. ToSet(s) \subseteq ToSet(u) /\ ToSet(t) \subseteq ToSet(u)
  <2>1. ToSet(s) = {s[i] : i \in DOMAIN s} /\ ToSet(t) = {t[i] : i \in DOMAIN t}
    BY DEF ToSet
  <2> QED BY <1>1, <1>3, <1>4, <2>1
<1> QED BY <1>1, <1>5, <1>6 DEF u

\* The first of a sequence are among it.
LEMMA MembersOfSome ==
  ASSUME NEW B, NEW s \in Seq(B), NEW n \in 0..Len(s)
  PROVE  SubSeq(s, 1, n) \in Seq(B) /\ ToSet(SubSeq(s, 1, n)) \subseteq ToSet(s) /\ Len(SubSeq(s, 1, n)) = n
<1>1. SubSeq(s, 1, n) \in Seq(B) /\ Len(SubSeq(s, 1, n)) = n
      /\ \A i \in 1..n : SubSeq(s, 1, n)[i] = s[i] /\ i \in DOMAIN s
  OBVIOUS
<1>2. \A x \in ToSet(SubSeq(s, 1, n)) : x \in ToSet(s)
  <2> SUFFICES ASSUME NEW i \in DOMAIN SubSeq(s, 1, n) PROVE SubSeq(s, 1, n)[i] \in ToSet(s)
    BY DEF ToSet
  <2>1. i \in 1..n
    BY <1>1
  <2> QED BY <1>1, <2>1 DEF ToSet
<1> QED BY <1>1, <1>2

\* Two sections of a deck exchanged.
LEMMA SectionsSet ==
  ASSUME NEW deck \in DeckTypes
  PROVE  /\ \A m, e : [deck EXCEPT !.main = m, !.extra = e] = [main |-> m, extra |-> e, side |-> deck.side]
         /\ \A m, d : [deck EXCEPT !.main = m, !.side = d] = [main |-> m, extra |-> deck.extra, side |-> d]
<1>1. ASSUME NEW m, NEW e
      PROVE  [deck EXCEPT !.main = m, !.extra = e] = [main |-> m, extra |-> e, side |-> deck.side]
  <2>1. PICK d : d = deck.side
    OBVIOUS
  <2>2. [deck EXCEPT !.main = m, !.extra = e] \in [main : {m}, extra : {e}, side : {d}]
    BY <2>1 DEF DeckTypes
  <2>3. PICK next : next = [deck EXCEPT !.main = m, !.extra = e]
    OBVIOUS
  <2>4. next = [main |-> m, extra |-> e, side |-> d]
    BY ONLY <2>2, <2>3
  <2> QED BY <2>1, <2>3, <2>4
<1>2. ASSUME NEW m, NEW d
      PROVE  [deck EXCEPT !.main = m, !.side = d] = [main |-> m, extra |-> deck.extra, side |-> d]
  <2>1. PICK e : e = deck.extra
    OBVIOUS
  <2>2. [deck EXCEPT !.main = m, !.side = d] \in [main : {m}, extra : {e}, side : {d}]
    BY <2>1 DEF DeckTypes
  <2>3. PICK next : next = [deck EXCEPT !.main = m, !.side = d]
    OBVIOUS
  <2>4. next = [main |-> m, extra |-> e, side |-> d]
    BY ONLY <2>2, <2>3
  <2> QED BY <2>1, <2>3, <2>4
<1> QED BY <1>1, <1>2

\* Separating a deck.
LEMMA SeparatedDeck ==
  ASSUME NEW deck \in DeckTypes
  PROVE  /\ Separated(deck) \in DeckTypes
         /\ Separated(deck).side = deck.side
         /\ ToSet(Separated(deck).main) = ToSet(deck.main) \ ExtraCards
         /\ ToSet(Separated(deck).extra) \subseteq ToSet(deck.extra) \cup (ToSet(deck.main) \cap ExtraCards)
<1> DEFINE extras == Retain(deck.main, ExtraCards)
           rest == Retain(deck.main, ToSet(deck.main) \ ExtraCards)
           room == IF Len(deck.extra) < ExtraMax THEN ExtraMax - Len(deck.extra) ELSE 0
           some == SubSeq(extras, 1, Least(room, Len(extras)))
<1>1. deck = [main |-> deck.main, extra |-> deck.extra, side |-> deck.side]
      /\ deck.main \in Seq(Nat) /\ deck.extra \in Seq(Nat) /\ deck.side \in Seq(Nat)
  BY DEF DeckTypes
<1>2. /\ extras \in Seq(Nat) /\ ToSet(extras) = ToSet(deck.main) \cap ExtraCards
      /\ rest \in Seq(Nat) /\ ToSet(rest) = ToSet(deck.main) \cap (ToSet(deck.main) \ ExtraCards)
  BY <1>1, Retained
<1>3. Least(room, Len(extras)) \in 0..Len(extras)
  <2>1. ExtraMax \in Nat /\ Len(deck.extra) \in Nat /\ Len(extras) \in Nat
    BY <1>1, <1>2, DeckRulesAssumption
  <2> QED BY <2>1 DEF Least
<1>4. some \in Seq(Nat) /\ ToSet(some) \subseteq ToSet(extras)
  <2> HIDE DEF extras, room
  <2> QED BY <1>2, <1>3, MembersOfSome
<1>5. deck.extra \o some \in Seq(Nat) /\ ToSet(deck.extra \o some) = ToSet(deck.extra) \cup ToSet(some)
  <2> HIDE DEF some
  <2> QED BY <1>1, <1>4, MembersOfBoth
<1>6. Separated(deck) = [main |-> rest, extra |-> deck.extra \o some, side |-> deck.side]
  <2>1. Separated(deck) = [deck EXCEPT !.main = rest, !.extra = deck.extra \o some]
    BY DEF Separated
  <2> HIDE DEF rest, some
  <2> QED BY <2>1, SectionsSet
<1> HIDE DEF rest, some, extras
<1> QED BY <1>1, <1>2, <1>4, <1>5, <1>6 DEF DeckTypes

\* What is played with.
LEMMA LoadedDeck ==
  ASSUME NEW deck \in DeckTypes, deck.extra = <<>>
  PROVE  Loaded(deck) \in DeckTypes /\ Clean(Loaded(deck))
<1> DEFINE fit == {code \in DOMAIN Catalogue : Playable(code)}
           cleaned == [deck EXCEPT !.main = WithoutUnknown(@), !.side = WithoutUnknown(@)]
<1>1. deck = [main |-> deck.main, extra |-> <<>>, side |-> deck.side]
      /\ deck.main \in Seq(Nat) /\ deck.side \in Seq(Nat)
  BY DEF DeckTypes
<1>2. cleaned = [main |-> Retain(deck.main, fit), extra |-> <<>>, side |-> Retain(deck.side, fit)]
  <2>1. cleaned = [deck EXCEPT !.main = Retain(deck.main, fit), !.side = Retain(deck.side, fit)]
    BY DEF WithoutUnknown
  <2> HIDE DEF cleaned, fit
  <2> QED BY <1>1, <2>1, SectionsSet
<1>3. /\ Retain(deck.main, fit) \in Seq(Nat) /\ ToSet(Retain(deck.main, fit)) \subseteq fit
      /\ Retain(deck.side, fit) \in Seq(Nat) /\ ToSet(Retain(deck.side, fit)) \subseteq fit
  <2> HIDE DEF fit
  <2> QED BY <1>1, Retained
<1>4. Loaded(deck) = Separated(cleaned)
  BY DEF Loaded
<1>5. /\ cleaned \in DeckTypes /\ cleaned.extra = <<>>
      /\ ToSet(cleaned.main) \subseteq fit /\ ToSet(cleaned.side) \subseteq fit
  BY <1>2, <1>3 DEF DeckTypes
<1> HIDE DEF cleaned
<1>6. ToSet(<<>>) = {}
  BY DEF ToSet
<1>7. /\ Loaded(deck) \in DeckTypes
      /\ Loaded(deck).side = cleaned.side
      /\ ToSet(Loaded(deck).main) = ToSet(cleaned.main) \ ExtraCards
      /\ ToSet(Loaded(deck).extra) \subseteq ToSet(cleaned.main) \cap ExtraCards
  BY <1>4, <1>5, <1>6, SeparatedDeck
<1>8. \A code \in fit : Playable(code) /\ (IsExtra(code) <=> code \in ExtraCards)
  BY DEF ExtraCards
<1> HIDE DEF fit
<1> QED BY <1>5, <1>7, <1>8 DEF Clean

\* What arrives is a deck without an extra part.
LEMMA SentDeck ==
  ASSUME NEW deck \in Sent
  PROVE  deck \in DeckTypes /\ deck.extra = <<>>
<1>1. PICK main \in BoundedSeq(AllCodes, 3), side \in BoundedSeq(AllCodes, 2) :
        deck = LoadFromCodes(main \o side, Len(main), 2)
  BY DEF Sent
<1>2. AllCodes \subseteq Nat
  BY DEF AllCodes, UnknownCard
<1>3. main \in Seq(Nat) /\ side \in Seq(Nat)
  <2>1. \A n \in Nat : \A s \in BoundedSeq(AllCodes, n) : s \in Seq(Nat)
    <3> SUFFICES ASSUME NEW n \in Nat, NEW s \in BoundedSeq(AllCodes, n) PROVE s \in Seq(Nat)
      OBVIOUS
    <3>1. PICK m \in 0..n : s \in [1..m -> AllCodes]
      BY DEF BoundedSeq, SeqOf, TupleOf
    <3>2. m \in Nat /\ s \in [1..m -> Nat]
      <4>1. m \in Nat
        BY <3>1
      <4>2. \A i \in 1..m : s[i] \in AllCodes /\ s[i] \in Nat
        BY <1>2, <3>1
      <4>3. s = [i \in 1..m |-> s[i]]
        BY <3>1
      <4> QED BY <4>1, <4>2, <4>3
    <3> QED BY <3>2
  <2> QED BY <2>1
<1> DEFINE codes == main \o side
           mc == Least(Len(main), Len(codes))
           sc == Least(2, Len(codes) - mc)
<1>4. codes \in Seq(Nat) /\ Len(codes) \in Nat /\ Len(main) \in Nat
  BY <1>3
<1>5. mc \in 0..Len(codes) /\ sc \in Nat /\ mc + sc \in 0..Len(codes)
  <2> HIDE DEF codes
  <2>1. mc \in 0..Len(codes)
    BY <1>4 DEF Least
  <2> HIDE DEF mc
  <2> QED BY <1>4, <2>1 DEF Least
<1>6. deck = [main |-> SubSeq(codes, 1, mc), extra |-> <<>>, side |-> SubSeq(codes, mc + 1, mc + sc)]
  BY <1>1 DEF LoadFromCodes, Deck
<1> HIDE DEF codes, mc, sc
<1>7. SubSeq(codes, 1, mc) \in Seq(Nat) /\ SubSeq(codes, mc + 1, mc + sc) \in Seq(Nat) /\ <<>> \in Seq(Nat)
  BY <1>4, <1>5
<1> QED BY <1>6, <1>7 DEF DeckTypes

-----------------------------------------------------------------------------
(* The text of a deck.                                                      *)
TextLines == [mark : Markers \cup {""}, code : Nat]
Readings == [section : Markers, main : Seq(Nat), extra : Seq(Nat), side : Seq(Nat)]
Unread == [section |-> "#main", main |-> <<>>, extra |-> <<>>, side |-> <<>>]
Reading(lines) == FoldLeft(ReadLine, Unread, lines)

\* What a line does to what was read before it.
LEMMA LineRead ==
  ASSUME NEW read \in Readings, NEW line \in TextLines
  PROVE  /\ ReadLine(read, line) \in Readings
         /\ line.mark \in Markers =>
              /\ ReadLine(read, line).section = line.mark
              /\ ReadLine(read, line).main = read.main
              /\ ReadLine(read, line).extra = read.extra
              /\ ReadLine(read, line).side = read.side
         /\ line.mark \notin Markers =>
              /\ ReadLine(read, line).section = read.section
              /\ ReadLine(read, line).main = IF read.section = "#main" THEN Append(read.main, line.code) ELSE read.main
              /\ ReadLine(read, line).extra = IF read.section = "#extra" THEN Append(read.extra, line.code) ELSE read.extra
              /\ ReadLine(read, line).side = IF read.section = "!side" THEN Append(read.side, line.code) ELSE read.side
<1>1. line.code \in Nat /\ read.section \in {"#main", "#extra", "!side"}
  BY DEF TextLines, Readings, Markers
<1>2. CASE line.mark \in Markers
  <2>1. ReadLine(read, line) = [read EXCEPT !.section = line.mark]
    BY <1>2 DEF ReadLine
  <2> QED BY <1>2, <2>1 DEF Readings
<1>3. CASE line.mark \notin Markers /\ read.section = "#main"
  <2>1. ReadLine(read, line) = [read EXCEPT !.main = Append(@, line.code)]
    BY <1>3 DEF ReadLine
  <2>2. Append(read.main, line.code) \in Seq(Nat)
    BY <1>1 DEF Readings
  <2>3. ReadLine(read, line) = [read EXCEPT !.main = Append(read.main, line.code)]
    BY <2>1
  <2> QED BY <1>1, <1>3, <2>2, <2>3 DEF Readings, Markers
<1>4. CASE line.mark \notin Markers /\ read.section = "#extra"
  <2>1. ReadLine(read, line) = [read EXCEPT !.extra = Append(@, line.code)]
    BY <1>4 DEF ReadLine
  <2>2. Append(read.extra, line.code) \in Seq(Nat)
    BY <1>1 DEF Readings
  <2>3. ReadLine(read, line) = [read EXCEPT !.extra = Append(read.extra, line.code)]
    BY <2>1
  <2> QED BY <1>1, <1>4, <2>2, <2>3 DEF Readings, Markers
<1>5. CASE line.mark \notin Markers /\ read.section = "!side"
  <2>1. ReadLine(read, line) = [read EXCEPT !.side = Append(@, line.code)]
    BY <1>5 DEF ReadLine
  <2>2. Append(read.side, line.code) \in Seq(Nat)
    BY <1>1 DEF Readings
  <2>3. ReadLine(read, line) = [read EXCEPT !.side = Append(read.side, line.code)]
    BY <2>1
  <2> QED BY <1>1, <1>5, <2>2, <2>3 DEF Readings, Markers
<1> QED BY <1>1, <1>2, <1>3, <1>4, <1>5

\* Reading goes line by line.
LEMMA ReadingOn ==
  /\ Reading(<<>>) = Unread
  /\ \A s \in Seq(TextLines) : Reading(s) \in Readings
  /\ \A s \in Seq(TextLines), x \in TextLines :
              Reading(Append(s, x)) = ReadLine(Reading(s), x)
<1> DEFINE f == [y \in Readings \X TextLines |-> ReadLine(y[1], y[2])]
<1>1. /\ f \in [Readings \X TextLines -> Readings]
      /\ \A y \in Readings, x \in TextLines : f[<<y, x>>] = ReadLine(y, x)
      /\ Unread \in Readings
  <2>1. \A y \in Readings, x \in TextLines : ReadLine(y, x) \in Readings
    BY LineRead
  <2>2. Unread \in Readings
    BY DEF Unread, Readings, Markers
  <2> QED BY <2>1, <2>2
<1>2. ASSUME NEW s \in Seq(TextLines) PROVE Reading(s) = Led(Readings, f, Unread, s)
  <2> DEFINE Up(h) == h = [t \in SUBSET DOMAIN s |->
                             IF t = {} THEN Unread
                             ELSE ReadLine(h[t \ {Max(t)}], s[Max(t)])]
             way == CHOOSE h : Up(h)
  <2>1. Reading(s) = way[DOMAIN s]
    BY DEF Reading, FoldLeft, MapThenFoldSet
  <2>2. DOMAIN s = 1..Len(s) /\ Len(s) \in Nat /\ \A i \in DOMAIN s : s[i] \in TextLines
    OBVIOUS
  <2>3. PICK g \in [SUBSET DOMAIN s -> Readings] : Climbs(g, f, Unread, s)
    BY <1>1, Climbing
  <2>4. \A t \in SUBSET DOMAIN s : t # {} => Max(t) \in DOMAIN s /\ t \ {Max(t)} \in SUBSET DOMAIN s
    BY <2>2, Highest
  <2> HIDE DEF f
  <2>5. \A t \in SUBSET DOMAIN s :
          g[t] = IF t = {} THEN Unread
                 ELSE ReadLine(g[t \ {Max(t)}], s[Max(t)])
    <3>1. \A t \in SUBSET DOMAIN s : g[t] = IF t = {} THEN Unread ELSE f[<<g[t \ {Max(t)}], s[Max(t)]>>]
      BY <2>3 DEF Climbs
    <3>2. ASSUME NEW t \in SUBSET DOMAIN s, t # {}
          PROVE  f[<<g[t \ {Max(t)}], s[Max(t)]>>] = ReadLine(g[t \ {Max(t)}], s[Max(t)])
      <4>1. g[t \ {Max(t)}] \in Readings /\ s[Max(t)] \in TextLines
        BY <2>2, <2>3, <2>4, <3>2
      <4> QED BY <1>1, <4>1
    <3> QED BY <3>1, <3>2
  <2>6. Up(g)
    BY <2>3, <2>5
  <2>7. Up(way)
    <3> HIDE DEF Up
    <3> QED BY <2>6
  <2> HIDE DEF way
  <2>8. Starts(way, Readings, f, Unread, s, Len(s))
    <3>1. DOMAIN s = 1..Len(s) /\ {} \in SUBSET DOMAIN s
      BY <2>2
    <3>2. way[{}] = Unread
      BY <2>7, <3>1
    <3>3. ASSUME NEW t \in SUBSET (1..Len(s)), t # {}, way[t \ {Max(t)}] \in Readings
          PROVE  way[t] = f[<<way[t \ {Max(t)}], s[Max(t)]>>]
      <4>1. t \in SUBSET DOMAIN s /\ s[Max(t)] \in TextLines
        BY <2>2, <2>4, <3>1, <3>3
      <4>2. way[t] = ReadLine(way[t \ {Max(t)}], s[Max(t)])
        BY <2>7, <3>3, <4>1
      <4> QED BY <1>1, <3>3, <4>1, <4>2
    <3> QED BY <3>2, <3>3 DEF Starts
  <2>9. Ground(Readings, TextLines, f, Unread, s)
    BY <1>1 DEF Ground, FoldSteps
  <2> QED BY <2>1, <2>8, <2>9, FoundWay
<1> HIDE DEF f
<1>3. /\ Led(Readings, f, Unread, <<>>) = Unread
      /\ \A s \in Seq(TextLines) : Led(Readings, f, Unread, s) \in Readings
      /\ \A s \in Seq(TextLines), x \in TextLines :
           Led(Readings, f, Unread, Append(s, x)) = f[<<Led(Readings, f, Unread, s), x>>]
  <2>1. FoldSteps(Readings, TextLines, f, Unread)
    BY <1>1 DEF FoldSteps
  <2> QED BY <2>1, LedOn
<1>4. <<>> \in Seq(TextLines) /\ \A s \in Seq(TextLines), x \in TextLines : Append(s, x) \in Seq(TextLines)
  OBVIOUS
<1>5. Reading(<<>>) = Unread
  BY <1>2, <1>3, <1>4
<1>6. \A s \in Seq(TextLines) : Reading(s) \in Readings
  BY <1>2, <1>3
<1>7. ASSUME NEW s \in Seq(TextLines), NEW x \in TextLines
      PROVE  Reading(Append(s, x)) = ReadLine(Reading(s), x)
  <2>1. Reading(Append(s, x)) = f[<<Reading(s), x>>]
    BY <1>2, <1>3, <1>4
  <2> QED BY <1>1, <1>6, <2>1
<1> QED BY <1>5, <1>6, <1>7

\* The lines of codes.
LEMMA CodesAre ==
  ASSUME NEW s \in Seq(Nat)
  PROVE  /\ Codes(s) \in Seq(TextLines)
         /\ \A x \in Nat : Codes(Append(s, x)) = Append(Codes(s), [mark |-> "", code |-> x])
<1> DEFINE line(x) == [mark |-> "", code |-> x]
<1>1. \A x \in Nat : line(x) \in TextLines
  BY DEF TextLines
<1>2. Len(s) \in Nat /\ DOMAIN s = 1..Len(s) /\ \A i \in 1..Len(s) : s[i] \in Nat
  OBVIOUS
<1>3. Codes(s) = [i \in 1..Len(s) |-> line(s[i])]
  BY <1>2 DEF Codes
<1>4. Codes(s) \in Seq(TextLines) /\ Len(Codes(s)) = Len(s)
  <2> HIDE DEF line
  <2> QED BY <1>1, <1>2, <1>3
<1>5. ASSUME NEW x \in Nat PROVE Codes(Append(s, x)) = Append(Codes(s), line(x))
  <2> DEFINE u == Append(s, x)
  <2>1. /\ u \in Seq(Nat) /\ DOMAIN u = 1..(Len(s) + 1)
        /\ u[Len(s) + 1] = x /\ \A i \in 1..Len(s) : u[i] = s[i]
    BY AppendProperties
  <2> HIDE DEF u
  <2>2. Codes(u) = [i \in 1..(Len(s) + 1) |-> line(u[i])]
    BY <2>1 DEF Codes
  <2> HIDE DEF line
  <2>3. Codes(u) \in Seq(TextLines) /\ Len(Codes(u)) = Len(s) + 1
    <3>1. \A i \in 1..(Len(s) + 1) : u[i] \in Nat
      BY <2>1
    <3> QED BY <1>1, <1>2, <2>2, <3>1
  <2>4. /\ Append(Codes(s), line(x)) \in Seq(TextLines)
        /\ Len(Append(Codes(s), line(x))) = Len(s) + 1
        /\ Append(Codes(s), line(x))[Len(s) + 1] = line(x)
        /\ \A i \in 1..Len(s) : Append(Codes(s), line(x))[i] = Codes(s)[i]
    BY <1>1, <1>4, AppendProperties
  <2>5. \A i \in 1..(Len(s) + 1) : Codes(u)[i] = Append(Codes(s), line(x))[i]
    <3> SUFFICES ASSUME NEW i \in 1..(Len(s) + 1) PROVE Codes(u)[i] = Append(Codes(s), line(x))[i]
      OBVIOUS
    <3>1. CASE i = Len(s) + 1
      BY <2>1, <2>2, <2>4, <3>1
    <3>2. CASE i # Len(s) + 1
      <4>1. i \in 1..Len(s)
        BY <1>2, <3>2
      <4> QED BY <1>3, <2>1, <2>2, <2>4, <4>1
    <3> QED BY <3>1, <3>2
  <2>6. Codes(u) = Append(Codes(s), line(x))
    BY <2>3, <2>4, <2>5, SeqEqual
  <2> QED BY <2>6 DEF u
<1> QED BY <1>4, <1>5

\* Codes are read into the section they come in.
LEMMA CodesRead ==
  ASSUME NEW lines \in Seq(TextLines), NEW codes \in Seq(Nat)
  PROVE  /\ lines \o Codes(codes) \in Seq(TextLines)
         /\ Reading(lines \o Codes(codes)).section = Reading(lines).section
         /\ Reading(lines \o Codes(codes)).main =
              IF Reading(lines).section = "#main" THEN Reading(lines).main \o codes ELSE Reading(lines).main
         /\ Reading(lines \o Codes(codes)).extra =
              IF Reading(lines).section = "#extra" THEN Reading(lines).extra \o codes ELSE Reading(lines).extra
         /\ Reading(lines \o Codes(codes)).side =
              IF Reading(lines).section = "!side" THEN Reading(lines).side \o codes ELSE Reading(lines).side
<1> DEFINE old == Reading(lines)
           More(s, one, two, section) == two = IF old.section = section THEN one \o s ELSE one
           Going(s) == /\ lines \o Codes(s) \in Seq(TextLines)
                      /\ Reading(lines \o Codes(s)) \in Readings
                      /\ Reading(lines \o Codes(s)).section = old.section
                      /\ More(s, old.main, Reading(lines \o Codes(s)).main, "#main")
                      /\ More(s, old.extra, Reading(lines \o Codes(s)).extra, "#extra")
                      /\ More(s, old.side, Reading(lines \o Codes(s)).side, "!side")
           Good == {s \in Seq(Nat) : Going(s)}
<1>1. /\ old \in Readings
      /\ old.section \in Markers /\ old.main \in Seq(Nat) /\ old.extra \in Seq(Nat) /\ old.side \in Seq(Nat)
  BY ReadingOn DEF Readings
<1> HIDE DEF old
<1>2. <<>> \in Good
  <2>1. Codes(<<>>) = <<>>
    BY DEF Codes
  <2>2. lines \o <<>> = lines
    OBVIOUS
  <2>3. \A s \in Seq(Nat) : s \o <<>> = s
    OBVIOUS
  <2>4. /\ lines \o Codes(<<>>) = lines /\ lines \in Seq(TextLines)
        /\ old.main \o <<>> = old.main /\ old.extra \o <<>> = old.extra /\ old.side \o <<>> = old.side
    BY <1>1, <2>1, <2>2, <2>3
  <2>5. Reading(lines) = old /\ <<>> \in Seq(Nat)
    BY DEF old
  <2>6. Going(<<>>)
    BY <1>1, <2>4, <2>5
  <2> HIDE DEF Going
  <2> QED BY <2>5, <2>6
<1>3. ASSUME NEW s \in Good, NEW x \in Nat PROVE Append(s, x) \in Good
  <2> DEFINE line == [mark |-> "", code |-> x]
             before == lines \o Codes(s)
             read == Reading(before)
             next == Reading(Append(before, line))
  <2>1. s \in Seq(Nat) /\ Going(s) /\ Append(s, x) \in Seq(Nat)
    OBVIOUS
  <2>2. line \in TextLines /\ line.mark \notin Markers /\ line.code = x
    BY DEF TextLines, Markers
  <2>3. Codes(s) \in Seq(TextLines)
    BY <2>1, CodesAre
  <2>4. Codes(Append(s, x)) = Append(Codes(s), line)
    BY <2>1, CodesAre
  <2> HIDE DEF line
  <2>5. lines \o Codes(Append(s, x)) = Append(before, line)
    BY <2>2, <2>3, <2>4, AppendIsConcat, ConcatAssociative
  <2>6. before \in Seq(TextLines) /\ Append(before, line) \in Seq(TextLines)
    BY <2>1, <2>2
  <2>7. next = ReadLine(read, line) /\ read \in Readings
    BY <2>2, <2>6, ReadingOn
  <2> HIDE DEF before, next, read
  <2>8. /\ next \in Readings /\ next.section = read.section
        /\ next.main = IF read.section = "#main" THEN Append(read.main, x) ELSE read.main
        /\ next.extra = IF read.section = "#extra" THEN Append(read.extra, x) ELSE read.extra
        /\ next.side = IF read.section = "!side" THEN Append(read.side, x) ELSE read.side
    BY <2>2, <2>7, LineRead
  <2>9. \A one \in Seq(Nat) : one \o Append(s, x) = Append(one \o s, x)
    BY <2>1, AppendIsConcat, ConcatAssociative
  <2>10. /\ read.section = old.section
         /\ read.main = IF old.section = "#main" THEN old.main \o s ELSE old.main
         /\ read.extra = IF old.section = "#extra" THEN old.extra \o s ELSE old.extra
         /\ read.side = IF old.section = "!side" THEN old.side \o s ELSE old.side
    BY <2>1 DEF before, read
  <2>11. /\ next.section = old.section
         /\ next.main = IF old.section = "#main" THEN old.main \o Append(s, x) ELSE old.main
         /\ next.extra = IF old.section = "#extra" THEN old.extra \o Append(s, x) ELSE old.extra
         /\ next.side = IF old.section = "!side" THEN old.side \o Append(s, x) ELSE old.side
    BY <1>1, <2>8, <2>9, <2>10
  <2>12. Going(Append(s, x))
    BY <2>5, <2>6, <2>8, <2>11 DEF next
  <2> HIDE DEF Going
  <2> QED BY <2>1, <2>12
<1>4. Good = Seq(Nat)
  <2> HIDE DEF Good
  <2>1. Good \in SUBSET Seq(Nat)
    BY DEF Good
  <2> QED BY <2>1, <1>2, <1>3, Appending
<1>5. Going(codes)
  <2> HIDE DEF Going
  <2> QED BY <1>4
<1> QED BY <1>5 DEF old

\* A marker turns to its section.
LEMMA MarkRead ==
  ASSUME NEW lines \in Seq(TextLines), NEW mark \in Markers
  PROVE  /\ lines \o <<Mark(mark)>> \in Seq(TextLines)
         /\ Reading(lines \o <<Mark(mark)>>).section = mark
         /\ Reading(lines \o <<Mark(mark)>>).main = Reading(lines).main
         /\ Reading(lines \o <<Mark(mark)>>).extra = Reading(lines).extra
         /\ Reading(lines \o <<Mark(mark)>>).side = Reading(lines).side
<1>1. Mark(mark) \in TextLines /\ Mark(mark).mark = mark
  BY DEF Mark, TextLines
<1>2. lines \o <<Mark(mark)>> = Append(lines, Mark(mark)) /\ lines \o <<Mark(mark)>> \in Seq(TextLines)
  BY <1>1, AppendIsConcat
<1>3. Reading(lines \o <<Mark(mark)>>) = ReadLine(Reading(lines), Mark(mark)) /\ Reading(lines) \in Readings
  BY <1>1, <1>2, ReadingOn
<1> QED BY <1>1, <1>2, <1>3, LineRead

\* A deck of any cards, written as text and read again, is the same deck.
THEOREM ReadBack ==
  ASSUME NEW deck \in DeckTypes
  PROVE  Parsed(Printed(deck)) = deck
<1> DEFINE start == <<>> \o <<Mark("#main")>>
           main == start \o Codes(deck.main)
           extra == main \o <<Mark("#extra")>> \o Codes(deck.extra)
           most == IF deck.extra = <<>> THEN main ELSE extra
           mark == most \o <<Mark("!side")>>
           side == mark \o Codes(deck.side)
<1>1. deck.main \in Seq(Nat) /\ deck.extra \in Seq(Nat) /\ deck.side \in Seq(Nat)
  BY DEF DeckTypes
<1>2. <<>> \in Seq(TextLines) /\ Markers = {"#main", "#extra", "!side"}
  BY DEF Markers
<1>3. Reading(<<>>) = Unread
  BY ReadingOn
<1>4. /\ start \in Seq(TextLines)
      /\ Reading(start).section = "#main" /\ Reading(start).main = <<>>
      /\ Reading(start).extra = <<>> /\ Reading(start).side = <<>>
  <2>1. "#main" \in Markers
    BY <1>2
  <2>2. /\ start \in Seq(TextLines)
        /\ Reading(start).section = "#main" /\ Reading(start).main = Reading(<<>>).main
        /\ Reading(start).extra = Reading(<<>>).extra /\ Reading(start).side = Reading(<<>>).side
    BY ONLY <1>2, <2>1, MarkRead
  <2>3. Unread.main = <<>> /\ Unread.extra = <<>> /\ Unread.side = <<>>
    BY DEF Unread
  <2> HIDE DEF start
  <2> QED BY <1>3, <2>2, <2>3
<1> HIDE DEF start
<1>5. \A s \in Seq(Nat) : <<>> \o s = s
  OBVIOUS
<1>6. /\ main \in Seq(TextLines)
      /\ Reading(main).section = "#main" /\ Reading(main).main = deck.main
      /\ Reading(main).extra = <<>> /\ Reading(main).side = <<>>
  <2>1. /\ main \in Seq(TextLines) /\ Reading(main).section = Reading(start).section
        /\ Reading(main).main = IF Reading(start).section = "#main" THEN Reading(start).main \o deck.main ELSE Reading(start).main
        /\ Reading(main).extra = IF Reading(start).section = "#extra" THEN Reading(start).extra \o deck.main ELSE Reading(start).extra
        /\ Reading(main).side = IF Reading(start).section = "!side" THEN Reading(start).side \o deck.main ELSE Reading(start).side
    BY <1>1, <1>4, CodesRead
  <2> HIDE DEF main
  <2> QED BY <1>1, <1>4, <1>5, <2>1
<1> HIDE DEF main
<1>7. /\ most \in Seq(TextLines)
      /\ Reading(most).main = deck.main /\ Reading(most).extra = deck.extra /\ Reading(most).side = <<>>
  <2>1. CASE deck.extra = <<>>
    BY <1>6, <2>1
  <2>2. CASE deck.extra # <<>>
    <3> DEFINE marked == main \o <<Mark("#extra")>>
    <3>1. /\ marked \in Seq(TextLines)
          /\ Reading(marked).section = "#extra" /\ Reading(marked).main = deck.main
          /\ Reading(marked).extra = <<>> /\ Reading(marked).side = <<>>
      BY <1>2, <1>6, MarkRead
    <3> HIDE DEF marked
    <3>2. /\ extra \in Seq(TextLines)
          /\ Reading(extra).main = deck.main /\ Reading(extra).extra = deck.extra /\ Reading(extra).side = <<>>
      <4>1. /\ (marked \o Codes(deck.extra)) \in Seq(TextLines) /\ Reading((marked \o Codes(deck.extra))).section = Reading(marked).section
            /\ Reading((marked \o Codes(deck.extra))).main = IF Reading(marked).section = "#main" THEN Reading(marked).main \o deck.extra ELSE Reading(marked).main
            /\ Reading((marked \o Codes(deck.extra))).extra = IF Reading(marked).section = "#extra" THEN Reading(marked).extra \o deck.extra ELSE Reading(marked).extra
            /\ Reading((marked \o Codes(deck.extra))).side = IF Reading(marked).section = "!side" THEN Reading(marked).side \o deck.extra ELSE Reading(marked).side
        BY <1>1, <3>1, CodesRead
      <4>2. extra = marked \o Codes(deck.extra)
        BY DEF marked
      <4> HIDE DEF extra
      <4> QED BY <1>1, <1>5, <3>1, <4>1, <4>2
    <3> QED BY <2>2, <3>2
  <2> QED BY <2>1, <2>2
<1>8. Printed(deck) = side
  <2>1. <<>> \o <<Mark("#main")>> = <<Mark("#main")>>
    OBVIOUS
  <2>2. Printed(deck) = ((main \o (IF deck.extra = <<>> THEN <<>> ELSE <<Mark("#extra")>> \o Codes(deck.extra)))
                         \o <<Mark("!side")>>) \o Codes(deck.side)
    BY <2>1 DEF Printed, main, start
  <2>3. main \o (IF deck.extra = <<>> THEN <<>> ELSE <<Mark("#extra")>> \o Codes(deck.extra)) = most
    <3>1. main \o <<>> = main
      BY <1>6
    <3>2. <<Mark("#extra")>> \in Seq(TextLines) /\ Codes(deck.extra) \in Seq(TextLines)
      <4>1. Mark("#extra") \in TextLines
        BY DEF Mark, TextLines, Markers
      <4>2. Codes(deck.extra) \in Seq(TextLines)
        BY <1>1, CodesAre
      <4> QED BY <4>1, <4>2
    <3>3. main \o (<<Mark("#extra")>> \o Codes(deck.extra)) = extra
      BY <1>6, <3>2, ConcatAssociative
    <3> QED BY <3>1, <3>3
  <2> QED BY <2>2, <2>3
<1> HIDE DEF most
<1>9. /\ mark \in Seq(TextLines) /\ Reading(mark).section = "!side"
      /\ Reading(mark).main = deck.main /\ Reading(mark).extra = deck.extra /\ Reading(mark).side = <<>>
  BY <1>2, <1>7, MarkRead
<1> HIDE DEF mark
<1>10. /\ Reading(side).main = deck.main /\ Reading(side).extra = deck.extra /\ Reading(side).side = deck.side
  <2>1. /\ side \in Seq(TextLines) /\ Reading(side).section = Reading(mark).section
        /\ Reading(side).main = IF Reading(mark).section = "#main" THEN Reading(mark).main \o deck.side ELSE Reading(mark).main
        /\ Reading(side).extra = IF Reading(mark).section = "#extra" THEN Reading(mark).extra \o deck.side ELSE Reading(mark).extra
        /\ Reading(side).side = IF Reading(mark).section = "!side" THEN Reading(mark).side \o deck.side ELSE Reading(mark).side
    BY <1>1, <1>9, CodesRead
  <2> HIDE DEF side
  <2> QED BY <1>1, <1>5, <1>9, <2>1
<1> HIDE DEF side
<1>11. Parsed(Printed(deck)) = [main |-> deck.main, extra |-> deck.extra, side |-> deck.side]
  BY <1>8, <1>10 DEF Parsed, Reading, Unread, Deck
<1>12. deck = [main |-> deck.main, extra |-> deck.extra, side |-> deck.side]
  BY DEF DeckTypes
<1> QED BY <1>11, <1>12

\* Induction over the subsets of a finite set, from all that lack a member.
LEMMA Dwindling ==
  ASSUME NEW T, IsFiniteSet(T), NEW Good \in SUBSET SUBSET T, {} \in Good,
         \A s \in SUBSET T : s # {} /\ (\A x \in s : s \ {x} \in Good) => s \in Good
  PROVE  T \in Good
<1> DEFINE Sizes == {n \in Nat : \A s \in SUBSET T : Cardinality(s) = n => s \in Good}
<1>1. \A s \in SUBSET T : IsFiniteSet(s) /\ Cardinality(s) \in Nat
  BY FS_Subset, FS_CardinalityType
<1>2. 0 \in Sizes
  BY <1>1, FS_EmptySet
<1>3. \A n \in Sizes : n + 1 \in Sizes
  <2> SUFFICES ASSUME NEW n \in Sizes, NEW s \in SUBSET T, Cardinality(s) = n + 1
               PROVE  s \in Good
    OBVIOUS
  <2>1. s # {}
    <3>1. Cardinality({}) = 0 /\ n + 1 # 0
      BY FS_EmptySet
    <3> QED BY <3>1
  <2>2. ASSUME NEW x \in s PROVE s \ {x} \in Good
    <3>1. Cardinality(s \ {x}) = Cardinality(s) - 1
      BY <1>1, FS_RemoveElement
    <3>2. Cardinality(s \ {x}) = n /\ n \in Nat
      BY <3>1
    <3> QED BY <3>2
  <2> QED BY <2>1, <2>2
<1>4. Sizes = Nat
  <2> HIDE DEF Sizes
  <2>1. Sizes \in SUBSET Nat
    BY DEF Sizes
  <2> QED BY <2>1, <1>2, <1>3, Counting
<1> QED BY <1>1, <1>4

-----------------------------------------------------------------------------
(* The hash of a list: an exclusive or holds what is in an odd number of its *)
(* operands, whatever order they come in.                                   *)
Odd(n) == n % 2 = 1
Holding(T, a) == {x \in T : a \in x}
OddlyHeld(T) == {a \in UNION T : Odd(Cardinality(Holding(T, a)))}

LEMMA OddNext == \A n \in Nat : Odd(n + 1) <=> ~Odd(n)
BY DEF Odd

\* One set more.
LEMMA HeldByOneMore ==
  ASSUME NEW T, IsFiniteSet(T), NEW x \in T
  PROVE  OddlyHeld(T) = SymDiff(x, OddlyHeld(T \ {x}))
<1>1. ASSUME NEW a
      PROVE  a \in OddlyHeld(T) <=> a \in SymDiff(x, OddlyHeld(T \ {x}))
  <2> DEFINE rest == Holding(T \ {x}, a)
  <2>1. IsFiniteSet(T \ {x}) /\ IsFiniteSet(rest) /\ Cardinality(rest) \in Nat
    <3>1. IsFiniteSet(T \ {x}) /\ rest \subseteq T \ {x}
      BY FS_Subset DEF Holding
    <3> QED BY <3>1, FS_Subset, FS_CardinalityType
  <2>2. CASE a \in x
    <3>1. Holding(T, a) = rest \cup {x} /\ x \notin rest
      BY <2>2 DEF Holding
    <3>2. Cardinality(Holding(T, a)) = Cardinality(rest) + 1
      BY <2>1, <3>1, FS_AddElement
    <3>3. a \in UNION T
      BY <2>2
    <3>4. a \in OddlyHeld(T) <=> ~Odd(Cardinality(rest))
      BY <2>1, <3>2, <3>3, OddNext DEF OddlyHeld
    <3>5. a \in OddlyHeld(T \ {x}) <=> Odd(Cardinality(rest))
      <4>1. a \notin UNION (T \ {x}) => rest = {}
        BY DEF Holding
      <4>2. Cardinality({}) = 0 /\ ~Odd(0)
        BY FS_EmptySet DEF Odd
      <4> QED BY <4>1, <4>2 DEF OddlyHeld
    <3> QED BY <2>2, <3>4, <3>5 DEF SymDiff
  <2>3. CASE a \notin x
    <3>1. Holding(T, a) = rest
      BY <2>3 DEF Holding
    <3>2. a \in UNION T <=> a \in UNION (T \ {x})
      BY <2>3
    <3>3. a \in OddlyHeld(T) <=> a \in OddlyHeld(T \ {x})
      BY <3>1, <3>2 DEF OddlyHeld
    <3> QED BY <2>3, <3>3 DEF SymDiff
  <2> QED BY <2>2, <2>3
<1> QED BY <1>1

\* What the library's fold of the symmetric difference computes.
LEMMA ExclusiveOr ==
  ASSUME NEW T, IsFiniteSet(T)
  PROVE  FoldSet(SymDiff, {}, T) = OddlyHeld(T)
<1> DEFINE Folds(g) == g = [s \in SUBSET T |-> IF s = {} THEN {}
                                             ELSE SymDiff(CHOOSE x \in s : TRUE, g[s \ {CHOOSE x \in s : TRUE}])]
           fold == CHOOSE g : Folds(g)
           held == [s \in SUBSET T |-> OddlyHeld(s)]
<1>1. FoldSet(SymDiff, {}, T) = fold[T]
  BY DEF FoldSet, MapThenFoldSet
<1>2. \A s \in SUBSET T : IsFiniteSet(s)
  BY FS_Subset
<1>3. OddlyHeld({}) = {}
  BY DEF OddlyHeld
<1>4. \A s \in SUBSET T : s # {} => (CHOOSE x \in s : TRUE) \in s
  OBVIOUS
<1>5. Folds(held)
  <2>1. ASSUME NEW s \in SUBSET T
        PROVE  OddlyHeld(s) = IF s = {} THEN {}
                              ELSE SymDiff(CHOOSE x \in s : TRUE, held[s \ {CHOOSE x \in s : TRUE}])
    <3>1. CASE s = {}
      BY <1>3, <3>1
    <3>2. CASE s # {}
      <4>1. PICK x \in s : x = CHOOSE y \in s : TRUE
        BY <1>4, <3>2
      <4>2. OddlyHeld(s) = SymDiff(x, OddlyHeld(s \ {x}))
        BY <1>2, HeldByOneMore
      <4>3. held[s \ {x}] = OddlyHeld(s \ {x})
        OBVIOUS
      <4> HIDE DEF held
      <4> QED BY <3>2, <4>1, <4>2, <4>3
    <3> QED BY <3>1, <3>2
  <2> QED BY <2>1
<1>6. Folds(fold)
  <2> HIDE DEF Folds
  <2> QED BY <1>5
<1> HIDE DEF fold
<1> DEFINE Good == {s \in SUBSET T : fold[s] = OddlyHeld(s)}
<1>7. {} \in Good
  BY <1>3, <1>6
<1>8. ASSUME NEW s \in SUBSET T, \A x \in s : s \ {x} \in Good, s # {} PROVE s \in Good
  <2>1. PICK x \in s : x = CHOOSE y \in s : TRUE
    BY <1>4, <1>8
  <2>2. fold[s] = SymDiff(x, fold[s \ {x}])
    BY <1>6, <1>8, <2>1
  <2>3. fold[s \ {x}] = OddlyHeld(s \ {x})
    BY <1>8
  <2>4. OddlyHeld(s) = SymDiff(x, OddlyHeld(s \ {x}))
    BY <1>2, HeldByOneMore
  <2> QED BY <2>2, <2>3, <2>4
<1>9. T \in Good
  <2> HIDE DEF Good
  <2>1. Good \in SUBSET SUBSET T
    BY DEF Good
  <2> QED BY <2>1, <1>7, <1>8, Dwindling
<1> QED BY <1>1, <1>9

\* One more operand.
LEMMA HashGrows ==
  ASSUME NEW T, IsFiniteSet(T), NEW x, x \notin T
  PROVE  /\ IsFiniteSet(T \cup {x})
         /\ FoldSet(SymDiff, {}, T \cup {x}) = SymDiff(FoldSet(SymDiff, {}, T), x)
<1>1. IsFiniteSet(T \cup {x})
  BY FS_AddElement
<1>2. OddlyHeld(T \cup {x}) = SymDiff(x, OddlyHeld((T \cup {x}) \ {x}))
  <2>1. PICK U : U = T \cup {x}
    OBVIOUS
  <2>2. IsFiniteSet(U) /\ x \in U
    BY <1>1, <2>1
  <2> QED BY <2>1, <2>2, HeldByOneMore
<1>3. (T \cup {x}) \ {x} = T
  OBVIOUS
<1>4. \A a, b : SymDiff(a, b) = SymDiff(b, a)
  BY DEF SymDiff
<1> QED BY <1>1, <1>2, <1>3, <1>4, ExclusiveOr

\* Operands that share nothing are united.
LEMMA HashOfApart ==
  ASSUME NEW T, IsFiniteSet(T), \A x, y \in T : x # y => x \cap y = {}
  PROVE  FoldSet(SymDiff, {}, T) = UNION T
<1>1. ASSUME NEW x \in T, NEW a \in x PROVE Odd(Cardinality(Holding(T, a)))
  <2>1. Holding(T, a) = {x}
    BY DEF Holding
  <2>2. Cardinality({x}) = 1
    BY FS_Singleton
  <2> QED BY <2>1, <2>2 DEF Odd
<1>2. OddlyHeld(T) = UNION T
  BY <1>1 DEF OddlyHeld
<1> QED BY <1>2, ExclusiveOr

-----------------------------------------------------------------------------
(* Files of lists.                                                          *)
Atoms == Nat \X Nat
\* The names of lists; those of the instance are named for the provers.
Titles == STRING \cup {"", "one", "two", "2024"}
ListTypes ==
  [name : Titles, content : Maps(Nat, 0..2), credit_limits : Maps(Nat, Nat),
   credits : Maps(Nat \X Nat, Nat), hash : SUBSET Atoms]
FileLines ==
  [kind : {"list"}, name : Titles]
    \cup [kind : {"card"}, code : Nat, count : Nat]
    \cup [kind : {"limit"}, key : Nat, limit : Nat]
    \cup [kind : {"credit"}, code : Nat, key : Nat, credit : Nat]

\* A line that enters something into a list, the atoms of it and the list after it.
Effective(line) == line.kind \in {"limit", "credit"} \/ (line.kind = "card" /\ line.count <= 2)
AtomsOf(line) ==
  CASE line.kind = "card" -> CardAtoms(line.code, line.count)
    [] line.kind = "limit" -> Words(line.key, line.limit, CreditMarker)
    [] line.kind = "credit" -> Words(line.code, line.key, line.credit)
Entered(list, line) ==
  CASE line.kind = "card" -> PushCard(list, line.code, line.count)
    [] line.kind = "limit" -> PushCreditLimit(list, line.key, line.limit)
    [] line.kind = "credit" -> PushCredit(list, line.code, line.key, line.credit)

\* Lines that enter the same thing, and whether a list has it already.
SameKey(one, other) ==
  /\ one.kind = other.kind
  /\ one.kind = "card" => one.code = other.code
  /\ one.kind = "limit" => one.key = other.key
  /\ one.kind = "credit" => one.code = other.code /\ one.key = other.key
Names(list, line) ==
  \/ line.kind = "card" /\ line.code \in DOMAIN list.content
  \/ line.kind = "limit" /\ line.key \in DOMAIN list.credit_limits
  \/ line.kind = "credit" /\ <<line.code, line.key>> \in DOMAIN list.credits

\* The operands of the hash of a list.
CardBlocks(content) == {CardAtoms(code, content[code]) : code \in DOMAIN content}
LimitBlocks(limits) == {Words(key, limits[key], CreditMarker) : key \in DOMAIN limits}
CreditBlocks(credits) == {Words(e[1], e[2], credits[e]) : e \in DOMAIN credits}
Blocks(list) == CardBlocks(list.content) \cup LimitBlocks(list.credit_limits) \cup CreditBlocks(list.credits)

LEMMA HashOfBlocks == \A list : CalculatedHash(list) = FoldSet(SymDiff, {}, Blocks(list))
BY DEF CalculatedHash, Blocks, CardBlocks, LimitBlocks, CreditBlocks

\* What the lines carry.
LEMMA LineFields ==
  ASSUME NEW line \in FileLines
  PROVE  /\ line.kind \in {"list", "card", "limit", "credit"}
         /\ line.kind = "list" => line.name \in Titles
         /\ line.kind = "card" => line.code \in Nat /\ line.count \in Nat
         /\ line.kind = "limit" => line.key \in Nat /\ line.limit \in Nat
         /\ line.kind = "credit" => line.code \in Nat /\ line.key \in Nat /\ line.credit \in Nat
BY DEF FileLines

\* What the entries of a list are.
LEMMA ListFields ==
  ASSUME NEW list \in ListTypes
  PROVE  /\ list.content \in Maps(Nat, 0..2) /\ list.credit_limits \in Maps(Nat, Nat)
         /\ list.credits \in Maps(Nat \X Nat, Nat) /\ list.hash \in SUBSET Atoms
         /\ list.name \in Titles
BY DEF ListTypes

\* The words of a line are atoms.
LEMMA AtomsTyped ==
  /\ \A code \in Nat, count \in Nat : CardAtoms(code, count) \in SUBSET Atoms
  /\ \A one \in Nat, two \in Nat, three \in Nat : Words(one, two, three) \in SUBSET Atoms
  /\ CreditMarker \in Nat
BY DEF CardAtoms, Words, Atoms, CreditMarker

\* A card entered.
LEMMA CardPushed ==
  ASSUME NEW list \in ListTypes, NEW code \in Nat, NEW count \in 0..2
  PROVE  /\ PushCard(list, code, count) \in ListTypes
         /\ PushCard(list, code, count).hash = SymDiff(list.hash, CardAtoms(code, count))
         /\ PushCard(list, code, count).content = Insert(list.content, code, count)
         /\ PushCard(list, code, count).credit_limits = list.credit_limits
         /\ PushCard(list, code, count).credits = list.credits
<1>1. Insert(list.content, code, count) \in Maps(Nat, 0..2)
  <2>1. list.content \in Maps(Nat, 0..2) /\ code \in Nat
    BY ListFields
  <2>2. PICK map : map = list.content
    OBVIOUS
  <2>3. \A k \in Nat, v \in 0..2 : Insert(map, k, v) \in Maps(Nat, 0..2)
    BY <2>1, <2>2, Inserted
  <2> QED BY <2>1, <2>2, <2>3
<1>2. SymDiff(list.hash, CardAtoms(code, count)) \in SUBSET Atoms
  <2>1. CardAtoms(code, count) \in SUBSET Atoms /\ list.hash \in SUBSET Atoms
    BY AtomsTyped, ListFields
  <2> QED BY <2>1 DEF SymDiff
<1>3. PICK map, hash : map = Insert(list.content, code, count) /\ hash = SymDiff(list.hash, CardAtoms(code, count))
  OBVIOUS
<1>4. PushCard(list, code, count) = [list EXCEPT !.content = map, !.hash = hash]
  BY <1>3 DEF PushCard
<1>5. map \in Maps(Nat, 0..2) /\ hash \in SUBSET Atoms
  BY <1>1, <1>2, <1>3
<1>6. /\ [list EXCEPT !.content = map, !.hash = hash] \in ListTypes
      /\ [list EXCEPT !.content = map, !.hash = hash].hash = hash
      /\ [list EXCEPT !.content = map, !.hash = hash].content = map
      /\ [list EXCEPT !.content = map, !.hash = hash].credit_limits = list.credit_limits
      /\ [list EXCEPT !.content = map, !.hash = hash].credits = list.credits
  BY ONLY <1>5, list \in ListTypes DEF ListTypes
<1> QED BY <1>3, <1>4, <1>6

\* A limit of points entered.
LEMMA LimitPushed ==
  ASSUME NEW list \in ListTypes, NEW key \in Nat, NEW limit \in Nat
  PROVE  /\ PushCreditLimit(list, key, limit) \in ListTypes
         /\ PushCreditLimit(list, key, limit).hash = SymDiff(list.hash, Words(key, limit, CreditMarker))
         /\ PushCreditLimit(list, key, limit).credit_limits = Insert(list.credit_limits, key, limit)
         /\ PushCreditLimit(list, key, limit).content = list.content
         /\ PushCreditLimit(list, key, limit).credits = list.credits
<1>1. Insert(list.credit_limits, key, limit) \in Maps(Nat, Nat)
  <2>1. list.credit_limits \in Maps(Nat, Nat) /\ key \in Nat
    BY ListFields
  <2>2. PICK map : map = list.credit_limits
    OBVIOUS
  <2>3. \A k \in Nat, v \in Nat : Insert(map, k, v) \in Maps(Nat, Nat)
    BY <2>1, <2>2, Inserted
  <2> QED BY <2>1, <2>2, <2>3
<1>2. SymDiff(list.hash, Words(key, limit, CreditMarker)) \in SUBSET Atoms
  <2>1. Words(key, limit, CreditMarker) \in SUBSET Atoms /\ list.hash \in SUBSET Atoms
    BY AtomsTyped, ListFields
  <2> QED BY <2>1 DEF SymDiff
<1>3. PICK map, hash : map = Insert(list.credit_limits, key, limit) /\ hash = SymDiff(list.hash, Words(key, limit, CreditMarker))
  OBVIOUS
<1>4. PushCreditLimit(list, key, limit) = [list EXCEPT !.credit_limits = map, !.hash = hash]
  BY <1>3 DEF PushCreditLimit
<1>5. map \in Maps(Nat, Nat) /\ hash \in SUBSET Atoms
  BY <1>1, <1>2, <1>3
<1>6. /\ [list EXCEPT !.credit_limits = map, !.hash = hash] \in ListTypes
      /\ [list EXCEPT !.credit_limits = map, !.hash = hash].hash = hash
      /\ [list EXCEPT !.credit_limits = map, !.hash = hash].credit_limits = map
      /\ [list EXCEPT !.credit_limits = map, !.hash = hash].content = list.content
      /\ [list EXCEPT !.credit_limits = map, !.hash = hash].credits = list.credits
  BY ONLY <1>5, list \in ListTypes DEF ListTypes
<1> QED BY <1>3, <1>4, <1>6

\* A price in points entered.
LEMMA CreditPushed ==
  ASSUME NEW list \in ListTypes, NEW code \in Nat, NEW key \in Nat, NEW credit \in Nat
  PROVE  /\ PushCredit(list, code, key, credit) \in ListTypes
         /\ PushCredit(list, code, key, credit).hash = SymDiff(list.hash, Words(code, key, credit))
         /\ PushCredit(list, code, key, credit).credits = Insert(list.credits, <<code, key>>, credit)
         /\ PushCredit(list, code, key, credit).content = list.content
         /\ PushCredit(list, code, key, credit).credit_limits = list.credit_limits
<1>1. Insert(list.credits, <<code, key>>, credit) \in Maps(Nat \X Nat, Nat)
  <2>1. list.credits \in Maps(Nat \X Nat, Nat) /\ <<code, key>> \in Nat \X Nat
    BY ListFields
  <2>2. PICK map : map = list.credits
    OBVIOUS
  <2>3. \A k \in Nat \X Nat, v \in Nat : Insert(map, k, v) \in Maps(Nat \X Nat, Nat)
    BY <2>1, <2>2, Inserted
  <2> QED BY <2>1, <2>2, <2>3
<1>2. SymDiff(list.hash, Words(code, key, credit)) \in SUBSET Atoms
  <2>1. Words(code, key, credit) \in SUBSET Atoms /\ list.hash \in SUBSET Atoms
    BY AtomsTyped, ListFields
  <2> QED BY <2>1 DEF SymDiff
<1>3. PICK map, hash : map = Insert(list.credits, <<code, key>>, credit) /\ hash = SymDiff(list.hash, Words(code, key, credit))
  OBVIOUS
<1>4. PushCredit(list, code, key, credit) = [list EXCEPT !.credits = map, !.hash = hash]
  BY <1>3 DEF PushCredit
<1>5. map \in Maps(Nat \X Nat, Nat) /\ hash \in SUBSET Atoms
  BY <1>1, <1>2, <1>3
<1>6. /\ [list EXCEPT !.credits = map, !.hash = hash] \in ListTypes
      /\ [list EXCEPT !.credits = map, !.hash = hash].hash = hash
      /\ [list EXCEPT !.credits = map, !.hash = hash].credits = map
      /\ [list EXCEPT !.credits = map, !.hash = hash].content = list.content
      /\ [list EXCEPT !.credits = map, !.hash = hash].credit_limits = list.credit_limits
  BY ONLY <1>5, list \in ListTypes DEF ListTypes
<1> QED BY <1>3, <1>4, <1>6

\* The words of one more card.
LEMMA MoreCards ==
  ASSUME NEW map, NEW key, key \notin DOMAIN map, NEW value, NEW more, more = Insert(map, key, value)
  PROVE  CardBlocks(more) = CardBlocks(map) \cup {CardAtoms(key, value)}
<1>1. /\ \A k \in DOMAIN map : more[k] = map[k]
      /\ DOMAIN more = DOMAIN map \cup {key}
      /\ more[key] = value
  BY DEF Insert
<1> DEFINE new == {CardAtoms(k, more[k]) : k \in DOMAIN more}
           old == {CardAtoms(k, map[k]) : k \in DOMAIN map}
<1>2. ASSUME NEW x \in new PROVE x \in old \cup {CardAtoms(key, value)}
  <2>1. PICK k \in DOMAIN more : x = CardAtoms(k, more[k])
    OBVIOUS
  <2>2. CASE k = key
    BY <1>1, <2>1, <2>2
  <2>3. CASE k # key
    <3>1. k \in DOMAIN map /\ more[k] = map[k]
      BY <1>1, <2>3
    <3> QED BY <2>1, <3>1
  <2> QED BY <2>2, <2>3
<1>3. ASSUME NEW x \in old PROVE x \in new
  <2>1. PICK k \in DOMAIN map : x = CardAtoms(k, map[k])
    OBVIOUS
  <2>2. k \in DOMAIN more /\ more[k] = map[k]
    BY <1>1
  <2> QED BY <2>1, <2>2
<1>4. CardAtoms(key, value) \in new
  <2>1. key \in DOMAIN more /\ more[key] = value
    BY <1>1
  <2> QED BY <2>1
<1>5. PICK one : one = CardAtoms(key, value)
  OBVIOUS
<1> HIDE DEF new, old
<1>6. new = old \cup {one}
  BY <1>2, <1>3, <1>4, <1>5
<1> QED BY <1>5, <1>6 DEF new, old, CardBlocks

\* The words of one more limit of points.
LEMMA MoreLimits ==
  ASSUME NEW map, NEW key, key \notin DOMAIN map, NEW value, NEW more, more = Insert(map, key, value)
  PROVE  LimitBlocks(more) = LimitBlocks(map) \cup {Words(key, value, CreditMarker)}
<1>1. /\ \A k \in DOMAIN map : more[k] = map[k]
      /\ DOMAIN more = DOMAIN map \cup {key}
      /\ more[key] = value
  BY DEF Insert
<1> DEFINE new == {Words(k, more[k], CreditMarker) : k \in DOMAIN more}
           old == {Words(k, map[k], CreditMarker) : k \in DOMAIN map}
<1>2. ASSUME NEW x \in new PROVE x \in old \cup {Words(key, value, CreditMarker)}
  <2>1. PICK k \in DOMAIN more : x = Words(k, more[k], CreditMarker)
    OBVIOUS
  <2>2. CASE k = key
    BY <1>1, <2>1, <2>2
  <2>3. CASE k # key
    <3>1. k \in DOMAIN map /\ more[k] = map[k]
      BY <1>1, <2>3
    <3> QED BY <2>1, <3>1
  <2> QED BY <2>2, <2>3
<1>3. ASSUME NEW x \in old PROVE x \in new
  <2>1. PICK k \in DOMAIN map : x = Words(k, map[k], CreditMarker)
    OBVIOUS
  <2>2. k \in DOMAIN more /\ more[k] = map[k]
    BY <1>1
  <2> QED BY <2>1, <2>2
<1>4. Words(key, value, CreditMarker) \in new
  <2>1. key \in DOMAIN more /\ more[key] = value
    BY <1>1
  <2> QED BY <2>1
<1>5. PICK one : one = Words(key, value, CreditMarker)
  OBVIOUS
<1> HIDE DEF new, old
<1>6. new = old \cup {one}
  BY <1>2, <1>3, <1>4, <1>5
<1> QED BY <1>5, <1>6 DEF new, old, LimitBlocks

\* The words of one more price.
LEMMA MoreCredits ==
  ASSUME NEW map, NEW key, key \notin DOMAIN map, NEW value, NEW more, more = Insert(map, key, value)
  PROVE  CreditBlocks(more) = CreditBlocks(map) \cup {Words(key[1], key[2], value)}
<1>1. /\ \A k \in DOMAIN map : more[k] = map[k]
      /\ DOMAIN more = DOMAIN map \cup {key}
      /\ more[key] = value
  BY DEF Insert
<1> DEFINE new == {Words(k[1], k[2], more[k]) : k \in DOMAIN more}
           old == {Words(k[1], k[2], map[k]) : k \in DOMAIN map}
<1>2. ASSUME NEW x \in new PROVE x \in old \cup {Words(key[1], key[2], value)}
  <2>1. PICK k \in DOMAIN more : x = Words(k[1], k[2], more[k])
    OBVIOUS
  <2>2. CASE k = key
    BY <1>1, <2>1, <2>2
  <2>3. CASE k # key
    <3>1. k \in DOMAIN map /\ more[k] = map[k]
      BY <1>1, <2>3
    <3> QED BY <2>1, <3>1
  <2> QED BY <2>2, <2>3
<1>3. ASSUME NEW x \in old PROVE x \in new
  <2>1. PICK k \in DOMAIN map : x = Words(k[1], k[2], map[k])
    OBVIOUS
  <2>2. k \in DOMAIN more /\ more[k] = map[k]
    BY <1>1
  <2> QED BY <2>1, <2>2
<1>4. Words(key[1], key[2], value) \in new
  <2>1. key \in DOMAIN more /\ more[key] = value
    BY <1>1
  <2> QED BY <2>1
<1>5. PICK one : one = Words(key[1], key[2], value)
  OBVIOUS
<1> HIDE DEF new, old
<1>6. new = old \cup {one}
  BY <1>2, <1>3, <1>4, <1>5
<1> QED BY <1>5, <1>6 DEF new, old, CreditBlocks

\* A line enters what its list has not yet.
LEMMA EnteredList ==
  ASSUME NEW list \in ListTypes, NEW line \in FileLines, Effective(line), ~Names(list, line)
  PROVE  /\ Entered(list, line) \in ListTypes
         /\ Entered(list, line).hash = SymDiff(list.hash, AtomsOf(line))
         /\ Blocks(Entered(list, line)) = Blocks(list) \cup {AtomsOf(line)}
         /\ \A other \in FileLines : Names(Entered(list, line), other) => Names(list, other) \/ SameKey(line, other)
<1> DEFINE new == Entered(list, line)
<1>1. CASE line.kind = "card"
  <2>1. new = PushCard(list, line.code, line.count) /\ AtomsOf(line) = CardAtoms(line.code, line.count)
    BY <1>1 DEF Entered, AtomsOf
  <2>2. line.code \in Nat /\ line.count \in 0..2
    BY <1>1, LineFields DEF Effective
  <2>3. /\ new \in ListTypes /\ new.hash = SymDiff(list.hash, AtomsOf(line))
        /\ new.content = Insert(list.content, line.code, line.count)
        /\ new.credit_limits = list.credit_limits /\ new.credits = list.credits
    <3>1. PICK code \in Nat, count \in 0..2 : code = line.code /\ count = line.count /\ new = PushCard(list, code, count) /\ AtomsOf(line) = CardAtoms(code, count)
      BY <2>1, <2>2
    <3> HIDE DEF new
    <3>2. /\ PushCard(list, code, count) \in ListTypes
          /\ PushCard(list, code, count).hash = SymDiff(list.hash, CardAtoms(code, count))
          /\ PushCard(list, code, count).content = Insert(list.content, code, count)
          /\ PushCard(list, code, count).credit_limits = list.credit_limits
          /\ PushCard(list, code, count).credits = list.credits
      BY ONLY <3>1, list \in ListTypes, CardPushed
    <3> QED BY ONLY <3>1, <3>2
  <2>4. line.code \notin DOMAIN list.content
    BY <1>1 DEF Names
  <2> HIDE DEF new
  <2>5. CardBlocks(new.content) = CardBlocks(list.content) \cup {AtomsOf(line)}
    <3>1. PICK map, more, key, value : map = list.content /\ more = new.content /\ key = line.code /\ value = line.count
      OBVIOUS
    <3>2. more = Insert(map, key, value) /\ key \notin DOMAIN map
      BY <2>3, <2>4, <3>1
    <3>3. CardBlocks(more) = CardBlocks(map) \cup {CardAtoms(key, value)}
      BY ONLY <3>2, MoreCards
    <3>4. CardAtoms(key, value) = AtomsOf(line)
      BY <2>1, <3>1
    <3> QED BY <3>1, <3>3, <3>4
  <2>6. LimitBlocks(new.credit_limits) = LimitBlocks(list.credit_limits) /\ CreditBlocks(new.credits) = CreditBlocks(list.credits)
    BY <2>3
  <2>7. Blocks(new) = Blocks(list) \cup {AtomsOf(line)}
    BY <2>5, <2>6 DEF Blocks
  <2>8. DOMAIN new.content = DOMAIN list.content \cup {line.code}
    BY <2>3 DEF Insert
  <2>9. \A other \in FileLines : Names(new, other) => Names(list, other) \/ SameKey(line, other)
    <3> SUFFICES ASSUME NEW other \in FileLines, Names(new, other), ~Names(list, other) PROVE SameKey(line, other)
      OBVIOUS
    <3>1. other.kind = "card"
      BY <2>3 DEF Names
    <3> QED BY <1>1, <2>8, <3>1 DEF Names, SameKey
  <2> QED BY <2>3, <2>7, <2>9 DEF new
<1>2. CASE line.kind = "limit"
  <2>1. new = PushCreditLimit(list, line.key, line.limit) /\ AtomsOf(line) = Words(line.key, line.limit, CreditMarker)
    BY <1>2 DEF Entered, AtomsOf
  <2>2. line.key \in Nat /\ line.limit \in Nat
    BY <1>2, LineFields DEF Effective
  <2>3. /\ new \in ListTypes /\ new.hash = SymDiff(list.hash, AtomsOf(line))
        /\ new.credit_limits = Insert(list.credit_limits, line.key, line.limit)
        /\ new.content = list.content /\ new.credits = list.credits
    <3>1. PICK key \in Nat, limit \in Nat : key = line.key /\ limit = line.limit /\ new = PushCreditLimit(list, key, limit) /\ AtomsOf(line) = Words(key, limit, CreditMarker)
      BY <2>1, <2>2
    <3> HIDE DEF new
    <3>2. /\ PushCreditLimit(list, key, limit) \in ListTypes
          /\ PushCreditLimit(list, key, limit).hash = SymDiff(list.hash, Words(key, limit, CreditMarker))
          /\ PushCreditLimit(list, key, limit).credit_limits = Insert(list.credit_limits, key, limit)
          /\ PushCreditLimit(list, key, limit).content = list.content
          /\ PushCreditLimit(list, key, limit).credits = list.credits
      BY ONLY <3>1, list \in ListTypes, LimitPushed
    <3> QED BY ONLY <3>1, <3>2
  <2>4. line.key \notin DOMAIN list.credit_limits
    BY <1>2 DEF Names
  <2> HIDE DEF new
  <2>5. LimitBlocks(new.credit_limits) = LimitBlocks(list.credit_limits) \cup {AtomsOf(line)}
    <3>1. PICK map, more, key, value : map = list.credit_limits /\ more = new.credit_limits /\ key = line.key /\ value = line.limit
      OBVIOUS
    <3>2. more = Insert(map, key, value) /\ key \notin DOMAIN map
      BY <2>3, <2>4, <3>1
    <3>3. LimitBlocks(more) = LimitBlocks(map) \cup {Words(key, value, CreditMarker)}
      BY ONLY <3>2, MoreLimits
    <3>4. Words(key, value, CreditMarker) = AtomsOf(line)
      BY <2>1, <3>1
    <3> QED BY <3>1, <3>3, <3>4
  <2>6. CardBlocks(new.content) = CardBlocks(list.content) /\ CreditBlocks(new.credits) = CreditBlocks(list.credits)
    BY <2>3
  <2>7. Blocks(new) = Blocks(list) \cup {AtomsOf(line)}
    BY <2>5, <2>6 DEF Blocks
  <2>8. DOMAIN new.credit_limits = DOMAIN list.credit_limits \cup {line.key}
    BY <2>3 DEF Insert
  <2>9. \A other \in FileLines : Names(new, other) => Names(list, other) \/ SameKey(line, other)
    <3> SUFFICES ASSUME NEW other \in FileLines, Names(new, other), ~Names(list, other) PROVE SameKey(line, other)
      OBVIOUS
    <3>1. other.kind = "limit"
      BY <2>3 DEF Names
    <3> QED BY <1>2, <2>8, <3>1 DEF Names, SameKey
  <2> QED BY <2>3, <2>7, <2>9 DEF new
<1>3. CASE line.kind = "credit"
  <2>1. new = PushCredit(list, line.code, line.key, line.credit) /\ AtomsOf(line) = Words(line.code, line.key, line.credit)
    BY <1>3 DEF Entered, AtomsOf
  <2>2. line.code \in Nat /\ line.key \in Nat /\ line.credit \in Nat
    BY <1>3, LineFields DEF Effective
  <2>3. /\ new \in ListTypes /\ new.hash = SymDiff(list.hash, AtomsOf(line))
        /\ new.credits = Insert(list.credits, <<line.code, line.key>>, line.credit)
        /\ new.content = list.content /\ new.credit_limits = list.credit_limits
    <3>1. PICK code \in Nat, key \in Nat, credit \in Nat : code = line.code /\ key = line.key /\ credit = line.credit /\ new = PushCredit(list, code, key, credit) /\ AtomsOf(line) = Words(code, key, credit)
      BY <2>1, <2>2
    <3> HIDE DEF new
    <3>2. /\ PushCredit(list, code, key, credit) \in ListTypes
          /\ PushCredit(list, code, key, credit).hash = SymDiff(list.hash, Words(code, key, credit))
          /\ PushCredit(list, code, key, credit).credits = Insert(list.credits, <<code, key>>, credit)
          /\ PushCredit(list, code, key, credit).content = list.content
          /\ PushCredit(list, code, key, credit).credit_limits = list.credit_limits
      BY ONLY <3>1, list \in ListTypes, CreditPushed
    <3> QED BY ONLY <3>1, <3>2
  <2>4. <<line.code, line.key>> \notin DOMAIN list.credits
    BY <1>3 DEF Names
  <2> HIDE DEF new
  <2>5. CreditBlocks(new.credits) = CreditBlocks(list.credits) \cup {AtomsOf(line)}
    <3>1. PICK map, more, key, value : map = list.credits /\ more = new.credits /\ key = <<line.code, line.key>> /\ value = line.credit
      OBVIOUS
    <3>2. more = Insert(map, key, value) /\ key \notin DOMAIN map
      BY <2>3, <2>4, <3>1
    <3>3. CreditBlocks(more) = CreditBlocks(map) \cup {Words(key[1], key[2], value)}
      BY ONLY <3>2, MoreCredits
    <3>4. Words(key[1], key[2], value) = AtomsOf(line)
      BY <2>1, <3>1
    <3> QED BY <3>1, <3>3, <3>4
  <2>6. CardBlocks(new.content) = CardBlocks(list.content) /\ LimitBlocks(new.credit_limits) = LimitBlocks(list.credit_limits)
    BY <2>3
  <2>7. Blocks(new) = Blocks(list) \cup {AtomsOf(line)}
    BY <2>5, <2>6 DEF Blocks
  <2>8. DOMAIN new.credits = DOMAIN list.credits \cup {<<line.code, line.key>>}
    BY <2>3 DEF Insert
  <2>9. \A other \in FileLines : Names(new, other) => Names(list, other) \/ SameKey(line, other)
    <3> SUFFICES ASSUME NEW other \in FileLines, Names(new, other), ~Names(list, other) PROVE SameKey(line, other)
      OBVIOUS
    <3>1. other.kind = "credit"
      BY <2>3 DEF Names
    <3> QED BY <1>3, <2>8, <3>1 DEF Names, SameKey
  <2> QED BY <2>3, <2>7, <2>9 DEF new
<1> QED BY <1>1, <1>2, <1>3 DEF Effective

\* A line enters something of the right kind.
LEMMA EnteredTyped ==
  ASSUME NEW list \in ListTypes, NEW line \in FileLines, Effective(line)
  PROVE  Entered(list, line) \in ListTypes
<1>1. CASE line.kind = "card"
  <2>1. PICK code \in Nat, count \in 0..2 : Entered(list, line) = PushCard(list, code, count)
    BY <1>1, LineFields DEF Effective, Entered
  <2>2. PushCard(list, code, count) \in ListTypes
    BY ONLY code \in Nat, count \in 0..2, list \in ListTypes, CardPushed
  <2> QED BY <2>1, <2>2
<1>2. CASE line.kind = "limit"
  <2>1. PICK key \in Nat, limit \in Nat : Entered(list, line) = PushCreditLimit(list, key, limit)
    BY <1>2, LineFields DEF Entered
  <2>2. PushCreditLimit(list, key, limit) \in ListTypes
    BY ONLY key \in Nat, limit \in Nat, list \in ListTypes, LimitPushed
  <2> QED BY <2>1, <2>2
<1>3. CASE line.kind = "credit"
  <2>1. PICK code \in Nat, key \in Nat, credit \in Nat : Entered(list, line) = PushCredit(list, code, key, credit)
    BY <1>3, LineFields DEF Entered
  <2>2. PushCredit(list, code, key, credit) \in ListTypes
    BY ONLY code \in Nat, key \in Nat, credit \in Nat, list \in ListTypes, CreditPushed
  <2> QED BY <2>1, <2>2
<1> QED BY <1>1, <1>2, <1>3 DEF Effective

\* A list without entries.
LEMMA NewListTyped ==
  ASSUME NEW name \in Titles
  PROVE  /\ NewList(name) \in ListTypes
         /\ Blocks(NewList(name)) = {} /\ NewList(name).hash = {}
         /\ \A other \in FileLines : ~Names(NewList(name), other)
<1>1. <<>> \in Maps(Nat, 0..2) /\ <<>> \in Maps(Nat, Nat) /\ <<>> \in Maps(Nat \X Nat, Nat) /\ DOMAIN <<>> = {}
  BY NoEntry
<1>2. NewList(name) = [name |-> name, content |-> <<>>, credit_limits |-> <<>>, credits |-> <<>>, hash |-> {}]
  BY DEF NewList
<1>3. NewList(name) \in ListTypes
  BY <1>1, <1>2 DEF ListTypes
<1>4. NewList(name).content = <<>> /\ NewList(name).credit_limits = <<>> /\ NewList(name).credits = <<>> /\ NewList(name).hash = {}
  BY <1>2
<1>5. CardBlocks(<<>>) = {} /\ LimitBlocks(<<>>) = {} /\ CreditBlocks(<<>>) = {}
  BY <1>1 DEF CardBlocks, LimitBlocks, CreditBlocks
<1>6. Blocks(NewList(name)) = {}
  BY <1>4, <1>5 DEF Blocks
<1>7. \A other \in FileLines : ~Names(NewList(name), other)
  BY <1>1, <1>4 DEF Names
<1> QED BY <1>3, <1>4, <1>6, <1>7

\* What a line does to the lists before it.
LEMMA LineParsed ==
  ASSUME NEW lists \in Seq(ListTypes), NEW line \in FileLines
  PROVE  /\ line.kind = "list" => ParseLine(lists, line) = Append(lists, NewList(line.name))
         /\ line.kind # "list" /\ (lists = <<>> \/ ~Effective(line)) => ParseLine(lists, line) = lists
         /\ line.kind # "list" /\ lists # <<>> /\ Effective(line) =>
              ParseLine(lists, line) = [lists EXCEPT ![Len(lists)] = Entered(lists[Len(lists)], line)]
         /\ ParseLine(lists, line) \in Seq(ListTypes)
<1>1. line.kind \in {"list", "card", "limit", "credit"}
  BY LineFields
<1>2. line.kind = "list" => ParseLine(lists, line) = Append(lists, NewList(line.name))
  BY DEF ParseLine
<1>3. line.kind # "list" /\ lists = <<>> => ParseLine(lists, line) = lists
  BY <1>1 DEF ParseLine
<1>4. line.kind # "list" /\ lists # <<>> /\ ~Effective(line) => ParseLine(lists, line) = lists
  <2> SUFFICES ASSUME line.kind # "list", lists # <<>>, ~Effective(line) PROVE ParseLine(lists, line) = lists
    OBVIOUS
  <2>1. line.kind = "card" /\ ~(line.count <= 2)
    BY <1>1 DEF Effective
  <2> QED BY <2>1 DEF ParseLine
<1>5. line.kind # "list" /\ lists # <<>> /\ Effective(line) =>
        ParseLine(lists, line) = [lists EXCEPT ![Len(lists)] = Entered(lists[Len(lists)], line)]
  <2> SUFFICES ASSUME line.kind # "list", lists # <<>>, Effective(line)
               PROVE  ParseLine(lists, line) = [lists EXCEPT ![Len(lists)] = Entered(lists[Len(lists)], line)]
    OBVIOUS
  <2>1. CASE line.kind = "card"
    <3>1. line.count <= 2
      BY <2>1 DEF Effective
    <3> QED BY <2>1, <3>1 DEF ParseLine, Entered
  <2>2. CASE line.kind = "limit"
    BY <2>2 DEF ParseLine, Entered
  <2>3. CASE line.kind = "credit"
    BY <2>3 DEF ParseLine, Entered
  <2> QED BY <1>1, <2>1, <2>2, <2>3
<1>6. ParseLine(lists, line) \in Seq(ListTypes)
  <2>1. CASE line.kind = "list"
    <3>1. NewList(line.name) \in ListTypes
      BY <2>1, LineFields, NewListTyped
    <3> QED BY <1>2, <2>1, <3>1
  <2>2. CASE line.kind # "list" /\ (lists = <<>> \/ ~Effective(line))
    BY <1>3, <1>4, <2>2
  <2>3. CASE line.kind # "list" /\ lists # <<>> /\ Effective(line)
    <3>1. lists[Len(lists)] \in ListTypes
      BY <2>3
    <3>2. PICK new \in ListTypes : new = Entered(lists[Len(lists)], line)
      BY <2>3, <3>1, EnteredTyped
    <3>3. [lists EXCEPT ![Len(lists)] = new] \in Seq(ListTypes)
      <4>1. PICK n \in Nat, m \in Nat : n = Len(lists) /\ m = Len(lists) /\ lists \in [1..n -> ListTypes]
        OBVIOUS
      <4>2. [lists EXCEPT ![m] = new] \in [1..n -> ListTypes]
        BY ONLY <4>1, new \in ListTypes
      <4>3. \A s \in [1..n -> ListTypes] : s \in Seq(ListTypes)
        OBVIOUS
      <4> QED BY <4>1, <4>2, <4>3
    <3> QED BY <1>5, <2>3, <3>2, <3>3
  <2> QED BY <2>1, <2>2, <2>3
<1> QED BY <1>2, <1>3, <1>4, <1>5, <1>6

\* Parsing goes line by line.
LEMMA ParseListsOn ==
  /\ ParseLists(<<>>) = <<>>
  /\ \A s \in Seq(FileLines) : ParseLists(s) \in Seq(ListTypes)
  /\ \A s \in Seq(FileLines), x \in FileLines :
              ParseLists(Append(s, x)) = ParseLine(ParseLists(s), x)
<1> DEFINE f == [y \in Seq(ListTypes) \X FileLines |-> ParseLine(y[1], y[2])]
<1>1. /\ f \in [Seq(ListTypes) \X FileLines -> Seq(ListTypes)]
      /\ \A y \in Seq(ListTypes), x \in FileLines : f[<<y, x>>] = ParseLine(y, x)
      /\ <<>> \in Seq(ListTypes)
  <2>1. \A y \in Seq(ListTypes), x \in FileLines : ParseLine(y, x) \in Seq(ListTypes)
    BY LineParsed
  <2>2. <<>> \in Seq(ListTypes)
    OBVIOUS
  <2> QED BY <2>1, <2>2
<1>2. ASSUME NEW s \in Seq(FileLines) PROVE ParseLists(s) = Led(Seq(ListTypes), f, <<>>, s)
  <2> DEFINE Up(h) == h = [t \in SUBSET DOMAIN s |->
                             IF t = {} THEN <<>>
                             ELSE ParseLine(h[t \ {Max(t)}], s[Max(t)])]
             way == CHOOSE h : Up(h)
  <2>1. ParseLists(s) = way[DOMAIN s]
    BY DEF ParseLists, FoldLeft, MapThenFoldSet
  <2>2. DOMAIN s = 1..Len(s) /\ Len(s) \in Nat /\ \A i \in DOMAIN s : s[i] \in FileLines
    OBVIOUS
  <2>3. PICK g \in [SUBSET DOMAIN s -> Seq(ListTypes)] : Climbs(g, f, <<>>, s)
    BY <1>1, Climbing
  <2>4. \A t \in SUBSET DOMAIN s : t # {} => Max(t) \in DOMAIN s /\ t \ {Max(t)} \in SUBSET DOMAIN s
    BY <2>2, Highest
  <2> HIDE DEF f
  <2>5. \A t \in SUBSET DOMAIN s :
          g[t] = IF t = {} THEN <<>>
                 ELSE ParseLine(g[t \ {Max(t)}], s[Max(t)])
    <3>1. \A t \in SUBSET DOMAIN s : g[t] = IF t = {} THEN <<>> ELSE f[<<g[t \ {Max(t)}], s[Max(t)]>>]
      BY <2>3 DEF Climbs
    <3>2. ASSUME NEW t \in SUBSET DOMAIN s, t # {}
          PROVE  f[<<g[t \ {Max(t)}], s[Max(t)]>>] = ParseLine(g[t \ {Max(t)}], s[Max(t)])
      <4>1. g[t \ {Max(t)}] \in Seq(ListTypes) /\ s[Max(t)] \in FileLines
        BY <2>2, <2>3, <2>4, <3>2
      <4> QED BY <1>1, <4>1
    <3> QED BY <3>1, <3>2
  <2>6. Up(g)
    BY <2>3, <2>5
  <2>7. Up(way)
    <3> HIDE DEF Up
    <3> QED BY <2>6
  <2> HIDE DEF way
  <2>8. Starts(way, Seq(ListTypes), f, <<>>, s, Len(s))
    <3>1. DOMAIN s = 1..Len(s) /\ {} \in SUBSET DOMAIN s
      BY <2>2
    <3>2. way[{}] = <<>>
      BY <2>7, <3>1
    <3>3. ASSUME NEW t \in SUBSET (1..Len(s)), t # {}, way[t \ {Max(t)}] \in Seq(ListTypes)
          PROVE  way[t] = f[<<way[t \ {Max(t)}], s[Max(t)]>>]
      <4>1. t \in SUBSET DOMAIN s /\ s[Max(t)] \in FileLines
        BY <2>2, <2>4, <3>1, <3>3
      <4>2. way[t] = ParseLine(way[t \ {Max(t)}], s[Max(t)])
        BY <2>7, <3>3, <4>1
      <4> QED BY <1>1, <3>3, <4>1, <4>2
    <3> QED BY <3>2, <3>3 DEF Starts
  <2>9. Ground(Seq(ListTypes), FileLines, f, <<>>, s)
    BY <1>1 DEF Ground, FoldSteps
  <2> QED BY <2>1, <2>8, <2>9, FoundWay
<1> HIDE DEF f
<1>3. /\ Led(Seq(ListTypes), f, <<>>, <<>>) = <<>>
      /\ \A s \in Seq(FileLines) : Led(Seq(ListTypes), f, <<>>, s) \in Seq(ListTypes)
      /\ \A s \in Seq(FileLines), x \in FileLines :
           Led(Seq(ListTypes), f, <<>>, Append(s, x)) = f[<<Led(Seq(ListTypes), f, <<>>, s), x>>]
  <2>1. FoldSteps(Seq(ListTypes), FileLines, f, <<>>)
    BY <1>1 DEF FoldSteps
  <2> QED BY <2>1, LedOn
<1>4. <<>> \in Seq(FileLines) /\ \A s \in Seq(FileLines), x \in FileLines : Append(s, x) \in Seq(FileLines)
  OBVIOUS
<1>5. ParseLists(<<>>) = <<>>
  BY <1>2, <1>3, <1>4
<1>6. \A s \in Seq(FileLines) : ParseLists(s) \in Seq(ListTypes)
  BY <1>2, <1>3
<1>7. ASSUME NEW s \in Seq(FileLines), NEW x \in FileLines
      PROVE  ParseLists(Append(s, x)) = ParseLine(ParseLists(s), x)
  <2>1. ParseLists(Append(s, x)) = f[<<ParseLists(s), x>>]
    BY <1>2, <1>3, <1>4
  <2> QED BY <1>1, <1>6, <2>1
<1> QED BY <1>5, <1>6, <1>7

\* The lines of a file that enter something into its last list so far.
InOneList(lines, i, j) == \A k \in i..j : lines[k].kind # "list"
OpenAt(lines) == {i \in DOMAIN lines : Effective(lines[i]) /\ InOneList(lines, i, Len(lines))}
OpenLines(lines) == {lines[i] : i \in OpenAt(lines)}

\* No list of a file has two lines for one entry, or two lines of the same words.
Orderly(lines) ==
  \A i, j \in DOMAIN lines :
    i < j /\ Effective(lines[i]) /\ Effective(lines[j]) /\ InOneList(lines, i, j) =>
      ~SameKey(lines[i], lines[j]) /\ AtomsOf(lines[i]) # AtomsOf(lines[j])

\* One line more.
LEMMA OneLineMore ==
  ASSUME NEW lines \in Seq(FileLines), NEW x \in FileLines
  PROVE  /\ Orderly(Append(lines, x)) => Orderly(lines)
         /\ Orderly(Append(lines, x)) /\ Effective(x) =>
              \A o \in OpenLines(lines) : ~SameKey(o, x) /\ AtomsOf(o) # AtomsOf(x)
         /\ x.kind # "list" => OpenLines(lines) \subseteq OpenLines(Append(lines, x))
         /\ Effective(x) => x \in OpenLines(Append(lines, x))
<1> DEFINE n == Len(lines)
           more == Append(lines, x)
<1>1. /\ n \in Nat /\ DOMAIN lines = 1..n /\ more \in Seq(FileLines) /\ Len(more) = n + 1
      /\ DOMAIN more = 1..(n + 1) /\ more[n + 1] = x /\ \A i \in 1..n : more[i] = lines[i]
  BY AppendProperties
<1>2. Effective(x) => x.kind # "list"
  BY DEF Effective
<1> HIDE DEF n, more
<1>3. Orderly(more) => Orderly(lines)
  <2> SUFFICES ASSUME Orderly(more), NEW i \in 1..n, NEW j \in 1..n, i < j,
                      Effective(lines[i]), Effective(lines[j]), InOneList(lines, i, j)
               PROVE  ~SameKey(lines[i], lines[j]) /\ AtomsOf(lines[i]) # AtomsOf(lines[j])
    BY <1>1 DEF Orderly
  <2>1. more[i] = lines[i] /\ more[j] = lines[j] /\ i \in DOMAIN more /\ j \in DOMAIN more
    BY <1>1
  <2>2. InOneList(more, i, j)
    <3>1. \A k \in i..j : k \in 1..n
      BY <1>1
    <3> QED BY <1>1, <3>1 DEF InOneList
  <2> QED BY <2>1, <2>2 DEF Orderly
<1>4. ASSUME NEW i \in OpenAt(lines), x.kind # "list"
      PROVE  i \in 1..n /\ i < n + 1 /\ Effective(more[i]) /\ more[i] = lines[i] /\ InOneList(more, i, n + 1)
  <2>1. i \in 1..n /\ Effective(lines[i]) /\ InOneList(lines, i, n)
    BY <1>1 DEF OpenAt, n
  <2>2. \A k \in i..(n + 1) : more[k].kind # "list"
    <3> SUFFICES ASSUME NEW k \in i..(n + 1) PROVE more[k].kind # "list"
      OBVIOUS
    <3>1. CASE k = n + 1
      BY <1>1, <1>4, <3>1
    <3>2. CASE k # n + 1
      <4>1. k \in i..n /\ k \in 1..n
        BY <1>1, <2>1, <3>2
      <4> QED BY <1>1, <2>1, <4>1 DEF InOneList
    <3> QED BY <3>1, <3>2
  <2> QED BY <1>1, <2>1, <2>2 DEF InOneList
<1>5. ASSUME Orderly(more), Effective(x), NEW o \in OpenLines(lines)
      PROVE  ~SameKey(o, x) /\ AtomsOf(o) # AtomsOf(x)
  <2>1. PICK i \in OpenAt(lines) : o = lines[i]
    BY <1>5 DEF OpenLines
  <2>2. i \in 1..n /\ i < n + 1 /\ Effective(more[i]) /\ more[i] = lines[i] /\ InOneList(more, i, n + 1)
    BY <1>2, <1>4, <1>5
  <2>3. i \in DOMAIN more /\ n + 1 \in DOMAIN more /\ Effective(more[n + 1])
    BY <1>1, <1>5, <2>2
  <2> QED BY <1>1, <1>5, <2>1, <2>2, <2>3 DEF Orderly
<1>6. ASSUME x.kind # "list", NEW o \in OpenLines(lines) PROVE o \in OpenLines(more)
  <2>1. PICK i \in OpenAt(lines) : o = lines[i]
    BY <1>6 DEF OpenLines
  <2>2. i \in 1..n /\ Effective(more[i]) /\ more[i] = lines[i] /\ InOneList(more, i, n + 1)
    BY <1>4, <1>6
  <2>3. i \in OpenAt(more)
    BY <1>1, <2>2 DEF OpenAt
  <2> QED BY <2>1, <2>2, <2>3 DEF OpenLines
<1>7. ASSUME Effective(x) PROVE x \in OpenLines(more)
  <2>1. InOneList(more, n + 1, n + 1)
    <3>1. \A k \in (n + 1)..(n + 1) : k = n + 1
      BY <1>1
    <3> QED BY <1>1, <1>2, <1>7, <3>1 DEF InOneList
  <2>2. n + 1 \in OpenAt(more)
    BY <1>1, <1>7, <2>1 DEF OpenAt
  <2> QED BY <1>1, <2>2 DEF OpenLines
<1> QED BY <1>3, <1>5, <1>6, <1>7 DEF more

\* What holds of the lists of an orderly file: every hash is the hash of its list, and the
\* last list has what its lines enter.
HashesRight(lists) == \A m \in DOMAIN lists : IsFiniteSet(Blocks(lists[m])) /\ lists[m].hash = CalculatedHash(lists[m])
FromLines(list, open) ==
  /\ \A block \in Blocks(list) : \E o \in open : AtomsOf(o) = block
  /\ \A other \in FileLines : Names(list, other) => \E o \in open : SameKey(o, other)
LastFrom(lists, open) == lists # <<>> => FromLines(lists[Len(lists)], open)

\* An entry more of a list whose hash is right.
LEMMA HashKept ==
  ASSUME NEW list \in ListTypes, NEW open, FromLines(list, open),
         NEW x \in FileLines, Effective(x), \A o \in open : ~SameKey(o, x) /\ AtomsOf(o) # AtomsOf(x),
         IsFiniteSet(Blocks(list)), list.hash = CalculatedHash(list),
         NEW more, open \subseteq more, x \in more
  PROVE  /\ Entered(list, x) \in ListTypes
         /\ IsFiniteSet(Blocks(Entered(list, x)))
         /\ Entered(list, x).hash = CalculatedHash(Entered(list, x))
         /\ FromLines(Entered(list, x), more)
<1> DEFINE new == Entered(list, x)
<1>1. ~Names(list, x) /\ AtomsOf(x) \notin Blocks(list)
  BY DEF FromLines
<1>2. /\ new \in ListTypes
      /\ new.hash = SymDiff(list.hash, AtomsOf(x))
      /\ Blocks(new) = Blocks(list) \cup {AtomsOf(x)}
      /\ \A other \in FileLines : Names(new, other) => Names(list, other) \/ SameKey(x, other)
  BY <1>1, EnteredList
<1> HIDE DEF new
<1>3. IsFiniteSet(Blocks(new)) /\ FoldSet(SymDiff, {}, Blocks(new)) = SymDiff(FoldSet(SymDiff, {}, Blocks(list)), AtomsOf(x))
  <2>1. PICK T, y : T = Blocks(list) /\ y = AtomsOf(x)
    OBVIOUS
  <2>2. IsFiniteSet(T) /\ y \notin T
    BY <1>1, <2>1
  <2>3. IsFiniteSet(T \cup {y}) /\ FoldSet(SymDiff, {}, T \cup {y}) = SymDiff(FoldSet(SymDiff, {}, T), y)
    BY ONLY <2>2, HashGrows
  <2> QED BY <1>2, <2>1, <2>3
<1>4. new.hash = CalculatedHash(new)
  BY <1>2, <1>3, HashOfBlocks
<1>5. FromLines(new, more)
  BY <1>2 DEF FromLines
<1> QED BY <1>2, <1>3, <1>4, <1>5 DEF new

\* A list more, and another list in place of the last.
LEMMA ListsGrow ==
  ASSUME NEW lists \in Seq(ListTypes), NEW list \in ListTypes, NEW P, \A m \in DOMAIN lists : lists[m] \in P, list \in P
  PROVE  /\ \A m \in DOMAIN Append(lists, list) : Append(lists, list)[m] \in P
         /\ Append(lists, list)[Len(Append(lists, list))] = list
         /\ lists # <<>> => /\ \A m \in DOMAIN [lists EXCEPT ![Len(lists)] = list] : [lists EXCEPT ![Len(lists)] = list][m] \in P
                            /\ [lists EXCEPT ![Len(lists)] = list][Len([lists EXCEPT ![Len(lists)] = list])] = list
<1>1. /\ \A m \in DOMAIN Append(lists, list) : Append(lists, list)[m] \in P
      /\ Append(lists, list)[Len(Append(lists, list))] = list
  OBVIOUS
<1>2. ASSUME lists # <<>>
      PROVE  /\ \A m \in DOMAIN [lists EXCEPT ![Len(lists)] = list] : [lists EXCEPT ![Len(lists)] = list][m] \in P
             /\ [lists EXCEPT ![Len(lists)] = list][Len([lists EXCEPT ![Len(lists)] = list])] = list
  <2>1. PICK n \in Nat : n = Len(lists) /\ n \in 1..Len(lists) /\ DOMAIN lists = 1..Len(lists)
    BY <1>2
  <2>2. Len([lists EXCEPT ![n] = list]) = n
    BY <2>1, ExceptSeq
  <2>3. [lists EXCEPT ![n] = list][n] = list /\ \A m \in DOMAIN [lists EXCEPT ![n] = list] : m \in DOMAIN lists /\ (m # n => [lists EXCEPT ![n] = list][m] = lists[m])
    BY <2>1
  <2> QED BY <2>1, <2>2, <2>3
<1> QED BY <1>1, <1>2

Hashed == {list \in ListTypes : IsFiniteSet(Blocks(list)) /\ list.hash = CalculatedHash(list)}

\* The hash that grows with every line is the one computed from the whole list: in every
\* file whose lists do not name an entry twice.
THEOREM HashOfFile ==
  ASSUME NEW lines \in Seq(FileLines), Orderly(lines)
  PROVE  HashesRight(ParseLists(lines))
<1> DEFINE Holds(s) == /\ \A m \in DOMAIN ParseLists(s) : ParseLists(s)[m] \in Hashed
                       /\ LastFrom(ParseLists(s), OpenLines(s))
           Good == {s \in Seq(FileLines) : Orderly(s) => Holds(s)}
<1>1. <<>> \in Good
  <2>1. ParseLists(<<>>) = <<>> /\ <<>> \in Seq(FileLines)
    BY ParseListsOn
  <2> QED BY <2>1 DEF LastFrom
<1>2. ASSUME NEW s \in Seq(FileLines), s \in Good, NEW x \in FileLines PROVE Append(s, x) \in Good
  <2> SUFFICES ASSUME Orderly(Append(s, x)) PROVE Holds(Append(s, x))
    OBVIOUS
  <2>1. PICK lists \in Seq(ListTypes) : lists = ParseLists(s)
    BY ParseListsOn
  <2>2. ParseLists(Append(s, x)) = ParseLine(lists, x)
    BY <2>1, ParseListsOn
  <2>3. PICK open, more : open = OpenLines(s) /\ more = OpenLines(Append(s, x))
    OBVIOUS
  <2>4. /\ Effective(x) => /\ \A o \in open : ~SameKey(o, x) /\ AtomsOf(o) # AtomsOf(x)
                           /\ x \in more
        /\ x.kind # "list" => open \subseteq more
        /\ Orderly(s)
    BY <2>3, OneLineMore
  <2>5. /\ \A m \in DOMAIN lists : lists[m] \in Hashed
        /\ LastFrom(lists, open)
    BY <1>2, <2>1, <2>3, <2>4
  <2>6. SUFFICES /\ \A m \in DOMAIN ParseLine(lists, x) : ParseLine(lists, x)[m] \in Hashed
                 /\ LastFrom(ParseLine(lists, x), more)
    BY <2>2, <2>3
  <2>7. CASE x.kind = "list"
    <3>1. ParseLine(lists, x) = Append(lists, NewList(x.name)) /\ x.name \in Titles
      BY <2>7, LineParsed, LineFields
    <3>2. PICK new \in ListTypes : new = NewList(x.name) /\ Blocks(new) = {} /\ new.hash = {} /\ \A other \in FileLines : ~Names(new, other)
      BY <3>1, NewListTyped
    <3>3. new \in Hashed
      <4>1. IsFiniteSet({}) /\ OddlyHeld({}) = {}
        BY FS_EmptySet DEF OddlyHeld
      <4>2. CalculatedHash(new) = FoldSet(SymDiff, {}, Blocks(new)) /\ FoldSet(SymDiff, {}, {}) = OddlyHeld({})
        BY <4>1, HashOfBlocks, ExclusiveOr
      <4> QED BY <3>2, <4>1, <4>2 DEF Hashed
    <3>4. FromLines(new, more)
      BY <3>2 DEF FromLines
    <3>5. /\ \A m \in DOMAIN Append(lists, new) : Append(lists, new)[m] \in Hashed
          /\ Append(lists, new)[Len(Append(lists, new))] = new
      BY <2>5, <3>3, ListsGrow
    <3> QED BY <3>1, <3>2, <3>4, <3>5 DEF LastFrom
  <2>8. CASE x.kind # "list" /\ (lists = <<>> \/ ~Effective(x))
    <3>1. ParseLine(lists, x) = lists
      BY <2>8, LineParsed
    <3>2. LastFrom(lists, more)
      BY <2>4, <2>5, <2>8 DEF LastFrom, FromLines
    <3> QED BY <2>5, <3>1, <3>2
  <2>9. CASE x.kind # "list" /\ lists # <<>> /\ Effective(x)
    <3>1. ParseLine(lists, x) = [lists EXCEPT ![Len(lists)] = Entered(lists[Len(lists)], x)]
      BY <2>9, LineParsed
    <3>2. Len(lists) \in DOMAIN lists
      BY <2>9
    <3>3. PICK list \in ListTypes : list = lists[Len(lists)] /\ list \in Hashed
      BY <2>5, <3>2 DEF Hashed
    <3>4. FromLines(list, open)
      BY <2>5, <2>9, <3>3 DEF LastFrom
    <3>5. PICK new \in ListTypes : new = Entered(list, x) /\ new \in Hashed /\ FromLines(new, more)
      <4>1. IsFiniteSet(Blocks(list)) /\ list.hash = CalculatedHash(list)
        BY <3>3 DEF Hashed
      <4>2. /\ Entered(list, x) \in ListTypes
            /\ IsFiniteSet(Blocks(Entered(list, x)))
            /\ Entered(list, x).hash = CalculatedHash(Entered(list, x))
            /\ FromLines(Entered(list, x), more)
        BY <2>4, <2>9, <3>4, <4>1, HashKept
      <4> QED BY <4>2 DEF Hashed
    <3>6. PICK lasted : lasted = [lists EXCEPT ![Len(lists)] = new]
      OBVIOUS
    <3>7. (\A m \in DOMAIN lasted : lasted[m] \in Hashed) /\ lasted[Len(lasted)] = new
      BY <2>5, <2>9, <3>5, <3>6, ListsGrow
    <3>8. ParseLine(lists, x) = lasted
      BY <3>1, <3>3, <3>5, <3>6
    <3> QED BY <3>5, <3>7, <3>8 DEF LastFrom
  <2> QED BY <2>7, <2>8, <2>9
<1>3. Good = Seq(FileLines)
  <2> HIDE DEF Holds
  <2>1. Good \in SUBSET Seq(FileLines) /\ <<>> \in Good
    BY <1>1
  <2>2. \A s \in Good, x \in FileLines : Append(s, x) \in Good
    BY <1>2, <2>1
  <2> HIDE DEF Good
  <2> QED BY <2>1, <2>2, Appending
<1>4. Holds(lines)
  <2> HIDE DEF Holds
  <2> QED BY <1>3
<1> QED BY <1>4 DEF HashesRight, Hashed

\* A file that begins with a list has one.
LEMMA FirstListStays ==
  ASSUME NEW lines \in Seq(FileLines), lines # <<>>, lines[1].kind = "list"
  PROVE  1 \in DOMAIN ParseLists(lines)
<1> DEFINE Good == {s \in Seq(FileLines) : s # <<>> /\ s[1].kind = "list" => 1 \in DOMAIN ParseLists(s)}
<1>1. <<>> \in Good
  <2>1. <<>> \in Seq(FileLines)
    OBVIOUS
  <2> QED BY <2>1
<1>2. ASSUME NEW s \in Seq(FileLines), s \in Good, NEW x \in FileLines PROVE Append(s, x) \in Good
  <2>0. Append(s, x) \in Seq(FileLines)
    OBVIOUS
  <2> SUFFICES ASSUME Append(s, x)[1].kind = "list" PROVE 1 \in DOMAIN ParseLists(Append(s, x))
    BY <2>0
  <2>1. PICK lists \in Seq(ListTypes) : lists = ParseLists(s) /\ ParseLists(Append(s, x)) = ParseLine(lists, x)
    BY ParseListsOn
  <2>2. CASE x.kind = "list"
    <3>1. ParseLine(lists, x) = Append(lists, NewList(x.name))
      BY <2>2, LineParsed
    <3>2. \A y : 1 \in DOMAIN Append(lists, y)
      OBVIOUS
    <3> QED BY <2>1, <3>1, <3>2
  <2>3. CASE x.kind # "list"
    <3>1. s # <<>>
      BY <2>3
    <3>2. s[1].kind = "list"
      BY <3>1
    <3>3. 1 \in DOMAIN lists
      BY <1>2, <2>1, <3>1, <3>2
    <3>4. ParseLine(lists, x) = lists \/ ParseLine(lists, x) = [lists EXCEPT ![Len(lists)] = Entered(lists[Len(lists)], x)]
      BY <2>3, LineParsed
    <3>5. \A y, k : DOMAIN [lists EXCEPT ![k] = y] = DOMAIN lists
      OBVIOUS
    <3> QED BY <2>1, <3>3, <3>4, <3>5
  <2> QED BY <2>2, <2>3
<1>3. Good = Seq(FileLines)
  <2>1. Good \in SUBSET Seq(FileLines) /\ <<>> \in Good
    BY <1>1
  <2>2. \A s \in Good, x \in FileLines : Append(s, x) \in Good
    BY <1>2, <2>1
  <2> HIDE DEF Good
  <2> QED BY <2>1, <2>2, Appending
<1> QED BY <1>3

\* The lines the tables are about.
LEMMA PointLineFields ==
  ASSUME NEW line \in PointLines
  PROVE  /\ line \in FileLines /\ line.kind \in {"card", "credit", "limit"}
         /\ line.kind = "card" => line.code \in {1, 2} /\ line.count \in 0..3
         /\ line.kind = "credit" => line.code \in {1, 2} /\ line.key = 9 /\ line.credit \in {0, 3}
         /\ line.kind = "limit" => line.key = 9 /\ line.limit = 5
<1>1. CASE line \in Lines
  BY <1>1 DEF Lines, Limit, FileLines
<1>2. CASE \E code \in {1, 2}, points \in {0, 3} : line = Credit(code, 9, points)
  BY <1>2 DEF Credit, FileLines
<1>3. CASE line = CreditLimit(9, 5)
  BY <1>3 DEF CreditLimit, FileLines
<1> QED BY <1>1, <1>2, <1>3 DEF PointLines

\* Two of them that are about different things share no words.
LEMMA PointLinesApart ==
  ASSUME NEW a \in PointLines, NEW b \in PointLines, ~SameEntry(a, b)
  PROVE  ~SameKey(a, b) /\ AtomsOf(a) # AtomsOf(b)
<1>1. ~SameKey(a, b)
  BY PointLineFields DEF SameKey, SameEntry
<1>2. ASSUME NEW line \in PointLines
      PROVE  /\ line.kind = "card" =>
                  /\ <<line.code, 18>> \in AtomsOf(line) /\ line.code \in {1, 2}
                  /\ \A x : <<x, 18>> \in AtomsOf(line) => x = line.code
                  /\ \A x : <<x, 9>> \notin AtomsOf(line)
             /\ line.kind = "credit" =>
                  /\ <<line.code, 18>> \in AtomsOf(line) /\ line.code \in {1, 2}
                  /\ \A x : <<x, 18>> \in AtomsOf(line) => x = line.code
                  /\ <<9, 9>> \in AtomsOf(line)
             /\ line.kind = "limit" => <<9, 18>> \in AtomsOf(line)
  <2>1. CASE line.kind = "card"
    <3>1. PICK code \in {1, 2}, count \in 0..3 : code = line.code /\ AtomsOf(line) = {<<code, 18>>, <<code, 27 + count>>}
      BY <2>1, PointLineFields DEF AtomsOf, CardAtoms
    <3> QED BY <2>1, <3>1
  <2>2. CASE line.kind = "credit"
    <3>1. PICK code \in {1, 2}, credit \in {0, 3} :
            code = line.code /\ AtomsOf(line) = {atom \in {<<code, 18>>, <<9, 9>>, <<credit, 27>>} : atom[1] # 0}
      BY <2>2, PointLineFields DEF AtomsOf, Words
    <3> QED BY <2>2, <3>1
  <2>3. CASE line.kind = "limit"
    <3>1. AtomsOf(line) = {atom \in {<<9, 18>>, <<5, 9>>, <<CreditMarker, 27>>} : atom[1] # 0}
      BY <2>3, PointLineFields DEF AtomsOf, Words
    <3> QED BY <2>3, <3>1
  <2> QED BY <2>1, <2>2, <2>3, PointLineFields
<1>3. a.kind \in {"card", "credit", "limit"} /\ b.kind \in {"card", "credit", "limit"}
  BY PointLineFields
<1>4. CASE a.kind = b.kind /\ a.kind # "limit"
  <2>1. a.code # b.code
    BY <1>4 DEF SameEntry
  <2>2. <<a.code, 18>> \in AtomsOf(a)
    BY <1>2, <1>3, <1>4
  <2>3. \A x : <<x, 18>> \in AtomsOf(b) => x = b.code
    BY <1>2, <1>3, <1>4
  <2> QED BY <1>1, <2>1, <2>2, <2>3
<1>5. CASE a.kind # b.kind
  <2>1. ASSUME NEW c \in PointLines, NEW d \in PointLines, c.kind = "card", d.kind = "credit", AtomsOf(c) = AtomsOf(d) PROVE FALSE
    <3>1. <<9, 9>> \in AtomsOf(d) /\ <<9, 9>> \notin AtomsOf(c)
      BY <1>2, <2>1
    <3> QED BY <2>1, <3>1
  <2>2. ASSUME NEW c \in PointLines, NEW d \in PointLines, c.kind \in {"card", "credit"}, d.kind = "limit", AtomsOf(c) = AtomsOf(d) PROVE FALSE
    <3>1. <<9, 18>> \in AtomsOf(d)
      BY <1>2, <2>2
    <3>2. c.code \in {1, 2} /\ \A x : <<x, 18>> \in AtomsOf(c) => x = c.code
      BY <1>2, <2>2
    <3> QED BY <2>2, <3>1, <3>2
  <2> QED BY <1>1, <1>3, <1>5, <2>1, <2>2
<1>6. CASE a.kind = b.kind /\ a.kind = "limit"
  BY <1>6 DEF SameEntry
<1> QED BY <1>1, <1>4, <1>5, <1>6

\* A list of lines that are apart is orderly.
LEMMA OrderlyPage ==
  ASSUME NEW page \in Seq(FileLines), NEW name \in Titles,
         \A i, j \in DOMAIN page : i # j => ~SameKey(page[i], page[j]) /\ AtomsOf(page[i]) # AtomsOf(page[j])
  PROVE  /\ <<Named(name)>> \o page \in Seq(FileLines)
         /\ Orderly(<<Named(name)>> \o page)
         /\ 1 \in DOMAIN ParseLists(<<Named(name)>> \o page)
<1>1. Named(name) \in FileLines /\ Named(name).kind = "list"
  BY DEF Named, FileLines
<1>2. PICK head \in Seq(FileLines) : head = <<Named(name)>> /\ Len(head) = 1 /\ head[1] = Named(name)
  <2>1. PICK x \in FileLines : x = Named(name)
    BY <1>1
  <2>2. <<x>> \in Seq(FileLines) /\ Len(<<x>>) = 1 /\ <<x>>[1] = x
    OBVIOUS
  <2> QED BY <2>1, <2>2
<1>3. PICK lines \in Seq(FileLines) : lines = head \o page /\ DOMAIN lines = 1..(1 + Len(page)) /\ lines[1] = Named(name)
                                      /\ \A i \in 2..(1 + Len(page)) : lines[i] = page[i - 1]
  <2>1. PICK all : all = head \o page
    OBVIOUS
  <2>2. all \in Seq(FileLines) /\ Len(all) = 1 + Len(page)
    BY <1>2, <2>1, ConcatProperties
  <2>3. all[1] = head[1]
    BY <1>2, <2>1
  <2>4. \A i \in 2..(1 + Len(page)) : all[i] = page[i - 1]
    BY <1>2, <2>1
  <2>5. DOMAIN all = 1..(1 + Len(page)) /\ all[1] = Named(name)
    BY <1>2, <2>2, <2>3
  <2> QED BY <2>1, <2>2, <2>4, <2>5
<1>4. Orderly(lines)
  <2> SUFFICES ASSUME NEW i \in DOMAIN lines, NEW j \in DOMAIN lines, i < j, Effective(lines[i])
               PROVE  ~SameKey(lines[i], lines[j]) /\ AtomsOf(lines[i]) # AtomsOf(lines[j])
    BY DEF Orderly
  <2>1. i # 1
    BY <1>1, <1>3 DEF Effective
  <2>2. i - 1 \in DOMAIN page /\ j - 1 \in DOMAIN page /\ i - 1 # j - 1 /\ lines[i] = page[i - 1] /\ lines[j] = page[j - 1]
    BY <1>3, <2>1
  <2> QED BY <2>2
<1>5. 1 \in DOMAIN ParseLists(lines)
  <2>1. lines # <<>>
    BY <1>3
  <2> QED BY <1>1, <1>3, <2>1, FirstListStays
<1> QED BY <1>2, <1>3, <1>4, <1>5

\* The hash of every page.
LEMMA HashesHold == \A size \in DOMAIN HashTable : HashTable[size]
<1>1. ASSUME NEW page \in PointPages
      PROVE  ParseLists(<<Named("one")>> \o page)[1].hash = CalculatedHash(ParseLists(<<Named("one")>> \o page)[1])
  <2>1. page \in Seq(PointLines)
    <3>1. page \in UNION {[1..m -> PointLines] : m \in 0..3}
      BY DEF PointPages, BoundedSeq, SeqOf
    <3>2. PICK m \in 0..3 : page \in [1..m -> PointLines]
      BY <3>1
    <3> QED BY <3>2
  <2>2. page \in Seq(FileLines) /\ \A i \in DOMAIN page : page[i] \in PointLines
    <3>1. \A line \in PointLines : line \in FileLines
      BY PointLineFields
    <3> QED BY <2>1, <3>1
  <2>3. \A i, j \in DOMAIN page : i # j => ~SameKey(page[i], page[j]) /\ AtomsOf(page[i]) # AtomsOf(page[j])
    BY <2>2, PointLinesApart DEF PointPages
  <2>4. PICK lines \in Seq(FileLines) : lines = <<Named("one")>> \o page /\ Orderly(lines) /\ 1 \in DOMAIN ParseLists(lines)
    <3>1. "one" \in Titles
      BY DEF Titles
    <3> QED BY <2>2, <2>3, <3>1, OrderlyPage
  <2>5. HashesRight(ParseLists(lines))
    BY <2>4, HashOfFile
  <2> QED BY <2>4, <2>5 DEF HashesRight
<1>2. ASSUME NEW size \in DOMAIN HashTable PROVE HashTable[size]
  <2>1. \A page \in {p \in PointPages : Len(p) = size} :
          ParseLists(<<Named("one")>> \o page)[1].hash = CalculatedHash(ParseLists(<<Named("one")>> \o page)[1])
    BY <1>1
  <2> QED BY <2>1 DEF HashTable
<1> QED BY <1>2

\* The least of some numbers.
LEMMA Lowest ==
  ASSUME NEW t \in SUBSET Nat, t # {}
  PROVE  Min(t) \in t /\ \A y \in t : Min(t) <= y
<1>1. PICK m \in t : \A k \in t : <<k, m>> \notin OpToRel(<, Nat)
  BY WFMin, NatLessThanWellFounded, Zenon
<1>2. \A k \in t : ~(k < m)
  BY <1>1, Zenon DEF OpToRel
<1>3. \A k \in t : m <= k
  BY <1>2
<1> QED BY <1>3 DEF Min

\* Of a list of limits the hash tells the entries.
CardLists == {list \in Hashed : list.credit_limits = <<>> /\ list.credits = <<>>}

LEMMA HashOfCards ==
  ASSUME NEW list \in CardLists
  PROVE  /\ \A code \in Nat : code \in DOMAIN list.content <=> <<code, 18>> \in list.hash
         /\ \A code \in DOMAIN list.content : \A count \in 0..2 : list.content[code] = count <=> <<code, 27 + count>> \in list.hash
         /\ \A code \in DOMAIN list.content : code \in Nat /\ list.content[code] \in 0..2
         /\ <<0, 0>> \notin list.hash
<1>1. PICK content \in Maps(Nat, 0..2) : content = list.content
  BY ListFields DEF CardLists, Hashed
<1>2. \A code \in DOMAIN content : code \in Nat /\ content[code] \in 0..2
  BY Inserted
<1>3. Blocks(list) = CardBlocks(content)
  <2>1. LimitBlocks(<<>>) = {} /\ CreditBlocks(<<>>) = {}
    BY DEF LimitBlocks, CreditBlocks
  <2> QED BY <1>1, <2>1 DEF Blocks, CardLists
<1>4. \A x, y \in CardBlocks(content) : x # y => x \cap y = {}
  <2> SUFFICES ASSUME NEW c \in DOMAIN content, NEW d \in DOMAIN content, CardAtoms(c, content[c]) # CardAtoms(d, content[d])
               PROVE  CardAtoms(c, content[c]) \cap CardAtoms(d, content[d]) = {}
    BY DEF CardBlocks
  <2>1. c # d
    OBVIOUS
  <2> QED BY <2>1 DEF CardAtoms
<1>5. list.hash = UNION CardBlocks(content)
  <2>1. IsFiniteSet(CardBlocks(content)) /\ list.hash = FoldSet(SymDiff, {}, CardBlocks(content))
    BY <1>3, HashOfBlocks DEF CardLists, Hashed
  <2>2. PICK T : T = CardBlocks(content)
    OBVIOUS
  <2> QED BY <1>4, <2>1, <2>2, HashOfApart
<1>6. \A atom : atom \in list.hash <=> \E code \in DOMAIN content : atom = <<code, 18>> \/ atom = <<code, 27 + content[code]>>
  <2>1. \A atom : atom \in UNION CardBlocks(content) <=> \E code \in DOMAIN content : atom \in CardAtoms(code, content[code])
    BY DEF CardBlocks
  <2> QED BY <1>5, <2>1 DEF CardAtoms
<1>7. ASSUME NEW code \in Nat PROVE code \in DOMAIN content <=> <<code, 18>> \in list.hash
  <2>1. ASSUME NEW other \in DOMAIN content, <<code, 18>> = <<other, 18>> \/ <<code, 18>> = <<other, 27 + content[other]>> PROVE code = other
    BY <2>1
  <2> QED BY <1>6, <2>1
<1>8. ASSUME NEW code \in DOMAIN content, NEW count \in 0..2 PROVE content[code] = count <=> <<code, 27 + count>> \in list.hash
  <2>1. ASSUME NEW other \in DOMAIN content, <<code, 27 + count>> = <<other, 18>> \/ <<code, 27 + count>> = <<other, 27 + content[other]>>
        PROVE content[code] = count
    <3>1. <<code, 27 + count>> # <<other, 18>>
      BY <1>2
    <3>2. code = other /\ 27 + count = 27 + content[other]
      BY <2>1, <3>1
    <3> QED BY <1>2, <3>2
  <2> QED BY <1>6, <2>1
<1>9. <<0, 0>> \notin list.hash
  <2>1. ASSUME NEW other \in DOMAIN content PROVE <<0, 0>> # <<other, 18>> /\ <<0, 0>> # <<other, 27 + content[other]>>
    BY <1>2
  <2> QED BY <1>6, <2>1
<1> QED BY <1>1, <1>2, <1>7, <1>8, <1>9

LEMMA SameHashSameCards ==
  ASSUME NEW one \in CardLists, NEW other \in CardLists, one.hash = other.hash
  PROVE  one.content = other.content
<1>1. PICK c \in Maps(Nat, 0..2), d \in Maps(Nat, 0..2) : c = one.content /\ d = other.content
  BY ListFields DEF CardLists, Hashed
<1>2. DOMAIN c = DOMAIN d
  BY <1>1, HashOfCards
<1>3. ASSUME NEW code \in DOMAIN c PROVE c[code] = d[code]
  <2>1. d[code] \in 0..2 /\ (d[code] = d[code] <=> <<code, 27 + d[code]>> \in other.hash)
    BY <1>1, <1>2, HashOfCards
  <2>2. c[code] = d[code] <=> <<code, 27 + d[code]>> \in one.hash
    BY <1>1, <2>1, HashOfCards
  <2> QED BY <2>1, <2>2
<1>4. \E C, D : c \in [C -> 0..2] /\ d \in [D -> 0..2]
  BY DEF Maps
<1> QED BY <1>1, <1>2, <1>3, <1>4

\* A file of limits only holds lists of limits only.
OnlyLimits(lines) == \A i \in DOMAIN lines : lines[i].kind \in {"list", "card"}
Uncredited == {list \in ListTypes : list.credit_limits = <<>> /\ list.credits = <<>>}

LEMMA LimitFiles ==
  ASSUME NEW lines \in Seq(FileLines), OnlyLimits(lines)
  PROVE  \A m \in DOMAIN ParseLists(lines) : ParseLists(lines)[m] \in Uncredited
<1> DEFINE Holds(s) == \A m \in DOMAIN ParseLists(s) : ParseLists(s)[m] \in Uncredited
           Good == {s \in Seq(FileLines) : OnlyLimits(s) => Holds(s)}
<1>1. <<>> \in Good
  <2>1. ParseLists(<<>>) = <<>> /\ <<>> \in Seq(FileLines)
    BY ParseListsOn
  <2> QED BY <2>1
<1>2. ASSUME NEW s \in Seq(FileLines), s \in Good, NEW x \in FileLines PROVE Append(s, x) \in Good
  <2>0. Append(s, x) \in Seq(FileLines)
    OBVIOUS
  <2> SUFFICES ASSUME OnlyLimits(Append(s, x)) PROVE Holds(Append(s, x))
    BY <2>0
  <2>1. PICK lists \in Seq(ListTypes) : lists = ParseLists(s) /\ ParseLists(Append(s, x)) = ParseLine(lists, x)
    BY ParseListsOn
  <2>2. OnlyLimits(s) /\ x.kind \in {"list", "card"}
    <3>1. /\ Len(s) \in Nat /\ DOMAIN s = 1..Len(s) /\ DOMAIN Append(s, x) = 1..(Len(s) + 1)
          /\ Append(s, x)[Len(s) + 1] = x /\ \A i \in 1..Len(s) : Append(s, x)[i] = s[i]
      OBVIOUS
    <3>2. Len(s) + 1 \in DOMAIN Append(s, x) /\ \A i \in 1..Len(s) : i \in DOMAIN Append(s, x)
      BY <3>1
    <3> QED BY <3>1, <3>2 DEF OnlyLimits
  <2>3. \A m \in DOMAIN lists : lists[m] \in Uncredited
    BY <1>2, <2>1, <2>2
  <2>4. SUFFICES \A m \in DOMAIN ParseLine(lists, x) : ParseLine(lists, x)[m] \in Uncredited
    BY <2>1
  <2>5. CASE x.kind = "list"
    <3>1. PICK new \in ListTypes : new = NewList(x.name)
      BY <2>5, LineFields, NewListTyped
    <3>2. new \in Uncredited
      BY <3>1 DEF Uncredited, NewList
    <3>3. ParseLine(lists, x) = Append(lists, new)
      BY <2>5, <3>1, LineParsed
    <3> QED BY <2>3, <3>2, <3>3, ListsGrow
  <2>6. CASE x.kind # "list" /\ (lists = <<>> \/ ~Effective(x))
    BY <2>3, <2>6, LineParsed
  <2>7. CASE x.kind # "list" /\ lists # <<>> /\ Effective(x)
    <3>1. ParseLine(lists, x) = [lists EXCEPT ![Len(lists)] = Entered(lists[Len(lists)], x)]
      BY <2>7, LineParsed
    <3>2. PICK list \in Uncredited : list = lists[Len(lists)]
      BY <2>3, <2>7
    <3>3. PICK code \in Nat, count \in 0..2 : Entered(list, x) = PushCard(list, code, count)
      BY <2>2, <2>7, LineFields DEF Effective, Entered
    <3>4. PICK new \in ListTypes : new = PushCard(list, code, count) /\ new \in Uncredited
      <4>1. list \in ListTypes
        BY DEF Uncredited
      <4>2. /\ PushCard(list, code, count) \in ListTypes
            /\ PushCard(list, code, count).credit_limits = list.credit_limits
            /\ PushCard(list, code, count).credits = list.credits
        BY ONLY <4>1, code \in Nat, count \in 0..2, CardPushed
      <4> QED BY <4>2 DEF Uncredited
    <3>5. ParseLine(lists, x) = [lists EXCEPT ![Len(lists)] = new]
      BY <3>1, <3>2, <3>3, <3>4
    <3> QED BY <2>3, <2>7, <3>4, <3>5, ListsGrow
  <2> QED BY <2>5, <2>6, <2>7
<1>3. Good = Seq(FileLines)
  <2> HIDE DEF Holds
  <2>1. Good \in SUBSET Seq(FileLines) /\ <<>> \in Good
    BY <1>1
  <2>2. \A s \in Good, x \in FileLines : Append(s, x) \in Good
    BY <1>2, <2>1
  <2> HIDE DEF Good
  <2> QED BY <2>1, <2>2, Appending
<1> QED BY <1>3

\* A room that names its list by the hash of it plays by the entries of that list, although
\* the first list of that hash is taken: in every file of limits whose lists do not name a
\* card twice.
THEOREM ListFoundByHash ==
  ASSUME NEW lines \in Seq(FileLines), Orderly(lines), OnlyLimits(lines)
  PROVE  \A i \in DOMAIN Installed(ParseLists(lines)) :
           ListByHash(Installed(ParseLists(lines)), Installed(ParseLists(lines))[i].hash).content
             = Installed(ParseLists(lines))[i].content
<1>1. PICK read \in Seq(ListTypes) : read = ParseLists(lines)
  BY ParseListsOn
<1>2. \A m \in DOMAIN read : read[m] \in CardLists
  <2>1. HashesRight(read) /\ \A m \in DOMAIN read : read[m] \in Uncredited
    BY <1>1, HashOfFile, LimitFiles
  <2> QED BY <2>1 DEF HashesRight, Uncredited, CardLists, Hashed
<1>3. PICK lists : lists = Installed(read)
  OBVIOUS
<1>7. PICK n \in Nat : /\ Len(lists) = n /\ DOMAIN lists = 1..n
                       /\ \A i \in 1..n : lists[i] \in CardLists \/ lists[i] = NoList
  <2>1. CASE read = <<>>
    <3>1. lists = <<>>
      BY <1>3, <2>1 DEF Installed
    <3>2. Len(lists) = 0 /\ DOMAIN lists = 1..0 /\ \A i \in 1..0 : FALSE
      BY <3>1
    <3> QED BY <3>2
  <2>2. CASE read # <<>>
    <3>1. lists = Append(read, NoList)
      BY <1>3, <2>2 DEF Installed
    <3>2. PICK k \in Nat : k = Len(read) /\ DOMAIN read = 1..k
      OBVIOUS
    <3>3. /\ Len(lists) = k + 1 /\ DOMAIN lists = 1..(k + 1)
          /\ lists[k + 1] = NoList /\ \A i \in 1..k : lists[i] = read[i]
      BY <3>1, <3>2
    <3>4. \A i \in 1..(k + 1) : lists[i] \in CardLists \/ lists[i] = NoList
      BY <1>2, <3>2, <3>3
    <3>5. k + 1 \in Nat
      OBVIOUS
    <3> QED BY <3>3, <3>4, <3>5
  <2> QED BY <2>1, <2>2
<1>4. NoList.hash = {<<0, 0>>} /\ NoList.content = <<>>
  BY DEF NoList, NewList
<1>5. \A list \in CardLists : list.hash # {<<0, 0>>}
  BY HashOfCards
<1>6. ASSUME NEW i \in 1..n PROVE ListByHash(lists, lists[i].hash).content = lists[i].content
  <2> DEFINE I == {j \in 1..n : lists[j].hash = lists[i].hash}
  <2>1. I \in SUBSET Nat /\ i \in I
    OBVIOUS
  <2>2. PICK j \in I : j = Min(I)
    <3> HIDE DEF I
    <3> QED BY <2>1, Lowest
  <2>3. SelectInSeq(lists, LAMBDA list : list.hash = lists[i].hash) = j
    <3>1. I # {} /\ I = {k \in 1..Len(lists) : lists[k].hash = lists[i].hash}
      BY <1>7, <2>1
    <3> HIDE DEF I
    <3> QED BY <2>2, <3>1 DEF SelectInSeq
  <2>4. j # 0 /\ j \in 1..n /\ lists[j].hash = lists[i].hash
    OBVIOUS
  <2>5. ListByHash(lists, lists[i].hash) = lists[j]
    BY <2>3, <2>4 DEF ListByHash
  <2>6. lists[j].content = lists[i].content
    BY <1>4, <1>5, <1>7, <2>4, SameHashSameCards
  <2> QED BY <2>5, <2>6
<1> QED BY <1>1, <1>3, <1>6, <1>7

\* Two files, the second of which begins with a list.
LEMMA FilesJoined ==
  ASSUME NEW a \in Seq(FileLines), NEW b \in Seq(FileLines), Orderly(a), Orderly(b),
         b # <<>>, b[1].kind = "list"
  PROVE  Orderly(a \o b)
<1>1. PICK all \in Seq(FileLines), n \in Nat, k \in Nat :
        /\ all = a \o b /\ n = Len(a) /\ k = Len(b) /\ DOMAIN a = 1..n /\ DOMAIN b = 1..k /\ DOMAIN all = 1..(n + k)
        /\ (\A i \in 1..n : all[i] = a[i]) /\ \A i \in (n + 1)..(n + k) : all[i] = b[i - n]
  <2>0. PICK all : all = a \o b
    OBVIOUS
  <2>1. all \in Seq(FileLines) /\ Len(all) = Len(a) + Len(b)
          /\ \A i \in 1..(Len(a) + Len(b)) : all[i] = IF i <= Len(a) THEN a[i] ELSE b[i - Len(a)]
    BY <2>0, ConcatProperties
  <2>2. PICK n \in Nat, k \in Nat : n = Len(a) /\ k = Len(b) /\ DOMAIN a = 1..n /\ DOMAIN b = 1..k
    OBVIOUS
  <2>3. (\A i \in 1..n : all[i] = a[i]) /\ \A i \in (n + 1)..(n + k) : all[i] = b[i - n]
    BY <2>1, <2>2
  <2>4. DOMAIN all = 1..(n + k)
    BY <2>1, <2>2
  <2> QED BY <2>0, <2>1, <2>2, <2>3, <2>4
<1>2. 1 <= k
  BY <1>1
<1> SUFFICES Orderly(all)
  BY <1>1
<1> SUFFICES ASSUME NEW i \in DOMAIN all, NEW j \in DOMAIN all, i < j, Effective(all[i]), Effective(all[j]), InOneList(all, i, j)
             PROVE  ~SameKey(all[i], all[j]) /\ AtomsOf(all[i]) # AtomsOf(all[j])
  BY DEF Orderly
<1>6. i \in 1..(n + k) /\ j \in 1..(n + k)
  BY <1>1
<1>3. CASE j <= n
  <2>1. i \in 1..n /\ j \in 1..n /\ all[i] = a[i] /\ all[j] = a[j]
    BY <1>1, <1>3, <1>6
  <2>2. InOneList(a, i, j)
    <3>1. \A m \in i..j : m \in 1..n /\ all[m] = a[m]
      BY <1>1, <2>1
    <3> QED BY <3>1 DEF InOneList
  <2> QED BY <1>1, <2>1, <2>2 DEF Orderly
<1>4. CASE n < i
  <2>1. i - n \in 1..k /\ j - n \in 1..k /\ i - n < j - n /\ all[i] = b[i - n] /\ all[j] = b[j - n]
    <3>1. i \in (n + 1)..(n + k) /\ j \in (n + 1)..(n + k) /\ i - n \in 1..k /\ j - n \in 1..k /\ i - n < j - n
      BY <1>4, <1>6
    <3> QED BY <1>1, <3>1
  <2>2. InOneList(b, i - n, j - n)
    <3>1. ASSUME NEW m \in (i - n)..(j - n) PROVE m + n \in i..j /\ all[m + n] = b[m]
      <4>0. i \in Int /\ j \in Int /\ n \in Int /\ k \in Int /\ n < i /\ j <= n + k
        BY <1>4, <1>6
      <4>1. m + n \in (n + 1)..(n + k) /\ (m + n) - n = m /\ m + n \in i..j
        BY ONLY <4>0, m \in (i - n)..(j - n)
      <4> QED BY <1>1, <4>1
    <3> QED BY <3>1 DEF InOneList
  <2>3. PICK f, g : f = i - n /\ g = j - n
    OBVIOUS
  <2>4. f \in DOMAIN b /\ g \in DOMAIN b /\ f < g /\ Effective(b[f]) /\ Effective(b[g]) /\ InOneList(b, f, g)
    BY <1>1, <2>1, <2>2, <2>3
  <2>5. ~SameKey(b[f], b[g]) /\ AtomsOf(b[f]) # AtomsOf(b[g])
    BY ONLY <2>4, Orderly(b) DEF Orderly
  <2> QED BY <2>1, <2>3, <2>5
<1>5. CASE i <= n /\ n < j
  <2>1. n + 1 \in i..j /\ n + 1 \in (n + 1)..(n + k) /\ (n + 1) - n = 1
    BY <1>2, <1>5, <1>6
  <2>2. all[n + 1].kind = "list"
    BY <1>1, <2>1
  <2> QED BY <2>1, <2>2 DEF InOneList
<1> QED BY <1>3, <1>4, <1>5

\* A page of the tables, as a list of its own.
LEMMA PageRead ==
  ASSUME NEW page \in Pages, NEW name \in Titles
  PROVE  /\ page \in Seq(FileLines)
         /\ <<Named(name)>> \in Seq(FileLines)
         /\ <<Named(name)>> \o page \in Seq(FileLines)
         /\ Orderly(<<Named(name)>> \o page)
         /\ <<Named(name)>> \o page # <<>>
         /\ (<<Named(name)>> \o page)[1].kind = "list"
         /\ OnlyLimits(<<Named(name)>> \o page)
<1>1. PICK m \in 0..2 : page \in [1..m -> Lines]
  BY DEF Pages, BoundedSeq, SeqOf
<1>2. \A line \in Lines : line \in PointLines /\ line \in FileLines /\ line.kind = "card"
  BY PointLineFields DEF PointLines, Lines, Limit
<1>3. page \in Seq(FileLines) /\ DOMAIN page = 1..m /\ Len(page) = m /\ \A i \in 1..m : page[i] \in PointLines /\ page[i].kind = "card"
  BY <1>1, <1>2
<1>4. ASSUME NEW i \in DOMAIN page, NEW j \in DOMAIN page, i # j
      PROVE  ~SameKey(page[i], page[j]) /\ AtomsOf(page[i]) # AtomsOf(page[j])
  <2>1. m = 2 /\ ((i = 1 /\ j = 2) \/ (i = 2 /\ j = 1))
    BY <1>1, <1>3, <1>4
  <2>2. page[1].code # page[2].code
    BY <1>3, <2>1 DEF Pages
  <2>3. ~SameEntry(page[i], page[j])
    BY <1>3, <1>4, <2>1, <2>2 DEF SameEntry
  <2> QED BY <1>3, <2>1, <2>3, PointLinesApart
<1>5. PICK head, all : head = <<Named(name)>> /\ all = head \o page
  OBVIOUS
<1>6. all \in Seq(FileLines) /\ Orderly(all)
  BY <1>3, <1>4, <1>5, OrderlyPage
<1>7. Named(name) \in FileLines /\ Named(name).kind = "list"
  BY DEF Named, FileLines
<1>8. PICK x \in FileLines : x = Named(name)
  BY <1>7
<1>9. head = <<x>> /\ head \in Seq(FileLines) /\ Len(head) = 1 /\ head[1] = x
  BY <1>5, <1>8
<1>10. /\ Len(all) = 1 + m
       /\ \A i \in 1..(1 + m) : all[i] = IF i <= 1 THEN head[i] ELSE page[i - 1]
  BY <1>3, <1>5, <1>9, ConcatProperties
<1>11. all # <<>> /\ all[1].kind = "list"
  BY <1>6, <1>7, <1>8, <1>9, <1>10
<1>12. OnlyLimits(all)
  <2> SUFFICES ASSUME NEW i \in 1..(1 + m) PROVE all[i].kind \in {"list", "card"}
    BY <1>6, <1>10 DEF OnlyLimits
  <2>1. CASE i = 1
    BY <1>11, <2>1
  <2>2. CASE i # 1
    <3>1. i - 1 \in 1..m /\ all[i] = page[i - 1]
      BY <1>10, <2>2
    <3> QED BY <1>3, <3>1
  <2> QED BY <2>1, <2>2
<1> QED BY <1>3, <1>5, <1>6, <1>9, <1>11, <1>12

\* Every list of every such file is found by its hash.
LEMMA FilesHold == \A size \in DOMAIN FileTable : FileTable[size]
<1>1. ASSUME NEW one \in Pages, NEW two \in Pages
      PROVE  LET lists == Installed(ParseLists(<<Named("one")>> \o one \o <<Named("two")>> \o two)) IN
             \A i \in DOMAIN lists : ListByHash(lists, lists[i].hash).content = lists[i].content
  <2>1. "one" \in Titles /\ "two" \in Titles
    BY DEF Titles
  <2>2. PICK a, b, c, d : a = <<Named("one")>> /\ b = one /\ c = <<Named("two")>> /\ d = two
    OBVIOUS
  <2>3. /\ a \in Seq(FileLines) /\ b \in Seq(FileLines) /\ c \in Seq(FileLines) /\ d \in Seq(FileLines)
        /\ a \o b \in Seq(FileLines) /\ Orderly(a \o b) /\ OnlyLimits(a \o b)
        /\ c \o d \in Seq(FileLines) /\ Orderly(c \o d) /\ OnlyLimits(c \o d)
        /\ c \o d # <<>> /\ (c \o d)[1].kind = "list"
    BY <2>1, <2>2, PageRead
  <2>4. PICK p \in Seq(FileLines), q \in Seq(FileLines) : p = a \o b /\ q = c \o d
    BY <2>3
  <2>5. ((a \o b) \o c) \o d = p \o q
    <3>1. PICK z : z = a \o b
      OBVIOUS
    <3>2. z \in Seq(FileLines) /\ c \in Seq(FileLines) /\ d \in Seq(FileLines)
      BY <2>3, <3>1
    <3>3. (z \o c) \o d = z \o (c \o d)
      BY ONLY <3>2, ConcatAssociative
    <3> QED BY <2>4, <3>1, <3>3
  <2>6. PICK lines : lines = p \o q
    OBVIOUS
  <2>7. /\ lines \in Seq(FileLines) /\ Len(lines) = Len(p) + Len(q)
        /\ \A i \in 1..(Len(p) + Len(q)) : lines[i] = IF i <= Len(p) THEN p[i] ELSE q[i - Len(p)]
    BY <2>6, ConcatProperties
  <2>8. Orderly(lines)
    BY <2>3, <2>4, <2>6, FilesJoined
  <2>9. OnlyLimits(lines)
    <3> SUFFICES ASSUME NEW i \in 1..(Len(p) + Len(q)) PROVE lines[i].kind \in {"list", "card"}
      BY <2>7 DEF OnlyLimits
    <3>1. Len(p) \in Nat /\ Len(q) \in Nat /\ DOMAIN p = 1..Len(p) /\ DOMAIN q = 1..Len(q)
      OBVIOUS
    <3>2. CASE i <= Len(p)
      <4>1. i \in DOMAIN p /\ lines[i] = p[i]
        BY <2>7, <3>1, <3>2
      <4>2. OnlyLimits(p)
        BY <2>3, <2>4
      <4> QED BY ONLY <4>1, <4>2 DEF OnlyLimits
    <3>3. CASE ~(i <= Len(p))
      <4>1. i - Len(p) \in DOMAIN q
        BY <3>1, <3>3
      <4> QED BY <2>3, <2>4, <2>7, <3>1, <3>3, <4>1 DEF OnlyLimits
    <3> QED BY <3>2, <3>3
  <2>10. \A i \in DOMAIN Installed(ParseLists(lines)) :
           ListByHash(Installed(ParseLists(lines)), Installed(ParseLists(lines))[i].hash).content
             = Installed(ParseLists(lines))[i].content
    BY <2>7, <2>8, <2>9, ListFoundByHash
  <2>11. lines = <<Named("one")>> \o one \o <<Named("two")>> \o two
    BY <2>2, <2>5, <2>6
  <2> QED BY <2>10, <2>11
<1>2. ASSUME NEW size \in DOMAIN FileTable PROVE FileTable[size]
  BY <1>1 DEF FileTable
<1> QED BY <1>2

\* The text form of every deck.
LEMMA TextsHold == \A size \in DOMAIN TextTable : TextTable[size]
<1>1. \A deck \in LoadedDecks : Parsed(Printed(deck)) = deck
  BY SentDeck, LoadedDeck, ReadBack DEF LoadedDecks
<1>2. ASSUME NEW size \in DOMAIN TextTable PROVE TextTable[size]
  BY <1>1 DEF TextTable
<1> QED BY <1>2

\* What is played with is clean: from the type of the room's players alone, as every deck
\* is loaded before it is played.
LEMMA PlayedClean == TypeOK => PlayedIsClean
<1> SUFFICES ASSUME TypeOK, NEW s \in Seats, Occupied(s) PROVE Clean(Loaded(players[s].deck))
  BY DEF PlayedIsClean
<1>1. PICK deck \in Decks : deck = players[s].deck
  <2>1. players[s] \in SlotRecords \cup {EmptySlot}
    BY DEF TypeOK
  <2>2. players[s] \in SlotRecords
    BY <2>1 DEF Occupied, EmptySlot
  <2> QED BY <2>2 DEF SlotRecords
<1>2. deck \in DeckTypes /\ deck.extra = <<>>
  <2>1. deck \in [main : Seq(Nat), extra : {<<>>}, side : Seq(Nat)]
    BY DecksAssumption
  <2>2. deck.main \in Seq(Nat) /\ deck.extra = <<>> /\ deck.side \in Seq(Nat)
        /\ deck = [main |-> deck.main, extra |-> deck.extra, side |-> deck.side]
    BY <2>1
  <2>3. <<>> \in Seq(Nat)
    OBVIOUS
  <2> QED BY <2>2, <2>3 DEF DeckTypes
<1> QED BY <1>1, <1>2, LoadedDeck

\* All that is read.
LEMMA ReadRight == TypeOK => ReadAsMeant
BY PlayedClean, TextsHold, FilesHold, HashesHold
   DEF ReadAsMeant, PrintsAndParses, HostListIsPlayed, HashIsOfContent

-----------------------------------------------------------------------------
(* Counting cards and adding up points.                                     *)

\* The sum over some of the places.
LEMMA SumOfPart ==
  ASSUME NEW T, IsFiniteSet(T), NEW f \in [T -> Int], NEW U \in SUBSET T, NEW g \in [U -> Int], \A x \in U : g[x] = f[x]
  PROVE  SumFunction(g) = Adder(f, T)[U]
<1> DEFINE a == Adder(f, T)
           b == Adder(g, U)
           Good == {s \in SUBSET U : a[s] = b[s]}
<1>0. IsFiniteSet(U)
  BY FS_Subset
<1>1. /\ \A s \in SUBSET T : a[s] \in Int
      /\ a[{}] = 0
      /\ \A s \in SUBSET T : \A x \in s : a[s] = f[x] + a[s \ {x}]
  BY SumSplits
<1>2. /\ SumFunction(g) = b[U]
      /\ \A s \in SUBSET U : b[s] \in Int
      /\ b[{}] = 0
      /\ \A s \in SUBSET U : \A x \in s : b[s] = g[x] + b[s \ {x}]
  BY <1>0, SumSplits
<1> HIDE DEF a, b
<1>3. {} \in Good
  BY <1>1, <1>2
<1>4. ASSUME NEW s \in SUBSET U, NEW x \in s, s \ {x} \in Good PROVE s \in Good
  <2>1. a[s] = f[x] + a[s \ {x}] /\ b[s] = g[x] + b[s \ {x}] /\ g[x] = f[x] /\ a[s \ {x}] = b[s \ {x}]
    BY <1>1, <1>2, <1>4
  <2> QED BY <2>1
<1>5. U \in Good
  <2>1. Good \in SUBSET SUBSET U
    OBVIOUS
  <2> HIDE DEF Good
  <2> QED BY <1>0, <1>3, <1>4, <2>1, Growing
<1> QED BY <1>2, <1>5 DEF a, b

\* What the cards of a sequence weigh, and how many of them are in a set.
Weight(s, w) == SumFunction([i \in DOMAIN s |-> w[s[i]]])
Occ(s, S) == Cardinality({i \in DOMAIN s : s[i] \in S})

\* One card more.
LEMMA AppendedIs ==
  ASSUME NEW s \in Seq(Nat), NEW x \in Nat
  PROVE  /\ Append(s, x) \in Seq(Nat) /\ Len(s) \in Nat /\ DOMAIN s = 1..Len(s)
         /\ DOMAIN Append(s, x) = 1..(Len(s) + 1) /\ Append(s, x)[Len(s) + 1] = x
         /\ \A i \in 1..Len(s) : Append(s, x)[i] = s[i] /\ s[i] \in Nat
BY AppendProperties

LEMMA WeightOn ==
  ASSUME NEW w, \A x \in Nat : w[x] \in Nat
  PROVE  /\ Weight(<<>>, w) = 0
         /\ \A s \in Seq(Nat) : Weight(s, w) \in Int
         /\ \A s \in Seq(Nat), x \in Nat : Weight(Append(s, x), w) = Weight(s, w) + w[x]
<1>1. ASSUME NEW s \in Seq(Nat)
      PROVE  /\ IsFiniteSet(DOMAIN s) /\ [i \in DOMAIN s |-> w[s[i]]] \in [DOMAIN s -> Int]
             /\ Weight(s, w) = Adder([i \in DOMAIN s |-> w[s[i]]], DOMAIN s)[DOMAIN s]
             /\ Weight(s, w) \in Int
  <2>1. Len(s) \in Nat /\ DOMAIN s = 1..Len(s) /\ \A i \in DOMAIN s : s[i] \in Nat
    BY ONLY s \in Seq(Nat)
  <2>2. IsFiniteSet(DOMAIN s)
    BY <2>1, FS_Interval
  <2>3. PICK f : f = [i \in DOMAIN s |-> w[s[i]]]
    OBVIOUS
  <2>4. f \in [DOMAIN s -> Int]
    BY <2>1, <2>3
  <2>5. SumFunction(f) = Adder(f, DOMAIN s)[DOMAIN s] /\ Adder(f, DOMAIN s)[DOMAIN s] \in Int
    BY <2>2, <2>4, SumSplits
  <2> QED BY <2>2, <2>3, <2>4, <2>5 DEF Weight
<1>2. Weight(<<>>, w) = 0
  <2>1. PICK s \in Seq(Nat) : s = <<>> /\ DOMAIN s = {}
    <3>1. <<>> \in Seq(Nat) /\ DOMAIN <<>> = {}
      BY NoEntry, EmptySeq
    <3> QED BY ONLY <3>1
  <2>2. PICK f : f = [i \in DOMAIN s |-> w[s[i]]]
    OBVIOUS
  <2>3. IsFiniteSet(DOMAIN s) /\ f \in [DOMAIN s -> Int] /\ Weight(s, w) = Adder(f, DOMAIN s)[DOMAIN s]
    BY <1>1, <2>2
  <2>4. Adder(f, DOMAIN s)[{}] = 0
    BY <2>3, SumSplits
  <2> QED BY <2>1, <2>3, <2>4
<1>3. ASSUME NEW s \in Seq(Nat), NEW x \in Nat PROVE Weight(Append(s, x), w) = Weight(s, w) + w[x]
  <2>1. PICK n \in Nat, more \in Seq(Nat) : more = Append(s, x) /\ n = Len(s)
    <3>1. Len(s) \in Nat /\ Append(s, x) \in Seq(Nat)
      BY AppendedIs
    <3> QED BY ONLY <3>1
  <2>2. /\ more \in Seq(Nat) /\ DOMAIN s = 1..n /\ DOMAIN more = 1..(n + 1) /\ more[n + 1] = x
        /\ \A i \in 1..n : more[i] = s[i]
    BY <2>1, AppendedIs
  <2>3. PICK f, g : f = [i \in DOMAIN more |-> w[more[i]]] /\ g = [i \in DOMAIN s |-> w[s[i]]]
    OBVIOUS
  <2>4. /\ IsFiniteSet(1..(n + 1)) /\ f \in [1..(n + 1) -> Int] /\ Weight(more, w) = Adder(f, 1..(n + 1))[1..(n + 1)]
        /\ g \in [1..n -> Int] /\ Weight(s, w) = SumFunction(g)
    BY <1>1, <2>2, <2>3 DEF Weight
  <2>5. 1..n \in SUBSET (1..(n + 1)) /\ n + 1 \in 1..(n + 1) /\ (1..(n + 1)) \ {n + 1} = 1..n
        /\ 1..(n + 1) \in SUBSET (1..(n + 1))
    BY ONLY n \in Nat
  <2>6. Adder(f, 1..(n + 1))[1..(n + 1)] = f[n + 1] + Adder(f, 1..(n + 1))[1..n]
    <3>1. \A t \in SUBSET (1..(n + 1)) : \A y \in t : Adder(f, 1..(n + 1))[t] = f[y] + Adder(f, 1..(n + 1))[t \ {y}]
      BY <2>4, SumSplits
    <3> QED BY <2>5, <3>1
  <2>7. \A i \in 1..n : g[i] = f[i]
    BY <2>2, <2>3, <2>5
  <2>8. SumFunction(g) = Adder(f, 1..(n + 1))[1..n]
    <3>1. PICK T, U : T = 1..(n + 1) /\ U = 1..n
      OBVIOUS
    <3>2. IsFiniteSet(T) /\ f \in [T -> Int] /\ U \in SUBSET T /\ g \in [U -> Int] /\ \A y \in U : g[y] = f[y]
      BY <2>4, <2>5, <2>7, <3>1
    <3>3. SumFunction(g) = Adder(f, T)[U]
      BY ONLY <3>2, SumOfPart
    <3> QED BY <3>1, <3>3
  <2>9. f[n + 1] = w[x]
    BY <2>2, <2>3, <2>5
  <2>10. PICK a \in Int, b \in Int : a = Weight(s, w) /\ b = w[x]
    <3>1. Weight(s, w) \in Int /\ w[x] \in Nat
      BY <1>1
    <3> QED BY ONLY <3>1
  <2>11. Weight(more, w) = b + a
    BY <2>4, <2>6, <2>8, <2>9, <2>10
  <2>12. b + a = a + b
    BY ONLY a \in Int, b \in Int
  <2> QED BY <2>1, <2>10, <2>11, <2>12
<1> QED BY <1>1, <1>2, <1>3

LEMMA OccOn ==
  ASSUME NEW S
  PROVE  /\ Occ(<<>>, S) = 0
         /\ \A s \in Seq(Nat) : Occ(s, S) \in Nat
         /\ \A s \in Seq(Nat), x \in Nat : Occ(Append(s, x), S) = Occ(s, S) + (IF x \in S THEN 1 ELSE 0)
<1>1. ASSUME NEW s \in Seq(Nat) PROVE IsFiniteSet({i \in DOMAIN s : s[i] \in S}) /\ Occ(s, S) \in Nat
  <2>1. Len(s) \in Nat /\ DOMAIN s = 1..Len(s)
    OBVIOUS
  <2>2. IsFiniteSet({i \in DOMAIN s : s[i] \in S})
    <3>1. PICK d, t : d = DOMAIN s /\ t = {i \in DOMAIN s : s[i] \in S}
      OBVIOUS
    <3>2. IsFiniteSet(d) /\ t \subseteq d
      BY <2>1, <3>1, FS_Interval
    <3> QED BY <3>1, <3>2, FS_Subset
  <2> QED BY <2>2, FS_CardinalityType DEF Occ
<1>2. Occ(<<>>, S) = 0
  <2>1. {i \in DOMAIN <<>> : <<>>[i] \in S} = {}
    OBVIOUS
  <2> QED BY <2>1, FS_EmptySet DEF Occ
<1>3. ASSUME NEW s \in Seq(Nat), NEW x \in Nat PROVE Occ(Append(s, x), S) = Occ(s, S) + (IF x \in S THEN 1 ELSE 0)
  <2>1. PICK n \in Nat, more \in Seq(Nat) : more = Append(s, x) /\ n = Len(s)
    <3>1. Len(s) \in Nat /\ Append(s, x) \in Seq(Nat)
      BY AppendedIs
    <3> QED BY ONLY <3>1
  <2>2. /\ more \in Seq(Nat) /\ DOMAIN s = 1..n /\ DOMAIN more = 1..(n + 1) /\ more[n + 1] = x
        /\ \A i \in 1..n : more[i] = s[i]
    BY <2>1, AppendedIs
  <2>3. PICK old, new : old = {i \in DOMAIN s : s[i] \in S} /\ new = {i \in DOMAIN more : more[i] \in S}
    OBVIOUS
  <2>4. IsFiniteSet(old) /\ n + 1 \notin old /\ Occ(s, S) = Cardinality(old) /\ Occ(more, S) = Cardinality(new)
    BY <1>1, <2>2, <2>3 DEF Occ
  <2>5. CASE x \in S
    <3>1. new = old \cup {n + 1}
      BY <2>2, <2>3, <2>5
    <3> QED BY <2>1, <2>4, <2>5, <3>1, FS_AddElement
  <2>6. CASE x \notin S
    <3>1. new = old
      BY <2>2, <2>3, <2>6
    <3>2. Occ(s, S) \in Nat
      BY <1>1
    <3> QED BY <2>1, <2>4, <2>6, <3>1, <3>2
  <2> QED BY <2>5, <2>6
<1> QED BY <1>1, <1>2, <1>3

\* g adds up w over the cards of a sequence.
AddsCards(g, w) ==
  /\ g[<<>>] = 0
  /\ \A s \in Seq(Nat) : g[s] \in Int
  /\ \A x \in Nat : w[x] \in Nat
  /\ \A s \in Seq(Nat), x \in Nat : g[Append(s, x)] = g[s] + w[x]

LEMMA WeightAdds ==
  ASSUME NEW w, \A x \in Nat : w[x] \in Nat
  PROVE  AddsCards([s \in Seq(Nat) |-> Weight(s, w)], w)
<1>1. /\ Weight(<<>>, w) = 0
      /\ \A s \in Seq(Nat) : Weight(s, w) \in Int
      /\ \A s \in Seq(Nat), x \in Nat : Weight(Append(s, x), w) = Weight(s, w) + w[x]
  BY WeightOn
<1>2. PICK g : g = [s \in Seq(Nat) |-> Weight(s, w)]
  OBVIOUS
<1>3. \A s \in Seq(Nat) : g[s] = Weight(s, w)
  BY <1>2
<1>4. <<>> \in Seq(Nat) /\ \A s \in Seq(Nat), x \in Nat : Append(s, x) \in Seq(Nat)
  OBVIOUS
<1> QED BY <1>1, <1>2, <1>3, <1>4 DEF AddsCards

Ones(S) == [x \in Nat |-> IF x \in S THEN 1 ELSE 0]

LEMMA OccAdds ==
  ASSUME NEW S
  PROVE  AddsCards([s \in Seq(Nat) |-> Occ(s, S)], Ones(S))
<1>1. /\ Occ(<<>>, S) = 0
      /\ \A s \in Seq(Nat) : Occ(s, S) \in Nat
      /\ \A s \in Seq(Nat), x \in Nat : Occ(Append(s, x), S) = Occ(s, S) + (IF x \in S THEN 1 ELSE 0)
  BY OccOn
<1>2. PICK g : g = [s \in Seq(Nat) |-> Occ(s, S)]
  OBVIOUS
<1>3. \A s \in Seq(Nat) : g[s] = Occ(s, S)
  BY <1>2
<1>4. <<>> \in Seq(Nat) /\ \A s \in Seq(Nat), x \in Nat : Append(s, x) \in Seq(Nat)
  OBVIOUS
<1>5. \A x \in Nat : Ones(S)[x] = (IF x \in S THEN 1 ELSE 0)
  BY DEF Ones
<1>6. \A x \in Nat : Ones(S)[x] \in Nat
  BY <1>5
<1> QED BY <1>1, <1>2, <1>3, <1>4, <1>5, <1>6 DEF AddsCards

\* Two sequences in a row.
LEMMA AppendToBoth ==
  ASSUME NEW s \in Seq(Nat), NEW t \in Seq(Nat), NEW x \in Nat
  PROVE  s \o Append(t, x) = Append(s \o t, x) /\ s \o t \in Seq(Nat)
<1>1. s \o t \in Seq(Nat) /\ Append(t, x) \in Seq(Nat)
  OBVIOUS
<1>2. s \o Append(t, x) = Append(s \o t, x)
  OBVIOUS
<1> QED BY <1>1, <1>2

LEMMA AddsBoth ==
  ASSUME NEW g, NEW w, AddsCards(g, w)
  PROVE  \A s, t \in Seq(Nat) : g[s \o t] = g[s] + g[t]
<1> SUFFICES ASSUME NEW s \in Seq(Nat) PROVE \A t \in Seq(Nat) : g[s \o t] = g[s] + g[t]
  OBVIOUS
<1> DEFINE Good == {t \in Seq(Nat) : g[s \o t] = g[s] + g[t]}
<1>1. <<>> \in Good
  <2>1. s \o <<>> = s /\ <<>> \in Seq(Nat)
    BY ConcatEmptySeq, EmptySeq
  <2>2. g[<<>>] = 0 /\ g[s] \in Int
    BY DEF AddsCards
  <2> QED BY <2>1, <2>2
<1>2. ASSUME NEW t \in Seq(Nat), t \in Good, NEW x \in Nat PROVE Append(t, x) \in Good
  <2>1. PICK more \in Seq(Nat), both \in Seq(Nat) : more = Append(t, x) /\ both = s \o t
    BY AppendToBoth, AppendedIs
  <2>2. s \o more = Append(both, x)
    BY <2>1, AppendToBoth
  <2>3. g[Append(both, x)] = g[both] + w[x] /\ g[more] = g[t] + w[x]
    BY <2>1 DEF AddsCards
  <2>4. g[both] = g[s] + g[t]
    BY <1>2, <2>1
  <2>5. PICK a \in Int, b \in Int, c \in Int : a = g[s] /\ b = g[t] /\ c = w[x]
    <3>1. g[s] \in Int /\ g[t] \in Int /\ w[x] \in Nat
      BY DEF AddsCards
    <3> QED BY ONLY <3>1
  <2>6. g[s \o more] = (a + b) + c /\ g[more] = b + c
    BY <2>2, <2>3, <2>4, <2>5
  <2>7. (a + b) + c = a + (b + c)
    BY ONLY a \in Int, b \in Int, c \in Int
  <2>8. g[s \o more] = g[s] + g[more]
    BY <2>5, <2>6, <2>7
  <2> QED BY <2>1, <2>8
<1>3. Good = Seq(Nat)
  <2>1. Good \in SUBSET Seq(Nat) /\ <<>> \in Good
    BY <1>1
  <2>2. \A t \in Good, x \in Nat : Append(t, x) \in Good
    BY <1>2, <2>1
  <2> HIDE DEF Good
  <2> QED BY <2>1, <2>2, Appending
<1> QED BY <1>3

\* A sequence cut in two.
LEMMA CutInTwo ==
  ASSUME NEW s \in Seq(Nat), NEW n \in 0..Len(s)
  PROVE  /\ SubSeq(s, 1, n) \in Seq(Nat) /\ Len(SubSeq(s, 1, n)) = n
         /\ SubSeq(s, n + 1, Len(s)) \in Seq(Nat) /\ Len(SubSeq(s, n + 1, Len(s))) = Len(s) - n
         /\ s = SubSeq(s, 1, n) \o SubSeq(s, n + 1, Len(s))
         /\ \A i \in 1..n : SubSeq(s, 1, n)[i] = s[i]
<1>1. PICK m \in Nat : m = Len(s) /\ n \in 0..m /\ \A i \in 1..m : s[i] \in Nat
  OBVIOUS
<1>2. PICK a : a = SubSeq(s, 1, n)
  OBVIOUS
<1>3. PICK b : b = SubSeq(s, n + 1, m)
  OBVIOUS
<1>4. a \in Seq(Nat) /\ Len(a) = n /\ \A i \in 1..n : a[i] = s[i]
  <2>1. 1 \in Int /\ n \in Int /\ \A i \in 1..n : s[i] \in Nat
    BY <1>1
  <2> QED BY <1>2, <2>1, SubSeqProperties
<1>5. b \in Seq(Nat) /\ Len(b) = m - n /\ \A i \in 1..(m - n) : b[i] = s[n + i]
  <2>1. n + 1 \in Int /\ m \in Int /\ \A i \in (n + 1)..m : s[i] \in Nat
    BY <1>1
  <2>2. b \in Seq(Nat)
    BY <1>3, <2>1, SubSeqProperties
  <2>3. Len(b) = m - n
    BY <1>1, <1>3, <2>1, SubSeqProperties
  <2>4. \A i \in 1..(m - n) : b[i] = s[n + i]
    BY <1>1, <1>3, <2>1
  <2> QED BY <2>2, <2>3, <2>4
<1>6. a \o b = s
  <2>1. PICK c : c = a \o b
    OBVIOUS
  <2>2. c \in Seq(Nat) /\ Len(c) = Len(a) + Len(b) /\ \A i \in 1..(Len(a) + Len(b)) : c[i] = IF i <= Len(a) THEN a[i] ELSE b[i - Len(a)]
    BY <1>4, <1>5, <2>1, ConcatProperties
  <2>3. Len(a) + Len(b) = m
    BY <1>1, <1>4, <1>5
  <2>4. ASSUME NEW i \in 1..m PROVE c[i] = s[i]
    <3>1. CASE i <= n
      BY <1>4, <2>2, <2>3, <3>1
    <3>2. CASE ~(i <= n)
      <4>1. i - n \in 1..(m - n) /\ n + (i - n) = i
        BY <1>1, <3>2
      <4> QED BY <1>4, <1>5, <2>2, <2>3, <3>2, <4>1
    <3> QED BY <3>1, <3>2
  <2>5. c = s
    BY <1>1, <2>2, <2>3, <2>4, SeqEqual
  <2> QED BY <2>1, <2>5
<1> QED BY <1>1, <1>2, <1>3, <1>4, <1>5, <1>6

\* Part of the cards weigh no more than all.
LEMMA AddsUpwards ==
  ASSUME NEW g, NEW w, AddsCards(g, w)
  PROVE  \A s \in Seq(Nat) : g[s] \in Nat
<1> DEFINE Good == {s \in Seq(Nat) : g[s] \in Nat}
<1>1. <<>> \in Good
  <2>1. <<>> \in Seq(Nat) /\ g[<<>>] = 0
    BY EmptySeq DEF AddsCards
  <2> QED BY <2>1
<1>2. ASSUME NEW s \in Seq(Nat), s \in Good, NEW x \in Nat PROVE Append(s, x) \in Good
  <2>1. Append(s, x) \in Seq(Nat) /\ g[Append(s, x)] = g[s] + w[x] /\ w[x] \in Nat
    BY AppendedIs DEF AddsCards
  <2>2. g[s] + w[x] \in Nat
    BY <1>2, <2>1
  <2> QED BY <2>1, <2>2
<1>3. Good = Seq(Nat)
  <2>1. Good \in SUBSET Seq(Nat) /\ <<>> \in Good
    BY <1>1
  <2>2. \A s \in Good, x \in Nat : Append(s, x) \in Good
    BY <1>2, <2>1
  <2> HIDE DEF Good
  <2> QED BY <2>1, <2>2, Appending
<1> QED BY <1>3

LEMMA SomeWeighLess ==
  ASSUME NEW g, NEW w, AddsCards(g, w), NEW s \in Seq(Nat), NEW n \in 0..Len(s)
  PROVE  g[SubSeq(s, 1, n)] <= g[s]
<1>1. PICK a \in Seq(Nat), b \in Seq(Nat) : a = SubSeq(s, 1, n) /\ s = a \o b
  BY CutInTwo
<1>2. g[s] = g[a] + g[b]
  BY <1>1, AddsBoth
<1>3. PICK p \in Nat, q \in Nat : p = g[a] /\ q = g[b]
  BY AddsUpwards
<1>4. p <= p + q
  BY ONLY p \in Nat, q \in Nat
<1> QED BY <1>1, <1>2, <1>3, <1>4

\* The same cards in another order weigh the same.
SameCards(s, t) == \A c \in Nat : Occ(s, {c}) = Occ(t, {c})

LEMMA OccPositive ==
  ASSUME NEW s \in Seq(Nat), NEW c \in Nat
  PROVE  Occ(s, {c}) # 0 <=> \E k \in DOMAIN s : s[k] = c
<1>1. PICK t : t = {i \in DOMAIN s : s[i] \in {c}}
  OBVIOUS
<1>2. IsFiniteSet(t) /\ Occ(s, {c}) = Cardinality(t)
  <2>1. Len(s) \in Nat /\ DOMAIN s = 1..Len(s)
    OBVIOUS
  <2>2. IsFiniteSet(1..Len(s)) /\ t \subseteq 1..Len(s)
    BY <1>1, <2>1, FS_Interval
  <2> QED BY <1>1, <2>2, FS_Subset DEF Occ
<1>3. Cardinality(t) = 0 <=> t = {}
  BY <1>2, FS_EmptySet
<1> QED BY <1>1, <1>2, <1>3

LEMMA Rearranged ==
  ASSUME NEW g, NEW w, AddsCards(g, w)
  PROVE  \A s, t \in Seq(Nat) : SameCards(s, t) => g[s] = g[t]
<1> DEFINE Good == {s \in Seq(Nat) : \A t \in Seq(Nat) : SameCards(s, t) => g[s] = g[t]}
<1>1. <<>> \in Good
  <2>1. <<>> \in Seq(Nat) /\ g[<<>>] = 0 /\ \A c \in Nat : Occ(<<>>, {c}) = 0
    BY EmptySeq, OccOn DEF AddsCards
  <2>2. ASSUME NEW t \in Seq(Nat), SameCards(<<>>, t) PROVE t = <<>>
    <3>1. \A c \in Nat : Occ(t, {c}) = 0
      BY <2>1, <2>2 DEF SameCards
    <3>2. SUFFICES ASSUME t # <<>> PROVE FALSE
      OBVIOUS
    <3>3. 1 \in DOMAIN t /\ t[1] \in Nat
      BY <3>2
    <3> QED BY <3>1, <3>3, OccPositive
  <2> QED BY <2>1, <2>2
<1>2. ASSUME NEW s \in Seq(Nat), s \in Good, NEW x \in Nat PROVE Append(s, x) \in Good
  <2>0. PICK more \in Seq(Nat) : more = Append(s, x)
    BY AppendedIs
  <2> SUFFICES ASSUME NEW t \in Seq(Nat), SameCards(more, t) PROVE g[more] = g[t]
    BY <2>0
  <2>1. \A c \in Nat : /\ Occ(more, {c}) = Occ(s, {c}) + (IF x = c THEN 1 ELSE 0)
                       /\ Occ(s, {c}) \in Nat
    <3>1. ASSUME NEW c \in Nat
          PROVE  Occ(more, {c}) = Occ(s, {c}) + (IF x \in {c} THEN 1 ELSE 0) /\ Occ(s, {c}) \in Nat
      BY <2>0, OccOn
    <3> QED BY <3>1
  <2>2. Occ(t, {x}) # 0
    <3>1. Occ(more, {x}) = Occ(s, {x}) + 1 /\ Occ(s, {x}) \in Nat /\ Occ(more, {x}) = Occ(t, {x})
      BY <2>1 DEF SameCards
    <3> QED BY ONLY <3>1
  <2>3. PICK k \in DOMAIN t : t[k] = x
    BY <2>2, OccPositive
  <2>4. PICK u \in Seq(Nat), v \in Seq(Nat) : t = Append(u, x) \o v
    <3>1. PICK m \in Nat : m = Len(t) /\ k \in 1..m /\ DOMAIN t = 1..m
      OBVIOUS
    <3>2. k \in 0..Len(t) /\ k - 1 \in 0..Len(t)
      BY <3>1
    <3>3. PICK a \in Seq(Nat), v \in Seq(Nat) : t = a \o v /\ Len(a) = k /\ \A i \in 1..k : a[i] = t[i]
      BY <3>2, CutInTwo
    <3>4. k - 1 \in 0..Len(a) /\ k = (k - 1) + 1
      BY <3>1, <3>3
    <3>5. PICK u \in Seq(Nat) : Len(u) = k - 1 /\ \A i \in 1..(k - 1) : u[i] = a[i]
      BY <3>4, CutInTwo
    <3>6. a = Append(u, x)
      <4>1. /\ Append(u, x) \in Seq(Nat) /\ DOMAIN Append(u, x) = 1..k /\ Append(u, x)[k] = x
            /\ \A i \in 1..(k - 1) : Append(u, x)[i] = u[i]
        BY <3>4, <3>5, AppendedIs
      <4>2. Len(Append(u, x)) = k
        BY <3>4, <3>5
      <4>3. a[k] = x
        BY <2>3, <3>1, <3>3
      <4>4. ASSUME NEW i \in 1..k PROVE a[i] = Append(u, x)[i]
        <5>1. i = k \/ i \in 1..(k - 1)
          BY <3>1
        <5> QED BY <3>5, <4>1, <4>3, <5>1
      <4> QED BY <3>3, <4>1, <4>2, <4>4, SeqEqual
    <3> QED BY <3>3, <3>6
  <2>5. PICK rest \in Seq(Nat), front \in Seq(Nat) : rest = u \o v /\ front = Append(u, x) /\ t = front \o v
    BY <2>4, AppendToBoth, AppendedIs
  <2>6. SameCards(s, rest)
    <3> SUFFICES ASSUME NEW c \in Nat PROVE Occ(s, {c}) = Occ(rest, {c})
      BY DEF SameCards
    <3>1. PICK h : h = [y \in Seq(Nat) |-> Occ(y, {c})]
      OBVIOUS
    <3>2. \A y \in Seq(Nat) : h[y] = Occ(y, {c})
      BY <3>1
    <3>3. AddsCards(h, Ones({c}))
      BY <3>1, OccAdds
    <3>4. h[t] = h[front] + h[v] /\ h[rest] = h[u] + h[v] /\ h[front] = h[u] + Ones({c})[x]
      <4>1. \A y, z \in Seq(Nat) : h[y \o z] = h[y] + h[z]
        BY <3>3, AddsBoth
      <4>2. h[front] = h[u] + Ones({c})[x]
        BY <2>5, <3>3 DEF AddsCards
      <4> QED BY <2>5, <4>1, <4>2
    <3>5. h[u] \in Nat /\ h[v] \in Nat
      BY <3>3, AddsUpwards
    <3>6. Ones({c})[x] = (IF x = c THEN 1 ELSE 0)
      BY DEF Ones
    <3>7. h[t] = Occ(s, {c}) + (IF x = c THEN 1 ELSE 0) /\ Occ(s, {c}) \in Nat
      BY <2>1, <3>2 DEF SameCards
    <3>8. h[rest] = Occ(s, {c})
      <4>1. PICK a \in Nat, b \in Nat, d \in Nat, e \in {0, 1} :
              a = h[u] /\ b = h[v] /\ d = Occ(s, {c}) /\ e = Ones({c})[x] /\ e = (IF x = c THEN 1 ELSE 0)
        BY <3>5, <3>6, <3>7
      <4>2. h[rest] = a + b /\ h[t] = (a + e) + b /\ h[t] = d + e
        BY <3>4, <3>7, <4>1
      <4>3. (a + e) + b = d + e => a + b = d
        BY ONLY a \in Nat, b \in Nat, d \in Nat, e \in {0, 1}
      <4> QED BY <4>1, <4>2, <4>3
    <3> QED BY <3>2, <3>8
  <2>7. g[s] = g[rest]
    BY <1>2, <2>6
  <2>8. g[more] = g[s] + w[x] /\ g[front] = g[u] + w[x] /\ g[t] = g[front] + g[v] /\ g[rest] = g[u] + g[v]
    BY <2>0, <2>5, AddsBoth DEF AddsCards
  <2>9. g[u] \in Int /\ g[v] \in Int /\ w[x] \in Int
    BY DEF AddsCards
  <2> QED BY ONLY <2>7, <2>8, <2>9
<1>3. Good = Seq(Nat)
  <2>1. Good \in SUBSET Seq(Nat) /\ <<>> \in Good
    BY <1>1
  <2>2. \A s \in Good, x \in Nat : Append(s, x) \in Good
    BY <1>2, <2>1
  <2> HIDE DEF Good
  <2> QED BY <2>1, <2>2, Appending
<1> QED BY <1>3

-----------------------------------------------------------------------------
(* The checks of a deck.                                                    *)

\* The first error of a sequence.
LEMMA NoFirst ==
  ASSUME NEW errors, NEW n \in Nat, Len(errors) = n, DOMAIN errors = 1..n
  PROVE  FirstOf(errors) = "None" <=> \A i \in 1..n : errors[i] = "None"
<1>1. PICK t : t = {i \in 1..Len(errors) : errors[i] # "None"}
  OBVIOUS
<1>2. SelectInSeq(errors, LAMBDA error : error # "None") = IF t # {} THEN Min(t) ELSE 0
  BY <1>1 DEF SelectInSeq
<1>3. CASE t = {}
  BY <1>1, <1>2, <1>3 DEF FirstOf
<1>4. CASE t # {}
  <2>1. t \in SUBSET Nat
    BY <1>1
  <2>2. PICK k \in t : k = Min(t)
    BY <1>4, <2>1, Lowest
  <2>3. k \in 1..n /\ errors[k] # "None" /\ k # 0
    BY <1>1
  <2>4. FirstOf(errors) = errors[k]
    BY <1>2, <1>4, <2>2, <2>3 DEF FirstOf
  <2> QED BY <2>3, <2>4
<1> QED BY <1>3, <1>4

\* All that is called as a card, and what each card costs.
Same(code) == {c \in Nat : DuelCode(c) = DuelCode(code)}
Prices(list, key) == [c \in Nat |-> CreditOf(list, DuelCode(c), key)]

LEMMA PricesAre ==
  ASSUME NEW list \in ListTypes, NEW key
  PROVE  /\ \A c \in Nat : Prices(list, key)[c] \in Nat
         /\ \A codes \in Seq(Nat) : Points(codes, list, key) = Weight(codes, Prices(list, key))
<1>1. \A e \in DOMAIN list.credits : list.credits[e] \in Nat
  <2>1. PICK credits \in Maps(Nat \X Nat, Nat) : credits = list.credits
    BY ListFields
  <2>2. \A e \in DOMAIN credits : credits[e] \in Nat
    BY Inserted
  <2> QED BY <2>1, <2>2
<1>2. \A c \in Nat : Prices(list, key)[c] = CreditOf(list, DuelCode(c), key)
  BY DEF Prices
<1>3. \A name : CreditOf(list, name, key) \in Nat
  BY <1>1 DEF CreditOf
<1>4. ASSUME NEW codes \in Seq(Nat) PROVE Points(codes, list, key) = Weight(codes, Prices(list, key))
  <2>1. PICK w : w = Prices(list, key)
    OBVIOUS
  <2>2. \A i \in DOMAIN codes : codes[i] \in Nat
    OBVIOUS
  <2>3. [i \in DOMAIN codes |-> CreditOf(list, DuelCode(codes[i]), key)] = [i \in DOMAIN codes |-> w[codes[i]]]
    BY <1>2, <2>1, <2>2
  <2> QED BY <2>1, <2>3 DEF Points, Weight
<1> QED BY <1>2, <1>3, <1>4

\* One turn of the loop.
Passes(codes, list, i) ==
  LET first == SubSeq(codes, 1, i) IN
  /\ Occ(first, Same(codes[i])) <= MaxCopies
  /\ DuelCode(codes[i]) \in DOMAIN list.content => Occ(first, Same(codes[i])) <= list.content[DuelCode(codes[i])]
  /\ \A key \in DOMAIN list.credit_limits : Weight(first, Prices(list, key)) <= list.credit_limits[key]

LEMMA TurnChecked ==
  ASSUME NEW codes \in Seq(Nat), NEW list \in ListTypes, NEW i \in DOMAIN codes
  PROVE  CheckCopies(codes, list, i) = "None" <=> Passes(codes, list, i)
<1>1. PICK n \in Nat : n = Len(codes) /\ i \in 1..n /\ i \in 0..Len(codes)
  OBVIOUS
<1>2. PICK first \in Seq(Nat) : first = SubSeq(codes, 1, i) /\ Len(first) = i /\ \A j \in 1..i : first[j] = codes[j]
  BY <1>1, CutInTwo
<1>3. DOMAIN first = 1..i /\ \A j \in 1..i : codes[j] \in Nat
  BY <1>1, <1>2
<1>4. PICK names : names = [j \in 1..i |-> DuelCode(codes[j])]
  OBVIOUS
<1>5. i \in 1..i /\ \A j \in 1..i : names[j] = DuelCode(codes[j])
  BY <1>1, <1>4
<1>6. PICK count \in Nat : count = Occ(first, Same(codes[i])) /\ count = Cardinality({j \in 1..i : names[j] = names[i]})
  <2>1. Occ(first, Same(codes[i])) \in Nat
    BY OccOn
  <2>2. {j \in 1..i : names[j] = names[i]} = {j \in DOMAIN first : first[j] \in Same(codes[i])}
    BY <1>2, <1>3, <1>5 DEF Same
  <2> QED BY <2>1, <2>2 DEF Occ
<1>7. ASSUME NEW key
      PROVE  FoldFunction(+, 0, [j \in 1..i |-> CreditOf(list, names[j], key)]) = Weight(first, Prices(list, key))
  <2>1. PICK w : w = Prices(list, key)
    OBVIOUS
  <2>2. \A j \in 1..i : CreditOf(list, names[j], key) = w[first[j]]
    BY <1>2, <1>3, <1>5, <2>1 DEF Prices
  <2>3. PICK f : f = [j \in 1..i |-> CreditOf(list, names[j], key)]
    OBVIOUS
  <2>4. f = [j \in DOMAIN first |-> w[first[j]]]
    BY <1>3, <2>2, <2>3
  <2>5. FoldFunction(+, 0, f) = SumFunction(f)
    BY DEF FoldFunction, SumFunction, SumFunctionOnSet, FoldFunctionOnSet
  <2> QED BY <2>1, <2>3, <2>4, <2>5 DEF Weight
<1>8. MaxCopies \in Nat /\ (DuelCode(codes[i]) \in DOMAIN list.content => list.content[DuelCode(codes[i])] \in Nat)
      /\ \A key \in DOMAIN list.credit_limits : list.credit_limits[key] \in Nat
  <2>1. PICK content \in Maps(Nat, 0..2), limits \in Maps(Nat, Nat) : content = list.content /\ limits = list.credit_limits
    BY ListFields
  <2>2. (\A c \in DOMAIN content : content[c] \in 0..2) /\ \A k \in DOMAIN limits : limits[k] \in Nat
    BY Inserted
  <2>3. MaxCopies \in Nat
    BY DeckRulesAssumption
  <2>4. DuelCode(codes[i]) \in DOMAIN list.content => list.content[DuelCode(codes[i])] \in Nat
    <3>1. ASSUME NEW c \in DOMAIN content PROVE content[c] \in Nat
      <4>1. content[c] \in 0..2
        BY <2>2
      <4> QED BY ONLY <4>1
    <3> QED BY <2>1, <3>1
  <2>5. \A key \in DOMAIN list.credit_limits : list.credit_limits[key] \in Nat
    BY <2>1, <2>2
  <2> QED BY <2>3, <2>4, <2>5
<1>9. \A key \in DOMAIN list.credit_limits : Weight(first, Prices(list, key)) \in Int
  BY PricesAre, WeightOn
<1>10. CheckCopies(codes, list, i) =
         IF count > MaxCopies THEN "CardCount"
         ELSE IF \/ names[i] \in DOMAIN list.content /\ count > list.content[names[i]]
                 \/ \E key \in DOMAIN list.credit_limits : Weight(first, Prices(list, key)) > list.credit_limits[key]
              THEN "Lflist"
         ELSE "None"
  BY <1>4, <1>6, <1>7 DEF CheckCopies
<1>11. names[i] = DuelCode(codes[i])
  BY <1>5
<1>12. Passes(codes, list, i) <=>
         /\ count <= MaxCopies
         /\ DuelCode(codes[i]) \in DOMAIN list.content => count <= list.content[DuelCode(codes[i])]
         /\ \A key \in DOMAIN list.credit_limits : Weight(first, Prices(list, key)) <= list.credit_limits[key]
  BY <1>2, <1>6 DEF Passes
<1> QED BY <1>8, <1>9, <1>10, <1>11, <1>12

\* All turns of the loop: what they come to at its end.
Observed(codes, list) ==
  /\ \A k \in DOMAIN codes :
       /\ Occ(codes, Same(codes[k])) <= MaxCopies
       /\ DuelCode(codes[k]) \in DOMAIN list.content =>
            Occ(codes, Same(codes[k])) <= list.content[DuelCode(codes[k])]
  /\ \A key \in DOMAIN list.credit_limits : Weight(codes, Prices(list, key)) <= list.credit_limits[key]

\* At the last of the cards called alike all of them are counted.
LEMMA LastOfName ==
  ASSUME NEW codes \in Seq(Nat), NEW k \in DOMAIN codes
  PROVE  \E i \in DOMAIN codes :
           /\ DuelCode(codes[i]) = DuelCode(codes[k])
           /\ Occ(SubSeq(codes, 1, i), Same(codes[i])) = Occ(codes, Same(codes[k]))
<1>1. PICK n \in Nat : n = Len(codes) /\ DOMAIN codes = 1..n /\ k \in 1..n /\ \A i \in 1..n : codes[i] \in Nat
  OBVIOUS
<1>2. PICK t : t = {i \in DOMAIN codes : codes[i] \in Same(codes[k])}
  OBVIOUS
<1>3. t \in SUBSET (1..n) /\ k \in t
  BY <1>1, <1>2 DEF Same
<1>4. PICK i \in t : \A y \in t : i >= y
  BY <1>1, <1>3, Highest
<1>5. i \in 1..n /\ i \in 0..Len(codes) /\ i \in DOMAIN codes /\ DuelCode(codes[i]) = DuelCode(codes[k])
  BY <1>1, <1>2, <1>3 DEF Same
<1>6. PICK first \in Seq(Nat) : first = SubSeq(codes, 1, i) /\ Len(first) = i /\ \A j \in 1..i : first[j] = codes[j]
  BY <1>5, CutInTwo
<1>7. DOMAIN first = 1..i
  BY <1>6
<1>8. Same(codes[i]) = Same(codes[k])
  BY <1>5 DEF Same
<1>9. PICK S : S = Same(codes[k])
  OBVIOUS
<1>10. {j \in 1..i : first[j] \in S} = t
  <2>1. \A j \in t : j \in 1..i
    BY <1>1, <1>3, <1>4, <1>5
  <2>2. 1..i \subseteq DOMAIN codes
    BY <1>1, <1>5
  <2> QED BY <1>2, <1>6, <1>9, <2>1, <2>2
<1>11. Occ(first, S) = Cardinality(t)
  BY <1>7, <1>10 DEF Occ
<1>12. Occ(codes, S) = Cardinality(t)
  BY <1>2, <1>9 DEF Occ
<1> QED BY <1>5, <1>6, <1>8, <1>9, <1>11, <1>12

LEMMA TurnsCounted ==
  ASSUME NEW codes \in Seq(Nat), NEW list \in ListTypes
  PROVE  (\A i \in DOMAIN codes : Passes(codes, list, i)) <=> Observed(codes, list)
<1>1. /\ MaxCopies \in Nat
      /\ \A c \in DOMAIN list.content : list.content[c] \in Nat
      /\ \A key \in DOMAIN list.credit_limits : list.credit_limits[key] \in Nat
  <2>1. PICK content \in Maps(Nat, 0..2), limits \in Maps(Nat, Nat) : content = list.content /\ limits = list.credit_limits
    BY ListFields
  <2>2. (\A c \in DOMAIN content : content[c] \in 0..2) /\ \A k \in DOMAIN limits : limits[k] \in Nat
    BY Inserted
  <2>3. ASSUME NEW c \in DOMAIN content PROVE content[c] \in Nat
    <3>1. content[c] \in 0..2
      BY <2>2
    <3> QED BY ONLY <3>1
  <2>4. \A c \in DOMAIN list.content : list.content[c] \in Nat
    BY <2>1, <2>3
  <2>5. \A key \in DOMAIN list.credit_limits : list.credit_limits[key] \in Nat
    BY <2>1, <2>2
  <2> QED BY <2>4, <2>5, DeckRulesAssumption
<1>2. PICK n \in Nat : n = Len(codes) /\ DOMAIN codes = 1..n
  OBVIOUS
<1>3. ASSUME \A i \in DOMAIN codes : Passes(codes, list, i)
      PROVE  Observed(codes, list)
  <2>1. ASSUME NEW k \in DOMAIN codes
        PROVE  /\ Occ(codes, Same(codes[k])) <= MaxCopies
               /\ DuelCode(codes[k]) \in DOMAIN list.content =>
                    Occ(codes, Same(codes[k])) <= list.content[DuelCode(codes[k])]
    <3>1. PICK i \in DOMAIN codes :
             /\ DuelCode(codes[i]) = DuelCode(codes[k])
             /\ Occ(SubSeq(codes, 1, i), Same(codes[i])) = Occ(codes, Same(codes[k]))
      BY LastOfName
    <3>2. Passes(codes, list, i)
      BY <1>3
    <3> QED BY <3>1, <3>2 DEF Passes
  <2>2. ASSUME NEW key \in DOMAIN list.credit_limits
        PROVE  Weight(codes, Prices(list, key)) <= list.credit_limits[key]
    <3>1. CASE n = 0
      <4>1. codes = <<>>
        BY <1>2, <3>1, EmptySeq
      <4>2. Weight(<<>>, Prices(list, key)) = 0
        BY PricesAre, WeightOn
      <4>3. PICK m \in Nat : m = list.credit_limits[key]
        BY <1>1
      <4>4. 0 <= m
        BY ONLY m \in Nat
      <4> QED BY <4>1, <4>2, <4>3, <4>4
    <3>2. CASE n # 0
      <4>1. n \in DOMAIN codes
        BY <1>2, <3>2
      <4>2. SubSeq(codes, 1, n) = codes
        <5>1. n \in 0..Len(codes)
          BY <1>2
        <5>2. PICK s \in Seq(Nat) : s = SubSeq(codes, 1, n) /\ Len(s) = n /\ \A j \in 1..n : s[j] = codes[j]
          BY <5>1, CutInTwo
        <5>3. s = codes
          BY <1>2, <5>2, SeqEqual
        <5> QED BY <5>2, <5>3
      <4> QED BY <1>3, <4>1, <4>2 DEF Passes
    <3> QED BY <3>1, <3>2
  <2> QED BY <2>1, <2>2 DEF Observed
<1>4. ASSUME Observed(codes, list), NEW i \in DOMAIN codes
      PROVE  Passes(codes, list, i)
  <2>1. i \in 0..Len(codes) /\ codes[i] \in Nat
    BY <1>2
  <2>2. PICK first \in Seq(Nat) : first = SubSeq(codes, 1, i)
    BY <2>1, CutInTwo
  <2>3. PICK p \in Nat, q \in Nat : p = Occ(first, Same(codes[i])) /\ q = Occ(codes, Same(codes[i]))
    BY OccOn
  <2>4. p <= q
    <3>1. PICK g : g = [s \in Seq(Nat) |-> Occ(s, Same(codes[i]))]
      OBVIOUS
    <3>2. AddsCards(g, Ones(Same(codes[i])))
      BY <3>1, OccAdds
    <3>3. g[first] <= g[codes]
      BY <2>1, <2>2, <3>2, SomeWeighLess
    <3> QED BY <2>3, <3>1, <3>3
  <2>5. p <= MaxCopies
    <3>1. q <= MaxCopies
      BY <1>4, <2>3 DEF Observed
    <3>2. PICK m \in Nat : m = MaxCopies
      BY <1>1
    <3>3. q <= m => p <= m
      BY ONLY <2>4, p \in Nat, q \in Nat, m \in Nat
    <3> QED BY <3>1, <3>2, <3>3
  <2>6. ASSUME DuelCode(codes[i]) \in DOMAIN list.content
        PROVE  p <= list.content[DuelCode(codes[i])]
    <3>1. q <= list.content[DuelCode(codes[i])]
      BY <1>4, <2>3, <2>6 DEF Observed
    <3>2. PICK m \in Nat : m = list.content[DuelCode(codes[i])]
      BY <1>1, <2>6
    <3>3. q <= m => p <= m
      BY ONLY <2>4, p \in Nat, q \in Nat, m \in Nat
    <3> QED BY <3>1, <3>2, <3>3
  <2>7. ASSUME NEW key \in DOMAIN list.credit_limits
        PROVE  Weight(first, Prices(list, key)) <= list.credit_limits[key]
    <3>1. PICK w : w = Prices(list, key)
      OBVIOUS
    <3>2. \A c \in Nat : w[c] \in Nat
      BY <3>1, PricesAre
    <3>3. PICK g : g = [s \in Seq(Nat) |-> Weight(s, w)]
      OBVIOUS
    <3>4. AddsCards(g, w)
      BY <3>2, <3>3, WeightAdds
    <3>5. g[first] <= g[codes]
      BY <2>1, <2>2, <3>4, SomeWeighLess
    <3>6. PICK a \in Int, b \in Int, m \in Nat :
            a = Weight(first, w) /\ b = Weight(codes, w) /\ m = list.credit_limits[key]
      BY <1>1, <3>2, WeightOn
    <3>7. a <= b
      BY <3>3, <3>5, <3>6
    <3>8. b <= m
      BY <1>4, <3>1, <3>6 DEF Observed
    <3>9. a <= m
      BY ONLY <3>7, <3>8, a \in Int, b \in Int, m \in Nat
    <3> QED BY <3>1, <3>6, <3>9
  <2> QED BY <2>2, <2>3, <2>5, <2>6, <2>7 DEF Passes
<1> QED BY <1>3, <1>4

LEMMA ListsChecked ==
  ASSUME NEW codes \in Seq(Nat), NEW list \in ListTypes
  PROVE  CheckLists(codes, list) = "None" <=> Observed(codes, list)
<1>1. PICK n \in Nat : n = Len(codes) /\ DOMAIN codes = 1..n
  OBVIOUS
<1>2. PICK errors : errors = [i \in DOMAIN codes |-> CheckCopies(codes, list, i)]
  OBVIOUS
<1>3. DOMAIN errors = 1..n /\ Len(errors) = n
  BY <1>1, <1>2
<1>4. FirstOf(errors) = "None" <=> \A i \in 1..n : errors[i] = "None"
  BY <1>3, NoFirst
<1>5. \A i \in 1..n : errors[i] = "None" <=> Passes(codes, list, i)
  BY <1>1, <1>2, TurnChecked
<1>6. CheckLists(codes, list) = FirstOf(errors)
  BY <1>2 DEF CheckLists
<1> QED BY <1>1, <1>4, <1>5, <1>6, TurnsCounted

\* The checks that look at one card at a time.
LEMMA LengthsChecked ==
  ASSUME NEW deck \in DeckTypes
  PROVE  CheckLength(deck) = "None" <=>
           Len(deck.main) \in DeckMin..DeckMax /\ Len(deck.extra) <= ExtraMax /\ Len(deck.side) <= SideMax
<1>1. PICK m \in Nat, e \in Nat, s \in Nat : m = Len(deck.main) /\ e = Len(deck.extra) /\ s = Len(deck.side)
  BY DEF DeckTypes
<1>2. ExtraMax \in Nat /\ SideMax \in Nat
  BY DeckRulesAssumption
<1> QED BY <1>1, <1>2 DEF CheckLength

LEMMA SectionsChecked ==
  ASSUME NEW deck
  PROVE  CheckSections(deck) = "None" <=>
           /\ \A code \in ToSet(deck.main) : ~IsToken(code) /\ ~IsExtra(code)
           /\ \A code \in ToSet(deck.side) : ~IsToken(code)
           /\ \A code \in ToSet(deck.extra) : IsExtra(code)
BY DEF CheckSections, ToSet

LEMMA RuleChecked ==
  ASSUME NEW codes \in Seq(Nat), NEW rule
  PROVE  CheckRule(codes, rule) = "None" <=> \A code \in ToSet(codes) : Allowed(rule) \subseteq OriginOf(code)
<1>1. PICK n \in Nat : n = Len(codes) /\ DOMAIN codes = 1..n
  OBVIOUS
<1>2. PICK errors : errors = [i \in DOMAIN codes |-> CheckOrigin(rule, OriginOf(codes[i]))]
  OBVIOUS
<1>3. DOMAIN errors = 1..n /\ Len(errors) = n
  BY <1>1, <1>2
<1>4. FirstOf(errors) = "None" <=> \A i \in 1..n : errors[i] = "None"
  BY <1>3, NoFirst
<1>5. \A ot : CheckOrigin(rule, ot) = "None" <=> Allowed(rule) \subseteq ot
  BY DEF CheckOrigin
<1>6. \A i \in 1..n : errors[i] = "None" <=> Allowed(rule) \subseteq OriginOf(codes[i])
  BY <1>1, <1>2, <1>5
<1>7. CheckRule(codes, rule) = FirstOf(errors)
  BY <1>2 DEF CheckRule
<1> QED BY <1>1, <1>4, <1>6, <1>7 DEF ToSet

\* The sections one after the other.
LEMMA CardsOfDeck ==
  ASSUME NEW deck \in DeckTypes
  PROVE  /\ AllCards(deck) \in Seq(Nat)
         /\ deck.main \in Seq(Nat) /\ deck.extra \in Seq(Nat) /\ deck.side \in Seq(Nat)
         /\ ToSet(AllCards(deck)) = ToSet(deck.main) \cup ToSet(deck.extra) \cup ToSet(deck.side)
         /\ \A g, w : AddsCards(g, w) => g[AllCards(deck)] = g[deck.main] + g[deck.extra] + g[deck.side]
<1>1. PICK m \in Seq(Nat), e \in Seq(Nat), s \in Seq(Nat) : m = deck.main /\ e = deck.extra /\ s = deck.side
  BY DEF DeckTypes
<1>2. m \o e \in Seq(Nat) /\ ToSet(m \o e) = ToSet(m) \cup ToSet(e)
  BY MembersOfBoth
<1>3. PICK t \in Seq(Nat) : t = m \o e
  BY <1>2
<1>4. t \o s \in Seq(Nat) /\ ToSet(t \o s) = ToSet(t) \cup ToSet(s)
  BY MembersOfBoth
<1>5. AllCards(deck) = t \o s
  BY <1>1, <1>3 DEF AllCards
<1>6. ASSUME NEW g, NEW w, AddsCards(g, w)
      PROVE  g[t \o s] = g[m] + g[e] + g[s]
  <2>1. g[m \o e] = g[m] + g[e] /\ g[t \o s] = g[t] + g[s]
    BY <1>6, AddsBoth
  <2> QED BY <1>3, <2>1
<1> QED BY <1>1, <1>2, <1>3, <1>4, <1>5, <1>6

LEMMA CopiesAre ==
  ASSUME NEW deck \in DeckTypes, NEW code
  PROVE  Copies(deck, code) = Occ(AllCards(deck), Same(code))
<1>1. \A codes \in Seq(Nat) : Cardinality({i \in DOMAIN codes : DuelCode(codes[i]) = DuelCode(code)}) = Occ(codes, Same(code))
  <2> TAKE codes \in Seq(Nat)
  <2>1. \A i \in DOMAIN codes : codes[i] \in Nat
    OBVIOUS
  <2>2. {i \in DOMAIN codes : DuelCode(codes[i]) = DuelCode(code)} = {i \in DOMAIN codes : codes[i] \in Same(code)}
    BY <2>1 DEF Same
  <2> QED BY <2>2 DEF Occ
<1>2. PICK g : g = [s \in Seq(Nat) |-> Occ(s, Same(code))]
  OBVIOUS
<1>3. AddsCards(g, Ones(Same(code)))
  BY <1>2, OccAdds
<1>4. PICK m \in Seq(Nat), e \in Seq(Nat), s \in Seq(Nat), all \in Seq(Nat) :
        m = deck.main /\ e = deck.extra /\ s = deck.side /\ all = AllCards(deck) /\ g[all] = g[m] + g[e] + g[s]
  BY <1>3, CardsOfDeck
<1>5. Occ(all, Same(code)) = Occ(m, Same(code)) + Occ(e, Same(code)) + Occ(s, Same(code))
  BY <1>2, <1>4
<1>6. Copies(deck, code) = Cardinality({i \in DOMAIN m : DuelCode(m[i]) = DuelCode(code)})
        + Cardinality({i \in DOMAIN e : DuelCode(e[i]) = DuelCode(code)})
        + Cardinality({i \in DOMAIN s : DuelCode(s[i]) = DuelCode(code)})
  BY <1>4 DEF Copies
<1> QED BY <1>1, <1>4, <1>5, <1>6

LEMMA PointsOfDeck ==
  ASSUME NEW deck \in DeckTypes, NEW list \in ListTypes, NEW key
  PROVE  Points(deck.main, list, key) + Points(deck.extra, list, key) + Points(deck.side, list, key)
           = Weight(AllCards(deck), Prices(list, key))
<1>1. PICK w : w = Prices(list, key)
  OBVIOUS
<1>2. /\ \A c \in Nat : w[c] \in Nat
      /\ \A codes \in Seq(Nat) : Points(codes, list, key) = Weight(codes, w)
  BY <1>1, PricesAre
<1>3. PICK g : g = [s \in Seq(Nat) |-> Weight(s, w)]
  OBVIOUS
<1>4. AddsCards(g, w)
  BY <1>2, <1>3, WeightAdds
<1>5. PICK m \in Seq(Nat), e \in Seq(Nat), s \in Seq(Nat), all \in Seq(Nat) :
        m = deck.main /\ e = deck.extra /\ s = deck.side /\ all = AllCards(deck) /\ g[all] = g[m] + g[e] + g[s]
  BY <1>4, CardsOfDeck
<1>6. Weight(all, w) = Weight(m, w) + Weight(e, w) + Weight(s, w)
  BY <1>3, <1>5
<1> QED BY <1>1, <1>2, <1>5, <1>6

\* The checks find an error exactly when the deck breaks a rule: whatever the deck, the list
\* and the rule (Deck::prepare, check_illegal_cards, Rule::check_ot and check_deck_lflists).
THEOREM CheckedIsLegal ==
  ASSUME NEW deck \in DeckTypes, NEW list \in ListTypes, NEW rule
  PROVE  Prepare(deck, list, rule) = "None" <=> Legal(deck, list, rule)
<1>1. PICK all \in Seq(Nat) :
        all = AllCards(deck) /\ ToSet(all) = ToSet(deck.main) \cup ToSet(deck.extra) \cup ToSet(deck.side)
  BY CardsOfDeck
<1>2. PICK errors : errors = <<CheckLength(deck), CheckSections(deck), CheckRule(all, rule), CheckLists(all, list)>>
  OBVIOUS
<1>3. Prepare(deck, list, rule) = "None" <=>
        CheckLength(deck) = "None" /\ CheckSections(deck) = "None" /\ CheckRule(all, rule) = "None"
          /\ CheckLists(all, list) = "None"
  <2>1. Len(errors) = 4 /\ DOMAIN errors = 1..4
    BY <1>2
  <2>2. FirstOf(errors) = "None" <=> \A i \in 1..4 : errors[i] = "None"
    BY <2>1, NoFirst
  <2>3. (\A i \in 1..4 : errors[i] = "None") <=>
          errors[1] = "None" /\ errors[2] = "None" /\ errors[3] = "None" /\ errors[4] = "None"
    <3>1. 1..4 = {1, 2, 3, 4}
      OBVIOUS
    <3> QED BY ONLY <3>1
  <2>4. errors[1] = CheckLength(deck) /\ errors[2] = CheckSections(deck) /\ errors[3] = CheckRule(all, rule)
          /\ errors[4] = CheckLists(all, list)
    BY <1>2
  <2>5. Prepare(deck, list, rule) = FirstOf(errors)
    BY <1>1, <1>2 DEF Prepare
  <2> QED BY <2>2, <2>3, <2>4, <2>5
<1>4. Observed(all, list) <=>
        /\ \A code \in ToSet(all) :
             /\ Copies(deck, code) <= MaxCopies
             /\ DuelCode(code) \in DOMAIN list.content => Copies(deck, code) <= list.content[DuelCode(code)]
        /\ \A key \in DOMAIN list.credit_limits :
             Points(deck.main, list, key) + Points(deck.extra, list, key) + Points(deck.side, list, key)
               <= list.credit_limits[key]
  <2>1. \A code : Copies(deck, code) = Occ(all, Same(code))
    BY <1>1, CopiesAre
  <2>2. \A key : Points(deck.main, list, key) + Points(deck.extra, list, key) + Points(deck.side, list, key)
                   = Weight(all, Prices(list, key))
    BY <1>1, PointsOfDeck
  <2> QED BY <2>1, <2>2 DEF Observed, ToSet
<1>5. CheckLists(all, list) = "None" <=> Observed(all, list)
  BY ListsChecked
<1>6. CheckRule(all, rule) = "None" <=> \A code \in ToSet(all) : Allowed(rule) \subseteq OriginOf(code)
  BY RuleChecked
<1>7. \A code : IsExtra(code) => ~IsToken(code)
  BY DEF IsExtra, IsToken
<1>8. Legal(deck, list, rule) <=>
        /\ Len(deck.main) \in DeckMin..DeckMax /\ Len(deck.extra) <= ExtraMax /\ Len(deck.side) <= SideMax
        /\ \A code \in ToSet(all) : ~IsToken(code)
        /\ \A code \in ToSet(all) : Allowed(rule) \subseteq OriginOf(code)
        /\ \A code \in ToSet(all) :
             /\ Copies(deck, code) <= MaxCopies
             /\ DuelCode(code) \in DOMAIN list.content => Copies(deck, code) <= list.content[DuelCode(code)]
        /\ \A code \in ToSet(deck.main) : ~IsExtra(code)
        /\ \A code \in ToSet(deck.extra) : IsExtra(code)
        /\ \A key \in DOMAIN list.credit_limits :
             Points(deck.main, list, key) + Points(deck.extra, list, key) + Points(deck.side, list, key)
               <= list.credit_limits[key]
  BY <1>1, Zenon DEF Legal
<1>9. CheckSections(deck) = "None" <=>
        /\ \A code \in ToSet(all) : ~IsToken(code)
        /\ \A code \in ToSet(deck.main) : ~IsExtra(code)
        /\ \A code \in ToSet(deck.extra) : IsExtra(code)
  BY <1>1, <1>7, SectionsChecked
<1> QED BY <1>3, <1>4, <1>5, <1>6, <1>8, <1>9, LengthsChecked

\* Two decks that a deck's hash cannot tell apart have the same cards.
LEMMA SameDeckSameCards ==
  ASSUME NEW one \in DeckTypes, NEW other \in DeckTypes, CodeCounts(one) = CodeCounts(other)
  PROVE  /\ ToSet(AllCards(one)) = ToSet(AllCards(other))
         /\ SameCards(AllCards(one), AllCards(other))
<1>1. PICK s \in Seq(Nat), t \in Seq(Nat) : s = AllCards(one) /\ t = AllCards(other)
  BY CardsOfDeck
<1>2. PICK f, g :
        /\ f = [code \in ToSet(s) |-> Cardinality({i \in DOMAIN s : s[i] = code})]
        /\ g = [code \in ToSet(t) |-> Cardinality({i \in DOMAIN t : t[i] = code})]
  OBVIOUS
<1>3. f = g
  <2>1. CodeCounts(one) = f
    BY <1>1, <1>2 DEF CodeCounts
  <2>2. CodeCounts(other) = g
    BY <1>1, <1>2 DEF CodeCounts
  <2> QED BY <2>1, <2>2
<1>4. ToSet(s) = ToSet(t)
  <2>1. DOMAIN f = ToSet(s) /\ DOMAIN g = ToSet(t)
    BY <1>2
  <2> QED BY <1>3, <2>1
<1>5. ASSUME NEW c \in Nat PROVE Occ(s, {c}) = Occ(t, {c})
  <2>1. CASE c \in ToSet(s)
    <3>1. f[c] = Cardinality({i \in DOMAIN s : s[i] = c}) /\ g[c] = Cardinality({i \in DOMAIN t : t[i] = c})
      BY <1>2, <1>4, <2>1
    <3>2. {i \in DOMAIN s : s[i] = c} = {i \in DOMAIN s : s[i] \in {c}}
            /\ {i \in DOMAIN t : t[i] = c} = {i \in DOMAIN t : t[i] \in {c}}
      OBVIOUS
    <3> QED BY <1>3, <3>1, <3>2 DEF Occ
  <2>2. CASE c \notin ToSet(s)
    <3>1. (~ \E k \in DOMAIN s : s[k] = c) /\ (~ \E k \in DOMAIN t : t[k] = c)
      BY <1>4, <2>2 DEF ToSet
    <3> QED BY <3>1, OccPositive
  <2> QED BY <2>1, <2>2
<1> QED BY <1>1, <1>4, <1>5 DEF SameCards

\* A deck that siding may put in the place of a legal one is legal: whatever the decks, the
\* list and the rule (check_after_replacing_side, which checks nothing but the hash).
THEOREM SidedIsLegal ==
  ASSUME NEW deck \in DeckTypes, NEW sided \in DeckTypes, sided.extra = <<>>,
         NEW list \in ListTypes, NEW rule,
         Legal(deck, list, rule), SideAccepted(deck, sided)
  PROVE  Legal(Separated(sided), list, rule)
<1>1. PICK new \in DeckTypes :
        /\ new = Separated(sided)
        /\ ToSet(new.main) = ToSet(sided.main) \ ExtraCards
        /\ ToSet(new.extra) \subseteq ToSet(sided.extra) \cup (ToSet(sided.main) \cap ExtraCards)
  BY SeparatedDeck
<1>2. SameDeck(deck, new)
  BY <1>1 DEF SideAccepted
<1>3. PICK s \in Seq(Nat), t \in Seq(Nat) : s = AllCards(deck) /\ t = AllCards(new)
  BY CardsOfDeck
<1>4. /\ ToSet(s) = ToSet(deck.main) \cup ToSet(deck.extra) \cup ToSet(deck.side)
      /\ ToSet(t) = ToSet(new.main) \cup ToSet(new.extra) \cup ToSet(new.side)
  BY <1>3, CardsOfDeck
<1>5. ToSet(s) = ToSet(t) /\ SameCards(s, t)
  <2>1. CodeCounts(deck) = CodeCounts(new)
    BY <1>2 DEF SameDeck
  <2> QED BY <1>3, <2>1, SameDeckSameCards
<1>6. \A code : Copies(deck, code) = Copies(new, code)
  <2> TAKE code
  <2>1. PICK g : g = [r \in Seq(Nat) |-> Occ(r, Same(code))]
    OBVIOUS
  <2>2. AddsCards(g, Ones(Same(code)))
    BY <2>1, OccAdds
  <2>3. g[s] = g[t]
    BY <1>5, <2>2, Rearranged
  <2>4. Occ(s, Same(code)) = Occ(t, Same(code))
    BY <2>1, <2>3
  <2> QED BY <1>3, <2>4, CopiesAre
<1>7. \A key : Points(deck.main, list, key) + Points(deck.extra, list, key) + Points(deck.side, list, key)
                 = Points(new.main, list, key) + Points(new.extra, list, key) + Points(new.side, list, key)
  <2> TAKE key
  <2>1. PICK w : w = Prices(list, key)
    OBVIOUS
  <2>2. \A c \in Nat : w[c] \in Nat
    BY <2>1, PricesAre
  <2>3. PICK g : g = [r \in Seq(Nat) |-> Weight(r, w)]
    OBVIOUS
  <2>4. AddsCards(g, w)
    BY <2>2, <2>3, WeightAdds
  <2>5. g[s] = g[t]
    BY <1>5, <2>4, Rearranged
  <2>6. Weight(s, w) = Weight(t, w)
    BY <2>3, <2>5
  <2> QED BY <1>3, <2>1, <2>6, PointsOfDeck
<1>8. \A code \in ToSet(new.main) : ~IsExtra(code)
  <2>1. \A code : IsExtra(code) => code \in ExtraCards
    BY DEF IsExtra, TypeOf, Known, ExtraCards
  <2> QED BY <1>1, <2>1
<1>9. \A code \in ToSet(new.extra) : IsExtra(code)
  <2>1. ToSet(sided.extra) = {}
    BY EmptySeq DEF ToSet
  <2> QED BY <1>1, <2>1 DEF ExtraCards
<1>10. Len(new.main) = Len(deck.main) /\ Len(new.extra) = Len(deck.extra) /\ Len(new.side) = Len(deck.side)
  BY <1>2 DEF SameDeck
<1>11. /\ \A code \in ToSet(s) :
            /\ ~IsToken(code)
            /\ Allowed(rule) \subseteq OriginOf(code)
            /\ Copies(deck, code) <= MaxCopies
            /\ DuelCode(code) \in DOMAIN list.content => Copies(deck, code) <= list.content[DuelCode(code)]
       /\ \A key \in DOMAIN list.credit_limits :
            Points(deck.main, list, key) + Points(deck.extra, list, key) + Points(deck.side, list, key)
              <= list.credit_limits[key]
       /\ Len(deck.main) \in DeckMin..DeckMax /\ Len(deck.extra) <= ExtraMax /\ Len(deck.side) <= SideMax
  BY <1>4, Zenon DEF Legal
<1>12. /\ \A code \in ToSet(t) :
            /\ ~IsToken(code)
            /\ Allowed(rule) \subseteq OriginOf(code)
            /\ Copies(new, code) <= MaxCopies
            /\ DuelCode(code) \in DOMAIN list.content => Copies(new, code) <= list.content[DuelCode(code)]
       /\ \A key \in DOMAIN list.credit_limits :
            Points(new.main, list, key) + Points(new.extra, list, key) + Points(new.side, list, key)
              <= list.credit_limits[key]
       /\ Len(new.main) \in DeckMin..DeckMax /\ Len(new.extra) <= ExtraMax /\ Len(new.side) <= SideMax
  BY <1>5, <1>6, <1>7, <1>10, <1>11, Zenon
<1>13. Legal(new, list, rule)
  BY <1>4, <1>8, <1>9, <1>12, Zenon DEF Legal
<1> QED BY <1>1, <1>13

\* The lists of the instance are lists.
LEMMA ListsAreLists == Lists \subseteq ListTypes
<1>1. "" \in Titles /\ "two" \in Titles /\ "2024" \in Titles
  BY DEF Titles
<1>2. NewList("") \in ListTypes
  BY <1>1, NewListTyped
<1>3. ASSUME NEW lines \in Seq(FileLines), lines # <<>>, lines[1].kind = "list"
      PROVE  ParseLists(lines)[1] \in ListTypes
  <2>1. PICK lists \in Seq(ListTypes) : lists = ParseLists(lines)
    BY ParseListsOn
  <2>2. 1 \in DOMAIN lists
    BY <1>3, <2>1, FirstListStays
  <2> QED BY <2>1, <2>2
<1>4. RoomList \in ListTypes
  <2>1. PICK a, b, c, d : a = Named("2024") /\ b = Limit(4, 0) /\ c = Credit(1, 9, 3) /\ d = CreditLimit(9, 5)
    OBVIOUS
  <2>2. a \in FileLines /\ b \in FileLines /\ c \in FileLines /\ d \in FileLines /\ a.kind = "list"
    BY <1>1, <2>1 DEF Named, Limit, Credit, CreditLimit, FileLines
  <2>3. PICK lines \in Seq(FileLines) : lines = <<a, b, c, d>> /\ lines # <<>> /\ lines[1] = a
    <3>1. PICK lines : lines = <<a, b, c, d>>
      OBVIOUS
    <3>2. Len(lines) = 4 /\ lines[1] = a
      BY <3>1
    <3>3. lines # <<>>
      BY <3>1
    <3>4. <<a, b, c, d>> \in Seq(FileLines)
      BY ONLY <2>2
    <3> QED BY <3>1, <3>2, <3>3, <3>4
  <2> QED BY <1>3, <2>1, <2>2, <2>3 DEF RoomList
<1>5. ParseLists(<<Named("two"), Limit(1, 2), Limit(2, 1)>>)[1] \in ListTypes
  <2>1. PICK a, b, c : a = Named("two") /\ b = Limit(1, 2) /\ c = Limit(2, 1)
    OBVIOUS
  <2>2. a \in FileLines /\ b \in FileLines /\ c \in FileLines /\ a.kind = "list"
    BY <1>1, <2>1 DEF Named, Limit, FileLines
  <2>3. PICK lines \in Seq(FileLines) : lines = <<a, b, c>> /\ lines # <<>> /\ lines[1] = a
    <3>1. PICK lines : lines = <<a, b, c>>
      OBVIOUS
    <3>2. Len(lines) = 3 /\ lines[1] = a
      BY <3>1
    <3>3. lines # <<>>
      BY <3>1
    <3>4. <<a, b, c>> \in Seq(FileLines)
      BY ONLY <2>2
    <3> QED BY <3>1, <3>2, <3>3, <3>4
  <2> QED BY <1>3, <2>1, <2>2, <2>3
<1> QED BY <1>2, <1>4, <1>5 DEF Lists

LEMMA LoadedDecksAreDecks == LoadedDecks \subseteq DeckTypes
BY SentDeck, LoadedDeck DEF LoadedDecks

\* All that is checked.
LEMMA ChecksRight == ChecksAreTheRules
<1>1. \A list \in DOMAIN CheckTable : CheckTable[list]
  BY ListsAreLists, LoadedDecksAreDecks, CheckedIsLegal DEF CheckTable
<1>2. \A list \in DOMAIN SideTable : SideTable[list]
  <2>1. ASSUME NEW list \in Lists, NEW deck \in LoadedDecks, Legal(deck, list, RoomRule),
               NEW sided \in Sent, SideAccepted(deck, sided)
        PROVE  Legal(Separated(sided), list, RoomRule)
    BY <2>1, ListsAreLists, LoadedDecksAreDecks, SentDeck, SidedIsLegal
  <2> QED BY <2>1 DEF SideTable
<1> QED BY <1>1, <1>2, AliasesAgree DEF ChecksAreTheRules, CheckMeansLegal, AliasesCountTogether, SidedStaysLegal

-----------------------------------------------------------------------------
(* The theorems.                                                            *)

\* Decks and lists are always read as they were meant, whatever the players send: the deck
\* a player brings to the duel holds no unknown card and no token and has every card in its
\* section (Deck::load), the text form of a deck loses nothing, the hash that grows with
\* every line of a file is that of the list, and the list found by it has its entries.
THEOREM DecksReadAsMeant == Spec => []ReadAsMeant
<1>1. TypeOK => ReadAsMeant
  BY ReadRight
<1> QED
  BY <1>1, TypeCorrect, PTL

\* The checks always let through what the rules allow and nothing else, whatever the codes a
\* card is named by, and a deck that siding puts in the place of a legal one is legal.
THEOREM ChecksAlwaysTheRules == Spec => []ChecksAreTheRules
<1>1. ChecksAreTheRules
  BY ChecksRight
<1> QED
  BY <1>1, PTL

=============================================================================

-------------------------------- MODULE Room --------------------------------
(***************************************************************************)
(* The room before the duel starts: the actor that owns the `Duel` in stage *)
(* Begin, its mailbox, and the bridge task that `DuelHost` runs for every   *)
(* connected client.                                                        *)
(*                                                                          *)
(* A bridge tags everything its client says with the position it believes   *)
(* the client to hold (`my_position`), and learns a new position only when  *)
(* it reads a TypeChange from the client's stoc channel.  The actor handles *)
(* one request at a time, moves clients between the undecided slab, the     *)
(* player slots and the observer slab, and keeps in `sender` a second copy  *)
(* of who sits where.                                                       *)
(*                                                                          *)
(* The initial state is the one the CreateGame request leaves (it is the    *)
(* first entry of the mailbox of every room).  HsStart hands the room over  *)
(* to SingleDuel; what happens after that is not part of this module.       *)
(***************************************************************************)
EXTENDS Naturals, Sequences, FiniteSets

CONSTANTS
  Clients,        \* the connections that may come to the room
  Nobody,         \* the dummy sender / the absence of a client
  MaxKey,         \* bound: slab keys are 0..MaxKey
  Decks,          \* deck contents, up to what the checks tell apart
  EmptyDeck,      \* Deck::new(), the deck of a player who has sent none
  Unloadable,     \* decks on which Deck::load reports an error
  Illegal,        \* decks on which Deck::prepare reports an error
  NoCheckDeck,    \* host_info.no_check_deck
  TerminateWhen,  \* terminate plugin: terminate_when, a SendTarget
  Offers,         \* the request types the clients of this instance send
  MaxQueue,       \* bound: clients send only while the mailbox is shorter
  MaxLag          \* bound: ... and while their bridge has fewer messages unread

Seats == {0, 1}   \* the player slots of a SingleDuel (max_player_count = 2)

ASSUME RoomAssumption ==
  /\ Nobody \notin Clients
  /\ MaxKey \in Nat
  /\ EmptyDeck \in Decks
  /\ EmptyDeck \in Illegal
  /\ NoCheckDeck \in BOOLEAN
  /\ TerminateWhen \in {"All", "AllPlayer", "AllObserver", "None"}
  /\ MaxQueue \in Nat
  /\ MaxLag \in Nat

\* Every client holds at most one place, so one key per client is enough and no
\* insertion ever waits for the bound MaxKey (HasRoom in three guards).
ASSUME KeysAssumption == IsFiniteSet(Clients) /\ Cardinality(Clients) <= MaxKey + 1

Slots == INSTANCE Slab WITH Vacant <- Nobody

-----------------------------------------------------------------------------
(* Netplayer: the positions.                                                *)
Player(i)    == [kind |-> "Player", index |-> i]
Observer(k)  == [kind |-> "Observer", index |-> k]
Undecided(k) == [kind |-> "Undecided", index |-> k]
Unknown      == [kind |-> "Unknown", index |-> 0]

Positions == {Player(i) : i \in Seats} \cup {Observer(k) : k \in Slots!Keys}
             \cup {Undecided(k) : k \in Slots!Keys} \cup {Unknown}

\* Requests of clients (ctos) and of the room itself (MessageEx).
PlainTypes == {"HsToDuelist", "HsToObserver", "LeaveGame", "HsStart", "HsReady", "HsNotReady"}
Requests ==
  [type : {"ClientJoin"}, client : Clients]
  \cup [type : {"JoinGame"}, from : Positions, accepted : BOOLEAN]
  \cup [type : {"UpdateDeck"}, from : Positions, deck : Decks]
  \cup [type : {"HsKick"}, from : Positions, pos : Seats]
  \cup [type : PlainTypes, from : Positions]
  \cup [type : {"ValidateDeck"}, player : Seats, deck : Decks]
  \cup [type : {"SendDeckValidation"}, player : Seats]

\* The two stoc messages a bridge reads for itself.
StocMessages == [type : {"TypeChange", "LeaveGame"}, pos : Positions]

SlotRecords == [client : Clients, ready : BOOLEAN, deck : Decks, deck_error : BOOLEAN]
EmptySlot == [client |-> Nobody, ready |-> FALSE, deck |-> EmptyDeck, deck_error |-> FALSE]

\* DuelPlayer::from(BaseDuelPlayer): what is known of a client who takes a slot.
NewPlayer(c) == [client |-> c, ready |-> FALSE, deck |-> EmptyDeck, deck_error |-> FALSE]

VARIABLES
  running,         \* the actor loop has not been left
  stage,           \* duel.stage: "Begin", or "Finger" once the duel starts
  queue,           \* the mailbox: requests not handled yet
  players,         \* duel.players
  observers,       \* duel.observers
  uninit_players,  \* duel.uninit_players
  sender,          \* duel.sender: players, observers, undecided
  host_player,     \* duel.host_player
  conn,            \* per client: the life of its bridge task
  my_position,     \* per client: where the bridge believes it is
  inbox            \* per client: stoc messages the bridge has not read

seating == <<players, observers, uninit_players, sender, host_player>>
bridges == <<conn, my_position, inbox>>
vars == <<running, stage, queue, seating, bridges>>

-----------------------------------------------------------------------------
(* Who is where.                                                            *)
Occupied(s) == players[s].client # Nobody

NoPlayers == \A s \in Seats : ~Occupied(s)

\* Mutant of FirstEmptySeat: nobody looks whether the seat is empty.
FirstSeat == 0

\* players.iter().position(|player| player.is_none())
FirstEmptySeat == CHOOSE s \in Seats : ~Occupied(s) /\ \A t \in Seats : ~Occupied(t) => s <= t

AnyEmptySeat == \E s \in Seats : ~Occupied(s)

Places(c) ==
  {Player(s) : s \in {t \in Seats : players[t].client = c}}
  \cup {Observer(k) : k \in {j \in Slots!Keys : observers.val[j] = c}}
  \cup {Undecided(k) : k \in {j \in Slots!Keys : uninit_players.val[j] = c}}

\* Some sender of the client's stoc channel is still alive.
Held(c) == Places(c) # {}

\* Mutant of ChannelAt: the observers' channels are not looked up.
SkipsObservers(snd, pos) ==
  CASE pos.kind = "Player"    -> snd.players[pos.index]
    [] pos.kind = "Undecided" -> snd.undecided.val[pos.index]
    [] OTHER                  -> Nobody

\* sender.players[..] / observers.get(..) / undecided.get(..): the channel at
\* a position, Nobody when there is none or it is the dummy.
ChannelAt(snd, pos) ==
  CASE pos.kind = "Player"    -> snd.players[pos.index]
    [] pos.kind = "Observer"  -> snd.observers.val[pos.index]
    [] pos.kind = "Undecided" -> snd.undecided.val[pos.index]
    [] OTHER                  -> Nobody

\* Sender::send to SendTarget::Single(pos), on the sender `snd`.  A channel
\* whose receiver is gone swallows the message.
SendSingle(snd, pos, message) ==
  LET c == ChannelAt(snd, pos)
  IN  inbox' = [d \in Clients |->
        IF d = c /\ conn[d] = "open" THEN Append(inbox[d], message) ELSE inbox[d]]

TypeChange(pos) == [type |-> "TypeChange", pos |-> pos]

\* Mutant of TakenOut: whoever moves on is left behind as well.
LeftBehind(slab, k) == slab

\* try_remove(k) on the way to another place; done to the duel's slab and the sender's.
TakenOut(slab, k) == Slots!SlabRemove(slab, k)

\* Mutant of ClearPlayer: the sender's copy is forgotten.
ForgetsSender(snd, s) == snd

\* Sender::set_player / clear_player.
SetPlayer(snd, s, c) == [snd EXCEPT !.players[s] = c]
ClearPlayer(snd, s)  == [snd EXCEPT !.players[s] = Nobody]

-----------------------------------------------------------------------------
EmptyPlayers == [s \in Seats |-> EmptySlot]
EmptySender == [players   |-> [s \in Seats |-> Nobody],
                observers |-> Slots!EmptySlab,
                undecided |-> Slots!EmptySlab]

Init ==
  /\ running = TRUE
  /\ stage = "Begin"
  /\ queue = <<>>
  /\ players = EmptyPlayers
  /\ observers = Slots!EmptySlab
  /\ uninit_players = Slots!EmptySlab
  /\ sender = EmptySender
  /\ host_player = Unknown
  /\ conn = [c \in Clients |-> "outside"]
  /\ my_position = [c \in Clients |-> Unknown]
  /\ inbox = [c \in Clients |-> <<>>]

-----------------------------------------------------------------------------
(* The bridge of a client.                                                  *)

\* The client connects: the bridge announces it and waits for its position.
Connect(c) ==
  /\ conn[c] = "outside"
  /\ Len(queue) < MaxQueue
  /\ conn' = [conn EXCEPT ![c] = "joining"]
  /\ queue' = IF running THEN Append(queue, [type |-> "ClientJoin", client |-> c]) ELSE queue
  /\ UNCHANGED <<running, stage, seating, my_position, inbox>>

\* What the client's screen offers in the place its bridge knows.
Offered(pos) ==
  (IF pos.kind = "Undecided"
   THEN [type : {"JoinGame"}, from : {pos}, accepted : BOOLEAN] ELSE {})
  \cup (IF pos.kind = "Observer" THEN [type : {"HsToDuelist"}, from : {pos}] ELSE {})
  \cup (IF pos.kind = "Player"
        THEN [type : {"HsToObserver", "HsReady", "HsNotReady"}, from : {pos}]
             \cup [type : {"UpdateDeck"}, from : {pos}, deck : Decks] ELSE {})
  \cup (IF pos.kind \in {"Player", "Observer"}
        THEN [type : {"HsStart"}, from : {pos}]
             \cup [type : {"HsKick"}, from : {pos}, pos : Seats] ELSE {})

\* A message of the client's, tagged with the position known now.
ClientSpeaks(c) ==
  /\ conn[c] = "open"
  /\ running
  /\ Len(queue) < MaxQueue
  /\ Len(inbox[c]) < MaxLag
  /\ \E m \in Offered(my_position[c]) :
       /\ m.type \in Offers
       /\ queue' = Append(queue, m)
  /\ UNCHANGED <<running, stage, seating, bridges>>

\* The task returns: its variables and the receiving end of its channel go.
Close(c) ==
  /\ conn' = [conn EXCEPT ![c] = "closed"]
  /\ my_position' = [my_position EXCEPT ![c] = Unknown]
  /\ inbox' = [inbox EXCEPT ![c] = <<>>]

\* The client's stream ends: the bridge says so and stops.
ClientEnds(c) ==
  /\ conn[c] = "open"
  /\ Close(c)
  /\ queue' = IF running THEN Append(queue, [type |-> "LeaveGame", from |-> my_position[c]])
                         ELSE queue
  /\ UNCHANGED <<running, stage, seating>>

\* The bridge reads the next stoc message.
BridgeReads(c) ==
  /\ conn[c] = "open"
  /\ inbox[c] # <<>>
  /\ LET m == Head(inbox[c]) IN
     IF m.type = "LeaveGame" /\ m.pos = my_position[c]
     THEN Close(c)
     ELSE /\ my_position' = IF m.type = "TypeChange"
                            THEN [my_position EXCEPT ![c] = m.pos] ELSE my_position
          /\ inbox' = [inbox EXCEPT ![c] = Tail(@)]
          /\ UNCHANGED conn
  /\ UNCHANGED <<running, stage, queue, seating>>

\* Every sender of the channel is gone and the channel is drained: the bridge
\* stops without a word to the actor.
BridgeStops(c) ==
  /\ \/ conn[c] = "open" /\ inbox[c] = <<>> /\ ~Held(c)
     \/ conn[c] = "joining" /\ ~running
  /\ Close(c)
  /\ UNCHANGED <<running, stage, queue, seating>>

-----------------------------------------------------------------------------
(* The actor.  Every handler takes the head of the mailbox.                 *)
Request == Head(queue)

Receive(type) == running /\ stage = "Begin" /\ queue # <<>> /\ Request.type = type

Done(more) == queue' = Tail(queue) \o more

\* A request whose handler returns early changes nothing.
Ignored == Done(<<>>) /\ UNCHANGED <<running, stage, seating, bridges>>

OnClientJoin ==
  /\ Receive("ClientJoin")
  /\ Slots!HasRoom(uninit_players)
  /\ LET c == Request.client
         pos == Undecided(Slots!VacantKey(uninit_players)) IN
     /\ uninit_players' = Slots!SlabInsert(uninit_players, c)
     /\ sender' = [sender EXCEPT !.undecided = Slots!SlabInsert(@, c)]
     /\ conn' = [conn EXCEPT ![c] = "open"]
     /\ my_position' = [my_position EXCEPT ![c] = pos]
  /\ Done(<<>>)
  /\ UNCHANGED <<running, stage, players, observers, host_player, inbox>>

\* Wrong version, wrong password, or nobody undecided under that key.
JoinRefused == \/ ~Request.accepted
               \/ Request.from.kind # "Undecided"
               \/ ~Slots!Contains(uninit_players, Request.from.index)

OnJoinGame ==
  /\ Receive("JoinGame")
  /\ AnyEmptySeat \/ Slots!HasRoom(observers)
  /\ Done(<<>>)
  /\ UNCHANGED <<running, stage, conn, my_position>>
  /\ IF JoinRefused THEN UNCHANGED <<seating, inbox>>
     ELSE LET k == Request.from.index
              c == uninit_players.val[k]
              is_creator == NoPlayers /\ Slots!IsEmptySlab(observers)
              pos == IF AnyEmptySeat THEN Player(FirstEmptySeat)
                                     ELSE Observer(Slots!VacantKey(observers))
          IN
          /\ uninit_players' = TakenOut(uninit_players, k)
          /\ host_player' = IF is_creator THEN pos ELSE host_player
          /\ IF AnyEmptySeat
             THEN /\ players' = [players EXCEPT ![pos.index] = NewPlayer(c)]
                  /\ sender' = SetPlayer([sender EXCEPT !.undecided = TakenOut(@, k)],
                                         pos.index, c)
                  /\ UNCHANGED observers
             ELSE /\ observers' = Slots!SlabInsert(observers, c)
                  /\ sender' = [sender EXCEPT
                       !.undecided = TakenOut(@, k),
                       !.observers = Slots!SlabInsert(@, c)]
                  /\ UNCHANGED players
          /\ SendSingle(sender', pos, TypeChange(pos))

OnHsToDuelist ==
  /\ Receive("HsToDuelist")
  /\ LET k == Request.from.index
         new_position == Player(FirstEmptySeat) IN
     IF \/ Request.from.kind # "Observer"
        \/ ~AnyEmptySeat
        \/ ~Slots!Contains(observers, k)
     THEN Ignored
     ELSE /\ observers' = TakenOut(observers, k)
          /\ players' = [players EXCEPT ![new_position.index] = NewPlayer(observers.val[k])]
          /\ sender' = SetPlayer([sender EXCEPT !.observers = TakenOut(@, k)],
                                 new_position.index, observers.val[k])
          /\ host_player' = IF host_player = Request.from THEN new_position ELSE host_player
          /\ SendSingle(sender', new_position, TypeChange(new_position))
          /\ Done(<<>>)
          /\ UNCHANGED <<running, stage, uninit_players, conn, my_position>>

OnHsToObserver ==
  /\ Receive("HsToObserver")
  /\ Slots!HasRoom(observers)
  /\ LET s == Request.from.index
         new_position == Observer(Slots!VacantKey(observers)) IN
     IF Request.from.kind # "Player" \/ ~Occupied(s)
     THEN Ignored
     ELSE /\ players' = [players EXCEPT ![s] = EmptySlot]
          /\ observers' = Slots!SlabInsert(observers, players[s].client)
          /\ sender' = [ClearPlayer(sender, s) EXCEPT
                          !.observers = Slots!SlabInsert(@, players[s].client)]
          /\ host_player' = IF host_player = Request.from THEN new_position ELSE host_player
          /\ SendSingle(sender', new_position, TypeChange(new_position))
          /\ Done(<<>>)
          /\ UNCHANGED <<running, stage, uninit_players, conn, my_position>>

\* plugin::terminate::is_player_left
IsPlayerLeft(noPlayers, noObservers) ==
  CASE TerminateWhen = "All"         -> noPlayers /\ noObservers
    [] TerminateWhen = "AllPlayer"   -> noPlayers
    [] TerminateWhen = "AllObserver" -> noObservers
    [] OTHER                         -> FALSE

\* Mutant of Terminate: a task keeps the undecided clients' channels.
KeepsUndecided ==
  /\ running' = FALSE
  /\ queue' = <<>>
  /\ UNCHANGED seating

\* The loop is left: the duel with all its senders and the mailbox are dropped.
Terminate ==
  /\ running' = FALSE
  /\ queue' = <<>>
  /\ players' = EmptyPlayers
  /\ observers' = Slots!EmptySlab
  /\ uninit_players' = Slots!EmptySlab
  /\ sender' = EmptySender
  /\ host_player' = Unknown

\* Mutant of Heirs: empty slots are candidates too.
AnyHeirs(leaver) == {s \in Seats : Player(s) # leaver}

\* The seats that can take over from a leaving host.
Heirs(leaver) == {s \in Seats : Occupied(s) /\ Player(s) # leaver}
Heir(leaver) == CHOOSE s \in Heirs(leaver) : \A t \in Heirs(leaver) : s <= t

\* What is left of a slab without the key a departure names: try_remove.
Without(slab, kind, pos) ==
  IF pos.kind = kind /\ Slots!Contains(slab, pos.index)
  THEN Slots!SlabRemove(slab, pos.index) ELSE slab

OnLeaveGame ==
  /\ Receive("LeaveGame")
  /\ LET pos == Request.from
         host_leaves == pos = host_player
         heir == Heir(pos)
         seated == IF host_leaves THEN [players EXCEPT ![heir].ready = FALSE] ELSE players
         left == IF pos.kind = "Player" THEN [seated EXCEPT ![pos.index] = EmptySlot] ELSE seated
         watching == Without(observers, "Observer", pos)
         noPlayers == \A s \in Seats : left[s].client = Nobody
         noObservers == Slots!IsEmptySlab(watching)
     IN
     \/ /\ host_leaves /\ Heirs(pos) = {}
        /\ Terminate
        /\ UNCHANGED inbox
     \/ /\ ~host_leaves \/ Heirs(pos) # {}
        /\ IF host_leaves THEN SendSingle(sender, Player(heir), TypeChange(Player(heir)))
                          ELSE UNCHANGED inbox
        /\ IF (noPlayers /\ noObservers) \/ IsPlayerLeft(noPlayers, noObservers)
           THEN Terminate
           ELSE /\ players' = left
                /\ observers' = watching
                /\ uninit_players' = Without(uninit_players, "Undecided", pos)
                /\ sender' = [IF pos.kind = "Player" THEN ClearPlayer(sender, pos.index) ELSE sender
                     EXCEPT !.observers = IF watching = observers THEN @ ELSE Slots!SlabRemove(@, pos.index),
                            !.undecided = IF pos.kind = "Undecided" /\ Slots!Contains(uninit_players, pos.index)
                                          THEN Slots!SlabRemove(@, pos.index) ELSE @]
                /\ host_player' = IF host_leaves THEN Player(heir) ELSE host_player
                /\ Done(<<>>)
                /\ UNCHANGED running
  /\ UNCHANGED <<stage, conn, my_position>>

\* Mutant of NotUnready: a ready player may still act on the deck.
EvenIfReady(pos) == pos.kind # "Player" \/ ~Occupied(pos.index)

\* No player there, or one who is ready already.
NotUnready(pos) == pos.kind # "Player" \/ ~Occupied(pos.index) \/ players[pos.index].ready

OnUpdateDeck ==
  /\ Receive("UpdateDeck")
  /\ LET s == Request.from.index IN
     IF NotUnready(Request.from)
     THEN Ignored
     ELSE /\ players' = [players EXCEPT ![s].deck = Request.deck,
                                        ![s].deck_error = (Request.deck \in Unloadable)]
          /\ Done(<<>>)
          /\ UNCHANGED <<running, stage, observers, uninit_players, sender, host_player, bridges>>

OnHsReady ==
  /\ Receive("HsReady")
  /\ LET s == Request.from.index IN
     IF NotUnready(Request.from)
     THEN Ignored
     ELSE /\ \/ /\ NoCheckDeck
                /\ players' = [players EXCEPT ![s].ready = TRUE]
                /\ Done(<<>>)
             \/ /\ ~NoCheckDeck /\ players[s].deck_error
                /\ Done(<<[type |-> "SendDeckValidation", player |-> s]>>)
                /\ UNCHANGED players
             \/ /\ ~NoCheckDeck /\ ~players[s].deck_error
                /\ Done(<<[type |-> "ValidateDeck", player |-> s, deck |-> players[s].deck]>>)
                /\ UNCHANGED players
          /\ UNCHANGED <<running, stage, observers, uninit_players, sender, host_player, bridges>>

OnValidateDeck ==
  /\ Receive("ValidateDeck")
  /\ LET s == Request.player IN
     /\ players' = IF Occupied(s)
                   THEN [players EXCEPT ![s].deck_error = (Request.deck \in Illegal)]
                   ELSE players
     /\ Done(<<[type |-> "SendDeckValidation", player |-> s]>>)
  /\ UNCHANGED <<running, stage, observers, uninit_players, sender, host_player, bridges>>

\* Mutant of NothingToReady: the slot is not checked for being empty.
EvenIfEmpty(s) == players[s].ready \/ players[s].deck_error

\* The slot the validated deck came from is empty, ready or in error by now.
NothingToReady(s) == ~Occupied(s) \/ players[s].ready \/ players[s].deck_error

OnSendDeckValidation ==
  /\ Receive("SendDeckValidation")
  /\ LET s == Request.player IN
     IF NothingToReady(s)
     THEN Ignored
     ELSE /\ players' = [players EXCEPT ![s].ready = TRUE]
          /\ Done(<<>>)
          /\ UNCHANGED <<running, stage, observers, uninit_players, sender, host_player, bridges>>

OnHsNotReady ==
  /\ Receive("HsNotReady")
  /\ LET s == Request.from.index IN
     IF Request.from.kind # "Player" \/ ~Occupied(s) \/ ~players[s].ready
     THEN Ignored
     ELSE /\ players' = [players EXCEPT ![s].ready = FALSE]
          /\ Done(<<>>)
          /\ UNCHANGED <<running, stage, observers, uninit_players, sender, host_player, bridges>>

\* The slot's channel is replaced by the dummy before LeaveGame is sent to it.
OnHsKick ==
  /\ Receive("HsKick")
  /\ LET s == Request.pos IN
     IF Request.from # host_player \/ Request.from = Player(s) \/ ~Occupied(s)
     THEN Ignored
     ELSE /\ sender' = ClearPlayer(sender, s)
          /\ SendSingle(sender', Player(s), [type |-> "LeaveGame", pos |-> Player(s)])
          /\ players' = [players EXCEPT ![s] = EmptySlot]
          /\ Done(<<>>)
          /\ UNCHANGED <<running, stage, observers, uninit_players, host_player, conn, my_position>>

\* Mutant of StartRefused: only the host's own seat has to be ready.
HostReadySuffices ==
  \/ Request.from # host_player
  \/ host_player.kind = "Player" /\ ~players[host_player.index].ready
  \/ \E s \in Seats : ~Occupied(s)

StartRefused == \/ Request.from # host_player
                \/ \E s \in Seats : ~Occupied(s) \/ ~players[s].ready

\* All that follows the change of stage belongs to SingleDuel.
OnHsStart ==
  /\ Receive("HsStart")
  /\ IF StartRefused
     THEN Ignored
     ELSE /\ stage' = "Finger"
          /\ Done(<<>>)
          /\ UNCHANGED <<running, seating, bridges>>

-----------------------------------------------------------------------------
Actor ==
  \/ OnClientJoin \/ OnJoinGame \/ OnHsToDuelist \/ OnHsToObserver
  \/ OnLeaveGame \/ OnUpdateDeck \/ OnHsReady \/ OnValidateDeck
  \/ OnSendDeckValidation \/ OnHsNotReady \/ OnHsKick \/ OnHsStart

Bridge(c) == BridgeReads(c) \/ BridgeStops(c)
ClientActs(c) == Connect(c) \/ ClientSpeaks(c) \/ ClientEnds(c)

Next == Actor \/ \E c \in Clients : Bridge(c) \/ ClientActs(c)

Spec == Init /\ [][Next]_vars

\* The actor and the bridges are tasks of a fair scheduler.  Clients do as they like.
FairSpec == Spec /\ WF_vars(Actor) /\ \A c \in Clients : WF_vars(Bridge(c))
-----------------------------------------------------------------------------
(* Properties.                                                              *)

\* Every variable has its type.
TypeOK ==
  /\ running \in BOOLEAN
  /\ stage \in {"Begin", "Finger"}
  /\ queue \in Seq(Requests)
  /\ players \in [Seats -> SlotRecords \cup {EmptySlot}]
  /\ observers \in Slots!Slabs(Clients)
  /\ uninit_players \in Slots!Slabs(Clients)
  /\ sender \in [players   : [Seats -> Clients \cup {Nobody}],
                 observers : Slots!Slabs(Clients),
                 undecided : Slots!Slabs(Clients)]
  /\ host_player \in Positions
  /\ conn \in [Clients -> {"outside", "joining", "open", "closed"}]
  /\ my_position \in [Clients -> Positions]
  /\ inbox \in [Clients -> Seq(StocMessages)]

\* The second copy of the seating that every handler keeps by hand never drifts
\* from the first, down to the key each slab hands out next: a message sent to
\* a position reaches the client who is there, and Slab::remove on the sender's
\* side never meets a vacant key (it would panic and end the room).
SenderInStep ==
  /\ sender.players = [s \in Seats |-> players[s].client]
  /\ sender.observers = observers
  /\ sender.undecided = uninit_players

\* However joins, seat changes, kicks and departures interleave, a client is in
\* at most one place.
OnePlace == \A c \in Clients : \A p, q \in Places(c) : p = q

\* Somebody sits where the room believes its host to be, as long as anybody sits
\* anywhere: the room can always be started.
HostSeated ==
  ~NoPlayers \/ ~Slots!IsEmptySlab(observers) =>
    \/ host_player.kind = "Player" /\ Occupied(host_player.index)
    \/ host_player.kind = "Observer" /\ Slots!Contains(observers, host_player.index)

\* Where a bridge will believe its client to be once it has read its inbox.
Told(c) == IF inbox[c] = <<>> THEN my_position[c] ELSE inbox[c][Len(inbox[c])].pos

\* The bridge of every client the room still holds is told, in order, where its
\* client is: once it has read what is waiting for it, it tags requests right.
PositionTold == \A c \in Clients : conn[c] = "open" /\ Held(c) => Told(c) \in Places(c)

\* What SingleDuel starts from: two different clients in the slots, both ready,
\* and a host who is seated.
HandOver ==
  stage = "Finger" =>
    /\ \A s \in Seats : Occupied(s) /\ players[s].ready
    /\ players[0].client # players[1].client
    /\ HostSeated

\* The deck a client is ready with is the deck the client starts with: while a
\* player is ready no request, validation or late answer replaces the deck.
ReadyDeckFrozen ==
  [][\A s \in Seats :
       players[s].ready /\ players'[s].ready /\ players'[s].client = players[s].client
         => players'[s].deck = players[s].deck]_vars

\* The bridge of a client the room has dropped, by a kick or at its end, ends as
\* well: none waits for ever on a channel or a position that will never come.
Dropped(c) == IF running THEN conn[c] = "open" /\ ~Held(c) ELSE conn[c] # "outside"
BridgesEnd == \A c \in Clients : Dropped(c) ~> (conn[c] = "closed")

\* Who is in a slab, and who is where host_player points.
In(slab) == {c \in Clients : \E k \in Slots!Keys : slab.val[k] = c}
Host == IF host_player.kind = "Player" THEN players[host_player.index].client
        ELSE IF host_player.kind = "Observer" THEN observers.val[host_player.index]
        ELSE Nobody

Promise == INSTANCE Lobby WITH
  phase     <- IF ~running THEN "Closed" ELSE IF stage = "Begin" THEN "Open" ELSE "Started",
  undecided <- In(uninit_players),
  seated    <- [s \in Seats |-> players[s].client],
  watching  <- In(observers),
  host      <- Host

\* Seen from the clients, the room behaves like Lobby: whatever positions its
\* requests carry, one client moves at a time and to a free seat only, the right to
\* start stays with one client and passes on, and the room closes when it may.
KeepsLobby == Promise!Spec

=============================================================================

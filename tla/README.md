# A TLA+ model of ygopru

ygopru is a Rust implementation of the ygopro duel server: rooms in which two
players (four in tag mode) and any number of observers meet, exchange decks,
and play a match whose rules run in an external C++ engine (ygocore).  This
directory models the parts of it in which the order of events, or a rule that is
spread over many places, decides what happens; it checks them with TLC on small
instances, and proves the most important invariants with TLAPS for instances of
every size.

## 1. The system

Everything around a room is an actor.  `DuelHost::new` (ygopro/src/host.rs)
spawns one task that owns the `Duel` and takes one `Request` at a time from an
unbounded mailbox; there are no locks and no shared memory.  Requests come from

* **bridges** (host.rs, one task per client): they tag what the client says
  with the position they believe the client to hold (`my_position`) and put it
  in the mailbox; in the other direction they read the client's stoc channel,
  and learn a new position only when they meet a `TypeChange` there;
* **the actor itself**: handlers move the game on by queueing internal messages
  (`MessageEx`), `Evolve` (run the engine) and `Command`s at the end of the same
  mailbox, behind whatever has arrived meanwhile;
* **timer tasks** of the plugin time_limit, one `timer_tick` a second.

A request is given to all handlers registered for its type, in order of
priority (plugins before or after the main handler); their responses are
combined, and the combined response decides what is sent back, whether the next
message of a chain is queued, or whether the loop ends.

| Component | State it keeps | Operations | Hard part | Modelled in |
|---|---|---|---|---|
| Room: ygopro_handlers.rs in stage Begin, host.rs, player.rs | `players`, `observers`, `uninit_players`, `host_player`, decks, ready marks; per client the bridge's `my_position` and unread messages | ClientJoin, JoinGame, HsToDuelist, HsToObserver, LeaveGame, HsKick, UpdateDeck, HsReady, ValidateDeck, SendDeckValidation, HsNotReady, HsStart | stale positions; two copies of the seating; validation in three steps | `Room` |
| Sender (duel.rs) | channels of players, observers, undecided clients; recorded messages | send, set_player, clear_player | in step with the seating by hand; a masked copy per receiver | `Room`, `Views`, `History` |
| SingleDuel (single_duel.rs, ygopro_handlers.rs, ygocore_handlers.rs, message.rs) | `stage`, gates (`AllowMessage`), hands, first attacker and decider, `duel_winner`, `last_response`, recorded answers, the engine | HandResult, TpResult, FirstShuffle, DuelInit, DuelStart, Evolve, Response, Surrender, LeaveGame, DuelEnd, GenerateReplay, JudgeContinueMatch, RecreateDuel, MatchEnd, UpdateDeck | chains of queued messages interrupted by clients; several ends of one duel; waiting for one another | `SingleDuel` |
| TagDuel (tag_duel.rs) | as SingleDuel for two teams; `current_turn_player`, `surrender` | the same, NewTurn | rotation of who plays against the engine's own | `TagDuel` |
| time_limit, terminate | timer task; policy | start, tick, TimeConfirm, Timeout; after LeaveGame, after MatchEnd, command | late ticks; starts and stops out of order | `SingleDuel`, `TagDuel`, `Room`; seconds in `TimeBudget` |
| time_backed, time_compensator | budget per turn, wallet | Response, TimeConfirm, NewTurn, DuelInit | two widths of unsigned numbers; handlers of equal priority | `TimeBudget` |
| soumatou, reconnect | recorded messages; what is remembered of a duel | JoinGame in the middle, its Command; RequestField | live messages against recorded ones; a screen rebuilt | `History` (and `SingleDuel` for who may come) |
| Handler framework (ygopro-handler) | handler lists, bundle, statistics | add, resolve, process | priorities, stop flag, combination of responses | `Handlers` |
| Decks, forbidden lists, card database (ygopro-data/src/data, managers.rs) | | load, prepare, check, side, print, parse, hash | several rules over the same cards | `DeckRules` |
| Replays, responses (data/replay.rs, data/response.rs, ygopro/src/replay.rs) | recorded answers | create, order the owners, lay out, play back; read and write an answer | sizes kept by hand; bytes that mean something only under their question | `Replays`, `Responses` |
| Messages and masking (message/game_message.rs, data/query.rs, derive/mask.rs) | | should_mask, clone_masked, refresh | a rule per message | `Views` |
| Field (ygopro-data/src/field.rs) | client-side view of the table | one update per game message | links by key, counters beside lists | `Field`, `Board` |
| Slab (crate) | values by key, free list | insert, remove | two slabs must hand out the same keys | `Slab` |
| Small plugins; message layouts, constants; core wrapper; derive macros; executable, FFI, configuration; external bridges; toolkits | | | no protocol state of their own | not modelled (section 5) |

What makes each correct: a client is in one place and is told which (Room); the
second copy of the seating never drifts (Sender); there is always somebody who
can start the room (Room); a duel starts with both decks, ends once, its answers
are recorded exactly, and neither player nor room waits for ever (SingleDuel);
the server knows who plays as well as the engine does (TagDuel); a second is
charged once (time plugins); a refusal is heard whatever else handlers answer
(framework); late comers see what those see who were there (soumatou,
reconnect); a covered card is shown to nobody it is not shown to at the table
(masking); and the client's table holds the engine's cards (Field).
`PROJECT.json` lists all components, and under `hazards` the places at which
these are at risk.

## 2. Modules

| Module | What it is |
|---|---|
| `Slab` | the `slab` crate as the duel uses it: values by key, and the free list that decides the next key |
| `Room` | the actor in stage Begin, its mailbox, and the bridge of every client |
| `Lobby` | what `Room` promises, told in clients: who is undecided, seated, watching, and who may start (abstract) |
| `SingleDuel` | the actor from HsStart to the end of its loop, with time_limit and terminate; clients with their own pace; the engine as an external, nondeterministic process |
| `TagDuel` | the same for two teams of two |
| `TimeBudget` | the seconds of the three time plugins |
| `History` | what is recorded, who is sent the record, what a reconnecting player is sent |
| `Handlers` | the dispatcher: registration, sorting, one request through one list |
| `Views` | which card of which message reaches which viewer (pure) |
| `DeckRules` | decks, lists, the card database (pure) |
| `Responses`, `Replays` | answers as bytes; the replay file and the duel it plays (pure) |
| `Field`, `Board` | the client's table, one operator per message; an engine that sends it messages |
| `MCRoom`, `MCDecks`, `MCMatch`, `MCTagDuel`, `MCHistory`, `MCHandlers`, `MCTimeBudget`, `MCBoard` | instances for TLC; `MCDecks` composes `Room` with `DeckRules`, `MCMatch` composes `SingleDuel` with `Replays` and `Responses`, `MCTagDuel` composes `TagDuel` with `Views` and `Replays`, and they state what relates two modules |
| `RoomProofs` (with the decks), `SingleDuelProofs`, `MatchProofs` (with the replays), `TagDuelProofs`, `TimeBudgetProofs`, `HistoryProofs`, `HandlersProofs` | theorems |
| `FoldFacts` | what these need of induction, folds, sums and flattened sequences |

Every action named `On...` is the whole handler of that request, the response it
returns and the plugins' handlers of the same request included.  Variables carry
the names of the fields they model.

### Room

`sender` is `Duel.sender`; `queue` is the mailbox; `running` says that the loop
has not been left; `conn`, `my_position` and `inbox` are, per client, the life
of its bridge task, the local variable of that name in `DuelHost::bridge`, and
the stoc messages the bridge has not read (only those it acts on: `TypeChange`,
`LeaveGame`).  `OnJoinGame` contains the version check (as a refusal), the move
from the undecided slab to slot or observers, the host assignment and the
`TypeChange` sent back; `OnLeaveGame` the succession of the host, the removal
from both copies and the two conditions that end the room.  `Connect`,
`ClientSpeaks`, `ClientEnds`, `BridgeReads` and `BridgeStops` are the branches
of the bridge's `select!`.  When the loop is left the `Duel` is dropped with all
channels: `Terminate`.

Clients follow the protocol: they ask for what their screen offers in the place
their bridge knows (`Offered`).  In `Room` deck contents are model values; which
fail to load (`Unloadable`) and which are illegal (`Illegal`) are constants, since
only the verdicts matter here.  `MCDecks` computes both with `DeckRules` from
codes.  A position sent through a channel is the same value on the other side
(u8 indices, at most MaxKey clients).

`Lobby` says the same in the terms of a client: `Enter`, `Join`, `Sit`, `Watch`,
`Leave`, `Start`, `Close`, one client at a time, to a free seat only.  It knows no
positions, keys, channels, mailboxes or copies.  `Promise` in `Room` is the
refinement mapping (`In` reads a slab as a set of clients, `Host` a position as the
client who holds it), and `KeepsLobby` the claim: ClientJoin is `Enter`, JoinGame
`Join`, HsToDuelist `Sit`, HsToObserver `Watch`, LeaveGame and HsKick `Leave` of the
client who holds the place they name, HsStart `Start`, the end of the loop `Close`,
and everything else is invisible.  A LeaveGame tagged with a place that has passed
to somebody else removes that client; `Lobby` allows it, as it does not say of whom
a departure is.

### SingleDuel

Starts in the state `on_hs_start` leaves.  Seats are `PlayerIndex` 0 and 1;
`ToCore` and `ToSeat` are the `PlayerTransformer` between seats and the core's
players (first and second attacker).  `players[s].state` is the gate
(`AllowMessage`) that the loop asks before it calls any handler (`Refused` when
it says no).  Requests queued by handlers (`Ex`, `DuelEnd`) go to the end of the
same mailbox as those of clients and timers.  The engine (`core`) either asks a
player, refuses the last answer (Retry), or declares a winner; after `end()` it
does nothing.  Starting or loading an ended core, which the code does not
prevent, has no effect in the model.  `core.first`, `core.accepted` and `core.ends`
are history variables that properties read.

A client takes the messages of its connection in order and at its own pace,
owes an answer to the last prompt it has read, confirms a `TimeLimit`, may
surrender while its screen shows a duel, and may leave at any time.  Seconds
are not counted here: any tick may be the one that exhausts the time.  At most
one `timer_tick` waits in the mailbox.  A latecomer (`StrangerJoins`,
`OnJoinGame`) is someone who connected during the match, which soumatou admits
at any stage; it takes a vacated slot if there is one.  Left out: hints, chat and
everything else a client only displays; deck contents (a side check passes or
fails); the observers, of whom one is there to keep the room or is not.

### TagDuel

The same for four seats.  `Team`, `Leader`, `Opponent`, `TeamToCore` and
`ToCore`/`ToSeat` are the transformers of tag_duel.rs; `current_turn_player` is
the field the server rotates in `on_new_turn`, `core.table` what the engine has
in play, which follows its own rule (it exchanges the decks of a team when a
turn of that team begins, but not on turn 1).  A question goes to whom `ToSeat`
says, an answer is taken from that seat's gate, a `Retry` translates that seat
back.  Surrender needs both members; what `gaveUp` remembers of a client is
history.  Clients may answer before they confirm their time.  A client that has
read the Win sends nothing more, and as none is obliged to send anything this
adds no behaviour: Win is not modelled at the client.

### TimeBudget

`time.limit`, `time.backed` and `time.compensator` are the fields of a player;
`time_elapsed` is the u32 that ticks count; `AsU16`, `Capped` and `Floored` are
the narrowing and the saturating operations.  `OnResponse` runs the handlers of
the three plugins in `order`, any permutation, because they are registered with
one priority.  `seconds`, `returned`, `deposited` and `forgiven` are history.  The
actions also contain the gates of time_limit: a prompt, `TimeConfirm`, `Response`.
A second can be `forgiven`: when one ends between an answer and the next question,
`timer_tick` holds it against the clock of the player who answered
(`last_response` is still that player), and it is charged to the clock of the
player who is asked next; if that clock has nothing left, `saturating_sub` drops
it.  One question forgives one second at most (`OneSecondForgiven`), until
somebody has been timed out.

### History

`masked_messages` is the record of `Sender` (kind, argument; a `TypeChange` for
an observer is read back as `Degraded`), `attachment` what reconnect remembers.
A client's screen is what the messages sent to it make of it (`After`), which
is how Field reads them and is external here.  `OnSoumatou` is the Command that
sends the record; `OnRequestField` builds the messages that reconnect sends to a
player who asks, with the question that is open.

### Handlers

`Register` is `Processor::add` for one builder (plugins that are not enabled are
passed over), `Resolve` is `resolve` (globals copied into every list, then an
unstable sort: any sorted order), `Take`, `Call` and `Finish` are `process`: a
list for the key, one handler after the other until the list is exhausted or the
stop flag is raised, and the statistics.  What a handler answers is chosen from
`Answers`; `Combine` is the product of responses.  `answers` is history.

### The pure modules

`Views` describes a card by where it lies, whose it is and how it is turned, and a
message by its kind and its cards; `ShouldMask`, `Kept`, `HiddenInfo` are the
methods of the message types, `RefreshedZones` and `Refreshed` the handlers of
ygocore_handlers.rs that query zones and send them again.  `Secret`, `Exact`,
`Informed` and `Legible` compare what reaches a viewer with `MayRead`, the rule
of the table.  `DeckRules` follows deck.rs, lflist.rs and managers.rs step by
step as folds; its properties compare them with counting.  A list's hash is a
set of atoms, one per card, and exclusive or is the symmetric difference: words
that cancel by chance are not modelled.  `Responses` writes and reads every kind
of answer as bytes.  `Replays` has the owners of a replay, the swap made when
the second seat began, the sizes, and the duel `counterfeit_duel` builds.

`Field` composes each message from the same helpers as field.rs (take a card
out, put it in, correct the sequence numbers).  `Board` is the engine: it knows
the cards, moves them along the rules of the game, tells a code or hides it, and
compares.

## 3. What is checked

The eleven runs with `expect: pass` finish without error; deadlock checking is
off because a room may come to rest (nobody speaks) and ends, and the other
modules stop at their bounds.  A property that is a conjunction is named once
and its parts are stated, each with its comment, in the module.

| Run | Instance | Shows |
|---|---|---|
| `RoomSeating` | 3 clients, mailbox 1, 1 unread message per bridge | `SenderInStep`, `OnePlace`, `HostSeated`, `PositionTold` through joins, seat changes, kicks and departures; the third client makes observers and full slots happen |
| `RoomReady` | `MCDecks`: 2 clients, 4 decks (none, legal, unknown code, forbidden) computed from a database of six rows, mailbox 2; decks of 1 to 2 cards for the rules | `TypeOK`, `HandOver` (what SingleDuel starts from), `ReadyDeckFrozen`; `ReadAsMeant` (`PlayedIsClean`, `PrintsAndParses`, `HostListIsPlayed`, `HashIsOfContent`) and `ChecksAreTheRules` (`CheckMeansLegal`, `AliasesCountTogether`, `SidedStaysLegal`) over all small decks and lists |
| `RoomCloses` | 2 clients who may ready up and start without deck checks, mailbox 2, fair actor and bridges, policy AllPlayer | `BridgesEnd`: after a kick and after the end of the room; `KeepsLobby`: the refinement of `Lobby` |
| `MatchTimed` | `MCMatch`: match of up to 3 duels with a time limit, 1 prompt per duel, mailbox 2 | `TypeOK`, `EnginePlaysBothDecks`; `ReplayPlaysAgain` (`ReplayIsOfThisDuel`, `SizeIsExact`); `AnswersUnderstood` (`AnswersReadBack`, `PassingEarnsNothing`); `WinnerIsTheEngines`: a duel is recorded for the seat the engine means, and against whoever gave it up |
| `MatchEnds` | untimed match, fair actor, no prompts (the engine ends a duel or a player does) | `NobodyWaitsInVain` (`SidingWaits`, `SomebodyCanMove`), `MatchOverEnds`, `AbandonedDuelEnds`, `NotContinuedWhenOver` |
| `DuelLatecomers` | single duel with a time limit, 2 prompts or retries, an observer, 1 latecomer | `AcceptedOnce` (`OneOutstanding`, `ReplayExact`), `PromptAnswerable` |
| `TagMatch` | `MCTagDuel`: 5 turns, any number of questions, host 0 or 3, mailbox 1, all four may surrender or leave | `DeckInPlay`, `TheRightOneIsAsked` (`TypeOK`, `AskedPlays`, `OneOutstanding`, `SomebodyCanMove`), `SurrenderIsMutual`, `HiddenStaysHidden`, `OpenIsShown`, `FileHoldsTheTable` |
| `TimeBudget` | 2 players, u16 up to 7, 5 prompts, 2 turns, two configurations, fair actor and timer | `SecondsAccounted` (`TypeOK`, `SecondsCountOnce`, `OneSecondForgiven`, `ClockWithinLimit`), `TurnIsBounded`, `QuestionIsSettled` |
| `Handlers` | 3 handlers with any key, priority and group, 2 modules, 1 request | `VerdictPrevails`, `EveryHandlerHeard` (`TypeOK`, `EveryHandlerOnce`, `InPriorityOrder`, `MessagesInOrder`, `StatisticsExact`) |
| `LateViewers` | 2 late observers, 2 duels, 2 events and 1 refusal per duel, mailbox 2 | `SameScreen` (`TypeOK`, `CatchesUp`, `PlaceKept`), `PlayersSeeTheDuel`, `QuestionOnScreen` |
| `Board` | 6 cards, 3 codes, zones of 2 slots, eleven families of messages | `EveryCardInItsPlace`, `CountsAgree`, `LinksAreMutual`, `KnownIsTrue` |

Bounds.  `MaxQueue` stops clients and timers (never handlers) from adding to a
longer mailbox.  Two of a client's requests in front of a chain are enough to put
any two actors' requests into every gap of a chain, since each handler queues at
most two messages; three clients with a mailbox of one meet every pair of
handlers, as a handler sees the state and one request only.  `MaxLag` bounds
what a bridge has unread: one message is what makes a position out of date.
The branch of `Join`
in which the seats are full needs a third client and is covered by the proof of
`KeepsLobby`, not by its run.  `MaxKey` gives one slab key per client, which `KeysAssumption` states to be
enough.  `MaxAsks` bounds the engine's prompts in one duel: with one there is a
question and its answer, a refusal is the second.  `MatchEnds` has none because
its question is what becomes of ends; answers only add behaviours in which the
duel goes on, and the runs beside it have them.  `MaxLate` bounds latecomers.
`MaxTurns` of `TagDuel` is five because the rotation of a team repeats after
four turns.  `U16` is small so that every number overflows within a turn, and five prompts are
the fewest with which a second is forgiven.  The
tables of `Board` are small, and their messages come in families (`Scenarios`)
of up to three after an opening that lays cards, materials and an equipment out:
that is enough for every message to meet every kind of place and every link.
Clients are symmetric in Room, latecomers in History; symmetry is used in runs
of invariants and of an action property that is symmetric itself, and not in the
liveness runs.

Fairness.  The actor is one tokio task that is woken whenever its mailbox is not
empty: weak fairness of `Actor`.  Bridges are tasks of the same kind: weak
fairness of `Bridge(c)`.  In `TimeBudget` also the timer task, an interval of
tokio, is fair: `QuestionIsSettled` says that a client that is silent loses, and
nothing but the timer can decide that.  Clients, latecomers and the engine's
choices have no fairness: nothing is assumed of users.

### Where code and comments disagree

`CountedTwice` is expected to fail; it checks one property that a comment of the
code states, and TLC shows a sequence of legal steps that breaks it:
ygocore_handlers.rs:156 wants to break the evolution of a won duel "so that we
wouldn't repeatly count the winner", but two ends of one duel (Surrender, Leave,
Win, Timeout) queued together are counted as two duels.

Three more were met in the same way and have no run here:

* message.rs:117 says of RecreateDuel "Sent when the match should continue."  A
  timeout queued behind a surrender makes the second count while RecreateDuel is
  on its way (time_limit.rs:108 asks nothing about the duel), and players side
  for a match that is over.  `NotContinuedWhenOver` holds without timers.
* single_duel.rs:474 has `unreachable!()` for a duel without a first attacker.
  Two ends of one duel queue two RecreateDuels; if the players are through their
  hands before the actor reaches the second, it clears `first_attack_player`
  between DuelInit and DuelStart.  The model has the action, `OnDuelStartPanics`;
  it needs both clients to answer faster than the mailbox empties.
* terminate.rs:3 "ygopro exits when all players leave".  A LeaveGame tagged with
  a stale position (host.rs:86) empties another place than the client's, and a
  slot stays occupied by nobody.

Met while modelling the match:

* `on_duel_init` returns at the first empty slot and DuelStart follows all the
  same, but only when a departure has already queued the DuelEnd that comes
  first, so no duel is played on half a table (`EnginePlaysBothDecks`); the timer
  that such a DuelStart starts is stopped by nobody until the room ends.
* A departure between JudgeContinueMatch and RecreateDuel leaves the other player
  to side alone, which is why `AbandonedDuelEnds` leaves stage Siding out.
* With `SendTarget::None` the room still ends with its last player:
  `on_leave_game` answers true by itself.
* An UpdateDeck handled between HsReady and ValidateDeck replaces the deck, and
  the verdict on the old one makes the new one ready.
* The plugin bo writes its response over that of JudgeContinueMatch instead of
  multiplying it.

Met while modelling the tag duel:

* The rotation assumes turns that alternate and a NewTurn that precedes the
  TagSwap of the engine; nothing in the code says so.  `on_recreate_duel` of
  tag_duel.rs cannot be reached, as its match is one duel.
* A duel that is abandoned has no replay: `create_replay` gives none when a seat
  is empty, unless a latecomer has taken it.
* Playing back a tag replay desynchronises: `counterfeit_duel` seats the client
  at 2 and its partner at 3, while `on_duel_init` puts seat 3 into play when the
  core's second player begins; replay.rs:62-65 claims otherwise.  The toolkits
  reject tag replays.  `FileHoldsTheTable` is about what is saved, which is right.

Met while modelling messages and screens:

* `on_swap` (single_duel.rs:566, tag_duel.rs:803) refreshes before the Swap
  although ygocore_handlers.rs:1-6 promises the refresh after every message but a
  question.  Swap, SelectSum and SelectCounter carry codes unmasked.
* soumatou replays Waiting, Retry and the ConfirmCards of a deck to those who come
  late.
* A RequestField between a Response and the Evolve it queued sends the question
  that was just answered again; in stage Siding it shows a duel and not ChangeSide.
* In field.rs `extra_pendulum_count` becomes negative when a card whose type is
  learnt in the extra deck leaves it, and `confirm_extra_top` then panics;
  `TagSwap` leaves the codes of the old deck on the new; `set_equip_card` does not
  release an earlier equipment; exiling a material does not renumber the others.
  The properties of `Board` name these cases and leave them out (`unsure`,
  `stale`).

Met while modelling decks and replays:

* A test in deck.rs (338-346) asserts that codes after `#extra` land in the main
  deck; the code puts them into the extra deck.  Cards beyond EXTRA_MAX are
  dropped without a word.  The binary form of a deck with an extra section is not
  read back as what was written.
* A list that names a card twice cancels that card's part of its own hash, and
  exchanging two credits leaves the hash as it is.
* The order of `finalize_db` matters only for an artwork of an artwork.
* The length of an answer is stored as `data.len() as u8`.

## 4. What is proved

`RoomProofs` proves for every set of clients and decks, every policy and every
bound, from `RoomAssumption` alone (constants have their types):

* `TypeCorrect`: `Spec => []TypeOK`.
* `SenderAlwaysInStep`: `Spec => []SenderInStep`.  The two are proved together:
  `TypeOK` alone is not inductive, because an insertion into the sender's slab is
  made with the key of the duel's slab and stays in range only if both slabs are
  equal.  The inductive invariant is `Kept == TypeOK /\ SenderInStep`, with one
  lemma per handler (`KeptJoinGame`, `KeptLeaveGame`, ...) and one for all bridge
  and client steps, which leave the seating alone.
* `HostAlwaysSeated`: `Spec => []HostSeated`, inductive with `Kept`.  The cases
  that matter are a host who changes seat (the position follows), one who leaves
  (`HeirIsSeated`: the heir is an occupied seat other than the leaver's), and a
  kick, which is refused for the host's own seat.
* `AlwaysOnePlace`: `Spec => []OnePlace`.  The strengthening is `Announced`: a
  ClientJoin is in the mailbox once per client at most, and only while the bridge
  of that client waits for its position and the client is nowhere in the room.
  Every other handler takes a client out of the place it was found in; with
  `OnePlace` before the step that was the only one (`PlacedHandled`).
* `HandOverSafe`: `Spec => []HandOver`, from `OnePlace`, `HostSeated` and
  `Started` (the slots are occupied and ready once the stage is Finger).
* `PositionAlwaysTold`: `Spec => []PositionTold`.  `Tracked` adds to it that the
  inbox of a client who is not connected is empty and that only `TypeChange` ever
  waits in one (the LeaveGame of a kick is sent to a channel that has been replaced).
  A handler moves one client at most and tells the channel at the new place, which
  is that client's because the sender is in step; who is not moved keeps the last
  message and, with `OnePlace`, the place it names.
* `ReadyDeckAlwaysFrozen`: `Spec => ReadyDeckFrozen`, a step at a time.

`LobbyImplemented`, in `RoomProofs` too: `Spec => KeepsLobby`, that `Room` implements
`Lobby`, for any number of clients.  A step simulates one of `Lobby` from `Served`:
`OnePlace` (whoever leaves a place leaves the room), `HostSeated` (the host of the
positions is a client), `Announced` (who enters is nowhere) and `SlabsSound`, which is
proved here: the free list of a slab holds vacant keys only, each once, so that an
insertion overwrites nobody.  Without it two observers could share a key and one of
them be lost although every type is right.  `GonePromised` treats a departure and a
kick alike; `DesertedByHost` and `DesertedByLast` are the two conditions under which
the loop ends.

The proofs do not use `KeysAssumption`: with too few keys the three guards on
`HasRoom` would delay a client, not break an invariant.

The last part of `RoomProofs` is about decks and lists, for every database, every set of
decks and every limit.  It takes two assumptions more: `DeckRulesAssumption` (constants
have their types) and `DecksAssumption`, that a deck arrives with a main and a side
section only, as `LoadFromCodes` leaves it.

* `DecksReadAsMeant`: `Spec => []ReadAsMeant`, and `ChecksAlwaysTheRules`:
  `Spec => []ChecksAreTheRules`.  That what a player brings is clean needs `TypeOK` (a
  deck in a slot is one that arrived) and `LoadedDeck`; the rest are instances of theorems
  about any deck and any file.
* `ReadBack`: the text of a deck of any cards reads as that deck, one line at a time.
* `HashOfFile`: in a file whose lists enter nothing twice (`Orderly`), the hash that grows
  with every line is that of the list.  The order of the lines plays no part, because an
  exclusive or holds what is in an odd number of its operands (`ExclusiveOr`), and
  different entries have no words in common (`HashOfApart`).
* `ListFoundByHash`: two lists of limits of the same hash have the same entries
  (`SameHashSameCards`), so that it does no harm that the first one is taken.
* `CheckedIsLegal`: `Prepare` finds no error if and only if the deck is `Legal`.  The check
  of the lists goes over a merged sequence with running counts; `Occ` and `Weight` count
  cards and points of a sequence, add up over two (`OccAdds`, `WeightAdds`), and the last
  turn of a card sees the full count (`LastOfName`), which is where a limit is exceeded
  if it is exceeded anywhere (`TurnsCounted`).
* `SidedIsLegal`: a deck that is accepted in place of a legal one is legal.  Both are the
  same cards in another order (`Rearranged`), so that all counts agree; the sections are
  those that `Separated` makes.
* `AliasesAgree`: an artwork, a card treated as another and an artwork of that are counted
  together, over the databases of the instance.

The folds are those of the community modules, which the prover does not know:
`FoldFacts` shows for each that it takes one element at a time (`LedOn`), by induction
over a set of numbers (`Counting`) or of sequences (`Appending`).

`TagDuelProofs` proves for every bound on turns, mailbox and quitters, with and
without timer and observers, from `TagDuelAssumption`:

* `TypeCorrect`, `DeckInPlayAlways` (the server knows whose deck the engine has
  in play) and `SurrenderMutualAlways` (nobody's team is given up without both).
* The inductive invariant is `IInv == TypeOK /\ Mailbox /\ Stages /\ Starts /\
  InStep`.  `DeckInPlay` says something only of a duel that runs, and which
  messages of the start-up chain are still in the mailbox decides whether one can
  begin on half a table: `Stages` relates the stage to the gates and to what is
  dealt, `Mailbox` says of every message in the mailbox what must be true when it
  comes (`MessageOK`) and which messages never wait together (`PairOK`), and
  `Starts` that a DuelStart which finds the table half laid has a DuelEnd before
  it.  `InStep` is the rotation itself: the parity of the turns played tells, for
  each team, which member the engine has in play and whom the server names
  (`RotationFollows`, `StarterPlays`).

It also proves `RightOneAlwaysAsked`: `Spec => []TheRightOneIsAsked`.  The inductive invariant adds three parts to `IInv`.
`OneRun`: the engine is about to run (one DuelInit, DuelStart or Evolve in the
mailbox) or one player whose deck is in play has been asked, never both; a swap of
partners happens only while it runs, so it never leaves the gate of somebody who sits
the turn out open.  `Confirmed`: a client confirms each question once, while its gate
waits for that; a second TimeConfirm would be one too many, as the gate moves to
Response on the first.  `Alive`: the departure of a present player is in the mailbox, a
decided duel has the message that ends the room, and until then (`Progress`) whoever
is asked owes what its gate lets through, or has sent it, with the answer behind the
confirmation (`Follows`).  `SomebodyCanMove` is the case of an empty mailbox.

And it proves what `MCTagDuel` says of viewers and of the file, from the same assumption:
`HiddenAlwaysStaysHidden` and `OpenAlwaysShown` (`Spec => []HiddenStaysHidden`,
`Spec => []OpenIsShown`), `FileAlwaysHoldsTheTable`.  What a message shows a viewer is a
function of the card alone, so the tables of `Views` are theorems about every viewer
(`EverySecretKept`, `EverybodyInformed`, `EveryUpdateExact`, `EveryChoiceLegible`, one lemma
for each kind of message), and the state enters only by who looks (`SeatsLook`,
`TurnKnown`): a seat sees with the eyes of its own team, and whose hand is the partner's is
decided by the turn.  The file follows the deal by cases on the team that began.

`SingleDuelProofs` proves for every bound, from `SingleDuelAssumption`:

* `TypeCorrect`: `Spec => []TypeOK`, with `Named` (a handle names a timer that runs,
  so that the number of timers never falls below zero).
* `SidingAlwaysWaits`: `Spec => []SidingWaits`, with `Emptied` (nobody is ready in an
  empty slot): whoever leaves while decks are exchanged, somebody present still has
  to hand one in, or the match goes on.
* `UntimedMatchNotContinued`: without timers, `Spec => NotContinuedWhenOver`.  The
  proof is about the mailbox: `InOrder` says which of DuelEnd, JudgeContinueMatch and
  RecreateDuel can wait in front of which (an end is counted before it is judged, and
  judged before the next duel is made), `Messages` what is true while each of them
  waits.  A Timeout breaks the order: it queues a DuelEnd whether or not the duel it
  is about has ended, behind a RecreateDuel that was decided before.  That is why the
  theorem is about matches without a time limit (section 3).

`AnswersAcceptedOnce`, in `SingleDuelProofs` too: `Spec => []AcceptedOnce`, with and without a time limit, from the same assumption.
That one player at a time is asked, and that the answer is taken once, depends on
everything that is under way between the room and its clients: a prompt in a channel,
on a screen, as an answer in the mailbox.  The second half of `SingleDuelProofs` counts
it (`Num(s, x)` is
what `s` has been asked for of kind `x` and the room has not handled), says what is
ahead of what (`Before`, `Lasting`, `AheadOf`) and how sending, reading, answering and
handling change that.  The inductive invariant is `Talking`, of a room that runs:

* `Quiet`: nothing is under way to an empty seat, to a newcomer or from a leaver,
  whose LeaveGame is the last of its messages.
* `OpenGates`: each stage has its gates, and one chooser of the turn at most.
* `Talk`: one question of the duel at a time is under way with each player, to a gate
  that lets the answer through; while decks are exchanged, what is left of the duel is
  not behind a new deck, so that it is turned away and not played in the next duel.
* `Rounds`: a duel that has ended makes room for one deck of each player, and two at
  most; without this count an UpdateDeck of the duel before could come in the next.
* `OneRun`: one of DuelInit, DuelStart and Evolve waits (`Tokens <= 1`) and nobody is
  asked, or nobody runs the engine and one player is asked, the one asked last.

Every handler, client step, timer tick and latecomer keeps all five (`OutsideKept`,
`ActorKept`, one lemma for each); `OneAtATime` reads the property off `OneRun`, and
`ReplayKept` follows each counted answer from Response through Evolve to the engine or,
refused, out of the replay again.  A broken loop (`LastStep`) leaves an empty mailbox.

`MatchProofs` goes on with `BothDecksPlayed`: `Spec => []EnginePlaysBothDecks`.  Its
invariant, `Tables`, leans on `Talking` for what waits and in which stage: nothing is
loaded outside a duel unless its DuelStart waits, nor while DuelInit waits; whoever is
missing from a duel that has not ended has left a DuelEnd in the mailbox; and a
DuelStart that waits on half a table has that DuelEnd ahead of it, so that the handler
that would start the engine finds the duel ended or both decks loaded.

`PromptsAlwaysAnswerable`: `Spec => []PromptAnswerable`.  `Talking` opens the gate of
every prompt but the engine's, and of that one while the player asked is the one
waited for.  `Confirms` adds the two exceptions: a gate at TimeConfirm of the player
asked has its confirmation under way, ahead of any answer; and a gate left over from
somebody no longer asked, because the time ran out, belongs to a player whose prompt
a Win is going to take off the screen.  At rest nothing is under way, so that a prompt
still on the screen is one the gate waits for (`RestAnswers`).

`NobodyEverWaitsInVain`: `Spec => []NobodyWaitsInVain`.  That somebody still has a deck
to hand in comes from `Talking` (`SidingWaits`); that somebody can move needs `Alive`:

* A duel that has ended has left something in the mailbox that goes on by itself
  (`Underway`): DuelEnd, JudgeContinueMatch, RecreateDuel, MatchEnd or terminate.
* While none of these waits (`Going`), whoever is asked by the engine was asked last,
  and an Evolve finds a core that runs.  With both players there (`Here`), each stage
  waits for somebody whose answer is in the mailbox, or whose prompt is on its way or on
  the screen (`Live`), or the engine is about to run (`Progress`).
* `Strangers`: no JoinGame waits while nobody has come late.

At rest the mailbox is empty, so the duel has not ended and the one waited for has its
prompt on the screen; `PromptsAlwaysAnswerable` opens the gate (`RestMoves`).  A room that
stays open after its match is left out by the property itself.

`MatchProofs` also proves what is saved of a duel and how answers are read:

* `EveryAnswerReadBack`: for every question and every answer its form allows (`Meant`:
  any number of the width, any list up to the length its count can hold), `Parse` gives
  back what `Bytes` was given.  A list of words is a flattening of pairs of bytes, so the
  module shows by induction over the length that such a flattening is determined by its
  parts and has them at the places the reader looks at (`WordsGrow`, `ReadBackWords`), and
  by cases on the question that no two answers to it share their bytes.  An answer read
  under another question than its own is not claimed to come back.
* `AnswersAlwaysUnderstood`: `Spec => []AnswersUnderstood`; the samples of `MCMatch` are
  instances of `Meant` (`SamplesMeant`), and what only passes is never taken for an answer
  worth time (`PassingIsUnpaid`).
* `SizeIsThatWritten`: the announced size is that of the body for any decks, both modes
  and any answers.  The writer sums over the roles, the header by hand; `SumOverRoles` turns
  the one into the other.
* `ReplayDealsTheSame`: writing turns every pile over, reading turns it back, and the swap
  of the parts undoes the exchange of the first attacker.
* `ReplayAlwaysPlaysAgain`: `Spec => []ReplayPlaysAgain`.  The file is made after the end
  of the duel from `first_attack_player` as it is then.  `AttackerTold` says that it is
  still what the engine was told, while the engine runs and while its DuelStart waits; that
  nobody is chosen in between needs `Talking` (no TpResult comes while a start is under
  way) and `Tables` (no engine runs in stage Firstgo).  The number of answers is
  `AnswersAcceptedOnce`.
* `WinnersAlwaysTheEngines`: `Spec => WinnerIsTheEngines`, from `AttackerTold` again.  The
  winner is translated twice, on the way into the mailbox and on the way out, each time
  with the first attacker of the moment; both are the one the engine was told
  (`SameSeats`).  That nothing else can queue what looks like the end of a duel while a
  surrender, a departure or a timeout is handled is a matter of counting the mailbox
  (`LosersEnd`).  The theorem is about an engine that has started and not been replaced:
  a departure in Firstgo and a DuelEnd behind a RecreateDuel are translated with the
  first attacker of nobody.

`TimeBudgetProofs` proves for any finite set of players, any width of the numbers,
any configurations and bounds, from `TimeBudgetAssumption`:

* `EverySecondAccounted`: `Spec => []SecondsAccounted`, and `EveryTurnBounded`:
  `Spec => []TurnIsBounded`.
* The inductive invariant is `IInv == TypeOK /\ Pace /\ Account`.  `Pace` is about who
  is asked: the mailbox has one Evolve or one question is open (`OneQuestion`), and
  the seconds in the count are fewer than the clock of whoever they are held against
  has, but for one (`InTime`), so that the narrowing to 16 bits loses nothing
  (`ElapsedFits`) and a question forgives one second at most.  `Account` is the
  equation of the seconds, with `PutInByStep`: what has been put back is a number of
  whole steps, each of which has shortened a budget, and the deposits are bounded by
  the steps, whichever of two handlers sees the budget first.
* Both speak of sums over the players, so it is first proved what is needed of
  `SumFunction`: that a sum splits off any of its terms (`SumSplits` in `FoldFacts`), is
  bounded by its terms, and changes with one term by as much as the term does (`SumAtMost`,
  `SumChanges`).  The library's induction theorems are out of reach, but induction
  over a set of numbers is not: `Counting` follows from the well-foundedness of the
  naturals with a set in place of a predicate.

`HistoryProofs` proves for any number of latecomers, places, duels, events and
refusals, from `HistoryAssumption`:

* `ScreensAlwaysSame`: `Spec => []SameScreen`; `PlayersAlwaysSeeTheDuel`:
  `Spec => []PlayersSeeTheDuel`; `QuestionAlwaysOnScreen`: `Spec => []QuestionOnScreen`.
* What a list of messages makes of a screen, of the record or of what reconnect notes
  is a fold.  A fold is by definition the value, at the set of all indices, of a function
  chosen on sets of indices; `FoldFacts` shows that there is such a function (`Climbing`)
  and that it is determined, both by induction over the highest index, and `LedOn` gives
  the only facts used later: a fold of the empty list is what it starts from, and one
  message behind a list is one step more (`AfterOn`, `ReachedOn`, `RecordedOn`,
  `ReplayOn`, `NotedOn`, `ToldOn`).
* The inductive invariant is `Inv == Types /\ Duel /\ Viewers`.  `Duel` has the turns of
  the room (`OneAtATime`: one request that makes the engine go on waits in the mailbox, or
  one gate is open, never both), what reconnect has noted against what the engine has told
  (`WellNoted`), and the players' screens (`Screens`: a player whose screen has been lost
  has asked for the field, and gets it back as long as the duel lasts).  `Viewers` is
  about the record as a whole: replayed on any screen whatever, it gives the screen of
  the observer who was there from the start, at the place of whoever looks (`OnRecord`).
  That is stronger than `CatchesUp`, and needed: what has reached a latecomer live, or
  from a history sent before, is any screen as far as the replay is concerned, and every
  message that is sent has to be appended to a record of which this is already known.
  `Watching` says who may be in which place.

`HandlersProofs` proves for any handlers, keys, modules and priorities, from
`HandlersAssumption`:

* `VerdictPrevailsAlways`: the combination of responses keeps a refusal, by cases on the
  last response.
* `EveryHandlerOnceAlways`, `InPriorityOrderAlways`: from `Filled`, which says of
  each list which builders it holds while they are looked at; that a sorted copy
  of a list without repetitions is one too comes from `FS_Surjection`.
* `MessagesInOrderAlways`: what is sent is `FlattenSeq` of what the handlers gave.  The
  invariant leans on `VerdictPrevails` (messages are combined only while nobody objects)
  and on `Flattened`, which shows that `FlattenSeq` takes one more list at a time.
* `StatisticsExactAlways`: from `Filled` every list of a registered key counts its own
  handlers of a module and one copy of the globals (`OneList`), so that all of them
  together count the copies as often as there are lists (`AllLists`, by induction over
  the number of keys still to add), and `handler_statistics` takes all but one away.
  That the handlers looked at are finitely many is proved, not assumed.
* `EveryHandlerHeardAlways`: `Spec => []EveryHandlerHeard`, all of these together.

What stays with TLC.  Liveness and fairness (`BridgesEnd`, `MatchOverEnds`,
`AbandonedDuelEnds`, `QuestionIsSettled`), which the prover does not handle.
`Board` and `Field`: the case
analysis over messages and places is finite and complete within its bounds, and its proof
would be far longer than the model.  The safety properties the runs check of `Room`,
`MCDecks`, `SingleDuel`, `MCMatch`, `TagDuel`, `MCTagDuel`, `TimeBudget`, `History` and
`Handlers` are all theorems.

## 5. Not modelled, and the plan

Not modelled, because they keep no protocol state: the binary layouts and
enumerations (message/utils.rs, constants.rs, most of game_message.rs) and the
code that derives their readers and writers; the wrapper of the C++ engine, of
which the models use the interface; argument parsing, configuration, database and
file access, exported C functions; the external bridges, each of whose connections
is a bridge of `DuelHost`; the command line toolkits; and the small plugins that
log, write files or load scripts.  Left out of the modelled components: `PlayerInfo`
and Chat of the room; life points, phases and hints of the field; RequestField of
tag duels; the targets Single, Except and Core of terminate; forged replays and
`ReplayHost`.

Left of the plan, in this order:

1. `MatchRules`: what a match promises (a sequence of duels, one winner each, over
   by majority), and its refinement by `SingleDuel` where that holds, without
   overlapping ends.
2. `TimeBudget` as the clock of `SingleDuel` in one composition.
3. RequestField of tag duels and `ReplayHost`.

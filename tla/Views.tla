------------------------------- MODULE Views -------------------------------
(***************************************************************************)
(* What the viewers of a duel read of the messages of the engine.           *)
(*                                                                          *)
(* One message goes to up to four players and to the observers.  The server *)
(* keeps two copies of it, the message and its masked clone, and asks the   *)
(* message for every player slot whether that slot gets the masked one; an  *)
(* observer always does.  A handler per message type says who gets it at    *)
(* all and which zones are queried and sent again around it: before it when *)
(* it is a question, after it otherwise.                                    *)
(*                                                                          *)
(* A card is what the rules of hiding tell apart: where it lies, whose it   *)
(* is and how it is turned.  A message carries cards; that a viewer is      *)
(* shown the i-th of them means that its code reaches him.                  *)
(*                                                                          *)
(* Messages that name a card to everybody because the rules of the game     *)
(* reveal it (ConfirmCards, Chaining, Swap, DeckTop and the like) carry no  *)
(* mask and are not part of the module.                                     *)
(***************************************************************************)
EXTENDS Naturals, Sequences

CONSTANT NoMask   \* configuration.no_mask

ASSUME ViewsAssumption == NoMask \in BOOLEAN

\* CorePlayer.  None and Rule are also how TagDuel names, to the masks, the player
\* of the first and of the second team who sits out.
CoreNone == 2
All      == 3
CoreRule == 5
Sides    == {0, 1}
Mate(side) == IF side = 0 THEN CoreNone ELSE CoreRule

Observer == 7   \* Netplayer::Observer, no core player at all
Viewers  == Sides \cup {CoreNone, CoreRule, Observer}

-----------------------------------------------------------------------------
(* Cards, as the engine describes them.                                     *)
OnField    == {"MZone", "SZone"}
MainField  == OnField \cup {"Hand"}
Locations  == MainField \cup {"Deck", "Grave", "Removed", "Extra", "Overlay"}
Position   == {"Faceup", "Facedown", "Any"}

\* A card in the grave is face up, a material has no position.
Cards ==
  {c \in [controller : Sides, location : Locations, position : Position, reveal : BOOLEAN] :
     /\ c.location = "Grave" => c.position = "Faceup"
     /\ c.location = "Overlay" <=> c.position = "Any"
     /\ c.location = "Overlay" => ~c.reveal}

\* CardCode::is_public, the top bit of a card code: the engine sets it on face-up cards.
IsPublic(c) == c.position = "Faceup"

\* InfoLocation::should_mask
Covered(c) ==
  /\ ~c.reveal
  /\ IF c.location = "Hand" THEN c.position # "Faceup" ELSE c.position = "Facedown"

\* Mutant of AtTheTable: the partner may look everywhere.
Anywhere(c, v) == v = Mate(c.controller)

\* A partner who sits out has the team's table before him, not the hand.
AtTheTable(c, v) == v = Mate(c.controller) /\ c.location \in OnField \cup {"Removed"}

-----------------------------------------------------------------------------
(* Queries.  Of the flags only those that the masks depend on are kept.      *)

DefaultQuery(location) == {"Code", "Position"}

\* UpdateCardInfo::should_mask: without a position nothing is hidden.
HiddenInfo(c, query, v) ==
  "Position" \in query /\ Covered(c) /\ c.controller # v /\ ~AtTheTable(c, v)

-----------------------------------------------------------------------------
(* Messages: [kind, player, cards, query, from]; `from` is where a moved card *)
(* was, `query` what an update was asked for.                                *)
Message(kind, player, cards) ==
  [kind |-> kind, player |-> player, cards |-> cards, query |-> {}, from |-> <<>>]

\* The #[wait_for] messages: the engine stops until this player has answered.
Commands      == {"SelectBattleCommand", "SelectIdleCommand"}
Options       == {"SelectEffectYesNo", "SelectYesNo", "SelectOption"}
CardChoices       == {"SelectCard", "SelectTribute", "SelectUnselectCard"}
Places        == {"SelectChain", "SelectPlace", "SelectPosition"}
Amounts       == {"SelectCounter", "SelectSum", "SelectDisableField", "SortCard"}
HandGames     == {"RockPaperScissors"}
Announcements == {"AnnounceRace", "AnnounceAttribute", "AnnounceCard", "AnnounceNumber"}
Prompts ==
  UNION {Commands, Options, CardChoices, Places, Amounts, HandGames, Announcements}

\* Messages that name no card and are followed by a look at the field.
TurnReports   == {"NewTurn", "NewPhase"}
SummonReports == {"Summoned", "SpecialSummoned", "FlipSummoned"}
ChainReports  == {"Chained", "ChainSolved", "ChainEnd"}
DamageReports == {"DamageStepStart", "DamageStepEnd"}

\* Messages after which cards lie elsewhere or otherwise, without their codes.
Unnamed == {"ShuffleSetCard", "SwapGraveDeck"}

\* The cards whose code the message holds.
Carried(m) ==
  IF m.kind \in Unnamed \/ (m.query # {} /\ "Code" \notin m.query) THEN {} ELSE DOMAIN m.cards

Moved(m) == m.cards[1]

HiddenMove(c) ==
  /\ c.location \notin {"Grave", "Overlay"}
  /\ c.location \in {"Deck", "Hand"} \/ c.position = "Facedown"

HiddenUpdate(m, v) ==
  m.player # v /\ \E i \in DOMAIN m.cards : HiddenInfo(m.cards[i], m.query, v)

\* GameMessage::should_mask: does this player get the masked clone?
ShouldMask(m, v) ==
  CASE m.kind \in {"Draw", "ShuffleHand", "ShuffleExtra", "TagSwap"} -> m.player # v
    [] m.kind = "Move" -> Moved(m).controller # v /\ HiddenMove(Moved(m))
    [] m.kind = "SpecialSummoning" -> Moved(m).controller # v /\ Moved(m).position = "Facedown"
    [] m.kind \in {"UpdateData", "UpdateCard"} -> HiddenUpdate(m, v)
    [] OTHER -> TRUE

\* A choice keeps what the player who chooses has himself.
KeptChoices(m) ==
  {i \in DOMAIN m.cards : m.cards[i].controller = m.player \/ IsPublic(m.cards[i])}

\* GameMessage::mask: the cards whose code the masked clone keeps.
Kept(m) ==
  CASE m.kind \in {"Draw", "TagSwap"} -> {i \in DOMAIN m.cards : IsPublic(m.cards[i])}
    [] m.kind \in {"ShuffleHand", "ShuffleExtra", "Set", "SpecialSummoning"} -> {}
    [] m.kind = "Move" -> IF HiddenMove(Moved(m)) THEN {} ELSE DOMAIN m.cards
    [] m.kind \in {"UpdateData", "UpdateCard"} ->
         {i \in DOMAIN m.cards : ~HiddenInfo(m.cards[i], m.query, All)}
    [] m.kind \in CardChoices -> KeptChoices(m)
    [] OTHER -> DOMAIN m.cards

\* Duel::send_game_message, MaymaskedMessage::resolve
SeesUnmasked(m, v) == NoMask \/ (v # Observer /\ ~ShouldMask(m, v))

\* on_all_message: a question goes to the one who is asked.
Receives(m, v) == m.kind \in Prompts => v = m.player

Shown(m, v) ==
  IF ~Receives(m, v) THEN {}
  ELSE Carried(m) \cap (IF SeesUnmasked(m, v) THEN DOMAIN m.cards ELSE Kept(m))

-----------------------------------------------------------------------------
(* What is sent again around a message.                                     *)
Place(c) == <<c.controller, c.location>>

\* on_move: the card came to another place; materials have no place of their own.
Moves(m) == Moved(m).location # "Overlay" /\ m.from # Place(Moved(m))

BothSides(locations) == Sides \X locations

\* After a report, and before a player commands, the zones it may have changed.
RefreshedZones(m) ==
  CASE m.kind \in Commands \cup TurnReports \cup ChainReports -> BothSides(MainField)
    [] m.kind \in SummonReports -> BothSides(OnField)
    [] m.kind \in DamageReports -> BothSides({"MZone"})
    [] m.kind = "TagSwap" -> BothSides(MainField \cup {"Extra"})
    [] m.kind = "ShuffleSetCard" -> BothSides({Moved(m).location})
    [] OTHER -> {}

\* Mutant of Refreshed: the shuffled hand is not sent again.
ShuffledUnseen(m) ==
  CASE m.kind = "ShuffleExtra" -> {<<m.player, "Extra">>}
    [] m.kind = "SwapGraveDeck" -> {<<m.player, "Grave">>}
    [] m.kind = "Move" /\ Moves(m) -> {Place(Moved(m))}
    [] m.kind \in {"PositionChange", "FlipSummoning"} -> {Place(Moved(m))}
    [] OTHER -> RefreshedZones(m)

\* The places the handlers of a message ask to be refreshed.
Refreshed(m) ==
  CASE m.kind = "ShuffleHand" -> {<<m.player, "Hand">>}
    [] m.kind = "ShuffleExtra" -> {<<m.player, "Extra">>}
    [] m.kind = "SwapGraveDeck" -> {<<m.player, "Grave">>}
    [] m.kind = "Move" /\ Moves(m) -> {Place(Moved(m))}
    [] m.kind \in {"PositionChange", "FlipSummoning"} -> {Place(Moved(m))}
    [] OTHER -> RefreshedZones(m)

\* refresh_card and refresh_location: the zone or the card is queried and sent.
Update(kind, cards) ==
  [Message(kind, cards[1].controller, cards) EXCEPT !.query = DefaultQuery(cards[1].location)]

\* The card reaches the viewer with the message or with the refresh around it.
ShownCard(m, i, v) ==
  \/ i \in Shown(m, v)
  \/ Place(m.cards[i]) \in Refreshed(m) /\ Shown(Update("UpdateCard", <<m.cards[i]>>), v) # {}

-----------------------------------------------------------------------------
(* The messages of the engine, about one or two cards.                      *)
Pairs(location) ==
  {pair \in Cards \X Cards : /\ pair[1].location = location
                             /\ Place(pair[1]) = Place(pair[2])}

About(kind, location) == {Message(kind, pair[1].controller, pair) : pair \in Pairs(location)}

Draws == About("Draw", "Hand")
HandShuffles == About("ShuffleHand", "Hand")
ExtraShuffles == About("ShuffleExtra", "Extra")
TagSwaps == About("TagSwap", "Hand") \cup About("TagSwap", "Extra")
FieldShuffles == About("ShuffleSetCard", "MZone") \cup About("ShuffleSetCard", "SZone")

Listings ==
  Draws \cup HandShuffles \cup ExtraShuffles \cup TagSwaps \cup FieldShuffles
  \cup About("SwapGraveDeck", "Grave")

MoveFrom(place, c) == [Message("Move", c.controller, <<c>>) EXCEPT !.from = place]
SingleMoves == {MoveFrom(place, c) : c \in Cards, place \in Sides \X Locations}

\* A card turned face up, and the announcements of a summon and of a set.
FaceUps ==
  {Message(kind, c.controller, <<c>>) :
     kind \in {"PositionChange", "FlipSummoning"}, c \in {d \in Cards : d.position = "Faceup"}}
Summonings ==
  {Message("SpecialSummoning", c.controller, <<c>>) : c \in {d \in Cards : d.location = "MZone"}}
Sets ==
  {Message("Set", c.controller, <<c>>) :
     c \in {d \in Cards : d.location \in OnField /\ d.position = "Facedown"}}

Updates ==
  {Update("UpdateCard", <<c>>) : c \in Cards}
  \cup UNION {{Update("UpdateData", pair) : pair \in Pairs(location)} : location \in Locations}

Asked == {Message(kind, side, <<c>>) : kind \in CardChoices, side \in Sides, c \in Cards}

Messages == Listings \cup SingleMoves \cup FaceUps \cup Summonings \cup Sets \cup Updates \cup Asked

-----------------------------------------------------------------------------
(* Properties.                                                              *)

\* Who may read a card: everybody when it is open, its player, and the partner of
\* its player when it lies on the table.
MayRead(c, v) ==
  \/ c.reveal \/ c.position = "Faceup" \/ c.location = "Overlay"
  \/ v = c.controller
  \/ v = Mate(c.controller) /\ c.location \in {"MZone", "SZone", "Removed"}

\* No message shows this viewer a card he may not read.
Secret ==
  [v \in Viewers |-> ~NoMask =>
     \A m \in Messages : \A i \in Shown(m, v) : MayRead(m.cards[i], v)]

\* Cards that came somewhere, were drawn, shuffled, swapped or turned.  (A draw is
\* not followed by a refresh: what an effect reveals of it comes later.)
Arrivals ==
  {l \in Listings \cup FaceUps \cup SingleMoves :
     /\ l.kind = "Move" => l.from # Place(Moved(l))
     /\ l.kind = "Draw" => \A i \in DOMAIN l.cards : ~l.cards[i].reveal}

\* This viewer is shown the arriving cards he may read.
Informed ==
  [v \in Viewers |-> \A m \in Arrivals :
     \A i \in DOMAIN m.cards : MayRead(m.cards[i], v) => ShownCard(m, i, v)]

\* An update shows this viewer exactly the cards he may read.
Exact ==
  [v \in Viewers |-> ~NoMask =>
     \A m \in Updates : Shown(m, v) = {i \in DOMAIN m.cards : MayRead(m.cards[i], v)}]

\* Asked to choose among cards, this player reads his own and the open ones.
Legible ==
  [v \in Viewers |-> \A m \in {a \in Asked : a.player = v} :
     m.cards[1].controller = v \/ m.cards[1].position = "Faceup" => Shown(m, v) = {1}]
=============================================================================

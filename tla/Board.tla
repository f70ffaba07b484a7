------------------------------- MODULE Board -------------------------------
(***************************************************************************)
(* A viewer's Field fed with the messages of an engine.                     *)
(*                                                                          *)
(* The engine is external.  What it knows and the viewer must find out is   *)
(* in `engine`: which card every key stands for, how many cards lie where,  *)
(* and which cards of the extra decks lie face up.  It moves cards along    *)
(* the rules of the game (to free slots, and its materials leave a monster  *)
(* before it leaves the field), keeps each viewer's messages free of what   *)
(* he may not see, and tells the code of any card or hides it.              *)
(***************************************************************************)
EXTENDS Field

CONSTANTS
  Deal,           \* the cards at Start, by key
  Opening,        \* the moves before the behaviours explored begin: <<from, to>>, face up
  Scenarios,      \* bounds, one of which a behaviour keeps to: the types of its messages, how
                  \* many come after the opening and where cards are moved to
  MaxCounters     \* bound: counters on a card

ASSUME BoardAssumption ==
  /\ Deal \in [Live(Started) -> Codes]
  /\ \A k \in Live(Started) : "ExtraDeck" \in KindOf[Deal[k]] <=>
                              Started.cards[k].location = "Extra"
  /\ \A s \in Scenarios : s.most \in Nat /\ s.locations \subseteq Lists \cup Slotted
  /\ MaxCounters \in Nat

VARIABLES
  field,     \* the viewer's board
  engine,    \* [code, count, under, up], see EngineStart
  panicked,  \* an index was out of range
  unsure,    \* per player: a card has come to or left the extra deck that passed for what it is not
  stale,     \* the cards of a deck whose code is that of another card, which TagSwap took away
  scenario, messages

vars == <<field, engine, panicked, unsure, stale, scenario, messages>>

\* code: which card a key stands for; count: cards in every zone; under: materials;
\* up: the cards of the extra decks that lie face up.
Opened == FoldLeft(LAMBDA F, m : MovedOpenly(F, m[1], m[2], "Faceup", Deal[Get(F, m[1])]),
                   Started, Opening)
EngineStart ==
  [code |-> Deal,
   count |-> [l \in Lists \cup Slotted |-> [p \in Players |->
                IF l \in Lists THEN Len(Opened.list[l][p])
                ELSE Cardinality({i \in 0..LastSlot : Opened.slot[l][p][i] # None})]],
   under |-> 0, up |-> [p \in Players |-> {}]]

Init ==
  /\ field = Opened
  /\ engine = EngineStart
  /\ panicked = FALSE
  /\ unsure = [p \in Players |-> FALSE]
  /\ stale = {}
  /\ scenario \in Scenarios
  /\ messages = 0

-----------------------------------------------------------------------------
Message(type) == type \in scenario.types /\ messages < scenario.most /\ ~panicked
                 /\ messages' = messages + 1 /\ UNCHANGED scenario
Sure == UNCHANGED <<panicked, unsure, stale>>

\* The places of cards that lie in zones, and of the materials under the card at `place`.
Taken ==
  UNION {{At(p, l, i - 1) : i \in DOMAIN field.list[l][p]} : l \in Lists, p \in Players}
    \cup UNION {{At(p, l, i) : i \in {j \in 0..LastSlot : field.slot[l][p][j] # None}} :
                 l \in Slotted, p \in Players}
OnField == {place \in Taken : place.location \in Slotted}
Free(l, p) == {i \in 0..LastSlot : field.slot[l][p][i] = None}
Materials(place) == field.cards[Bare(field, place)].overlayed
Materialised == UNION {{Under(place, i - 1) : i \in DOMAIN Materials(place)} : place \in OnField}

True(k) == engine.code[k]
Told(k) == {Unknown, True(k)}
TrueCodes(s) == [i \in DOMAIN s |-> True(s[i])]
\* The codes of the cards of s, or none of them: the viewer may see all or nothing.
AllTold(s) == {TrueCodes(s), [i \in DOMAIN s |-> Unknown]}

\* Where a card may go, and how it may lie there.
Destinations(from) ==
  LET p == from.controller IN
  {At(p, l, 0) : l \in (scenario.locations \cap Lists) \ {from.location}}
    \cup (IF "Deck" \in scenario.locations THEN {At(p, "Deck", Len(field.list["Deck"][p]))} ELSE {})
    \cup {At(p, l, i) : l \in scenario.locations \cap Slotted, i \in 0..LastSlot}
    \cup (IF "MZone" \in scenario.locations THEN {At(1 - p, "MZone", i) : i \in Free("MZone", 1 - p)}
                                          ELSE {})
Fits(from, to) ==
  /\ to.location \in Slotted => field.slot[to.location][to.controller][to.sequence] = None
  /\ to.location = "Deck" => from.location # "Deck"
  /\ to.controller # from.controller => from.location = "MZone"
Lies(k, l) ==
  LET kind == KindOf[True(k)] IN
  CASE l \in {"Deck", "Hand"} -> IF "ExtraDeck" \in kind THEN {} ELSE {"Facedown"}
    [] l = "Extra" -> (IF "Pendulum" \in kind THEN {"Faceup"} ELSE {})
                        \cup (IF "ExtraDeck" \in kind THEN {"Facedown"} ELSE {})
    [] l = "Grave" -> {"Faceup"}
    [] OTHER -> {"Faceup", "Facedown"}

\* The engine's counts and face-up cards after a card has gone from one place to another.
Counted(e, from, to) ==
  LET out(c) == IF from.over THEN c ELSE [c EXCEPT ![from.location][from.controller] = @ - 1]
      in(c)  == IF to.over THEN c ELSE [c EXCEPT ![to.location][to.controller] = @ + 1]
  IN  [e EXCEPT !.count = in(out(@)),
                !.under = @ + (IF to.over THEN 1 ELSE 0) - (IF from.over THEN 1 ELSE 0)]
Uncovered(e, k, p, position, l) ==
  [e EXCEPT !.up = [q \in Players |->
     IF l = "Extra" /\ q = p /\ position = "Faceup" THEN @[q] \cup {k} ELSE @[q] \ {k}]]

\* Does the field take the card at `place`, or the card k that comes to the extra deck,
\* for what it is?
Misjudged(card, up) == (card.position = "Faceup" /\ "Pendulum" \in card.type) # up

Move ==
  /\ Message("Move")
  /\ \E from \in Taken, position \in {"Faceup", "Facedown"} :
     \E to \in Destinations(from) :
       LET k == Bare(field, from) IN
       /\ Fits(from, to)
       /\ position \in Lies(k, to.location)
       /\ IF {from.location, to.location} = {"MZone"} THEN position = field.cards[k].position
                                                      ELSE field.cards[k].overlayed = <<>>
       /\ \E code \in IF position = "Faceup" THEN {True(k)} ELSE Told(k) :
            field' = MovedOpenly(field, from, to, position, code)
       /\ engine' = Uncovered(Counted(engine, from, to), k, to.controller, position, to.location)
       /\ unsure' = [p \in Players |->
            \/ unsure[p]
            \/ /\ from.location = "Extra" /\ from.controller = p
               /\ Misjudged(field.cards[k], k \in engine.up[p])
            \/ /\ to.location = "Extra" /\ to.controller = p
               /\ Misjudged([field.cards[k] EXCEPT !.position = position], position = "Faceup")]
       /\ UNCHANGED <<panicked, stale>>

\* A card becomes a material of a monster.
MoveUnder ==
  /\ Message("MoveUnder")
  /\ \E from \in Taken, host \in OnField :
       LET k == Bare(field, from) IN
       /\ host.location = "MZone" /\ host # from
       /\ from.location # "Extra"
       /\ field.cards[k].overlayed = <<>>
       /\ field' = MovedUnder(field, from, Under(host, 0), True(k))
       /\ engine' = Counted(engine, from, Under(host, 0))
  /\ Sure

\* A material leaves the monster it lies under.
MoveOut ==
  /\ Message("MoveOut")
  /\ \E from \in Materialised :
       LET k == Get(field, from) IN
       \/ \E l \in scenario.locations \cap {"Grave", "Hand", "Deck"} : \E position \in Lies(k, l) :
            LET to == At(from.controller, l, 0) IN
            /\ field' = MovedOut(field, from, to, position)
            /\ engine' = Counted(engine, from, to)
       \/ \E host \in OnField :
            /\ host.location = "MZone" /\ host # [from EXCEPT !.over = FALSE, !.sub = 0]
            /\ field' = MovedAcross(field, from, Under(host, 0))
            /\ UNCHANGED engine
  /\ Sure

\* A token is put on the field or a card is taken out of the game.
Token ==
  /\ Message("Token")
  /\ field.next <= MaxCards
  /\ \E p \in Players, code \in Codes : \E i \in Free("MZone", p) :
       /\ field' = TokenPut(field, At(p, "MZone", i), "Faceup", code)
       /\ engine' = [engine EXCEPT !.code = [k \in Live(field') |->
                                       IF k = field.next THEN code ELSE True(k)],
                                   !.count["MZone"][p] = @ + 1]
  /\ Sure
Exile ==
  /\ Message("Token")
  /\ \E from \in OnField :
       LET k == Bare(field, from) IN
       /\ field.cards[k].overlayed = <<>>
       /\ field' = Exiled(field, from)
       /\ engine' = [engine EXCEPT !.code = [j \in Live(field) \ {k} |-> True(j)],
                                   !.count[from.location][from.controller] = @ - 1]
  /\ Sure

Swap ==
  /\ Message("Swap")
  /\ \E one, two \in OnField :
       /\ one.location = two.location /\ one.controller # two.controller
       /\ field' = Swapped(field, one, two)
  /\ UNCHANGED engine
  /\ Sure

-----------------------------------------------------------------------------
(* Shuffling: the engine's cards change places behind the keys.             *)

\* The engine after the cards of s have been mixed.
Mixed(s) ==
  {[engine EXCEPT !.code = [k \in DOMAIN @ |-> IF k \in Members(s) THEN @[m[k]] ELSE @[k]]] :
     m \in {f \in [Members(s) -> Members(s)] : Members(f) = Members(s)}}
MembersOf(f) == {f[x] : x \in DOMAIN f}

ShuffleDeck ==
  /\ Message("Shuffle")
  /\ \E p \in Players :
       /\ engine' \in Mixed(field.list["Deck"][p])
       /\ field' = Hidden(field, field.list["Deck"][p])
  /\ Sure

\* shuffle_hand: the viewer's own cards are told in their new order.
ShuffleHand ==
  /\ Message("Shuffle")
  /\ \E p \in Players :
       LET hand == field.list["Hand"][p] IN
       /\ engine' \in Mixed(hand)
       /\ \E codes \in {[i \in DOMAIN hand |-> engine'.code[hand[i]]],
                        [i \in DOMAIN hand |-> Unknown]} : field' = Coded(field, hand, codes)
  /\ Sure

\* shuffle_extra: the cards that lie face down there.
ShuffleExtra ==
  /\ Message("Shuffle")
  /\ \E p \in Players :
       LET down == SelectSeq(field.list["Extra"][p], LAMBDA k : field.cards[k].position # "Faceup") IN
       /\ engine.up[p] \cap Members(down) = {}
       /\ engine' \in Mixed(down)
       /\ \E codes \in {[i \in DOMAIN down |-> engine'.code[down[i]]],
                        [i \in DOMAIN down |-> Unknown]} : field' = Coded(field, down, codes)
  /\ Sure

\* Face-down cards on the field are mixed.  One with materials is said where it has gone.
ShuffleSetCard ==
  /\ Message("ShuffleSetCard")
  /\ \E p \in Players, l \in Slotted :
       LET down == {i \in 0..LastSlot : LET k == field.slot[l][p][i] IN
                      k # None /\ field.cards[k].position = "Facedown"}
           old == SetToSeq(down)
           key(i) == field.slot[l][p][i]
       IN
       /\ Cardinality(down) >= 2
       /\ \E m \in {f \in [down -> down] : MembersOf(f) = down} :
            LET new == [n \in DOMAIN old |->
                          IF field.cards[key(old[n])].overlayed = <<>> THEN -1 ELSE m[old[n]]] IN
            /\ field' = SetCardsShuffled(field, l, p, old, new)
            /\ engine' = [engine EXCEPT !.code = [k \in DOMAIN @ |->
                 IF \E i \in down : field'.slot[l][p][m[i]] = k
                 THEN @[key(CHOOSE i \in down : field'.slot[l][p][m[i]] = k)] ELSE @[k]]]
  /\ Sure

ReverseDeck ==
  /\ Message("ReverseDeck")
  /\ field' = DecksReversed(field)
  /\ UNCHANGED engine
  /\ Sure

\* The types of the cards in the grave are known: they have been queried.
SwapGraveDeck ==
  /\ Message("SwapGraveDeck")
  /\ \E p \in Players :
       LET grave == Members(field.list["Grave"][p])
           back == {k \in grave : "ExtraDeck" \in KindOf[True(k)]}
       IN
       /\ \A k \in grave : field.cards[k].type = KindOf[True(k)]
       /\ field' = GraveDeckSwapped(field, p)
       /\ engine' = [engine EXCEPT
            !.count["Grave"][p] = engine.count["Deck"][p],
            !.count["Deck"][p] = engine.count["Grave"][p] - Cardinality(back),
            !.count["Extra"][p] = @ + Cardinality(back)]
  /\ Sure

Draw ==
  /\ Message("Draw")
  /\ \E p \in Players :
       LET deck == field.list["Deck"][p] IN
       \E n \in 1..Len(deck) :
       \E codes \in AllTold([i \in 1..n |-> deck[Len(deck) + 1 - i]]) :
         /\ field' = Drawn(field, p, codes)
         /\ engine' = [engine EXCEPT !.count["Deck"][p] = @ - n, !.count["Hand"][p] = @ + n]
  /\ Sure

-----------------------------------------------------------------------------
(* What the engine tells about cards.                                       *)

\* ConfirmCards, ConfirmDecktop, DeckTop, FlipSummoning, Chaining: the code of a card.
Confirm ==
  /\ Message("Confirm")
  /\ \E place \in Taken : field' = Coded(field, <<Bare(field, place)>>, <<True(Bare(field, place))>>)
  /\ UNCHANGED engine
  /\ Sure

\* The cards in front of the face-up ones at the end of the extra deck; what is shown of
\* one whose order is not known may be anything.
ConfirmExtraTop ==
  /\ Message("ConfirmExtraTop")
  /\ \E p \in Players, offset \in 0..1, code \in Codes :
       LET extra == field.list["Extra"][p]
           meant == Len(extra) - Cardinality(engine.up[p]) - offset
           n == ExtraTop(field, p, offset)
       IN
       /\ meant \in DOMAIN extra
       /\ unsure[p] \/ code = True(extra[meant])
       /\ IF n = -1 THEN panicked' = TRUE /\ UNCHANGED field
          ELSE /\ UNCHANGED panicked
               /\ field' = IF n = 0 THEN field ELSE Coded(field, <<extra[n]>>, <<code>>)
  /\ UNCHANGED <<engine, unsure, stale>>

\* UpdateData and UpdateCard.
Update ==
  /\ Message("Update")
  /\ \E place \in Taken :
       LET k == Bare(field, place)
           known == field.cards[k].position
           lies == IF place.location = "Extra"
                   THEN {IF k \in engine.up[place.controller] THEN "Faceup" ELSE "Facedown"}
                   ELSE IF known = "Any" THEN {"Faceup", "Facedown"} ELSE {known}
       IN
       \/ /\ "Faceup" \notin lies
          /\ field' = Masked(field, k)
       \/ \E position \in lies :
            field' = Queried(field, k, True(k), position, KindOf[True(k)])
       \/ /\ field.cards[k].overlayed # <<>>
          /\ field' = MaterialsQueried(field, k, TrueCodes(field.cards[k].overlayed))
  /\ UNCHANGED engine
  /\ Sure

PositionChange ==
  /\ Message("PositionChange")
  /\ \E place \in OnField, position \in {"Faceup", "Facedown"} :
       LET k == Bare(field, place) IN
       /\ position # field.cards[k].position
       /\ \E code \in Told(k) :
            field' = Turned(field, k, field.cards[k].position, position, code)
  /\ UNCHANGED engine
  /\ Sure

Chain ==
  /\ Message("Chain")
  /\ \/ \E place \in Taken :
          field' = ChainBegun(field, Bare(field, place), True(Bare(field, place)))
     \/ field.current_chain # NoChain /\ field' = Linked(field)
     \/ \E place \in Taken : field' = TargetChosen(field, Bare(field, place))
     \/ \E i \in DOMAIN field.chains, flag \in {"solved", "negated", "disabled"} :
          field' = Flagged(field, i, flag)
     \/ field.chains # <<>> /\ field' = [field EXCEPT !.chains = <<>>]
  /\ UNCHANGED engine
  /\ Sure

\* Equip, Unequip and the EquipCard of a query, which tells what Equip has told before.
Equip ==
  /\ Message("Equip")
  /\ \/ \E one, two \in OnField : one # two /\
          field' = Equipped(field, Bare(field, one), Bare(field, two))
     \/ \E one \in OnField : field' = Unequipped(field, Bare(field, one))
     \/ \E one, two \in OnField :
          /\ one # two /\ field.cards[Bare(field, one)].equip_target \in {None, Bare(field, two)}
          /\ field' = EquipQueried(field, Bare(field, one), Bare(field, two))
  /\ UNCHANGED engine
  /\ Sure

\* CardTarget, CancelTarget and the TargetCard of a query.
CardTarget ==
  /\ Message("CardTarget")
  /\ \E one, two \in Taken :
       \/ field' = Targeted(field, Bare(field, one), Bare(field, two))
       \/ field' = TargetCancelled(field, Bare(field, one), Bare(field, two))
  /\ UNCHANGED engine
  /\ Sure

\* AddCounter, RemoveCounter.
Counter ==
  /\ Message("Counter")
  /\ \E place \in OnField :
       LET n == field.cards[Bare(field, place)].counters IN
       \E m \in {n + 1, CounterLess(n)} :
         /\ m <= MaxCounters
         /\ m > n => field.cards[Bare(field, place)].position = "Faceup"
         /\ field' = [field EXCEPT !.cards[Bare(field, place)].counters = m]
  /\ UNCHANGED engine
  /\ Sure

Attack ==
  /\ Message("Attack")
  /\ \/ \E one, two \in OnField : field' = [field EXCEPT !.attacker = Bare(field, one),
                                                         !.attack_target = Bare(field, two)]
     \/ field' = [field EXCEPT !.attacker = None, !.attack_target = None]
  /\ UNCHANGED engine
  /\ Sure

-----------------------------------------------------------------------------
(* The whole board anew.                                                    *)

\* In a tag duel the teammate's deck, hand and extra deck take the player's place.
Exchanged(p, main, handSize, extraSize, up) ==
  TagSwapped(field, p, main, [i \in 1..handSize |-> Unknown], [i \in 1..extraSize |-> Unknown],
             up, Unknown)

TagSwap ==
  /\ Message("TagSwap")
  /\ \E p \in Players, main \in 1..2, handSize \in 0..1, extraSize \in 0..1, up \in 0..1 :
     \E G \in {Exchanged(p, main, handSize, extraSize, up)} :
       LET deck == G.list["Deck"][p]  hand == G.list["Hand"][p]  extra == G.list["Extra"][p]
           new == Members(deck) \cup Members(hand) \cup Members(extra)
           Kind(k) == IF k \in Members(extra) THEN {IF up = 1 THEN "Pendulum" ELSE "ExtraDeck"} ELSE {}
       IN
       /\ up <= extraSize /\ G.next <= MaxCards + 1
       /\ \E code \in {f \in [new -> Codes] :
                        \A k \in new : {"ExtraDeck"} \cap KindOf[f[k]] \subseteq Kind(k)
                                      /\ Kind(k) \subseteq KindOf[f[k]]} :
          LET Codes1(s) == {[i \in DOMAIN s |-> code[s[i]]], [i \in DOMAIN s |-> Unknown]} IN
          /\ \E inHand \in Codes1(hand), inExtra \in Codes1(extra),
                top \in {Unknown} \cup (IF field.deck_reversed THEN {code[Last(deck)]} ELSE {}) :
               field' = TagSwapped(field, p, main, inHand, inExtra, up, top)
          /\ engine' = [engine EXCEPT
               !.code = [k \in Live(G) |-> IF k \in new THEN code[k] ELSE @[k]],
               !.count["Deck"][p] = main, !.count["Hand"][p] = handSize,
               !.count["Extra"][p] = extraSize,
               !.up[p] = IF up = 0 THEN {} ELSE {Last(extra)}]
          /\ stale' = stale \cup {k \in Members(deck) : field'.cards[k].code \notin {Unknown, code[k]}}
       /\ unsure' = [unsure EXCEPT ![p] = FALSE]
  /\ UNCHANGED panicked

\* reload_field: the viewer joins anew.  Nothing is known of any card but where it lies.
Slots(p) ==
  [l \in Slotted |-> [i \in 0..LastSlot |->
     LET k == field.slot[l][p][i] IN
     IF k = None THEN <<>> ELSE <<field.cards[k].position, Len(field.cards[k].overlayed)>>]]
Lengths(p) == [l \in Lists |-> Len(field.list[l][p])]
Loaded == PlayerLoaded(PlayerLoaded(Empty, 0, Slots(0), Lengths(0), Cardinality(engine.up[0])),
                       1, Slots(1), Lengths(1), Cardinality(engine.up[1]))

ReloadField ==
  /\ Message("ReloadField")
  /\ ~unsure[0] /\ ~unsure[1]
  /\ field' = Loaded
  /\ LET places == Taken \cup Materialised
         Was(k) == Get(field, CHOOSE place \in places : Get(Loaded, place) = k)
     IN  engine' = [engine EXCEPT
           !.code = [k \in Live(Loaded) |-> True(Was(k))],
           !.up = [p \in Players |-> {k \in Live(Loaded) : Was(k) \in engine.up[p]}]]
  /\ stale' = {}
  /\ UNCHANGED <<panicked, unsure>>

Next ==
  \/ Move \/ MoveUnder \/ MoveOut \/ Token \/ Exile \/ Swap \/ ShuffleDeck \/ ShuffleHand
  \/ ShuffleExtra \/ ShuffleSetCard \/ ReverseDeck \/ SwapGraveDeck \/ Draw \/ Confirm
  \/ ConfirmExtraTop \/ Update \/ PositionChange \/ Chain \/ Equip \/ CardTarget \/ Counter
  \/ Attack \/ TagSwap \/ ReloadField

Spec == Init /\ [][Next]_vars

-----------------------------------------------------------------------------
(* Properties.                                                              *)

Cards ==
  [code : Codes \cup {Unknown}, type : SUBSET Kinds, controller : Players,
   location : Lists \cup Slotted \cup {"Overlay", "Limbo"}, sequence : 0..MaxCards,
   position : Positions, overlay_target : Keys \cup {None}, overlayed : Seq(Keys),
   equip_target : Keys \cup {None}, equipped : SUBSET Keys, card_target : SUBSET Keys,
   owner_target : SUBSET Keys, counters : 0..MaxCounters]
Links == [card : Keys \cup {None}, target : SUBSET Keys, solved : BOOLEAN, negated : BOOLEAN,
          disabled : BOOLEAN]

\* Every variable has its type.
TypeOK ==
  /\ Live(field) \subseteq Keys
  /\ \A k \in Live(field) : field.cards[k] \in Cards
  /\ field.next \in 1..(MaxCards + 1)
  /\ field.list \in [Lists -> [Players -> Seq(Keys)]]
  /\ field.slot \in [Slotted -> [Players -> [0..LastSlot -> Keys \cup {None}]]]
  /\ field.pendulums \in [Players -> Int]
  /\ field.chains \in Seq(Links) /\ field.current_chain \in Links
  /\ {field.attacker, field.attack_target} \subseteq Keys \cup {None}
  /\ field.deck_reversed \in BOOLEAN
  /\ DOMAIN engine.code = Live(field)
  /\ panicked \in BOOLEAN /\ unsure \in [Players -> BOOLEAN] /\ stale \subseteq Keys
  /\ scenario \in Scenarios /\ messages \in 0..scenario.most

\* A card knows where it lies, and lies there only: every zone and every list of materials
\* holds live cards, each card lies in one place, and that is the one its controller,
\* location and sequence name (add_card, remove_card, reset_sequence, resequence_overlays).
EveryCardInItsPlace ==
  /\ \A place \in Taken : LET k == Bare(field, place) IN
       /\ k \in Live(field)
       /\ At(field.cards[k].controller, field.cards[k].location, field.cards[k].sequence) = place
  /\ \A place \in Materialised : LET k == Get(field, place) IN
       /\ k \in Live(field)
       /\ field.cards[k].location = "Overlay"
       /\ field.cards[k].overlay_target = Bare(field, place)
       /\ field.cards[k].sequence = place.sub
  /\ Cardinality(Taken) + Cardinality(Materialised) = Cardinality(Live(field))
  /\ \A k \in Live(field) : field.cards[k].location # "Overlay" => field.cards[k].overlay_target = None

\* No message loses a card or makes one up: every zone holds as many as the engine's does.
AsManyAsTheEngine ==
  /\ \A l \in Lists, p \in Players : Len(field.list[l][p]) = engine.count[l][p]
  /\ \A l \in Slotted, p \in Players :
       Cardinality({i \in 0..LastSlot : field.slot[l][p][i] # None}) = engine.count[l][p]
  /\ Cardinality(Materialised) = engine.under

\* Cards that refer to one another do so mutually, and never to one that is gone
\* (release_equip, clear_card_target, destroy_card).
LinksAreMutual ==
  \A j, k \in Live(field) :
    LET card == field.cards[j] IN
    /\ (card.equip_target = k) <=> (j \in field.cards[k].equipped)
    /\ (k \in card.card_target) <=> (j \in field.cards[k].owner_target)
    /\ {card.equip_target} \cup card.equipped \cup card.card_target \cup card.owner_target
         \subseteq Live(field) \cup {None}

\* A code the viewer knows is that of the card: what shuffles and hides cards behind their
\* keys makes him forget.  Not so for a deck TagSwap has exchanged.
KnownIsTrue ==
  \A k \in Live(field) \ stale :
    (\E p \in Players : unsure[p]) \/ field.cards[k].code \in Told(k)

\* Counters lie on face-up cards on the field only: a card that is moved away, set or laid
\* under another loses them (move_card, position_change).
CountersOnField ==
  \A k \in Live(field) : field.cards[k].counters > 0 =>
    field.cards[k].location \in Slotted /\ field.cards[k].position = "Faceup"

\* The face-up cards of an extra deck are counted as the engine counts them, and lie at its
\* end, as long as each card that came or went was known for a face-up pendulum or none
\* (add_card, remove_card); otherwise the count may even become negative, and
\* confirm_extra_top panics.
PendulumsCounted ==
  \A p \in Players : ~unsure[p] =>
    /\ field.pendulums[p] = Cardinality(engine.up[p])
    /\ LET extra == field.list["Extra"][p] IN
       {extra[i] : i \in (Len(extra) - field.pendulums[p] + 1)..Len(extra)} = engine.up[p]

\* The sizes of zones, the face-up pendulum cards and the counters come out as the engine
\* has them, and every number within its width.
CountsAgree == TypeOK /\ AsManyAsTheEngine /\ PendulumsCounted /\ CountersOnField
=============================================================================

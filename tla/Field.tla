------------------------------- MODULE Field -------------------------------
(***************************************************************************)
(* The board a viewer of a duel rebuilds from the engine's messages         *)
(* (ygopro-data, field.rs).  Cards live in an arena; the zones hold keys,   *)
(* and cards refer to one another by key.  Every message of the engine is   *)
(* an operator from one board to the next, composed like the code composes  *)
(* its helpers; module Board chooses the messages.                          *)
(***************************************************************************)
EXTENDS Integers, Sequences, FiniteSets, SequencesExt

CONSTANTS
  MaxCards,       \* bound: cards ever created
  Codes,          \* card codes; 0 stands for one that is not known
  KindOf,         \* [Codes -> SUBSET Kinds], what the card data say
  DeckSize, ExtraSize, \* per player: cards at Start
  LastSlot        \* the last index of a zone of slots: 6 or 7

Players == {0, 1}               \* FirstAttackPlayer, SecondAttackPlayer
Kinds == {"Pendulum", "ExtraDeck"}
Lists == {"Deck", "Hand", "Grave", "Removed", "Extra"}
Slotted == {"MZone", "SZone"}   \* Location::OnField
Positions == {"Any", "Faceup", "Facedown"}
None == 0                       \* no key
Unknown == 0                    \* no code
Keys == 1..MaxCards

ASSUME FieldAssumption ==
  /\ MaxCards \in Nat /\ LastSlot \in Nat
  /\ Codes \subseteq Nat \ {Unknown}
  /\ KindOf \in [Codes -> SUBSET Kinds]
  /\ DeckSize \in [Players -> Nat] /\ ExtraSize \in [Players -> Nat]
  /\ DeckSize[0] + DeckSize[1] + ExtraSize[0] + ExtraSize[1] <= MaxCards

-----------------------------------------------------------------------------
(* The board.                                                               *)

\* Card::default().  Of its data the code and the type matter here.
NewCard == [code |-> Unknown, type |-> {}, controller |-> 0, location |-> "Limbo",
            sequence |-> 0, position |-> "Any", overlay_target |-> None, overlayed |-> <<>>,
            equip_target |-> None, equipped |-> {}, card_target |-> {}, owner_target |-> {},
            counters |-> 0]

\* Card::clear.  The code stays.
Cleared(card) == [card EXCEPT !.type = {}, !.counters = 0]

NoChain == [card |-> None, target |-> {}, solved |-> FALSE, negated |-> FALSE, disabled |-> FALSE]

\* Field::default(); `next` is the arena's next key: a key is not used twice.
Empty == [cards |-> <<>>, next |-> 1,
          list |-> [l \in Lists |-> [p \in Players |-> <<>>]],
          slot |-> [l \in Slotted |-> [p \in Players |-> [i \in 0..LastSlot |-> None]]],
          pendulums |-> [p \in Players |-> 0],
          chains |-> <<>>, current_chain |-> NoChain,
          attacker |-> None, attack_target |-> None, deck_reversed |-> FALSE]

Live(F) == DOMAIN F.cards
Room(F, n) == F.next + n - 1 <= MaxCards

\* create_card, the record given at once.
Created(F, card) == [F EXCEPT !.cards = [k \in Live(F) \cup {F.next} |->
                                           IF k = F.next THEN card ELSE F.cards[k]],
                              !.next = @ + 1]

\* with_card: a key that is gone is ignored.
WithCard(F, k, card) == IF k \in Live(F) THEN [F EXCEPT !.cards[k] = card] ELSE F

IndexIn(s, k) == CHOOSE i \in DOMAIN s : s[i] = k
Members(s) == {s[i] : i \in DOMAIN s}

\* A place on the board: `over` is Location::Overlay, `sub` the overlay's index.
At(p, l, s) == [controller |-> p, location |-> l, sequence |-> s, over |-> FALSE, sub |-> 0]
Under(place, i) == [place EXCEPT !.over = TRUE, !.sub = i]

\* get_card.
Bare(F, place) ==
  IF place.location \in Lists
  THEN LET s == F.list[place.location][place.controller] IN
       IF place.sequence + 1 \in DOMAIN s THEN s[place.sequence + 1] ELSE None
  ELSE IF place.sequence \in 0..LastSlot
       THEN F.slot[place.location][place.controller][place.sequence] ELSE None
Get(F, place) ==
  LET k == Bare(F, place) IN
  IF ~place.over THEN k
  ELSE IF k = None \/ place.sub + 1 \notin DOMAIN F.cards[k].overlayed THEN None
       ELSE F.cards[k].overlayed[place.sub + 1]

\* reset_sequence.
Resequenced(F, l, p) ==
  LET s == F.list[l][p] IN
  [F EXCEPT !.cards = [k \in Live(F) |-> IF k \in Members(s)
                         THEN [F.cards[k] EXCEPT !.sequence = IndexIn(s, k) - 1]
                         ELSE F.cards[k]]]

\* clear_card_target: the card's targets and those who target it forget each other.
Untargeted(F, k) ==
  IF k \notin Live(F) THEN F
  ELSE [F EXCEPT !.cards = [j \in Live(F) |->
          LET card == F.cards[j] IN
          IF j = k THEN [card EXCEPT !.card_target = {}, !.owner_target = {}]
          ELSE [card EXCEPT !.owner_target = IF j \in F.cards[k].card_target THEN @ \ {k} ELSE @,
                            !.card_target = IF j \in F.cards[k].owner_target THEN @ \ {k} ELSE @]]]

\* Mutant of Unequipped: the equipped card is not told.
HalfUnequipped(F, k) == [F EXCEPT !.cards[k].equip_target = None]

\* release_equip.
Unequipped(F, k) ==
  LET t == F.cards[k].equip_target IN
  IF t = None THEN F
  ELSE LET G == IF t \in Live(F) THEN [F EXCEPT !.cards[t].equipped = @ \ {k}] ELSE F
       IN  [G EXCEPT !.cards[k].equip_target = None]

\* is_faceup_pendulum.
FaceupPendulum(card) == card.position = "Faceup" /\ "Pendulum" \in card.type

\* Mutant of ExtraIndex: always at the end.
AtEnd(F, p, faceup) == Len(F.list["Extra"][p]) + 1

\* Where a card enters the extra deck: the face-up pendulums counted stay behind the others.
ExtraIndex(F, p, faceup) ==
  LET n == Len(F.list["Extra"][p])
      behind == IF F.pendulums[p] < 0 THEN 0 ELSE F.pendulums[p]
  IN  IF F.pendulums[p] = 0 \/ faceup THEN n + 1
      ELSE IF n < behind THEN 1 ELSE n - behind + 1

\* add_card: a deck takes the card at its sequence, the extra deck in front of its face-up
\* pendulums, the other lists at their end.
Added(F, k, p, l, s) ==
  LET G == [F EXCEPT !.cards[k].controller = p, !.cards[k].location = l, !.cards[k].sequence = s]
      old == F.list[l][p]
      faceup == FaceupPendulum(F.cards[k])
      Into(i) == [G EXCEPT !.list[l][p] = InsertAt(old, i, k)]
  IN  CASE l = "Deck" ->
             LET H == Resequenced(Into(IF s < Len(old) THEN s + 1 ELSE Len(old) + 1), l, p)
             IN  Untargeted(WithCard(H, k, Cleared(H.cards[k])), k)
        [] l \in {"Hand", "Grave", "Removed"} -> Resequenced(Into(Len(old) + 1), l, p)
        [] l \in Slotted -> IF s \in 0..LastSlot THEN [G EXCEPT !.slot[l][p][s] = k] ELSE G
        [] l = "Extra" ->
             LET H == Resequenced(Into(ExtraIndex(F, p, faceup)), l, p)
             IN  IF faceup THEN [H EXCEPT !.pendulums[p] = @ + 1] ELSE H

\* Is the card that leaves list l one that is counted?
Uncounts(l, card) == l = "Extra" /\ FaceupPendulum(card)

\* remove_card.
Removed(F, place) ==
  LET p == place.controller  l == place.location  k == Bare(F, place) IN
  IF place.over \/ k = None THEN F
  ELSE LET G == IF l \in Lists
                THEN Resequenced([F EXCEPT !.list[l][p] = RemoveAt(@, place.sequence + 1)], l, p)
                ELSE [F EXCEPT !.slot[l][p][place.sequence] = None]
           H == IF Uncounts(l, F.cards[k])
                THEN [G EXCEPT !.pendulums[p] = @ - 1] ELSE G
       IN  [H EXCEPT !.cards[k].location = "Limbo"]

\* destroy_card: its materials go with it, all others forget it.
Destroyed(F, k) ==
  LET card == F.cards[k]
      G == FoldLeft(Untargeted, F, card.overlayed)
      gone == {k} \cup Members(card.overlayed)
  IN  [G EXCEPT !.cards = [j \in Live(F) \ gone |->
         [G.cards[j] EXCEPT !.equip_target = IF j \in card.equipped THEN None ELSE @,
                            !.equipped = IF j = card.equip_target THEN @ \ {k} ELSE @,
                            !.overlayed = IF j = card.overlay_target
                                          THEN SelectSeq(@, LAMBDA o : o # k) ELSE @,
                            !.owner_target = @ \ {k}, !.card_target = @ \ {k}]]]

-----------------------------------------------------------------------------
(* The messages, as operators.                                              *)

\* initial: n cards of player p, face down.
Stacked(F, p, l, n) ==
  FoldLeft(LAMBDA G, i :
             [Created(G, [NewCard EXCEPT !.controller = p, !.location = l, !.sequence = i - 1,
                                         !.position = "Facedown"])
                EXCEPT !.list[l][p] = Append(@, G.next)],
           F, [i \in 1..n |-> i])

\* start.
Started ==
  Stacked(Stacked(Stacked(Stacked(Empty, 0, "Deck", DeckSize[0]), 0, "Extra", ExtraSize[0]),
                  1, "Deck", DeckSize[1]), 1, "Extra", ExtraSize[1])

\* set_code for the cards of s: codes[i] for s[i].
Coded(F, s, codes) ==
  [F EXCEPT !.cards = [k \in Live(F) |-> IF k \in Members(s)
                         THEN [F.cards[k] EXCEPT !.code = codes[IndexIn(s, k)]] ELSE F.cards[k]]]

\* Mutant of Hidden: what was known of the cards stays known.
StillKnown(F, s) == F
\* ... the codes are forgotten.
Hidden(F, s) == Coded(F, s, [i \in DOMAIN s |-> Unknown])

\* Counters stay behind when a card leaves its zone of the field.
CountersAfter(card, from, to) ==
  IF from.location \in Slotted /\ from.location # to.location THEN 0 ELSE card.counters

\* Move within the zones that hold cards themselves.
MovedOpenly(F, from, to, position, code) ==
  LET k == Get(F, from)
      card == F.cards[k]
      leaves == from.location # to.location
      G == [F EXCEPT !.cards[k].code =
                       IF (code # Unknown /\ @ # code) \/ to.location = "Extra" THEN code ELSE @,
                     !.cards[k].counters = CountersAfter(card, from, to)]
      H == IF leaves THEN Unequipped(Untargeted(G, k), k) ELSE G
      I == Removed(H, from)
  IN  Added([I EXCEPT !.cards[k].position = position], k, to.controller, to.location, to.sequence)

\* Move of a card under a monster.
MovedUnder(F, from, to, code) ==
  LET k == Get(F, from)
      G == [F EXCEPT !.cards[k].code = IF code # Unknown THEN code ELSE @, !.cards[k].counters = 0]
      H == Unequipped(Untargeted(G, k), k)
      t == Bare(H, to)
  IN  IF t = None THEN H
      ELSE LET I == Removed(H, from) IN
           [I EXCEPT !.cards[t].overlayed = Append(@, k), !.cards[k].overlay_target = t,
                     !.cards[k].location = "Overlay",
                     !.cards[k].sequence = Len(I.cards[t].overlayed)]

\* Mutant of Detached: the materials left keep their numbers.
DetachedOnly(F, t, i) == [F EXCEPT !.cards[t].overlayed = RemoveAt(@, i)]
\* The i-th material of t is taken away and the rest numbered anew (resequence_overlays).
Detached(F, t, i) ==
  LET rest == RemoveAt(F.cards[t].overlayed, i) IN
  [F EXCEPT !.cards = [j \in Live(F) |->
     CASE j = t -> [F.cards[j] EXCEPT !.overlayed = rest]
       [] j \in Members(rest) /\ j # t -> [F.cards[j] EXCEPT !.sequence = IndexIn(rest, j) - 1]
       [] OTHER -> F.cards[j]]]

\* Move of a material to a zone of its own.
MovedOut(F, from, to, position) ==
  LET k == Get(F, from)
      G == Detached(F, Bare(F, from), from.sub + 1)
  IN  Added([G EXCEPT !.cards[k].overlay_target = None, !.cards[k].position = position],
            k, to.controller, to.location, to.sequence)

\* Move of a material to another monster.
MovedAcross(F, from, to) ==
  LET k == Get(F, from)
      t == Bare(F, to)
      G == Detached(F, Bare(F, from), from.sub + 1)
  IN  [G EXCEPT !.cards[t].overlayed = Append(@, k), !.cards[k].overlay_target = t,
                !.cards[k].sequence = Len(G.cards[t].overlayed)]

\* Move from nowhere: a token.  Its code is in the message.
TokenPut(F, to, position, code) ==
  Added(Created(F, [NewCard EXCEPT !.position = position, !.code = code]),
        F.next, to.controller, to.location, to.sequence)

\* Move to nowhere.
Exiled(F, from) ==
  LET k == Get(F, from) IN Destroyed(Removed(Untargeted(F, k), from), k)

Returns(card) == "ExtraDeck" \in card.type

\* swap_grave_deck: the two lists change places; what belongs in the extra deck goes there.
GraveDeckSwapped(F, p) ==
  LET oldDeck == F.list["Deck"][p]
      oldGrave == F.list["Grave"][p]
      stay == SelectSeq(oldGrave, LAMBDA k : ~Returns(F.cards[k]))
      back == SelectSeq(oldGrave, LAMBDA k : Returns(F.cards[k]))
      G == [F EXCEPT !.list["Grave"][p] = oldDeck, !.list["Deck"][p] = stay,
              !.cards = [k \in Live(F) |->
                 CASE k \in Members(oldDeck) -> [F.cards[k] EXCEPT !.location = "Grave"]
                   [] k \in Members(stay) -> [F.cards[k] EXCEPT !.location = "Deck",
                                                !.sequence = IndexIn(stay, k) - 1]
                   [] k \in Members(back) -> [F.cards[k] EXCEPT !.position = "Facedown"]
                   [] OTHER -> F.cards[k]]]
  IN  FoldLeft(LAMBDA H, k : Added(H, k, p, "Extra", 0), G, back)

\* shuffle_set_card: the codes of the cards in the slots `old` are forgotten; a monster
\* with materials is put where `new` says (-1 where it does not), and whoever was there
\* takes its slot.
Reslotted(F, l, p, k, s) ==
  LET from == F.cards[k].sequence
      previous == F.slot[l][p][s]
      G == IF previous = None THEN F
           ELSE [F EXCEPT !.cards[previous].sequence = from, !.slot[l][p][s] = None,
                          !.slot[l][p][from] = previous]
  IN  [G EXCEPT !.slot[l][p][s] = k, !.cards[k].sequence = s]

SetCardsShuffled(F, l, p, old, new) ==
  LET selected == [i \in DOMAIN old |-> F.slot[l][p][old[i]]] IN
  FoldLeft(LAMBDA G, i : IF new[i] = -1 THEN G ELSE Reslotted(G, l, p, selected[i], new[i]),
           Hidden(F, selected), [i \in DOMAIN old |-> i])

\* reverse_deck, of both players.
DecksReversed(F) ==
  LET G == [F EXCEPT !.list["Deck"] = [p \in Players |-> Reverse(@[p])],
                     !.deck_reversed = ~@]
  IN  Resequenced(Resequenced(G, "Deck", 0), "Deck", 1)

\* draw: from the end of the deck.  While the deck is reversed a code that is not told
\* does not replace the one seen on top.
DrawnOne(F, p, code) ==
  IF F.list["Deck"][p] = <<>> THEN F
  ELSE LET k == Last(F.list["Deck"][p])
           G == IF F.deck_reversed /\ code = Unknown THEN F ELSE [F EXCEPT !.cards[k].code = code]
       IN  Added([G EXCEPT !.list["Deck"][p] = Front(@)], k, p, "Hand", 0)
Drawn(F, p, codes) == FoldLeft(LAMBDA G, code : DrawnOne(G, p, code), F, codes)

\* resize_zone: cards are made or destroyed at the end.
Resized(F, p, l, n) ==
  LET old == F.list[l][p]
      extra == [i \in 1..(Len(old) - n) |-> old[Len(old) + 1 - i]]
      G == FoldLeft(Destroyed, [F EXCEPT !.list[l][p] = SubSeq(@, 1, IF n < Len(old) THEN n ELSE Len(old))],
                    extra)
  IN  FoldLeft(LAMBDA H, i :
                 [Created(H, [NewCard EXCEPT !.controller = p, !.location = l, !.sequence = i - 1])
                    EXCEPT !.list[l][p] = Append(@, H.next)],
               G, [i \in 1..(n - Len(old)) |-> Len(old) + i])

\* tag_swap: zones of the new sizes; the codes of hand, extra deck and deck top are told.
TagSwapped(F, p, main, hand, extra, pendulums, top) ==
  LET G == Resized(Resized(Resized(F, p, "Deck", main), p, "Hand", Len(hand)),
                   p, "Extra", Len(extra))
      H == [G EXCEPT !.pendulums[p] = pendulums]
      I == IF main = 0 THEN H ELSE [H EXCEPT !.cards[Last(H.list["Deck"][p])].code = top]
  IN  Coded(Coded(I, I.list["Hand"][p], hand), I.list["Extra"][p], extra)

\* load_player_field: what occupies the slots is described one by one, of the lists the
\* lengths are told.  `slots[l][i]` is the position and the number of materials, or <<>>.
SlotLoaded(F, p, l, i, position, materials) ==
  LET k == F.next
      G == Added(Created(F, [NewCard EXCEPT !.position = position]), k, p, l, i)
  IN  FoldLeft(LAMBDA H, m :
                 [Created(H, [NewCard EXCEPT !.overlay_target = k, !.location = "Overlay",
                                             !.sequence = m - 1, !.controller = p])
                    EXCEPT !.cards[k].overlayed = Append(@, H.next)],
               G, [m \in 1..materials |-> m])
ListLoaded(F, p, l, n) ==
  FoldLeft(LAMBDA G, i : Added(Created(G, NewCard), G.next, p, l, i - 1), F, [i \in 1..n |-> i])
PlayerLoaded(F, p, slots, lengths, pendulums) ==
  LET InSlot(l, G, i) == IF slots[l][i] = <<>> THEN G
                         ELSE SlotLoaded(G, p, l, i, slots[l][i][1], slots[l][i][2])
      indices == [i \in 1..(LastSlot + 1) |-> i - 1]
      M == FoldLeft(LAMBDA G, i : InSlot("MZone", G, i), F, indices)
      S == FoldLeft(LAMBDA G, i : InSlot("SZone", G, i), M, indices)
      L == FoldLeft(LAMBDA G, l : ListLoaded(G, p, l, lengths[l]), S,
                    <<"Deck", "Hand", "Grave", "Removed", "Extra">>)
  IN  [L EXCEPT !.pendulums[p] = pendulums]

\* swap: two cards exchange their places.
Swapped(F, one, two) ==
  LET j == Get(F, one)
      k == Get(F, two)
      G == Removed(Removed(F, one), two)
  IN  Added(Added(G, j, two.controller, two.location, two.sequence),
            k, one.controller, one.location, one.sequence)

\* position_change.
Turned(F, k, before, position, code) ==
  LET G == IF before = "Faceup" /\ position = "Facedown"
           THEN Untargeted([F EXCEPT !.cards[k].counters = 0], k) ELSE F
  IN  [G EXCEPT !.cards[k].position = position,
                !.cards[k].code = IF code = Unknown THEN @ ELSE code]

\* update_card_info: a query that is masked is Clear; the code comes first in any other.
Masked(F, k) == [F EXCEPT !.cards[k] = Cleared(@)]
Queried(F, k, code, position, type) ==
  LET card == IF code = Unknown THEN Cleared(F.cards[k]) ELSE F.cards[k] IN
  [F EXCEPT !.cards[k] = [card EXCEPT !.code = code, !.position = position, !.type = type]]

\* update_overlay_cards, for as many materials as there are here.
MaterialsQueried(F, k, codes) == Coded(F, F.cards[k].overlayed, codes)

\* set_equip_card: unlike Equip it does not release an earlier one.
EquipQueried(F, k, t) == [F EXCEPT !.cards[k].equip_target = t, !.cards[t].equipped = @ \cup {k}]

\* equip.
Equipped(F, k, t) == EquipQueried(Unequipped(F, k), k, t)

\* add_card_target, cancel_target.
Targeted(F, k, t) ==
  [F EXCEPT !.cards[k].card_target = @ \cup {t}, !.cards[t].owner_target = @ \cup {k}]
TargetCancelled(F, k, t) ==
  [F EXCEPT !.cards[k].card_target = @ \ {t}, !.cards[t].owner_target = @ \ {k}]

\* remove_counter, of one.
CounterLess(n) == IF n = 0 THEN 0 ELSE n - 1

\* chaining; Chained; become_target; chain_solving, chain_negated, chain_disabled, which
\* count links from 1.
ChainBegun(F, k, code) ==
  [F EXCEPT !.current_chain = [NoChain EXCEPT !.card = k], !.cards[k].code = code]
Linked(F) == [F EXCEPT !.chains = Append(@, F.current_chain), !.current_chain = NoChain]
TargetChosen(F, k) == [F EXCEPT !.current_chain.target = @ \cup {k}]
Flagged(F, i, flag) == IF i \in DOMAIN F.chains THEN [F EXCEPT !.chains[i][flag] = TRUE] ELSE F

\* confirm_extra_top: the index of the offset-th card, counted in usize, 0 if there is
\* none.  A negative count is read as a huge one, which is more than there are cards, or
\* lets the sum overflow; -1 stands for the panic.
ExtraTop(F, p, offset) ==
  LET above == F.pendulums[p] + offset
      n == Len(F.list["Extra"][p]) - above
  IN CASE F.pendulums[p] < 0 /\ above < -1 -> 0
       [] F.pendulums[p] < 0 /\ above >= -1 -> -1
       [] OTHER -> IF n < 0 THEN 0 ELSE n
=============================================================================

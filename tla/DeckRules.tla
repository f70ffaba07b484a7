------------------------------ MODULE DeckRules ------------------------------
(***************************************************************************)
(* Decks and lists of forbidden cards: what UpdateDeck makes of the codes a  *)
(* client sends, what ValidateDeck checks, what siding may change, and how   *)
(* a room finds its list by the hash of the list.                           *)
(*                                                                          *)
(* All of it is pure: a deck is three sequences of card codes, a list is     *)
(* three partial functions and a hash.  The hash is an exclusive or of       *)
(* rotated words; a word together with its rotation is an atom here and the  *)
(* hash a set of atoms, so that exclusive or is the symmetric difference.    *)
(* (Words that cancel by chance are not modelled.)                          *)
(***************************************************************************)
EXTENDS Naturals, Sequences, FiniteSets, SequencesExt

CONSTANTS
  DeckMin, DeckMax,  \* DECK_MIN 40, DECK_MAX 60
  ExtraMax, SideMax, \* EXTRA_MAX, SIDE_MAX 15
  MaxCopies,         \* 3, in check_deck_lflists
  ArtworkOffset,     \* CARD_ARTWORK_VERSIONS_OFFSET, 20
  Database           \* the rows of the card databases, in the order they are loaded

CardTypes == {"Main", "Extra", "Token"}   \* as far as card_type is looked at
Origins   == {"OCG", "TCG", "Custom", "SC"}
Rows == [code : Nat \ {0}, type : CardTypes, ot : SUBSET Origins, alias : Nat]

ASSUME DeckRulesAssumption ==
  /\ {DeckMin, DeckMax, ExtraMax, SideMax, MaxCopies, ArtworkOffset} \subseteq Nat
  /\ Database \in Seq(Rows)

Least(a, b) == IF a < b THEN a ELSE b

\* HashMap::insert
Insert(map, key, value) ==
  [k \in DOMAIN map \cup {key} |-> IF k = key THEN value ELSE map[k]]

\* Vec::retain: the members of s that are in S, in their order.
Retain(s, S) ==
  FoldLeft(LAMBDA kept, x : IF x \in S THEN Append(kept, x) ELSE kept, <<>>, s)

-----------------------------------------------------------------------------
(* The cards.  An alias means one of two things: another artwork of the same *)
(* card, when the codes are close, or a card that is treated as another.     *)
IsAlternative(code, alias) == alias < code + ArtworkOffset /\ code < alias + ArtworkOffset

TreatedAs(row) ==
  row.alias # 0 /\ row.type # "Token" /\ ~IsAlternative(row.code, row.alias)

\* insert_cards: of two rows of one code the later counts.  (One card, 5405695, is
\* treated as its alias although the codes are close.)
CardOf(row) ==
  [type |-> row.type, ot |-> row.ot,
   alias |-> IF TreatedAs(row) THEN 0 ELSE row.alias,
   rule_code |-> IF TreatedAs(row) THEN row.alias ELSE 0]
InsertCards(rows) == FoldLeft(LAMBDA cards, row : Insert(cards, row.code, CardOf(row)), <<>>, rows)

RuleCodeIn(cards, code) == IF code \in DOMAIN cards THEN cards[code].rule_code ELSE 0

\* finalize_db: an artwork is treated as what its card is treated as.  (The pass is in
\* the order of a HashMap, which matters only to an artwork of an artwork.)
Finalized(cards) ==
  [code \in DOMAIN cards |->
     IF cards[code].rule_code # 0 \/ cards[code].alias = 0 \/ cards[code].type = "Token"
     THEN cards[code]
     ELSE [cards[code] EXCEPT !.rule_code = RuleCodeIn(cards, cards[code].alias)]]

\* original_code and duel_code; an unknown code is called 0.
OriginalCode(card, code) == IF card.alias # 0 THEN card.alias ELSE code
DuelCodeIn(cards, code) ==
  IF code \notin DOMAIN cards THEN 0
  ELSE IF cards[code].rule_code # 0 THEN cards[code].rule_code
  ELSE OriginalCode(cards[code], code)

Catalogue == Finalized(InsertCards(Database))
DuelCode(code) == DuelCodeIn(Catalogue, code)

\* What the callers of Deck resolve a code to; an unknown code has no type and no origin.
Known(code)    == code \in DOMAIN Catalogue
TypeOf(code)   == IF Known(code) THEN Catalogue[code].type ELSE "Main"
OriginOf(code) == IF Known(code) THEN Catalogue[code].ot ELSE {}
IsExtra(code)  == TypeOf(code) = "Extra"
IsToken(code)  == TypeOf(code) = "Token"
ExtraCards     == {code \in DOMAIN Catalogue : IsExtra(code)}

-----------------------------------------------------------------------------
(* Loading a deck.                                                          *)
Deck(main, extra, side) == [main |-> main, extra |-> extra, side |-> side]
NoDeck == Deck(<<>>, <<>>, <<>>)

\* Deck::load_from_codes, and how a Deck is read from the network: counts that
\* promise more codes than came are cut short.
LoadFromCodes(codes, mainc, sidec) ==
  LET mc == Least(mainc, Len(codes))
      sc == Least(sidec, Len(codes) - mc)
  IN  Deck(SubSeq(codes, 1, mc), <<>>, SubSeq(codes, mc + 1, mc + sc))

\* Mutant of AllCards: the side deck is left out.
WithoutSide(deck) == deck.main \o deck.extra

\* Deck::iter
AllCards(deck) == deck.main \o deck.extra \o deck.side

\* Deck::get_hash, as a bag: how often each code occurs.
CodeCounts(deck) ==
  LET cards == AllCards(deck) IN
  [code \in ToSet(cards) |-> Cardinality({i \in DOMAIN cards : cards[i] = code})]

\* separate_main_and_extra: what does not fit is dropped.
Separated(deck) ==
  LET extras == Retain(deck.main, ExtraCards)
      room == IF Len(deck.extra) < ExtraMax THEN ExtraMax - Len(deck.extra) ELSE 0
  IN  [deck EXCEPT !.main = Retain(@, ToSet(@) \ ExtraCards),
                   !.extra = @ \o SubSeq(extras, 1, Least(room, Len(extras)))]

\* remove_unknown_cards
Playable(code) == Known(code) /\ ~IsToken(code)
WithoutUnknown(codes) == Retain(codes, {code \in DOMAIN Catalogue : Playable(code)})
LastRemoved(codes) == SelectLastInSeq(codes, LAMBDA code : ~Playable(code))

\* Mutant of Loaded: the side deck is cleaned only when the main deck was clean.
CleanedLazily(deck) ==
  Separated([deck EXCEPT !.main = WithoutUnknown(@),
                         !.side = IF LastRemoved(deck.main) = 0 THEN WithoutUnknown(@) ELSE @])

\* Deck::load, the deck
Loaded(deck) ==
  Separated([deck EXCEPT !.main = WithoutUnknown(@), !.side = WithoutUnknown(@)])

\* Deck::load, the error: the last code removed from the main deck goes first.
LoadError(deck) ==
  CASE LastRemoved(deck.main) # 0 -> <<"UnknownCard", deck.main[LastRemoved(deck.main)]>>
    [] LastRemoved(deck.main) = 0 /\ LastRemoved(deck.side) # 0 ->
         <<"UnknownCard", deck.side[LastRemoved(deck.side)]>>
    [] OTHER -> <<>>

-----------------------------------------------------------------------------
(* Lists.                                                                   *)
NewList(name) ==
  [name |-> name, content |-> <<>>, credit_limits |-> <<>>, credits |-> <<>>, hash |-> {}]

\* update_credit_hash: three words, each rotated by its own distance; a word of zero
\* bits changes nothing.
CreditMarker == 1129465156
Words(first, second, third) ==
  {atom \in {<<first, 18>>, <<second, 9>>, <<third, 27>>} : atom[1] # 0}

\* An entry of `content`: the code twice, the second time rotated by its limit.
CardAtoms(code, count) == {<<code, 18>>, <<code, 27 + count>>}

\* The key of a credit stands for its credit_hash.

PushCard(list, code, count) ==
  [list EXCEPT !.content = Insert(@, code, count), !.hash = SymDiff(@, CardAtoms(code, count))]

PushCreditLimit(list, key, limit) ==
  [list EXCEPT !.credit_limits = Insert(@, key, limit), !.hash = SymDiff(@, Words(key, limit, CreditMarker))]

PushCredit(list, code, key, credit) ==
  [list EXCEPT !.credits = Insert(@, <<code, key>>, credit),
               !.hash = SymDiff(@, Words(code, key, credit))]

\* A line of lflist.conf: a name, a limit, or a line of the credit system.
Named(name) == [kind |-> "list", name |-> name]
Limit(code, count) == [kind |-> "card", code |-> code, count |-> count]
CreditLimit(key, limit) == [kind |-> "limit", key |-> key, limit |-> limit]
Credit(code, key, credit) == [kind |-> "credit", code |-> code, key |-> key, credit |-> credit]

\* parse_lflist_content: lines before the first name are skipped, limits above 2 too.
ParseLine(lists, line) ==
  LET push(list) == [lists EXCEPT ![Len(lists)] = list]
      last == lists[Len(lists)]
  IN CASE line.kind = "list" -> Append(lists, NewList(line.name))
       [] line.kind # "list" /\ lists = <<>> -> lists
       [] line.kind = "card" /\ lists # <<>> ->
            IF line.count <= 2 THEN push(PushCard(last, line.code, line.count)) ELSE lists
       [] line.kind = "limit" /\ lists # <<>> -> push(PushCreditLimit(last, line.key, line.limit))
       [] line.kind = "credit" /\ lists # <<>> ->
            push(PushCredit(last, line.code, line.key, line.credit))

ParseLists(lines) == FoldLeft(ParseLine, <<>>, lines)

\* LFList::calculate_hash
CalculatedHash(list) ==
  LET limits == {CardAtoms(code, list.content[code]) : code \in DOMAIN list.content}
      maxima == {Words(key, list.credit_limits[key], CreditMarker) : key \in DOMAIN list.credit_limits}
      points == {Words(e[1], e[2], list.credits[e]) : e \in DOMAIN list.credits}
  IN  FoldSet(SymDiff, {}, limits \cup maxima \cup points)

\* deck_manager::init: a list "N/A" of hash 0 comes last; get_lflist_by_hash finds
\* the first; a hash that no list has stands for a list without entries.
NoList == [NewList("N/A") EXCEPT !.hash = {<<0, 0>>}]
Installed(lists) == IF lists = <<>> THEN lists ELSE Append(lists, NoList)
ListByHash(lists, hash) ==
  LET i == SelectInSeq(lists, LAMBDA list : list.hash = hash) IN
  IF i = 0 THEN NewList("") ELSE lists[i]

-----------------------------------------------------------------------------
(* Checking a deck: the type of the first error, or "None".                 *)
CheckLength(deck) ==
  CASE Len(deck.main) \notin DeckMin..DeckMax -> "MainCount"
    [] Len(deck.main) \in DeckMin..DeckMax /\ Len(deck.extra) > ExtraMax -> "ExtraCount"
    [] Len(deck.main) \in DeckMin..DeckMax /\ Len(deck.extra) <= ExtraMax
         /\ Len(deck.side) > SideMax -> "SideCount"
    [] OTHER -> "None"

\* check_illegal_cards
CheckSections(deck) ==
  IF \E i \in DOMAIN deck.main : IsToken(deck.main[i]) \/ IsExtra(deck.main[i]) THEN "MainCount"
  ELSE IF \E i \in DOMAIN deck.side : IsToken(deck.side[i]) THEN "SideCount"
  ELSE IF \E i \in DOMAIN deck.extra : ~IsExtra(deck.extra[i]) THEN "ExtraCount"
  ELSE "None"

\* From<Rule> for OT, Rule::check_ot
Allowed(rule) == CASE rule = "All" -> {} [] rule = "OCG_TCG" -> {"OCG", "TCG"} [] OTHER -> {rule}

CheckOrigin(rule, ot) ==
  IF Allowed(rule) \subseteq ot THEN "None"
  ELSE IF "OCG" \in ot /\ Allowed(rule) # {"OCG"} THEN "OcgOnly"
  ELSE IF "TCG" \in ot /\ Allowed(rule) # {"TCG"} THEN "TcgOnly"
  ELSE "NotAvailable"

FirstOf(errors) ==
  LET i == SelectInSeq(errors, LAMBDA error : error # "None") IN
  IF i = 0 THEN "None" ELSE errors[i]

CheckRule(codes, rule) ==
  FirstOf([i \in DOMAIN codes |-> CheckOrigin(rule, OriginOf(codes[i]))])

CreditOf(list, code, key) ==
  IF <<code, key>> \in DOMAIN list.credits THEN list.credits[<<code, key>>] ELSE 0

\* check_deck_lflists, one turn of its loop: the counters after the first i cards.
CheckCopies(codes, list, i) ==
  LET names == [j \in 1..i |-> DuelCode(codes[j])]
      count == Cardinality({j \in 1..i : names[j] = names[i]})
      used(key) == FoldFunction(+, 0, [j \in 1..i |-> CreditOf(list, names[j], key)])
  IN  IF count > MaxCopies THEN "CardCount"
      ELSE IF \/ names[i] \in DOMAIN list.content /\ count > list.content[names[i]]
              \/ \E key \in DOMAIN list.credit_limits : used(key) > list.credit_limits[key]
           THEN "Lflist"
      ELSE "None"

CheckLists(codes, list) == FirstOf([i \in DOMAIN codes |-> CheckCopies(codes, list, i)])

\* Deck::prepare, Deck::check
Prepare(deck, list, rule) ==
  FirstOf(<<CheckLength(deck), CheckSections(deck), CheckRule(AllCards(deck), rule),
            CheckLists(AllCards(deck), list)>>)

-----------------------------------------------------------------------------
(* Siding.                                                                  *)

\* PartialEq for Deck
SameDeck(one, other) ==
  /\ Len(one.main) = Len(other.main)
  /\ Len(one.side) = Len(other.side)
  /\ Len(one.extra) = Len(other.extra)
  /\ CodeCounts(one) = CodeCounts(other)

\* check_after_replacing_side: `sided` as it arrives.
SideAccepted(deck, sided) == SameDeck(deck, Separated(sided))

-----------------------------------------------------------------------------
(* The text form: a line is a marker or, when its mark is empty, a code.     *)
Markers == {"#main", "#extra", "!side"}
Mark(mark) == [mark |-> mark, code |-> 0]
Codes(codes) == [i \in DOMAIN codes |-> [mark |-> "", code |-> codes[i]]]

\* ToString for Deck
Printed(deck) ==
  <<Mark("#main")>> \o Codes(deck.main)
  \o (IF deck.extra = <<>> THEN <<>> ELSE <<Mark("#extra")>> \o Codes(deck.extra))
  \o <<Mark("!side")>> \o Codes(deck.side)

\* FromStr for Deck: a marker turns to its section, a code goes to the section it is in.
ReadLine(read, line) ==
  CASE line.mark \in Markers -> [read EXCEPT !.section = line.mark]
    [] line.mark \notin Markers /\ read.section = "#main" -> [read EXCEPT !.main = Append(@, line.code)]
    [] line.mark \notin Markers /\ read.section = "#extra" -> [read EXCEPT !.extra = Append(@, line.code)]
    [] line.mark \notin Markers /\ read.section = "!side" -> [read EXCEPT !.side = Append(@, line.code)]

Parsed(lines) ==
  LET read == FoldLeft(ReadLine, [section |-> "#main", main |-> <<>>, extra |-> <<>>, side |-> <<>>], lines)
  IN  Deck(read.main, read.extra, read.side)
=============================================================================

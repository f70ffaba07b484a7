------------------------------- MODULE MCDecks -------------------------------
(* A small instance of Room whose decks have contents: which of them cannot  *)
(* be loaded and which are illegal follows from the rules of DeckRules.      *)
EXTENDS Room, DeckRules

CONSTANTS c1, c2

TwoClients == {c1, c2}
AnyPair == Permutations(TwoClients)
ReadyRequests == {"JoinGame", "UpdateDeck", "HsReady", "HsNotReady", "HsStart"}

Row(code, type, ot, alias) == [code |-> code, type |-> type, ot |-> ot, alias |-> alias]

\* A card, an artwork of it, one for the extra deck, a token, a card of one region that
\* is treated as the first, and an artwork of that.
SixRows ==
  <<Row(1, "Main", {"OCG", "TCG"}, 0), Row(2, "Main", {"OCG", "TCG"}, 1),
    Row(4, "Extra", {"OCG", "TCG"}, 0), Row(5, "Token", {"OCG", "TCG"}, 0),
    Row(10, "Main", {"OCG"}, 1), Row(11, "Main", {"OCG", "TCG"}, 10)>>
UnknownCard == 6
AllCodes == {1, 2, 4, 5, 11, UnknownCard}

\* The list and the rule of the room: card 4 once, five points at three a piece.
RoomList ==
  ParseLists(<<Named("2024"), Limit(4, 0), Credit(1, 9, 3), CreditLimit(9, 5)>>)[1]
RoomRule == "OCG_TCG"

\* What the players may send.
Fine == Deck(<<1, 4>>, <<>>, <<>>)
Unclean == Deck(<<UnknownCard, 1>>, <<>>, <<5>>)
Banned == Deck(<<1, 2>>, <<>>, <<1>>)
FourDecks == {NoDeck, Fine, Unclean, Banned}
NotLoadable == {deck \in FourDecks : LoadError(deck) # <<>>}
NotLegal == {deck \in FourDecks : Prepare(Loaded(deck), RoomList, RoomRule) # "None"}

\* A deck as it arrives has a main and a side deck only, as LoadFromCodes leaves it.
ASSUME DecksAssumption == Decks \subseteq [main : Seq(Nat), extra : {<<>>}, side : Seq(Nat)]

-----------------------------------------------------------------------------
(* What is expected of decks, said without the steps of the checks.          *)
Copies(deck, code) ==
  LET same(codes) == {i \in DOMAIN codes : DuelCode(codes[i]) = DuelCode(code)}
  IN  Cardinality(same(deck.main)) + Cardinality(same(deck.extra)) + Cardinality(same(deck.side))

Points(codes, list, key) == SumFunction([i \in DOMAIN codes |-> CreditOf(list, DuelCode(codes[i]), key)])

\* A deck a player may play with.
Legal(deck, list, rule) ==
  LET cards == ToSet(deck.main) \cup ToSet(deck.extra) \cup ToSet(deck.side)
  IN  /\ Len(deck.main) \in DeckMin..DeckMax /\ Len(deck.extra) <= ExtraMax /\ Len(deck.side) <= SideMax
      /\ \A code \in cards :
           /\ ~IsToken(code)
           /\ Allowed(rule) \subseteq OriginOf(code)
           /\ Copies(deck, code) <= MaxCopies
           /\ DuelCode(code) \in DOMAIN list.content => Copies(deck, code) <= list.content[DuelCode(code)]
      /\ \A code \in ToSet(deck.main) : ~IsExtra(code)
      /\ \A code \in ToSet(deck.extra) : IsExtra(code)
      /\ \A key \in DOMAIN list.credit_limits :
           Points(deck.main, list, key) + Points(deck.extra, list, key)
             + Points(deck.side, list, key) <= list.credit_limits[key]

\* Nothing unknown, no token, and every card in its section.
Clean(deck) ==
  /\ \A code \in ToSet(deck.main) \cup ToSet(deck.side) : Playable(code)
  /\ \A code \in ToSet(deck.main) : ~IsExtra(code)
  /\ \A code \in ToSet(deck.extra) : Playable(code) /\ IsExtra(code)

\* Everything a client can send in a deck of this size.
Sent == {LoadFromCodes(main \o side, Len(main), 2) : main \in BoundedSeq(AllCodes, 3), side \in BoundedSeq(AllCodes, 2)}
LoadedDecks == {Loaded(deck) : deck \in Sent}

Lists ==
  {RoomList, NewList(""), ParseLists(<<Named("two"), Limit(1, 2), Limit(2, 1)>>)[1]}

\* A limit list of at most two lines that names no card twice.
Lines == {Limit(code, count) : code \in {1, 2}, count \in 0..3}
Pages == {page \in BoundedSeq(Lines, 2) : Len(page) = 2 => page[1].code # page[2].code}

PointLines == Lines \cup {Credit(code, 9, points) : code \in {1, 2}, points \in {0, 3}} \cup {CreditLimit(9, 5)}
SameEntry(a, b) == a.kind = b.kind /\ (a.kind = "limit" \/ a.code = b.code)
PointPages ==
  {page \in BoundedSeq(PointLines, 3) : \A i, j \in DOMAIN page : i # j => ~SameEntry(page[i], page[j])}

\* Databases whose aliases lead to cards, or from an artwork to a treated card.
Codings == [{1, 2, 10, 11} -> {0, 1, 2, 10, 11}]
Plain(alias) ==
  \A code \in DOMAIN alias : alias[code] # 0 =>
    \/ alias[alias[code]] = 0
    \/ /\ IsAlternative(code, alias[code]) /\ ~IsAlternative(alias[code], alias[alias[code]])
       /\ alias[alias[alias[code]]] = 0
CardsOf(alias) ==
  Finalized(InsertCards([i \in 1..4 |-> LET code == <<1, 2, 10, 11>>[i] IN
                                          Row(code, "Main", {}, alias[code])]))

\* Each claim as a table, so that it is computed once.
AliasTable ==
  [code \in {1, 2, 10, 11} |-> \A alias \in {a \in Codings : Plain(a)} :
     alias[code] # 0 => DuelCodeIn(CardsOf(alias), code) = DuelCodeIn(CardsOf(alias), alias[code])]

CheckTable ==
  [list \in Lists |-> \A deck \in LoadedDecks, rule \in {"OCG_TCG", "TCG", "All"} :
     (Prepare(deck, list, rule) = "None") <=> Legal(deck, list, rule)]

SideTable ==
  [list \in Lists |->
     LET legal == {deck \in LoadedDecks : Legal(deck, list, RoomRule)} IN
     \A deck \in legal, sided \in {s \in Sent : Len(s.main) + Len(s.side) <= 3} :
       SideAccepted(deck, sided) => Legal(Separated(sided), list, RoomRule)]

TextTable ==
  [size \in 0..2 |-> \A deck \in LoadedDecks : Len(deck.side) = size => Parsed(Printed(deck)) = deck]

FileTable ==
  [size \in 0..2 |-> \A one \in {page \in Pages : Len(page) = size}, two \in Pages :
     LET lists == Installed(ParseLists(<<Named("one")>> \o one \o <<Named("two")>> \o two)) IN
     \A i \in DOMAIN lists : ListByHash(lists, lists[i].hash).content = lists[i].content]

HashTable ==
  [size \in 0..3 |-> \A page \in {p \in PointPages : Len(p) = size} :
     LET list == ParseLists(<<Named("one")>> \o page)[1] IN list.hash = CalculatedHash(list)]

-----------------------------------------------------------------------------
(* Properties.                                                              *)

\* The deck a player brings to the duel holds no unknown card and no token, and every
\* card lies in its section, even when another deck was validated than he has now.
PlayedIsClean ==
  \A s \in Seats : Occupied(s) => Clean(Loaded(players[s].deck))

\* An artwork, a card treated as another and an artwork of that are counted with the
\* card they stand for, so that none of them escapes a limit.
AliasesCountTogether == running => \A code \in DOMAIN AliasTable : AliasTable[code]

\* The checks, which stop at the first error and count as they go over the sections,
\* find an error exactly when a deck breaks a rule: whatever list the room plays by.
CheckMeansLegal == running => \A list \in DOMAIN CheckTable : CheckTable[list]

\* Siding needs no second check: what is accepted in place of a legal deck is legal.
SidedStaysLegal == running => \A list \in DOMAIN SideTable : SideTable[list]

\* A deck that is written as text and read again is the same deck.  Codes behind `#extra`
\* belong to the extra deck, as the code of Deck reads them: its own test, deck.rs 338-346,
\* expects them in the main deck.
PrintsAndParses == running => \A size \in DOMAIN TextTable : TextTable[size]

\* A room that names its list by hash plays by the limits of that list, although the
\* first list of that hash is taken, as long as no list names a card twice.
HostListIsPlayed == running => \A size \in DOMAIN FileTable : FileTable[size]

\* The hash that grows with every line equals the one computed from the whole list.
HashIsOfContent == running => \A size \in DOMAIN HashTable : HashTable[size]

\* Decks and lists are read as they were meant: what is played with is clean, the text form
\* of a deck loses nothing, and the list a room announces by its hash is the list its decks
\* are checked with.
ReadAsMeant == PlayedIsClean /\ PrintsAndParses /\ HostListIsPlayed /\ HashIsOfContent

\* Who passes the checks plays a legal deck, also after siding, whichever of the codes of a
\* card he names.
ChecksAreTheRules == CheckMeansLegal /\ AliasesCountTogether /\ SidedStaysLegal
=============================================================================

------------------------------ MODULE Replays ------------------------------
(***************************************************************************)
(* The replay file: what create_replay puts into it, how the two duels put  *)
(* its owners in order before it is sent (on_generate_replay), its binary   *)
(* layout against the size fill_data_size announces, and the duel           *)
(* counterfeit_duel builds from it.                                         *)
(*                                                                          *)
(* A file has two parts, or four in tag mode: host, client, tag_host and    *)
(* tag_client, each a name and a deck.  A name is the player's; a card is   *)
(* whatever the instance makes it.                                          *)
(***************************************************************************)
EXTENDS Integers, Sequences, SequencesExt, FiniteSets, Responses

Roles(tag) == {"host", "client"} \cup (IF tag THEN {"tag_host", "tag_client"} ELSE {})

\* Whose name and deck create_replay takes for a role.
Owner(tag) == [role \in Roles(tag) |->
  CASE role = "host"       -> 0
    [] role = "tag_host"   -> 1
    [] role = "tag_client" -> 2
    [] role = "client"     -> IF tag THEN 3 ELSE 1]

\* ReplayDeck::from(Deck) and Deck::from(ReplayDeck): the piles turned over, no side.
ReplayDeck(deck) == [main |-> Reverse(deck.main), extra |-> Reverse(deck.extra)]

\* create_replay: nothing while a seat it needs is empty.  `table` is, per seat, the
\* name and deck there; `answers` the client_responses.
CanReplay(tag, present) == \A role \in Roles(tag) : Owner(tag)[role] \in present
CreateReplay(tag, table, answers) ==
  [tag   |-> tag,
   parts |-> [role \in Roles(tag) |->
                LET seat == table[Owner(tag)[role]] IN
                [name |-> seat.name, deck |-> ReplayDeck(seat.deck)]],
   datas |-> answers]

-----------------------------------------------------------------------------
\* std::mem::swap of the names and decks of two parts.
Exchanged(file, one, other) ==
  [file EXCEPT !.parts[one] = file.parts[other], !.parts[other] = file.parts[one]]

\* on_generate_replay of a single duel, when Player2 attacked first.
SingleSwap(file, second_first) ==
  IF second_first THEN Exchanged(file, "host", "client") ELSE file

\* Mutant of TagSwap: teams are exchanged part by part.
TeamSwap(file, second_first) ==
  IF second_first THEN Exchanged(Exchanged(file, "host", "client"), "tag_host", "tag_client")
                  ELSE file

\* ... of a tag duel, when Team2 did: the first team's leader is the host, and the
\* second team's partner, whose deck lies on the table first, the client.
TagSwap(file, second_first) ==
  IF second_first THEN Exchanged(Exchanged(file, "host", "tag_client"), "tag_host", "client")
                  ELSE file

-----------------------------------------------------------------------------
(* The layout of the body in bytes.                                         *)
NameSize == 40                                 \* FixedLengthString<20> in UTF-16
Scalars == 4 + 4 + 4 + 2 + 2                   \* start_lp .. duel_rule

DeckSize(deck) == 4 + 4 * Len(deck.main) + 4 + 4 * Len(deck.extra)
\* The answers, each behind its length, by what is counted or written of it.
DataSizes(sizes) == FoldLeft(LAMBDA sum, size : sum + 1 + size, 0, sizes)
Put(r) == Len(Bytes(r))

\* What the derived writer puts out: the tag parts exactly when the flag is set.
Written(file) ==
  SumFunction([role \in Roles(file.tag) |-> NameSize + DeckSize(file.parts[role].deck)])
    + Scalars + DataSizes([i \in DOMAIN file.datas |-> Put(file.datas[i])])

\* fill_data_size, by hand.  The reader refuses a body of another length.
FillDataSize(file) ==
  2 * NameSize + Scalars
    + DeckSize(file.parts["host"].deck) + DeckSize(file.parts["client"].deck)
    + DataSizes([i \in DOMAIN file.datas |-> Width(file.datas[i])])
    + (IF file.tag THEN 2 * NameSize + DeckSize(file.parts["tag_host"].deck)
                        + DeckSize(file.parts["tag_client"].deck) ELSE 0)

-----------------------------------------------------------------------------
(* Playing a file.                                                          *)

\* Mutant of Counterfeit: the decks are used as the file has them.
AsStored(file) ==
  [seat \in {0, 1} |-> file.parts[IF seat = 0 THEN "host" ELSE "client"]]

\* counterfeit_duel, without partners: the host sits at 0 and attacks first.
Counterfeit(file) ==
  [seat \in {0, 1} |-> LET part == file.parts[IF seat = 0 THEN "host" ELSE "client"] IN
                       [name |-> part.name, deck |-> ReplayDeck(part.deck)]]

\* on_duel_init: the cards each core player is given, in order, from the bottom.
DealtTo(core_player, table, first) ==
  LET seat == IF core_player = 0 THEN first ELSE 1 - first IN
  [name |-> table[seat].name,
   main |-> Reverse(table[seat].deck.main), extra |-> Reverse(table[seat].deck.extra)]
=============================================================================

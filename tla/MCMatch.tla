------------------------------ MODULE MCMatch ------------------------------
(* A small instance of SingleDuel together with Replays: what is saved of the *)
(* duels it plays.                                                            *)
EXTENDS SingleDuel, Replays

\* A name, and a deck no two seats share a card of.
Table == [s \in 0..3 |-> [name |-> s, deck |-> [main |-> <<10 * s + 1, 10 * s + 2, 10 * s + 3>>,
                                                extra |-> [i \in 1..s |-> 10 * s + 5 + i]]]]

\* Answers to each question: the least and the greatest numbers, lists of up to three.
Lists == {<<1>>, <<65535, 0>>, <<0, 256, 7>>}
Samples(question) ==
  CASE question = "SelectIdleCommand"   -> {Answer(question, <<c, n>>) : c \in 0..8, n \in {0, 300}}
    [] question = "SelectBattleCommand" -> {Answer(question, <<c, n>>) : c \in 0..3, n \in {0, 300}}
    [] question \in {"SelectEffectYesNo", "SelectYesNo"} ->
         {Answer("SelectYesNo", <<b>>) : b \in {0, 1}}
    [] question \in {"SelectOption", "AnnounceNumber"} ->
         {Answer("SelectOption", <<b>>) : b \in {0, 255}}
    [] question = "SelectPosition" -> {Answer(question, <<b>>) : b \in {1, 8}}
    [] question = "SelectChain"   -> {Answer("DeclineChain", <<>>), Answer(question, <<255>>)}
    [] question = "SelectCard"    -> {Answer("Cancel", <<>>)} \cup {Answer("SelectCards", l) : l \in Lists}
    [] question = "SelectTribute" -> {Answer("Cancel", <<>>)} \cup {Answer(question, l) : l \in Lists}
    [] question = "SelectUnselectCard" ->
         {Answer("Cancel", <<>>)} \cup {Answer("SelectUnselectCards", <<n>>) : n \in {0, 300}}
    [] question \in {"SelectSum", "SelectCounter"} -> {Answer(question, l) : l \in Lists}
    [] question \in {"SelectPlace", "SelectDisableField"} ->
         {Answer("DeclinePlace", <<>>), Answer("SelectPlace", <<0, 4, 0>>), Answer("SelectPlace", <<1, 8, 4>>)}
    [] question = "SortCard" -> {Answer("KeepCardOrder", <<>>)} \cup {Answer("SortCards", l) : l \in Lists}
    [] OTHER -> {Answer(question, <<n>>) : n \in {1, 65536, 16777217}}

Questions == Phrases \cup Wide \cup
  {"SelectEffectYesNo", "SelectYesNo", "SelectOption", "AnnounceNumber", "SelectPosition",
   "SelectChain", "SelectCard", "SelectTribute", "SelectUnselectCard", "SelectSum",
   "SelectCounter", "SelectPlace", "SelectDisableField", "SortCard"}

ReadBack == [q \in Questions |-> \A r \in Samples(q) : Parse(q, Bytes(r)) = r]

\* What only passes a question on: declining a chain, ending a selection or the phase.
Passing(question) ==
  CASE question = "SelectChain"         -> {Minus1}
    [] question = "SelectUnselectCard"  -> {Minus1}
    [] question = "SelectIdleCommand"   -> {<<c, 0, 0, 0>> : c \in 6..8}
    [] question = "SelectBattleCommand" -> {<<c, 0, 0, 0>> : c \in 2..3}
    [] OTHER                            -> {}

Unpaid == [q \in Questions |-> \A bytes \in Passing(q) : ~Meaningful(bytes, q)]

\* Files of both modes with each of these answers among others.
SizeAgrees ==
  [tag \in BOOLEAN |-> \A r \in UNION {Samples(q) : q \in Questions} :
     LET file == CreateReplay(tag, Table, <<Answer("KeepCardOrder", <<>>), r, r>>)
     IN  FillDataSize(file) = Written(file)]

\* The file for the duels played here; which of the answers were given plays no part.
FileOf(answers, first) ==
  SingleSwap(CreateReplay(FALSE, Table, [i \in 1..answers |-> Answer("SelectYesNo", <<0>>)]),
             first = 1)

\* A replay that is sent plays the duel that was played: the engine is given the same
\* cards for the same player in the same order, whoever attacked first, though the
\* first attacker is looked up again when the file is made; and it holds one answer
\* for each the engine took and the one still with it.
ReplayIsOfThisDuel ==
  Receive("GenerateReplay") /\ core.started /\ CanReplay(FALSE, {s \in Seats : Present(s)}) =>
    LET file == FileOf(client_responses, first_attack_player) IN
    /\ \A p \in Seats : DealtTo(p, Counterfeit(file), 0) = DealtTo(p, Table, core.first)
    /\ Len(file.datas) = core.accepted + (IF core.input THEN 1 ELSE 0)

\* The size announced in the header, summed by hand, is that of the body written behind
\* it: with another the file cannot be unpacked.
SizeIsExact == core.started => \A tag \in BOOLEAN : SizeAgrees[tag]

\* An answer a client sends is read for what it is: every kind comes back from its
\* bytes under the question it answers, though a decline, a list and a number share
\* their bytes and only the question tells them apart.
AnswersReadBack == core.started => \A q \in Questions : ReadBack[q]

\* Passing on does not earn time: plugins that give seconds back for an answer read the
\* raw bytes with the last question, and must see through all that decline or end.
PassingEarnsNothing == core.started => \A q \in Questions : Unpaid[q]

\* The file that is sent after a duel can be read, and plays that duel.
ReplayPlaysAgain == ReplayIsOfThisDuel /\ SizeIsExact

\* The bytes of an answer are taken for what the client meant, also by those who only
\* judge whether they are worth any time.
AnswersUnderstood == AnswersReadBack /\ PassingEarnsNothing
=============================================================================

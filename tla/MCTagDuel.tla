------------------------------ MODULE MCTagDuel ------------------------------
(* A small instance of TagDuel together with Views and Replays: the rotation  *)
(* decides as which core player a seat is looked at by the masks; what is     *)
(* saved of the duel names the seats by their part on the table.              *)
EXTENDS TagDuel, Views, Replays

ViewOf(s) == ToCore(s, first_attack_team, current_turn_player)

CoveredInHand(side) == {c \in Cards : c.controller = side /\ c.location = "Hand" /\ Covered(c)}

\* Whose hand is closed to which core player, and whose table is open to whom.
HandClosed ==
  [side \in CorePlayers |-> [v \in Viewers |->
     \A c \in CoveredInHand(side) : /\ Shown(Message("Draw", side, <<c>>), v) = {}
                                    /\ Shown(Update("UpdateCard", <<c>>), v) = {}]]

TableOpen ==
  [side \in CorePlayers |-> [v \in Viewers |->
     \A c \in {d \in Cards : d.controller = side /\ d.location \in OnField} :
       Shown(Update("UpdateCard", <<c>>), v) # {}]]

\* The file of the duel, per team that began; a deck is marked by its seat.
Table == [s \in Seats |-> [name |-> s, deck |-> [main |-> <<s, 4>>, extra |-> <<>>]]]
FileOf == [first \in Teams |-> TagSwap(CreateReplay(TRUE, Table, <<>>), first = 2)]

Holds(part, seat) == part = [name |-> seat, deck |-> ReplayDeck(Table[seat].deck)]

Watching == {ViewOf(s) : s \in Seats} \cup {Observer}

\* Whatever the rotation makes of a seat, no message of the duel shows it, or an
\* observer, a card he may not read: the rules of a dozen message types, each
\* written for itself, hide what lies covered.
NothingLeaks == core.started => \A v \in Watching : Secret[v]

\* An update shows each viewer exactly the cards he may read, although a zone is
\* masked as soon as it holds a single card that the viewer may not.
UpdatesAreExact == core.started => \A v \in Watching : Exact[v]

\* Cards that came somewhere, were drawn, shuffled, swapped or turned are shown to
\* all who may read them, by the message or by the refresh that goes with it.
ArrivalsAreShown == core.started => \A v \in Watching : Informed[v]

\* The players who can be asked to choose among cards read their own and the open
\* ones of the other side, although they always get the masked clone.
ChoicesAreReadable == core.started => \A p \in CorePlayers :
  core.table[p] # None => Legible[ViewOf(core.table[p])]

\* A covered card in a hand is shown to one seat only, the one whose deck the engine
\* has in play: the partner who sits out does not read the hand he has lent his place.
HandsAreOwn ==
  core.started /\ ~NoMask => \A side \in CorePlayers, s \in Seats :
    s # core.table[side] => HandClosed[side][ViewOf(s)]

\* Both partners read what their team has set on the table, whoever's turn it is.
TableIsShared ==
  core.started => \A s \in Seats :
    TableOpen[TeamToCore(Team(s), first_attack_team)][ViewOf(s)]

\* The file of a replay names as host and client the two whose decks lie on the table
\* when the duel begins, and as their partners those whose decks are put aside, for
\* either team that may begin: the pairs are not the teams' leaders.
FileHoldsTheTable ==
  core.started /\ core.turns <= 1 /\ (\A s \in Seats : Present(s)) =>
    LET file == FileOf[first_attack_team] IN
    /\ Holds(file.parts["host"], core.table[0]) /\ Holds(file.parts["tag_host"], core.tag[0])
    /\ Holds(file.parts["client"], core.table[1]) /\ Holds(file.parts["tag_client"], core.tag[1])

\* No seat and no observer is shown a card he may not read, neither one that is covered
\* nor, as the partner who sits out, the hand of the one who plays.
HiddenStaysHidden == NothingLeaks /\ HandsAreOwn

\* Each viewer is shown every card he may read: when it comes, when it is asked about,
\* whenever the field is refreshed, and as the partner who sits out.
OpenIsShown == UpdatesAreExact /\ ArrivalsAreShown /\ ChoicesAreReadable /\ TableIsShared
=============================================================================

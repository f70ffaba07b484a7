------------------------------- MODULE Lobby -------------------------------
(***************************************************************************)
(* What a room promises before the duel, told in clients and not in         *)
(* positions, slabs, channels and mailboxes: who is undecided, who sits on  *)
(* which seat, who watches, and who may start.  Room implements it: see     *)
(* KeepsLobby there.                                                        *)
(*                                                                          *)
(* One client moves at a time, and to a free seat only; the right to start  *)
(* stays with one client through every move of its own, and passes to a     *)
(* player when that client is gone; the room opens its doors to the duel    *)
(* with two players, and closes only when those it is kept for have left.   *)
(* It does not promise that only those leave who want to, or are kicked:    *)
(* see Leave.                                                               *)
(***************************************************************************)
EXTENDS Naturals

CONSTANTS
  Clients,        \* the connections that may come to the room
  Nobody,         \* the absence of a client
  TerminateWhen   \* for whom the room is kept

Seats == {0, 1}

VARIABLES
  phase,      \* "Open", "Started" or "Closed"
  undecided,  \* clients that have been let in and have not joined
  seated,     \* per seat: a client or Nobody
  watching,   \* clients that watch
  host        \* the client that may start, Nobody before the first has joined

lobby == <<phase, undecided, seated, watching, host>>

Free == {s \in Seats : seated[s] = Nobody}
Playing == {c \in Clients : \E s \in Seats : seated[s] = c}
Inside == undecided \cup Playing \cup watching

Init ==
  /\ phase = "Open"
  /\ undecided = {}
  /\ seated = [s \in Seats |-> Nobody]
  /\ watching = {}
  /\ host = Nobody

Enter(c) ==
  /\ phase = "Open"
  /\ c \notin Inside
  /\ undecided' = undecided \cup {c}
  /\ UNCHANGED <<phase, seated, watching, host>>

\* Whoever joins sits down if there is a seat; the first is the host.
Join(c) ==
  /\ phase = "Open"
  /\ c \in undecided
  /\ undecided' = undecided \ {c}
  /\ \/ /\ \E s \in Free : seated' = [seated EXCEPT ![s] = c]
        /\ UNCHANGED watching
     \/ /\ Free = {}
        /\ watching' = watching \cup {c}
        /\ UNCHANGED seated
  /\ host' = IF Playing \cup watching = {} THEN c ELSE host
  /\ UNCHANGED phase

Sit(c) ==
  /\ phase = "Open"
  /\ c \in watching
  /\ watching' = watching \ {c}
  /\ \E s \in Free : seated' = [seated EXCEPT ![s] = c]
  /\ UNCHANGED <<phase, undecided, host>>

Watch(c) ==
  /\ phase = "Open"
  /\ c \in Playing
  /\ watching' = watching \cup {c}
  /\ \E s \in Seats : seated[s] = c /\ seated' = [seated EXCEPT ![s] = Nobody]
  /\ UNCHANGED <<phase, undecided, host>>

\* A client is gone: by itself, because the host kicked it, or because a LeaveGame named
\* the place it holds now, which belonged to somebody else when it was sent.  Of whom a
\* departure is, a room does not promise.
Leave(c) ==
  /\ phase = "Open"
  /\ c \in Inside
  /\ undecided' = undecided \ {c}
  /\ seated' = [s \in Seats |-> IF seated[s] = c THEN Nobody ELSE seated[s]]
  /\ watching' = watching \ {c}
  /\ IF c = host THEN host' \in Playing \ {c} ELSE UNCHANGED host
  /\ UNCHANGED phase

Start ==
  /\ phase = "Open"
  /\ Free = {}
  /\ phase' = "Started"
  /\ UNCHANGED <<undecided, seated, watching, host>>

\* Without c nobody is left for whom the room is kept.
Deserted(c) ==
  LET noPlayers == Playing \subseteq {c}
      noObservers == watching \subseteq {c}
  IN \/ noPlayers /\ (c = host \/ noObservers \/ TerminateWhen = "AllPlayer")
     \/ noObservers /\ TerminateWhen = "AllObserver"

Close ==
  /\ phase = "Open"
  /\ \E c \in Inside \cup {Nobody} : Deserted(c)
  /\ phase' = "Closed"
  /\ undecided' = {}
  /\ seated' = [s \in Seats |-> Nobody]
  /\ watching' = {}
  /\ host' = Nobody

Next ==
  \/ \E c \in Clients : Enter(c) \/ Join(c) \/ Sit(c) \/ Watch(c) \/ Leave(c)
  \/ Start \/ Close

Spec == Init /\ [][Next]_lobby
=============================================================================

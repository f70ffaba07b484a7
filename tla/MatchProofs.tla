---------------------------- MODULE MatchProofs ----------------------------
(***************************************************************************)
(* Theorems about SingleDuel, continued, and about what is saved of a duel.  *)
(* With the order of the requests under way, proved in SingleDuelProofs:    *)
(* what is on the table when the engine is started, so that both decks have *)
(* been loaded by then; that a prompt on the screen of a room at rest can   *)
(* be answered; and that then there is such a prompt, as long as both       *)
(* players are seated.                                                      *)
(*                                                                          *)
(* Then the file: the bytes of every answer are read back as what they were *)
(* written from, whatever its numbers and lists; the size a file announces  *)
(* is that of the body written, for all decks and answers; and the file of  *)
(* a single duel plays the duel it was made of, being made for the first    *)
(* attacker the engine was told and holding the answers the engine took.    *)
(* Last, the seat a duel is recorded for is the one the engine means.       *)
(***************************************************************************)
EXTENDS SingleDuelProofs, MCMatch, FoldFacts

-----------------------------------------------------------------------------
(* The table is laid once, with both decks, before the engine starts.       *)

NobodyLoaded == \A s \in Seats : core.loaded[s] = 0
BothLoaded == \A s \in Seats : core.loaded[s] = 1

\* What has been loaded, and that a table which is not laid for two is cleared before the
\* duel starts: whoever is missing has left a DuelEnd, and that is handled first.
Tables ==
  /\ core.started => BothLoaded
  /\ stage # "Dueling" /\ Waiting("DuelStart") = 0 => NobodyLoaded
  /\ Waiting("DuelInit") > 0 => NobodyLoaded
  /\ stage # "Siding" /\ ~core.ended /\ Missing # {} => Waiting("DuelEnd") > 0
  /\ stage = "Dueling" /\ ~core.ended /\ Waiting("DuelStart") > 0 =>
       BothLoaded \/ AheadOf("DuelEnd", "DuelStart")

\* What waits ahead of something is not overtaken by it.
LEMMA StaysAhead ==
  ASSUME TypeOK, queue # <<>>, NEW more \in Seq(Requests), Done(more), NEW a, NEW b, Request.type # a, AheadOf(a, b)
  PROVE  AheadOf(a, b)'
<1>1. queue \in Seq(Requests)
  BY DEF TypeOK
<1>2. Tail(queue) \in Seq(Requests) /\ <<Head(queue)>> \in Seq(Requests) /\ queue = <<Head(queue)>> \o Tail(queue)
  BY <1>1, HeadAndTail
<1>3. Ahead(<<Head(queue)>> \o Tail(queue), Of(a), Of(b))
  BY <1>2 DEF AheadOf
<1>4. Head(queue) \notin Of(a)
  BY DEF Of, Request
<1>5. ~Ahead(<<Head(queue)>>, Of(a), Of(b)) /\ Count(<<Head(queue)>>, Of(a)) = 0
  BY <1>4, ShortSequences, CountShort
<1>6. Ahead(Tail(queue), Of(a), Of(b))
  <2>1. \/ Ahead(<<Head(queue)>>, Of(a), Of(b)) \/ Ahead(Tail(queue), Of(a), Of(b))
        \/ Count(<<Head(queue)>>, Of(a)) > 0 /\ Count(Tail(queue), Of(b)) > 0
    BY <1>2, <1>3, AheadConcat
  <2> QED
    BY <1>5, <2>1
<1>7. Ahead(Tail(queue) \o more, Of(a), Of(b))
  BY <1>2, <1>6, AheadConcat
<1> QED
  BY <1>7 DEF AheadOf, Done

\* What is queued comes behind what waits.
LEMMA PutBehind ==
  ASSUME TypeOK, queue # <<>>, NEW r \in Requests, Done(<<r>>), NEW a, Request.type # a, Waiting(a) > 0
  PROVE  AheadOf(a, r.type)'
<1>1. queue \in Seq(Requests) /\ <<r>> \in Seq(Requests)
  BY Queues DEF TypeOK
<1>2. Tail(queue) \in Seq(Requests) /\ <<Head(queue)>> \in Seq(Requests) /\ queue = <<Head(queue)>> \o Tail(queue)
  BY <1>1, HeadAndTail
<1>3. Count(queue, Of(a)) = Count(<<Head(queue)>>, Of(a)) + Count(Tail(queue), Of(a))
  <2>1. Count(<<Head(queue)>> \o Tail(queue), Of(a)) = Count(<<Head(queue)>>, Of(a)) + Count(Tail(queue), Of(a))
    BY <1>2, CountConcat
  <2> QED
    BY <1>2, <2>1
<1>4. Head(queue) \notin Of(a)
  BY DEF Of, Request
<1>5. Count(<<Head(queue)>>, Of(a)) = 0
  BY <1>4, CountShort
<1>6. Count(Tail(queue), Of(a)) \in Nat
  BY <1>2, CountTyped
<1>7. Count(Tail(queue), Of(a)) > 0
  BY <1>3, <1>5, <1>6 DEF Waiting
<1>8. r \in Of(r.type)
  BY DEF Of
<1>9. Count(<<r>>, Of(r.type)) > 0
  BY <1>8, CountShort
<1>10. Ahead(Tail(queue) \o <<r>>, Of(a), Of(r.type))
  BY <1>1, <1>2, <1>7, <1>9, AheadConcat
<1> QED
  BY <1>10 DEF AheadOf, Done

\* Nothing is ahead of what is handled, if there is no second.
LEMMA NothingAhead ==
  ASSUME TypeOK, queue # <<>>, NEW a, NEW b, Request.type = b, Waiting(b) <= 1
  PROVE  ~AheadOf(a, b)
<1>1. queue \in Seq(Requests)
  BY DEF TypeOK
<1>2. Tail(queue) \in Seq(Requests) /\ <<Head(queue)>> \in Seq(Requests) /\ queue = <<Head(queue)>> \o Tail(queue)
      /\ Head(queue) \in Requests
  BY <1>1, HeadAndTail
<1>3. Count(queue, Of(b)) = Count(<<Head(queue)>>, Of(b)) + Count(Tail(queue), Of(b))
  <2>1. Count(<<Head(queue)>> \o Tail(queue), Of(b)) = Count(<<Head(queue)>>, Of(b)) + Count(Tail(queue), Of(b))
    BY <1>2, CountConcat
  <2> QED
    BY <1>2, <2>1
<1>4. Head(queue) \in Of(b)
  BY <1>2 DEF Of, Request
<1>5. Count(<<Head(queue)>>, Of(b)) = 1
  BY <1>4, CountShort
<1>6. Count(Tail(queue), Of(b)) \in Nat
      /\ (Count(Tail(queue), Of(b)) > 0 <=> \E i \in DOMAIN Tail(queue) : Tail(queue)[i] \in Of(b))
  BY <1>2, CountTyped
<1>7. ~(Count(Tail(queue), Of(b)) > 0)
  BY <1>3, <1>5, <1>6 DEF Waiting
<1>8. ~Ahead(<<Head(queue)>>, Of(a), Of(b))
  BY ShortSequences
<1>9. ~Ahead(Tail(queue), Of(a), Of(b))
  BY <1>6, <1>7 DEF Ahead
<1>10. ~Ahead(<<Head(queue)>> \o Tail(queue), Of(a), Of(b))
  BY <1>2, <1>7, <1>8, <1>9, AheadConcat
<1> QED
  BY <1>2, <1>10 DEF AheadOf

\* Nobody gets up unless the end is due, nothing is loaded, and no more starts are under way.
LEMMA TablesStay ==
  ASSUME TypeOK, TypeOK', Tables,
         core'.loaded = core.loaded, core'.started = core.started, core.ended => core'.ended,
         stage' # stage => stage' = "Firstgo" /\ stage # "Dueling" /\ (stage = "Siding" => Missing = {}),
         (\A s \in Seats : Present(s) => players'[s].here) \/ core'.ended \/ Waiting("DuelEnd")' > 0,
         Waiting("DuelInit")' <= Waiting("DuelInit"), Waiting("DuelStart")' = Waiting("DuelStart"),
         core'.ended \/ Waiting("DuelEnd") <= Waiting("DuelEnd")',
         core'.ended \/ (AheadOf("DuelEnd", "DuelStart") => AheadOf("DuelEnd", "DuelStart")')
  PROVE  Tables'
<1>n. \A type : Waiting(type) \in Nat /\ Waiting(type)' \in Nat
  BY WaitingTypedAll
<1>m. (\A s \in Seats : Present(s) => players'[s].here) /\ Missing' # {} => Missing # {}
  BY DEF Missing, Present
<1>l. (NobodyLoaded => NobodyLoaded') /\ (BothLoaded => BothLoaded')
  BY DEF NobodyLoaded, BothLoaded
<1>1. core'.started => BothLoaded'
  BY <1>l DEF Tables
<1>2. stage' # "Dueling" /\ Waiting("DuelStart")' = 0 => NobodyLoaded'
  BY <1>l DEF Tables
<1>3. Waiting("DuelInit")' > 0 => NobodyLoaded'
  <2>1. Waiting("DuelInit")' > 0 => Waiting("DuelInit") > 0
    BY <1>n
  <2> QED
    BY <1>l, <2>1 DEF Tables
<1>4. stage' # "Siding" /\ ~core'.ended /\ Missing' # {} => Waiting("DuelEnd")' > 0
  <2> SUFFICES ASSUME stage' # "Siding", ~core'.ended, Missing' # {} PROVE Waiting("DuelEnd")' > 0
    OBVIOUS
  <2>1. CASE \A s \in Seats : Present(s) => players'[s].here
    <3>1. stage # "Siding" /\ ~core.ended /\ Missing # {}
      BY <1>m, <2>1
    <3>2. Waiting("DuelEnd") > 0 /\ Waiting("DuelEnd") <= Waiting("DuelEnd")'
      BY <3>1 DEF Tables
    <3> QED
      BY <1>n, <3>2
  <2> QED
    BY <2>1
<1>5. stage' = "Dueling" /\ ~core'.ended /\ Waiting("DuelStart")' > 0 =>
        BothLoaded' \/ AheadOf("DuelEnd", "DuelStart")'
  BY <1>l DEF Tables
<1> QED
  BY <1>1, <1>2, <1>3, <1>4, <1>5 DEF Tables

\* A handler that starts nothing.
LEMMA TablesPass ==
  ASSUME TypeOK, TypeOK', Tables, queue # <<>>, Request.type \notin {"DuelInit", "DuelStart", "DuelEnd"},
         Done(<<>>) \/ \E r \in Requests : r.type \notin {"DuelInit", "DuelStart"} /\ Done(<<r>>),
         core'.loaded = core.loaded, core'.started = core.started, core'.ended = core.ended,
         stage' # stage => stage' = "Firstgo" /\ stage # "Dueling" /\ (stage = "Siding" => Missing = {}),
         (\A s \in Seats : Present(s) => players'[s].here) \/ core.ended \/ Waiting("DuelEnd")' > 0
  PROVE  Tables'
<1>n. \A type : Waiting(type) \in Nat /\ Waiting(type)' \in Nat
  BY WaitingTypedAll
<1>g. Gone("DuelInit") = 0 /\ Gone("DuelStart") = 0 /\ Gone("DuelEnd") = 0
  BY DEF Gone
<1>1. /\ Waiting("DuelInit")' = Waiting("DuelInit") /\ Waiting("DuelStart")' = Waiting("DuelStart")
      /\ Waiting("DuelEnd") <= Waiting("DuelEnd")'
      /\ AheadOf("DuelEnd", "DuelStart") => AheadOf("DuelEnd", "DuelStart")'
  <2>1. CASE Done(<<>>)
    <3>1. /\ Waiting("DuelInit")' = Waiting("DuelInit") - Gone("DuelInit")
          /\ Waiting("DuelStart")' = Waiting("DuelStart") - Gone("DuelStart")
          /\ Waiting("DuelEnd")' = Waiting("DuelEnd") - Gone("DuelEnd")
      BY <2>1, AfterNone
    <3>2. AheadOf("DuelEnd", "DuelStart") => AheadOf("DuelEnd", "DuelStart")'
      <4>1. <<>> \in Seq(Requests)
        BY Queues
      <4> QED
        BY <2>1, <4>1, StaysAhead
    <3> QED
      BY <1>n, <1>g, <3>1, <3>2
  <2>2. CASE \E r \in Requests : r.type \notin {"DuelInit", "DuelStart"} /\ Done(<<r>>)
    <3>1. PICK r \in Requests : r.type \notin {"DuelInit", "DuelStart"} /\ Done(<<r>>)
      BY <2>2
    <3>2. \A type : Waiting(type)' = Waiting(type) - Gone(type) + Adds(r, type)
      BY <3>1, AfterOne
    <3>3. Adds(r, "DuelInit") = 0 /\ Adds(r, "DuelStart") = 0 /\ Adds(r, "DuelEnd") \in 0..1
      BY <3>1 DEF Adds
    <3>4. /\ Waiting("DuelInit")' = Waiting("DuelInit") - Gone("DuelInit") + Adds(r, "DuelInit")
          /\ Waiting("DuelStart")' = Waiting("DuelStart") - Gone("DuelStart") + Adds(r, "DuelStart")
          /\ Waiting("DuelEnd")' = Waiting("DuelEnd") - Gone("DuelEnd") + Adds(r, "DuelEnd")
          /\ Waiting("DuelInit") \in Nat /\ Waiting("DuelStart") \in Nat /\ Waiting("DuelEnd") \in Nat
      BY <1>n, <3>2
    <3>5. AheadOf("DuelEnd", "DuelStart") => AheadOf("DuelEnd", "DuelStart")'
      <4>1. <<r>> \in Seq(Requests)
        BY Queues
      <4> QED
        BY <3>1, <4>1, StaysAhead
    <3> QED
      BY <1>g, <3>3, <3>4, <3>5
  <2> QED
    BY <2>1, <2>2
<1>2. Waiting("DuelInit")' <= Waiting("DuelInit")
  BY <1>n, <1>1
<1> QED
  BY <1>1, <1>2, TablesStay

\* A turn is chosen in Firstgo, and no chain is under way yet.
LEMMA TpDue ==
  ASSUME TypeOK, Talking, OnTpResult
  PROVE  /\ stage = "Firstgo" /\ queue # <<>> /\ Request.type = "TpResult"
         /\ \A type \in Runs : Waiting(type) = 0
<1>1. ReceiveFrom("TpResult")
  BY DEF OnTpResult
<1>2. /\ Request.from \in Seats /\ Present(Request.from) /\ players[Request.from].state = "TpResult"
      /\ Num(Request.from, "TpResult") > 0 /\ queue # <<>> /\ Request.type = "TpResult"
  BY <1>1, Sender, TalksAreCtos, TalkKinds DEF Talking
<1>3. stage = "Firstgo"
  <2>1. stage \in {"Firstgo", "Dueling"}
    BY <1>2, GateTells DEF Talking
  <2>2. stage = "Dueling" => Num(Request.from, "TpResult") = 0
    BY <1>2 DEF Talking, Talk, Asked, InDueling
  <2> QED
    BY <1>2, <2>1, <2>2
<1>4. \A type \in Runs : Waiting(type) = 0
  <2>1. \A type \in Runs : ~AheadOf("TpResult", type)
    BY <1>3 DEF Talking, OneRun
  <2>2. \A type \in Runs : type # "TpResult"
    BY DEF Runs
  <2> QED
    BY <1>2, <2>1, <2>2, WaitingHead
<1> QED
  BY <1>2, <1>3, <1>4

\* The start-up chain is queued for an empty table.
LEMMA TpTables ==
  ASSUME TypeOK, TypeOK', Talking, Tables, OnTpResult
  PROVE  Tables'
<1>1. /\ Done(<<Ex("FirstShuffle"), Ex("DuelInit")>>) /\ stage' = "Dueling"
      /\ UNCHANGED <<players, core>>
  BY DEF OnTpResult
<1>2. stage = "Firstgo" /\ queue # <<>> /\ Request.type = "TpResult" /\ \A type \in Runs : Waiting(type) = 0
  BY TpDue
<1>3. Ex("FirstShuffle") \in Requests /\ Ex("DuelInit") \in Requests
  BY RequestsTyped DEF ExTypes
<1>4. \A type : Waiting(type)' = Waiting(type) - Gone(type) + Adds(Ex("FirstShuffle"), type) + Adds(Ex("DuelInit"), type)
  BY <1>1, <1>2, <1>3, AfterTwo
<1>5. Waiting("DuelStart")' = 0
  <2>1. Gone("DuelStart") = 0 /\ Adds(Ex("FirstShuffle"), "DuelStart") = 0 /\ Adds(Ex("DuelInit"), "DuelStart") = 0
    BY <1>2 DEF Gone, Adds, Ex
  <2>2. Waiting("DuelStart") = 0
    BY <1>2 DEF Runs
  <2> QED
    BY <1>4, <2>1, <2>2
<1>6. Waiting("DuelEnd")' = Waiting("DuelEnd") /\ Waiting("DuelEnd") \in Nat
  <2>1. Gone("DuelEnd") = 0 /\ Adds(Ex("FirstShuffle"), "DuelEnd") = 0 /\ Adds(Ex("DuelInit"), "DuelEnd") = 0
    BY <1>2 DEF Gone, Adds, Ex
  <2>2. Waiting("DuelEnd") \in Nat
    BY WaitingTypedAll
  <2>3. Waiting("DuelEnd")' = Waiting("DuelEnd") - Gone("DuelEnd") + Adds(Ex("FirstShuffle"), "DuelEnd") + Adds(Ex("DuelInit"), "DuelEnd")
    BY <1>4
  <2> QED
    BY <2>1, <2>2, <2>3
<1>7. NobodyLoaded
  <2>1. Waiting("DuelStart") = 0
    BY <1>2 DEF Runs
  <2> QED
    BY <1>2, <2>1 DEF Tables
<1>8. NobodyLoaded' /\ (BothLoaded => BothLoaded') /\ Missing' = Missing
  BY <1>1, <1>7 DEF NobodyLoaded, BothLoaded, Missing, Present
<1> QED
  BY <1>1, <1>2, <1>5, <1>6, <1>8 DEF Tables

\* A pair that is complete is loaded as a whole; where one is missing a DuelEnd is ahead.
LEMMA InitTables ==
  ASSUME TypeOK, TypeOK', Talking, Tables, OnDuelInit
  PROVE  Tables'
<1>1. /\ queue # <<>> /\ Request.type = "DuelInit" /\ Done(<<Ex("DuelStart")>>)
      /\ core' = [core EXCEPT !.loaded = Loaded, !.first = FirstAttacker]
      /\ UNCHANGED <<stage, players>>
  BY DEF OnDuelInit, Receive
<1>2. Ex("DuelStart") \in Requests /\ Ex("DuelStart").type = "DuelStart"
  BY RequestsTyped DEF ExTypes, Ex
<1>3. \A type : Waiting(type)' = Waiting(type) - Gone(type) + Adds(Ex("DuelStart"), type)
  BY <1>1, <1>2, AfterOne
<1>n. \A type : Waiting(type) \in Nat /\ Waiting(type)' \in Nat /\ Gone(type) <= Waiting(type)
  BY WaitingTypedAll, WaitingHead, <1>1
<1>4. Gone("DuelInit") = 1 /\ Gone("DuelStart") = 0 /\ Gone("DuelEnd") = 0
      /\ Adds(Ex("DuelStart"), "DuelInit") = 0 /\ Adds(Ex("DuelStart"), "DuelStart") = 1
      /\ Adds(Ex("DuelStart"), "DuelEnd") = 0
  BY <1>1, <1>2 DEF Gone, Adds
<1>5. Waiting("DuelInit")' = Waiting("DuelInit") - 1 /\ Waiting("DuelStart")' = Waiting("DuelStart") + 1
      /\ Waiting("DuelEnd")' = Waiting("DuelEnd") /\ Waiting("DuelInit") >= 1
  <2>1. /\ Waiting("DuelInit")' = Waiting("DuelInit") - Gone("DuelInit") + Adds(Ex("DuelStart"), "DuelInit")
        /\ Waiting("DuelStart")' = Waiting("DuelStart") - Gone("DuelStart") + Adds(Ex("DuelStart"), "DuelStart")
        /\ Waiting("DuelEnd")' = Waiting("DuelEnd") - Gone("DuelEnd") + Adds(Ex("DuelStart"), "DuelEnd")
        /\ Waiting("DuelInit") \in Nat /\ Waiting("DuelStart") \in Nat /\ Waiting("DuelEnd") \in Nat
        /\ Gone("DuelInit") <= Waiting("DuelInit")
    BY <1>3, <1>n
  <2> QED
    BY <1>4, <2>1
<1>6. Waiting("DuelInit")' = 0
  <2>1. Tokens <= 1 /\ Tokens \in Nat /\ Waiting("DuelInit") <= Tokens
    BY TokensSum DEF Talking, OneRun, Runs
  <2> QED
    BY <1>5, <1>n, <2>1
<1>7. NobodyLoaded
  BY <1>5, <1>n DEF Tables
<1>8. ~core.started /\ core'.started = core.started /\ core'.ended = core.ended /\ core'.loaded = Loaded
  <2>1. core \in CoreRecords
    BY TypeFolded DEF Typed
  <2>2. core.started => Waiting("DuelInit") = 0
    BY DEF Talking, OneRun
  <2> QED
    BY <1>1, <1>5, <2>1, <2>2 DEF CoreRecords
<1>9. Missing' = Missing
  BY <1>1 DEF Missing, Present
<1>10. ~core.ended /\ Missing = {} => BothLoaded'
  <2> SUFFICES ASSUME ~core.ended, Missing = {}, NEW s \in Seats PROVE core'.loaded[s] = 1
    BY DEF BothLoaded
  <2>1. FirstAttacker \in Seats /\ Other(FirstAttacker) \in Seats
    BY SeatsTyped
  <2>2. Present(FirstAttacker) /\ Present(Other(FirstAttacker))
    BY <2>1 DEF Missing
  <2>3. Loaded[s] = IF core.loaded[s] < 2 THEN core.loaded[s] + 1 ELSE core.loaded[s]
    BY <2>2 DEF Loaded
  <2>4. core.loaded[s] = 0
    BY <1>7 DEF NobodyLoaded
  <2> QED
    BY <1>8, <2>3, <2>4
<1>11. stage = "Dueling" /\ ~core.ended => BothLoaded' \/ AheadOf("DuelEnd", "DuelStart")'
  <2> SUFFICES ASSUME stage = "Dueling", ~core.ended, Missing # {} PROVE AheadOf("DuelEnd", "DuelStart")'
    BY <1>10
  <2>1. Waiting("DuelEnd") > 0
    BY DEF Tables
  <2>2. AheadOf("DuelEnd", Ex("DuelStart").type)'
    BY <1>1, <1>2, <2>1, PutBehind
  <2>3. Ex("DuelStart").type = "DuelStart"
    BY <1>2
  <2> QED
    BY <2>2 DEF Ex
<1>12. Waiting("DuelStart")' # 0
  BY <1>5, <1>n
<1>13. stage' # "Siding" /\ ~core'.ended /\ Missing' # {} => Waiting("DuelEnd")' > 0
  BY <1>1, <1>5, <1>8, <1>9 DEF Tables
<1> QED
  BY <1>1, <1>6, <1>8, <1>11, <1>12, <1>13 DEF Tables

\* The duel starts on the whole table, or not at all.
LEMMA StartTables ==
  ASSUME TypeOK, TypeOK', Talking, Tables, OnDuelStart
  PROVE  Tables'
<1>1. /\ queue # <<>> /\ Request.type = "DuelStart" /\ Done(<<Ex("Evolve")>>) /\ first_attack_player # None
      /\ core' = [core EXCEPT !.started = ~core.ended] /\ UNCHANGED <<stage, players>>
  BY DEF OnDuelStart, Receive
<1>2. stage = "Dueling"
  BY <1>1 DEF Talking, OpenGates
<1>3. core'.started = ~core.ended /\ core'.ended = core.ended /\ core'.loaded = core.loaded
  <2>1. core \in CoreRecords
    BY TypeFolded DEF Typed
  <2> QED
    BY <1>1, <2>1 DEF CoreRecords
<1>4. Ex("Evolve") \in Requests /\ Ex("Evolve").type = "Evolve"
  BY RequestsTyped DEF ExTypes, Ex
<1>5. \A type : Waiting(type)' = Waiting(type) - Gone(type) + Adds(Ex("Evolve"), type)
  BY <1>1, <1>4, AfterOne
<1>n. \A type : Waiting(type) \in Nat /\ Waiting(type)' \in Nat /\ Gone(type) <= Waiting(type)
  BY WaitingTypedAll, WaitingHead, <1>1
<1>6. Gone("DuelInit") = 0 /\ Gone("DuelStart") = 1 /\ Gone("DuelEnd") = 0
      /\ Adds(Ex("Evolve"), "DuelInit") = 0 /\ Adds(Ex("Evolve"), "DuelStart") = 0 /\ Adds(Ex("Evolve"), "DuelEnd") = 0
  BY <1>1, <1>4 DEF Gone, Adds
<1>7. Waiting("DuelInit")' = Waiting("DuelInit") /\ Waiting("DuelStart")' = Waiting("DuelStart") - 1
      /\ Waiting("DuelEnd")' = Waiting("DuelEnd") /\ Waiting("DuelStart") >= 1
  <2>1. /\ Waiting("DuelInit")' = Waiting("DuelInit") - Gone("DuelInit") + Adds(Ex("Evolve"), "DuelInit")
        /\ Waiting("DuelStart")' = Waiting("DuelStart") - Gone("DuelStart") + Adds(Ex("Evolve"), "DuelStart")
        /\ Waiting("DuelEnd")' = Waiting("DuelEnd") - Gone("DuelEnd") + Adds(Ex("Evolve"), "DuelEnd")
        /\ Waiting("DuelInit") \in Nat /\ Waiting("DuelStart") \in Nat /\ Waiting("DuelEnd") \in Nat
        /\ Gone("DuelStart") <= Waiting("DuelStart")
    BY <1>5, <1>n
  <2> QED
    BY <1>6, <2>1
<1>8. Waiting("DuelStart")' = 0
  <2>1. Tokens <= 1 /\ Tokens \in Nat /\ Waiting("DuelStart") <= Tokens
    BY TokensSum DEF Talking, OneRun, Runs
  <2> QED
    BY <1>7, <1>n, <2>1
<1>9. ~core.ended => BothLoaded
  <2>1. Waiting("DuelStart") <= 1
    BY <1>7, <1>8, <1>n
  <2>2. ~AheadOf("DuelEnd", "DuelStart")
    BY <1>1, <2>1, NothingAhead
  <2>3. Waiting("DuelStart") > 0
    BY <1>7, <1>n
  <2> QED
    BY <1>2, <2>2, <2>3 DEF Tables
<1>10. (BothLoaded => BothLoaded') /\ (NobodyLoaded => NobodyLoaded') /\ Missing' = Missing
  BY <1>1, <1>3 DEF BothLoaded, NobodyLoaded, Missing, Present
<1> QED
  BY <1>1, <1>2, <1>3, <1>7, <1>8, <1>9, <1>10 DEF Tables

\* A duel that has ended is not played on, whatever is on its table.
LEMMA EndTables ==
  ASSUME TypeOK, TypeOK', Tables, OnDuelEnd
  PROVE  Tables'
<1>1. /\ queue # <<>> /\ Request.type = "DuelEnd" /\ Done(<<Ex("GenerateReplay"), Ex("JudgeContinueMatch")>>)
      /\ core' = [core EXCEPT !.ended = TRUE, !.ends = @ + 1] /\ UNCHANGED <<stage, players>>
  BY DEF OnDuelEnd, Receive
<1>2. core'.ended /\ core'.started = core.started /\ core'.loaded = core.loaded
  <2>1. core \in CoreRecords
    BY TypeFolded DEF Typed
  <2> QED
    BY <1>1, <2>1 DEF CoreRecords
<1>3. Ex("GenerateReplay") \in Requests /\ Ex("JudgeContinueMatch") \in Requests
  BY RequestsTyped DEF ExTypes
<1>4. \A type : Waiting(type)' = Waiting(type) - Gone(type) + Adds(Ex("GenerateReplay"), type) + Adds(Ex("JudgeContinueMatch"), type)
  BY <1>1, <1>3, AfterTwo
<1>5. ASSUME NEW type \in {"DuelInit", "DuelStart"} PROVE Waiting(type)' = Waiting(type)
  <2>1. Gone(type) = 0 /\ Adds(Ex("GenerateReplay"), type) = 0 /\ Adds(Ex("JudgeContinueMatch"), type) = 0
    BY <1>1 DEF Gone, Adds, Ex
  <2>2. Waiting(type) \in Nat
    BY WaitingTypedAll
  <2>3. Waiting(type)' = Waiting(type) - Gone(type) + Adds(Ex("GenerateReplay"), type) + Adds(Ex("JudgeContinueMatch"), type)
    BY <1>4
  <2> QED
    BY <2>1, <2>2, <2>3
<1>6. Waiting("DuelInit")' <= Waiting("DuelInit") /\ Waiting("DuelStart")' = Waiting("DuelStart")
  <2>1. Waiting("DuelInit") \in Nat
    BY WaitingTypedAll
  <2> QED
    BY <1>5, <2>1
<1> QED
  BY <1>1, <1>2, <1>6, TablesStay

\* The next duel has an empty table.
LEMMA NewTables ==
  ASSUME OnRecreateDuel
  PROVE  Tables'
<1>1. core' = NewCore /\ stage' = "Siding"
  BY DEF OnRecreateDuel
<1>2. ~core'.started /\ NobodyLoaded'
  BY <1>1 DEF NewCore, NobodyLoaded
<1> QED
  BY <1>1, <1>2 DEF Tables

\* Whoever leaves a duel that goes on leaves its end behind.
LEMMA LeaveTables ==
  ASSUME TypeOK, TypeOK', Talking, Tables, OnLeaveGame, running'
  PROVE  Tables'
<1>1. ReceiveFrom("LeaveGame") /\ queue # <<>> /\ Request.type = "LeaveGame"
  BY DEF OnLeaveGame, ReceiveFrom, Receive
<1>2. PICK f \in Seats : f = Request.from
  BY <1>1, Sender DEF Talking, CtosTypes
<1>3. /\ UNCHANGED <<stage, core>>
      /\ IF core.ended THEN Done(<<>>) ELSE Done(<<DuelEnd(ToCore(Other(f)))>>)
  BY <1>2 DEF OnLeaveGame, Break, Steady
<1>4. DuelEnd(ToCore(Other(f))) \in Requests /\ DuelEnd(ToCore(Other(f))).type = "DuelEnd"
  BY RequestsTyped, SeatsTyped DEF DuelEnd
<1>5. ~core.ended => Waiting("DuelEnd")' > 0
  <2> SUFFICES ASSUME ~core.ended PROVE Waiting("DuelEnd")' > 0
    OBVIOUS
  <2>1. PICK r \in Requests : r.type = "DuelEnd" /\ Done(<<r>>)
    BY <1>3, <1>4
  <2>2. Waiting("DuelEnd")' = Waiting("DuelEnd") - Gone("DuelEnd") + Adds(r, "DuelEnd")
    BY <1>1, <2>1, AfterOne
  <2>3. Gone("DuelEnd") = 0 /\ Adds(r, "DuelEnd") = 1 /\ Waiting("DuelEnd") \in Nat
    BY <1>1, <2>1, WaitingTypedAll DEF Gone, Adds
  <2> QED
    BY <2>2, <2>3
<1>6. Done(<<>>) \/ \E r \in Requests : r.type \notin {"DuelInit", "DuelStart"} /\ Done(<<r>>)
  BY <1>3, <1>4
<1>7. core'.loaded = core.loaded /\ core'.started = core.started /\ core'.ended = core.ended
  BY <1>3
<1> QED
  BY <1>1, <1>3, <1>5, <1>6, <1>7, TablesPass

\* A latecomer takes an empty seat, or none.
LEMMA JoinTables ==
  ASSUME TypeOK, TypeOK', Tables, OnJoinGame
  PROVE  Tables'
<1>1. queue # <<>> /\ Request.type = "JoinGame" /\ Done(<<>>) /\ UNCHANGED <<stage, core>>
  BY DEF OnJoinGame, Receive, Ignored, Chain, duel
<1>2. \A s \in Seats : Present(s) => players'[s].here
  <2>1. CASE Missing = {}
    BY <2>1 DEF OnJoinGame, Ignored, Chain, duel, Present
  <2>2. CASE Missing # {}
    <3>1. PICK t : players' = [players EXCEPT ![t] = [here |-> TRUE, ready |-> FALSE, state |-> "Any", hand |-> FALSE]]
      BY <2>2 DEF OnJoinGame
    <3>2. players \in [Seats -> PlayerRecords]
      BY DEF TypeOK
    <3> QED
      BY <3>1, <3>2 DEF Present
  <2> QED
    BY <2>1, <2>2
<1> QED
  BY <1>1, <1>2, TablesPass

\* A hand is thrown by somebody who stays.
LEMMA HandTables ==
  ASSUME TypeOK, TypeOK', Talking, Tables, OnHandResult
  PROVE  Tables'
<1>1. ReceiveFrom("HandResult") /\ Done(<<>>) /\ core' = core
  BY DEF OnHandResult
<1>2. stage = "Finger" /\ queue # <<>> /\ Request.type = "HandResult"
  BY <1>1, HandThrown DEF ReceiveFrom, Receive
<1>3. stage' = stage \/ stage' = "Firstgo"
  BY DEF OnHandResult
<1>4. \A s \in Seats : Present(s) => players'[s].here
  <2> DEFINE shown == [players EXCEPT ![Request.from].hand = Present(Request.from)]
  <2>1. players \in [Seats -> PlayerRecords]
    BY DEF TypeOK
  <2>2. shown \in [Seats -> [here : BOOLEAN, ready : BOOLEAN, state : Gates, hand : BOOLEAN]]
        /\ \A s \in Seats : shown[s].here = players[s].here
    BY <2>1 DEF PlayerRecords, Present
  <2>3. \/ players' = shown
        \/ players' = [s \in Seats |-> [shown[s] EXCEPT !.hand = FALSE, !.state = "HandResult"]]
        \/ \E winner \in Seats : players' = Deciding(shown, winner)
    BY DEF OnHandResult
  <2> HIDE DEF shown
  <2>4. CASE players' = shown
    BY <2>2, <2>4 DEF Present
  <2>5. CASE players' = [s \in Seats |-> [shown[s] EXCEPT !.hand = FALSE, !.state = "HandResult"]]
    BY <2>2, <2>5 DEF Present
  <2>6. CASE \E winner \in Seats : players' = Deciding(shown, winner)
    BY <2>2, <2>6 DEF Present, Deciding
  <2> QED
    BY <2>3, <2>4, <2>5, <2>6
<1> QED
  BY <1>1, <1>2, <1>3, <1>4, TablesPass

\* The next duel is set up by two who are there.
LEMMA DeckTables ==
  ASSUME TypeOK, TypeOK', Talking, Tables, OnUpdateDeck
  PROVE  Tables'
<1>1. ReceiveFrom("UpdateDeck") /\ queue # <<>> /\ Request.type = "UpdateDeck" /\ Done(<<>>) /\ core' = core
  BY DEF OnUpdateDeck, ReceiveFrom, Receive, Ignored, Chain, duel
<1>2. PICK f \in Seats : f = Request.from /\ Present(f)
  BY <1>1, Sender DEF Talking, CtosTypes
<1>3. players \in [Seats -> PlayerRecords]
  BY DEF TypeOK
<1> DEFINE sided == [players EXCEPT ![f].ready = TRUE]
<1>4. sided \in [Seats -> [here : BOOLEAN, ready : BOOLEAN, state : Gates, hand : BOOLEAN]]
      /\ \A s \in Seats : sided[s].here = players[s].here /\ (s # f => sided[s].ready = players[s].ready)
  BY <1>3 DEF PlayerRecords
<1>5. \/ UNCHANGED <<stage, players>>
      \/ players' = sided /\ stage' = stage
      \/ /\ ~players[f].ready /\ \A t \in Seats : sided[t].ready
         /\ stage' = "Firstgo" /\ \E d \in Seats : players' = Deciding(sided, d)
  <2>1. (IF first_attack_decider = None THEN 0 ELSE first_attack_decider) \in Seats
    BY DEF TypeOK, Seats
  <2> QED
    BY <1>2, <2>1 DEF OnUpdateDeck, Ignored, Chain, duel
<1> HIDE DEF sided
<1>6. CASE UNCHANGED <<stage, players>>
  BY <1>1, <1>6, TablesPass DEF Present
<1>7. CASE players' = sided /\ stage' = stage
  BY <1>1, <1>4, <1>7, TablesPass DEF Present
<1>8. CASE /\ ~players[f].ready /\ \A t \in Seats : sided[t].ready
           /\ stage' = "Firstgo" /\ \E d \in Seats : players' = Deciding(sided, d)
  <2>1. stage = "Siding"
    BY <1>1, <1>2, <1>8, DeckSent
  <2>2. Missing = {}
    <3>1. ASSUME NEW s \in Seats PROVE Present(s)
      <4>1. CASE s = f
        BY <1>2, <4>1
      <4>2. CASE s # f
        <5>1. players[s].ready
          BY <1>4, <1>8, <4>2
        <5>2. ~Present(s) => players[s] = EmptySlot
          BY DEF Talking, Quiet, Still
        <5> QED
          BY <5>1, <5>2 DEF EmptySlot
      <4> QED
        BY <4>1, <4>2
    <3> QED
      BY <3>1 DEF Missing
  <2>3. \A s \in Seats : Present(s) => players'[s].here
    BY <1>4, <1>8 DEF Present, Deciding
  <2> QED
    BY <1>1, <1>8, <2>1, <2>2, <2>3, TablesPass
<1> QED
  BY <1>5, <1>6, <1>7, <1>8

\* Handlers that change nothing but the mailbox.
LEMMA ChainTables ==
  ASSUME TypeOK, TypeOK', Tables,
         \/ Refused \/ OnFirstShuffle \/ OnEvolveEnded \/ OnGenerateReplay \/ OnJudgeContinueMatch
         \/ OnMatchEnd \/ OnTimerTick
  PROVE  Tables'
<1>1. queue # <<>> /\ Request.type \notin {"DuelInit", "DuelStart", "DuelEnd"}
  <2>1. CASE Refused
    <3>1. Request \in Requests /\ "from" \in DOMAIN Request
      BY <2>1, RequestTyped DEF Refused
    <3>2. Request.type \in CtosTypes
      BY <3>1, RequestFields
    <3> QED
      BY <2>1, <3>2 DEF Refused, CtosTypes
  <2>2. CASE \/ OnFirstShuffle \/ OnEvolveEnded \/ OnGenerateReplay \/ OnJudgeContinueMatch
             \/ OnMatchEnd \/ OnTimerTick
    BY <2>2 DEF OnFirstShuffle, OnEvolveEnded, OnGenerateReplay, OnJudgeContinueMatch, OnMatchEnd, OnTimerTick, Receive
  <2> QED
    BY <2>1, <2>2
<1>2. Chain(<<>>) \/ \E r \in Requests : r.type \notin {"DuelInit", "DuelStart"} /\ Chain(<<r>>)
  <2>1. CASE Refused
    BY <2>1 DEF Refused, Chain
  <2>2. CASE OnFirstShuffle \/ OnEvolveEnded \/ OnGenerateReplay
    BY <2>2 DEF OnFirstShuffle, OnEvolveEnded, OnGenerateReplay, Ignored
  <2>3. /\ \A type \in {"terminate", "MatchEnd", "RecreateDuel"} :
             Ex(type) \in Requests /\ Ex(type).type \notin {"DuelInit", "DuelStart"}
    BY RequestsTyped DEF ExTypes, Ex
  <2>4. CASE OnJudgeContinueMatch
    <3>1. Chain(<<Ex("MatchEnd")>>) \/ Chain(<<Ex("RecreateDuel")>>)
      BY <2>4 DEF OnJudgeContinueMatch
    <3> QED
      BY <2>3, <3>1
  <2>5. CASE OnMatchEnd
    <3>1. Chain(<<Ex("terminate")>>) \/ Chain(<<>>)
      BY <2>5 DEF OnMatchEnd
    <3> QED
      BY <2>3, <3>1
  <2>6. CASE OnTimerTick
    <3>1. Chain(<<>>) \/ \E s \in Seats : Chain(<<[type |-> "Timeout", player |-> s]>>)
      BY <2>6 DEF OnTimerTick, Ignored, TypeOK
    <3>2. \A s \in Seats : [type |-> "Timeout", player |-> s] \in Requests
      BY RequestsTyped
    <3> QED
      BY <3>1, <3>2
  <2> QED
    BY <2>1, <2>2, <2>4, <2>5, <2>6
<1>3. Done(<<>>) \/ \E r \in Requests : r.type \notin {"DuelInit", "DuelStart"} /\ Done(<<r>>)
  BY <1>2 DEF Chain
<1>4. UNCHANGED <<stage, players, core>>
  BY <1>2 DEF Chain, duel
<1> QED
  BY <1>1, <1>3, <1>4, TablesPass DEF Present

\* The engine runs on the table it has.
LEMMA EngineTables ==
  ASSUME TypeOK, TypeOK', Named, Tables,
         \/ OnEvolveSelect \/ OnEvolveRetry \/ OnEvolveWin \/ OnResponse \/ OnTimeConfirm
         \/ OnSurrender \/ OnTimeout
  PROVE  Tables'
<1>0. core \in CoreRecords /\ players \in Slots
  BY TypeFolded DEF Typed
<1>1. queue # <<>> /\ Request.type \notin {"DuelInit", "DuelStart", "DuelEnd"} /\ stage' = stage
  <2>1. CASE OnEvolveSelect \/ OnEvolveRetry \/ OnEvolveWin
    BY <2>1 DEF OnEvolveSelect, OnEvolveRetry, OnEvolveWin, Evolving, Receive
  <2>2. CASE OnResponse \/ OnTimeConfirm \/ OnSurrender \/ OnTimeout
    BY <2>2 DEF OnResponse, OnTimeConfirm, OnSurrender, OnTimeout, ReceiveFrom, Receive, Ignored, Chain, duel
  <2> QED
    BY <2>1, <2>2
<1>2. core'.loaded = core.loaded /\ core'.started = core.started /\ core'.ended = core.ended
  <2>1. CASE OnEvolveSelect \/ OnEvolveRetry \/ OnEvolveWin
    BY <1>0, <2>1 DEF OnEvolveSelect, OnEvolveRetry, OnEvolveWin, CoreRecords
  <2>2. CASE OnResponse
    BY <1>0, <2>2 DEF OnResponse, Ignored, Chain, duel, CoreRecords
  <2>3. CASE OnTimeConfirm \/ OnSurrender \/ OnTimeout
    BY <2>3 DEF OnTimeConfirm, OnSurrender, OnTimeout, Ignored, Chain, duel
  <2> QED
    BY <2>1, <2>2, <2>3
<1>3. \A s \in Seats : Present(s) => players'[s].here
  <2>0. ASSUME NEW t \in Seats, NEW gate, players' = [players EXCEPT ![t].state = gate]
        PROVE  \A s \in Seats : players'[s].here = players[s].here
    BY <1>0, <2>0 DEF Slots, PlayerRecords
  <2>1. CASE OnEvolveSelect \/ OnEvolveRetry
    <3>1. players' = players \/ \E t \in Seats : SetWaiting(t)
      BY <2>1 DEF OnEvolveSelect, OnEvolveRetry, TypeOK
    <3>2. ASSUME NEW t \in Seats, SetWaiting(t)
          PROVE  \A s \in Seats : players'[s].here = players[s].here
      <4>1. \/ players' = players
            \/ players' = [players EXCEPT ![t].state = "TimeConfirm"]
            \/ players' = [players EXCEPT ![t].state = "Response"]
        BY <3>2 DEF SetWaiting
      <4> QED
        BY <2>0, <4>1
    <3> QED
      BY <3>1, <3>2 DEF Present
  <2>2. CASE OnEvolveWin \/ OnSurrender \/ OnTimeout
    BY <2>2 DEF OnEvolveWin, OnSurrender, OnTimeout, Ignored, Chain, duel, Present
  <2>3. CASE OnResponse \/ OnTimeConfirm
    <3>1. Request.from \in Seats
      <4>1. queue # <<>> /\ Request.type \in CtosTypes
        BY <2>3 DEF OnResponse, OnTimeConfirm, ReceiveFrom, Receive, CtosTypes
      <4> QED
        BY <4>1, RequestTyped, RequestFields
    <3>2. PICK f \in Seats : f = Request.from
      BY <3>1
    <3>3. \/ players' = players
          \/ players' = [players EXCEPT ![f].state = "None"]
          \/ players' = [players EXCEPT ![f].state = "Response"]
      BY <2>3, <3>2 DEF OnResponse, OnTimeConfirm, Closed, Ignored, Chain, duel
    <3> QED
      BY <2>0, <3>3 DEF Present
  <2> QED
    BY <2>1, <2>2, <2>3
<1>4. Done(<<>>) \/ \E r \in Requests : r.type \notin {"DuelInit", "DuelStart"} /\ Done(<<r>>)
  <2>0. \A w \in Seats \cup {None} : DuelEnd(w) \in Requests /\ DuelEnd(w).type \notin {"DuelInit", "DuelStart"}
    BY RequestsTyped DEF DuelEnd
  <2>1. CASE OnEvolveSelect \/ OnEvolveRetry \/ OnTimeConfirm
    BY <2>1 DEF OnEvolveSelect, OnEvolveRetry, OnTimeConfirm, Ignored, Chain
  <2>2. CASE OnEvolveWin
    BY <2>0, <2>2 DEF OnEvolveWin
  <2>3. CASE OnResponse
    <3>1. Ex("Evolve") \in Requests /\ Ex("Evolve").type \notin {"DuelInit", "DuelStart"}
      BY RequestsTyped DEF ExTypes, Ex
    <3> QED
      BY <2>3, <3>1 DEF OnResponse, Ignored, Chain
  <2>4. CASE OnSurrender
    <3>1. queue # <<>> /\ Request.type \in CtosTypes
      BY <2>4 DEF OnSurrender, ReceiveFrom, Receive, CtosTypes
    <3>2. Request.from \in Seats
      BY <3>1, RequestTyped, RequestFields
    <3>3. ToCore(Other(Request.from)) \in Seats
      BY <3>2, SeatsTyped
    <3> QED
      BY <2>0, <2>4, <3>3 DEF OnSurrender, Ignored, Chain
  <2>5. CASE OnTimeout
    <3>1. queue # <<>> /\ Request.type = "Timeout"
      BY <2>5 DEF OnTimeout, Receive
    <3>2. Request.player \in Seats
      BY <3>1, RequestTyped, RequestFields
    <3>3. ToCore(Other(Request.player)) \in Seats
      BY <3>2, SeatsTyped
    <3> QED
      BY <2>0, <2>5, <3>3 DEF OnTimeout
  <2> QED
    BY <2>1, <2>2, <2>3, <2>4, <2>5
<1> QED
  BY <1>1, <1>2, <1>3, <1>4, TablesPass

\* Clients, the timer and latecomers touch no table.
LEMMA OutsideTables ==
  ASSUME TypeOK, TypeOK', Tables, TimerTicks \/ StrangerJoins \/ \E s \in Seats : Client(s)
  PROVE  Tables'
<1>1. Posted /\ UNCHANGED duel
  BY OutsidePasses
<1>2. "DuelInit" \notin Outer /\ "DuelStart" \notin Outer /\ "DuelEnd" \notin Outer
  BY DEF Outer, CtosTypes
<1>3. /\ Waiting("DuelInit")' = Waiting("DuelInit") /\ Waiting("DuelStart")' = Waiting("DuelStart")
      /\ Waiting("DuelEnd")' = Waiting("DuelEnd")
      /\ AheadOf("DuelEnd", "DuelStart")' <=> AheadOf("DuelEnd", "DuelStart")
  BY <1>1, <1>2 DEF Posted
<1>4. UNCHANGED <<stage, players, core>>
  BY <1>1 DEF duel
<1> QED
  BY <1>3, <1>4 DEF Tables, NobodyLoaded, BothLoaded, Missing, Present

\* The tables are as they should be as long as there is a room.
TablesWhileRunning == running => Tables

\* Every step of a room that runs afterwards keeps the tables.
LEMMA TablesKept ==
  ASSUME TypeOK, TypeOK', Named, Talking, Tables, Next, running'
  PROVE  Tables'
<1>1. CASE \/ Refused \/ OnFirstShuffle \/ OnEvolveEnded \/ OnGenerateReplay \/ OnJudgeContinueMatch
           \/ OnMatchEnd \/ OnTimerTick
  BY <1>1, ChainTables
<1>2. CASE \/ OnEvolveSelect \/ OnEvolveRetry \/ OnEvolveWin \/ OnResponse \/ OnTimeConfirm
           \/ OnSurrender \/ OnTimeout
  BY <1>2, EngineTables
<1>3. CASE OnHandResult \/ OnTpResult \/ OnDuelInit \/ OnDuelStart
  BY <1>3, HandTables, TpTables, InitTables, StartTables
<1>4. CASE OnDuelEnd \/ OnRecreateDuel \/ OnUpdateDeck \/ OnLeaveGame \/ OnJoinGame
  BY <1>4, EndTables, NewTables, DeckTables, LeaveTables, JoinTables
<1>5. CASE OnDuelStartPanics \/ OnTerminate
  BY <1>5 DEF OnDuelStartPanics, OnTerminate, Break
<1>6. CASE TimerTicks \/ StrangerJoins \/ \E s \in Seats : Client(s)
  BY <1>6, OutsideTables
<1> QED
  BY <1>1, <1>2, <1>3, <1>4, <1>5, <1>6 DEF Next, Actor

\* The engine starts with both decks, each loaded once, whoever leaves, joins or gives up
\* between TpResult and DuelStart.
THEOREM BothDecksPlayed == Spec => []EnginePlaysBothDecks
<1> DEFINE Inv == TypeOK /\ Named /\ InOrderWhileRunning /\ TablesWhileRunning /\ EnginePlaysBothDecks
<1>1. Init => Inv
  <2> SUFFICES ASSUME Init PROVE Inv
    OBVIOUS
  <2>1. TypeOK /\ Named /\ Talking
    BY TypeInit, InitTalks
  <2>2. queue = <<>> /\ stage = "Finger" /\ core = NewCore /\ \A s \in Seats : Present(s)
    BY DEF Init, Present
  <2>3. Waiting("DuelInit") = 0 /\ Waiting("DuelStart") = 0
    BY <2>2, CountShort DEF Waiting
  <2>4. ~core.started /\ NobodyLoaded /\ Missing = {}
    BY <2>2 DEF NewCore, NobodyLoaded, Missing
  <2> QED
    BY <2>1, <2>2, <2>3, <2>4 DEF InOrderWhileRunning, TablesWhileRunning, Tables, EnginePlaysBothDecks
<1>2. Inv /\ [Next]_vars => Inv'
  <2> SUFFICES ASSUME Inv, [Next]_vars PROVE Inv'
    OBVIOUS
  <2>1. TypeOK' /\ Named' /\ InOrderWhileRunning'
    BY TypeKept, TalkingKept
  <2>2. CASE Next
    <3>1. Talking /\ Tables
      BY <2>2, OnlyRunning DEF InOrderWhileRunning, TablesWhileRunning
    <3>2. CASE running'
      <4>1. Tables'
        BY <2>1, <2>2, <3>1, <3>2, TablesKept
      <4> QED
        BY <2>1, <4>1 DEF TablesWhileRunning, EnginePlaysBothDecks, Tables, BothLoaded
    <3>3. CASE ~running'
      BY <2>1, <2>2, <3>3, LastStep DEF TablesWhileRunning, EnginePlaysBothDecks
    <3> QED
      BY <3>2, <3>3
  <2>3. CASE UNCHANGED vars
    <3>1. UNCHANGED <<running, queue, stage, players, core>>
      BY <2>3 DEF vars, duel
    <3> QED
      BY <2>1, <3>1 DEF TablesWhileRunning, EnginePlaysBothDecks, Tables, NobodyLoaded, BothLoaded,
                        Missing, Present, Waiting, AheadOf
  <2> QED
    BY <2>2, <2>3
<1>3. Inv => EnginePlaysBothDecks
  OBVIOUS
<1> HIDE DEF Inv
<1> QED
  BY <1>1, <1>2, <1>3, PTL DEF Spec

-----------------------------------------------------------------------------
(* A prompt that is on the screen is let through once all is quiet.         *)

\* Who is asked by the engine.  A gate that waits for the time to be confirmed has the
\* confirmation on its way, and no answer is ahead of it; a gate that is no longer waited for,
\* because the time ran out, belongs to a player whose prompt a Win will take off the screen.
Confirms ==
  \A s \in Seats :
    /\ players[s].state = "TimeConfirm" /\ Num(s, "Response") > 0 /\ last_response = s =>
         Num(s, "TimeConfirm") > 0 /\ ~Before(s, "Response", "TimeConfirm")
    /\ Waited(s) /\ last_response # s => ~Lasting(s, "Response")

\* A step in which s goes on being asked as it was, or is told that the duel is over.
Waits(s) ==
  /\ players[s].state = "TimeConfirm" /\ last_response = s => Num(s, "TimeConfirm")' = Num(s, "TimeConfirm")
  /\ Num(s, "Response")' <= Num(s, "Response")
  /\ Before(s, "Response", "TimeConfirm")' => Before(s, "Response", "TimeConfirm")
  /\ Lasting(s, "Response")' => Lasting(s, "Response")
  /\ last_response' = last_response \/ (last_response' = None /\ ~Lasting(s, "Response")')

\* Such a step confirms nothing that was not confirmed.
LEMMA WaitsConfirms ==
  ASSUME TypeOK, TypeOK', Confirms,
         \A s \in Seats : Waited(s)' => Waits(s) /\ players'[s].state = players[s].state
  PROVE  Confirms'
<1> SUFFICES ASSUME NEW s \in Seats, Waited(s)'
             PROVE  /\ players'[s].state = "TimeConfirm" /\ Num(s, "Response")' > 0 /\ last_response' = s
                         => Num(s, "TimeConfirm")' > 0 /\ ~Before(s, "Response", "TimeConfirm")'
                    /\ last_response' # s => ~Lasting(s, "Response")'
  BY DEF Confirms, Waited
<1>1. Waits(s) /\ players'[s].state = players[s].state /\ Waited(s)
  BY DEF Waited
<1>2. None \notin Seats
  BY SingleDuelAssumption DEF Seats
<1>3. /\ Num(s, "Response") \in Nat /\ Num(s, "Response")' \in Nat
      /\ Num(s, "TimeConfirm") \in Nat /\ Num(s, "TimeConfirm")' \in Nat
  BY NumTyped, NumTypedNext
<1>4. ASSUME players'[s].state = "TimeConfirm", Num(s, "Response")' > 0, last_response' = s
      PROVE  Num(s, "TimeConfirm")' > 0 /\ ~Before(s, "Response", "TimeConfirm")'
  <2>1. last_response = s
    BY <1>1, <1>2, <1>4 DEF Waits
  <2>2. Num(s, "TimeConfirm")' = Num(s, "TimeConfirm") /\ Num(s, "Response") > 0
    BY <1>1, <1>3, <1>4, <2>1 DEF Waits
  <2>3. Num(s, "TimeConfirm") > 0 /\ ~Before(s, "Response", "TimeConfirm")
    BY <1>1, <1>4, <2>1, <2>2 DEF Confirms
  <2> QED
    BY <1>1, <2>2, <2>3 DEF Waits
<1>5. ASSUME last_response' # s PROVE ~Lasting(s, "Response")'
  <2>1. CASE last_response' = last_response
    <3>1. ~Lasting(s, "Response")
      BY <1>1, <1>5, <2>1 DEF Confirms
    <3> QED
      BY <1>1, <3>1 DEF Waits
  <2>2. CASE last_response' # last_response
    BY <1>1, <2>2 DEF Waits
  <2> QED
    BY <2>1, <2>2
<1> QED
  BY <1>4, <1>5

\* Where the engine asks nobody there is nothing to confirm.
LEMMA NobodyConfirms ==
  ASSUME \A s \in Seats : ~Waited(s)'
  PROVE  Confirms'
  BY DEF Confirms, Waited

\* Whoever hears nothing, or that the duel is over, goes on as he was.
LEMMA HearsWaits ==
  ASSUME TypeOK, NEW s \in Seats,
         Request = Ctos("TimeConfirm", s) => players[s].state # "TimeConfirm" \/ last_response # s
  PROVE  /\ Unasked(s) /\ last_response' = last_response => Waits(s)
         /\ Told(s, "Win") /\ last_response' \in {last_response, None} => Waits(s)
<1> DEFINE Less(x) == Num(s, x)' = Num(s, x) - Taken({Ctos(x, s)})
<1>1. ASSUME Less("TimeConfirm"), Less("Response")
      PROVE  /\ players[s].state = "TimeConfirm" /\ last_response = s => Num(s, "TimeConfirm")' = Num(s, "TimeConfirm")
             /\ Num(s, "Response")' <= Num(s, "Response")
  <2>1. /\ Num(s, "TimeConfirm") \in Nat /\ Num(s, "Response") \in Nat
        /\ Taken({Ctos("Response", s)}) \in 0..1
    BY NumTyped DEF Taken
  <2>2. players[s].state = "TimeConfirm" /\ last_response = s => Taken({Ctos("TimeConfirm", s)}) = 0
    BY DEF Taken
  <2> QED
    BY <1>1, <2>1, <2>2
<1>2. "TimeConfirm" \in Talks /\ "Response" \in Talks /\ "None" # "TimeConfirm"
  BY TalkKinds
<1>3. ASSUME Unasked(s), last_response' = last_response PROVE Waits(s)
  BY <1>1, <1>2, <1>3 DEF Unasked, Waits
<1>4. ASSUME Told(s, "Win"), last_response' \in {last_response, None} PROVE Waits(s)
  <2>1. Asks("Win") = "None" /\ "Win" \in Spoils("Response")
    BY DEF Asks, Spoils
  <2>2. ~Lasting(s, "Response")'
    BY <1>2, <1>4, <2>1 DEF Told
  <2>3. ASSUME NEW x \in {"TimeConfirm", "Response"} PROVE Less(x)
    <3>1. Num(s, x)' = Num(s, x) - Taken({Ctos(x, s)}) + 0
      BY <1>2, <1>4, <2>1 DEF Told
    <3>2. Num(s, x) \in Nat /\ Taken({Ctos(x, s)}) \in 0..1
      BY NumTyped DEF Taken
    <3> QED
      BY <3>1, <3>2
  <2>4. Before(s, "Response", "TimeConfirm")' => Before(s, "Response", "TimeConfirm")
    BY <1>2, <1>4, <2>1 DEF Told
  <2> QED
    BY <1>1, <1>4, <2>2, <2>3, <2>4 DEF Waits
<1> QED
  BY <1>3, <1>4

\* A handler that changes nothing but the mailbox.  A confirmation it drops is one nobody
\* waits for.
LEMMA ChainConfirms ==
  ASSUME TypeOK, TypeOK', Talking, Confirms, queue # <<>>, NEW more \in Seq(Requests), Inner(more), Chain(more),
         \A s \in Seats : Request = Ctos("TimeConfirm", s) => players[s].state # "TimeConfirm" \/ last_response # s
  PROVE  Confirms'
<1>1. UNCHANGED <<players, last_response>>
  BY DEF Chain, duel
<1>2. ASSUME NEW s \in Seats PROVE Waits(s) /\ players'[s].state = players[s].state
  <2>1. Unasked(s)
    BY ChainSays DEF Talking
  <2> QED
    BY <1>1, <2>1, HearsWaits
<1> QED
  BY <1>2, WaitsConfirms

\* Handlers of the room's own requests that change nothing but the mailbox, and those that
\* drop what they are given.
LEMMA DropsConfirms ==
  ASSUME TypeOK, TypeOK', Talking, Confirms,
         \/ Refused \/ OnFirstShuffle \/ OnEvolveEnded \/ OnGenerateReplay \/ OnJudgeContinueMatch
         \/ OnMatchEnd \/ OnTimerTick
         \/ ((OnResponse \/ OnTimeConfirm \/ OnSurrender \/ OnUpdateDeck \/ OnJoinGame) /\ Ignored)
  PROVE  Confirms'
<1>1. queue # <<>>
  BY DEF Refused, OnFirstShuffle, OnEvolveEnded, OnGenerateReplay, OnJudgeContinueMatch, OnMatchEnd, OnTimerTick,
         OnResponse, OnTimeConfirm, OnSurrender, OnUpdateDeck, OnJoinGame, ReceiveFrom, Receive
<1>2. \E more \in Seq(Requests) : Inner(more) /\ Chain(more)
  <2>1. <<>> \in Seq(Requests) /\ Inner(<<>>)
    BY Queues, InnerRequests
  <2>2. ASSUME NEW r \in Requests, r.type \notin CtosTypes PROVE <<r>> \in Seq(Requests) /\ Inner(<<r>>)
    BY <2>2, Queues, InnerRequests
  <2>3. CASE Chain(<<>>)
    BY <2>1, <2>3
  <2>4. CASE OnJudgeContinueMatch \/ OnMatchEnd
    <3>1. Chain(<<Ex("MatchEnd")>>) \/ Chain(<<Ex("RecreateDuel")>>) \/ Chain(<<Ex("terminate")>>) \/ Chain(<<>>)
      BY <2>4 DEF OnJudgeContinueMatch, OnMatchEnd
    <3>2. \A type \in {"terminate", "MatchEnd", "RecreateDuel"} : Ex(type) \in Requests /\ Ex(type).type \notin CtosTypes
      BY RequestsTyped DEF ExTypes, Ex, CtosTypes
    <3> QED
      BY <2>1, <2>2, <3>1, <3>2
  <2>5. CASE OnTimerTick
    <3>1. Chain(<<>>) \/ \E s \in Seats : Chain(<<[type |-> "Timeout", player |-> s]>>)
      BY <2>5 DEF OnTimerTick, Ignored, TypeOK
    <3>2. \A s \in Seats : LET r == [type |-> "Timeout", player |-> s] IN r \in Requests /\ r.type \notin CtosTypes
      BY RequestsTyped DEF CtosTypes
    <3> QED
      BY <2>1, <2>2, <3>1, <3>2
  <2>6. CASE Refused \/ OnFirstShuffle \/ OnEvolveEnded \/ OnGenerateReplay \/ Ignored
    BY <2>3, <2>6 DEF Refused, OnFirstShuffle, OnEvolveEnded, OnGenerateReplay, Ignored, Chain
  <2> QED
    BY <2>4, <2>5, <2>6
<1>3. ASSUME NEW s \in Seats, Request = Ctos("TimeConfirm", s), players[s].state = "TimeConfirm"
      PROVE  last_response # s
  <2>1. Request.type = "TimeConfirm" /\ Request.from = s
    BY <1>3 DEF Ctos
  <2>2. Allowed(Request.from, Request.type)
    BY <1>3, <2>1 DEF Allowed
  <2>3. OnTimeConfirm /\ Ignored
    BY <2>1, <2>2 DEF Refused, OnFirstShuffle, OnEvolveEnded, OnGenerateReplay, OnJudgeContinueMatch, OnMatchEnd,
                      OnTimerTick, OnResponse, OnSurrender, OnUpdateDeck, OnJoinGame, ReceiveFrom, Receive
  <2>4. Present(s) /\ Timed
    <3>1. Still(s) /\ OpenGates
      BY DEF Talking, Quiet
    <3>2. EmptySlot.state = "None"
      BY DEF EmptySlot
    <3> QED
      BY <1>3, <3>1, <3>2 DEF Still, OpenGates
  <2>5. SUFFICES ASSUME last_response = s PROVE FALSE
    OBVIOUS
  <2>6. players' = [players EXCEPT ![s].state = "Response"]
    BY <2>1, <2>3, <2>4, <2>5 DEF OnTimeConfirm
  <2>7. players' = players
    BY <2>3 DEF Ignored, Chain, duel
  <2>8. players'[s].state = "Response"
    BY <2>6 DEF TypeOK, PlayerRecords
  <2> QED
    BY <1>3, <2>7, <2>8
<1> QED
  BY <1>1, <1>2, <1>3, ChainConfirms

\* The duel is declared over, by the engine, by a player or by the clock: whoever was asked
\* will have his prompt taken off the screen.
LEMMA EndingsConfirms ==
  ASSUME TypeOK, TypeOK', Named, Talking, Confirms,
         OnEvolveWin \/ (OnSurrender /\ ~core.ended) \/ OnTimeout
  PROVE  Confirms'
<1>1. \E w \in Seats \cup {None} : Done(<<DuelEnd(w)>>)
  <2>1. CASE OnEvolveWin
    BY <2>1 DEF OnEvolveWin
  <2>2. CASE OnSurrender /\ ~core.ended
    <3>1. queue # <<>> /\ Request.type = "Surrender" /\ Done(<<DuelEnd(ToCore(Other(Request.from)))>>)
      BY <2>2 DEF OnSurrender, ReceiveFrom, Receive
    <3>2. Request.from \in Seats
      BY <3>1, RequestTyped, RequestFields DEF CtosTypes
    <3> QED
      BY <3>1, <3>2, SeatsTyped
  <2>3. CASE OnTimeout
    <3>1. queue # <<>> /\ Request.type = "Timeout" /\ Done(<<DuelEnd(ToCore(Other(Request.player)))>>)
      BY <2>3 DEF OnTimeout, Receive
    <3>2. Request.player \in Seats
      BY <3>1, RequestTyped, RequestFields
    <3> QED
      BY <3>1, <3>2, SeatsTyped
  <2> QED
    BY <2>1, <2>2, <2>3
<1>2. PICK w \in Seats \cup {None} : Done(<<DuelEnd(w)>>)
  BY <1>1
<1>3. /\ queue # <<>> /\ Request.type \in {"Evolve", "Surrender", "Timeout"}
      /\ Send(ToAll("Win")) /\ UNCHANGED <<clients, players>> /\ last_response' \in {last_response, None}
  BY DEF OnEvolveWin, OnSurrender, OnTimeout, Evolving, ReceiveFrom, Receive, Steady
<1>4. <<DuelEnd(w)>> \in Seq(Requests) /\ Inner(<<DuelEnd(w)>>) /\ "Win" \in StocMessages
  <2>1. DuelEnd(w).type \notin CtosTypes
    BY DEF DuelEnd, CtosTypes
  <2> QED
    BY <2>1, RequestsTyped, Queues, InnerRequests DEF StocMessages
<1>5. ASSUME NEW s \in Seats, Waited(s)' PROVE Waits(s) /\ players'[s].state = players[s].state
  <2>1. players'[s] = players[s]
    BY <1>3
  <2>2. Present(s)
    <3>1. Still(s) /\ EmptySlot.state = "None"
      BY DEF Talking, Quiet, EmptySlot
    <3> QED
      BY <1>5, <2>1, <3>1 DEF Still, Waited
  <2>3. Told(s, "Win")
    BY <1>2, <1>3, <1>4, <2>1, <2>2, ToldAll DEF Talking
  <2>4. Request # Ctos("TimeConfirm", s)
    BY <1>3 DEF Ctos
  <2> QED
    BY <1>3, <2>1, <2>3, <2>4, HearsWaits
<1> QED
  BY <1>5, WaitsConfirms

\* A duel that has ended is counted; nobody hears of it yet.
LEMMA DuelEndConfirms ==
  ASSUME TypeOK, TypeOK', Talking, Confirms, OnDuelEnd
  PROVE  Confirms'
<1> DEFINE r == Ex("GenerateReplay")
           q == Ex("JudgeContinueMatch")
<1>1. /\ queue # <<>> /\ Request.type = "DuelEnd" /\ Done(<<r, q>>)
      /\ UNCHANGED <<clients, stoc, players, last_response>>
  BY DEF OnDuelEnd, Receive, Steady
<1>2. <<r, q>> \in Seq(Requests) /\ Inner(<<r, q>>)
  <2>1. r.type \notin CtosTypes /\ q.type \notin CtosTypes
    BY DEF Ex, CtosTypes
  <2>2. r \in Requests /\ q \in Requests
    BY RequestsTyped DEF ExTypes
  <2> HIDE DEF r, q
  <2> QED
    BY <2>1, <2>2, Queues, InnerRequests
<1> HIDE DEF r, q
<1>3. ASSUME NEW s \in Seats PROVE Waits(s) /\ players'[s].state = players[s].state
  <2>1. Unasked(s)
    BY <1>1, <1>2, TellsNobody DEF Talking
  <2>2. Request # Ctos("TimeConfirm", s)
    BY <1>1 DEF Ctos
  <2> QED
    BY <1>1, <2>1, <2>2, HearsWaits
<1> QED
  BY <1>3, WaitsConfirms

\* The engine asks somebody, and has its TimeLimit confirmed first if time is limited.
LEMMA QuestionConfirms ==
  ASSUME TypeOK, TypeOK', Talking, Evolving, Done(<<>>), NEW s \in Seats, SetWaiting(s), UNCHANGED clients
  PROVE  Confirms'
<1>1. /\ queue # <<>>
      /\ \A t \in Seats, x \in Talks : Taken({Ctos(x, t)}) = 0
      /\ \A t \in Seats : ~Waited(t) /\ Num(t, "TimeConfirm") = 0 /\ Num(t, "Response") = 0
  BY NobodyAsked DEF Duelling
<1>2. /\ last_response' = s
      /\ players' = IF Present(s)
                    THEN [players EXCEPT ![s].state = IF Timed THEN "TimeConfirm" ELSE "Response"] ELSE players
      /\ Send(ToOne(s, IF Timed THEN <<"TimeLimit", "Select">> ELSE <<"Select">>))
  BY DEF SetWaiting
<1>3. players \in [Seats -> PlayerRecords]
  BY DEF TypeOK
<1>4. CASE ~Present(s)
  BY <1>1, <1>2, <1>4, NobodyConfirms DEF Waited
<1>5. CASE Present(s)
  <2>1. ASSUME NEW t \in Seats
        PROVE  /\ players'[t].here = players[t].here
               /\ t # s => players'[t] = players[t]
               /\ t = s => players'[t].state = IF Timed THEN "TimeConfirm" ELSE "Response"
    BY <1>2, <1>3, <1>5 DEF PlayerRecords
  <2>2. \A t \in Seats : Waited(t)' => t = s
    BY <1>1, <2>1 DEF Waited
  <2>3. players'[s].state = "TimeConfirm" => Num(s, "TimeConfirm")' > 0 /\ ~Before(s, "Response", "TimeConfirm")'
    <3> SUFFICES ASSUME Timed PROVE Num(s, "TimeConfirm")' > 0 /\ ~Before(s, "Response", "TimeConfirm")'
      BY <2>1
    <3> DEFINE b == <<"TimeLimit", "Select">>
    <3>1. Send(ToOne(s, b)) /\ b \in Seq(StocMessages)
      BY <1>2 DEF StocMessages
    <3>2. Inner(<<>>) /\ <<>> \in Seq(Requests)
      BY InnerRequests, Queues
    <3>3. Pressed(s)
      BY <1>1, <1>5, <2>1, <3>1, <3>2, TellsOne DEF Talking
    <3>4. Num(s, "TimeConfirm")' = Num(s, "TimeConfirm") - Taken({Ctos("TimeConfirm", s)}) + 1
      BY <3>3, TalkKinds DEF Pressed
    <3>5. Taken({Ctos("TimeConfirm", s)}) = 0 /\ Taken({Ctos("Response", s)}) = 0
      BY <1>1, TalkKinds
    <3>6. ~Before(s, "Response", "TimeConfirm")'
      <4>1. ~Before(s, "Response", "TimeConfirm")
        BY <1>1, UnderWay
      <4>2. Before(s, "Response", "TimeConfirm")' =>
              Before(s, "Response", "TimeConfirm") \/ Num(s, "Response") - Taken({Ctos("Response", s)}) > 0
        BY <3>3, TalkKinds DEF Pressed
      <4> QED
        BY <1>1, <3>5, <4>1, <4>2
    <3> QED
      BY <1>1, <3>4, <3>5, <3>6
  <2> QED
    BY <1>2, <2>2, <2>3 DEF Confirms, Waited
<1> QED
  BY <1>4, <1>5

\* The one who is asked confirms the time, and may answer.
LEMMA TimeConfirms ==
  ASSUME TypeOK, TypeOK', Talking, OnTimeConfirm, ~Ignored
  PROVE  Confirms'
<1>1. ReceiveFrom("TimeConfirm")
  BY DEF OnTimeConfirm
<1>2. PICK f \in Seats : f = Request.from
  BY <1>1, AnswerSent
<1>3. \A s \in Seats : Waited(s) => s = f
  BY <1>1, <1>2, AnswerSent
<1>4. last_response' = f /\ players' = [players EXCEPT ![f].state = "Response"]
  BY <1>2 DEF OnTimeConfirm
<1>5. ASSUME NEW s \in Seats PROVE players'[s].state = IF s = f THEN "Response" ELSE players[s].state
  <2>1. players \in [Seats -> PlayerRecords]
    BY DEF TypeOK
  <2> QED
    BY <1>4, <2>1 DEF PlayerRecords
<1> QED
  BY <1>3, <1>4, <1>5 DEF Confirms, Waited

\* Handlers after which the engine has asked nobody.
LEMMA ClosedConfirms ==
  ASSUME TypeOK, TypeOK', Talking, Talking',
         \/ OnHandResult \/ OnTpResult \/ OnDuelInit \/ OnDuelStart \/ (OnResponse /\ ~Ignored)
         \/ OnRecreateDuel \/ (OnUpdateDeck /\ ~Ignored)
  PROVE  Confirms'
<1>1. CASE stage' # "Dueling"
  <2>1. \A s \in Seats : ~Waited(s)'
    BY <1>1 DEF Talking, OneRun
  <2> QED
    BY <2>1, NobodyConfirms
<1>2. CASE OnTpResult
  <2>1. \A s \in Seats : ~Waited(s)
    BY <1>2, TpDue DEF Talking, OneRun
  <2>2. players' = players
    BY <1>2 DEF OnTpResult
  <2> QED
    BY <2>1, <2>2, NobodyConfirms DEF Waited
<1>3. CASE OnDuelInit \/ OnDuelStart
  <2>1. queue # <<>> /\ Request.type \in {"DuelInit", "DuelStart"} /\ players' = players
    BY <1>3 DEF OnDuelInit, OnDuelStart, Receive
  <2>2. Waiting(Request.type) > 0
    <3>1. Gone(Request.type) = 1 /\ Gone(Request.type) <= Waiting(Request.type) /\ Waiting(Request.type) \in Nat
      BY <2>1, WaitingHead DEF Gone
    <3> QED
      BY <3>1
  <2>3. Tokens # 0
    <3>1. Request.type \in Runs
      BY <2>1 DEF Runs
    <3>2. Waiting(Request.type) # 0
      BY <2>2
    <3> QED
      BY <3>1, <3>2, TokensSum
  <2>4. \A s \in Seats : ~Waited(s)
    BY <2>3 DEF Talking, OneRun
  <2> QED
    BY <2>1, <2>4, NobodyConfirms DEF Waited
<1>4. CASE OnResponse /\ ~Ignored
  <2>1. ReceiveFrom("Response") /\ players' = Closed(Request.from)
    BY <1>4 DEF OnResponse
  <2>2. /\ Request.from \in Seats /\ Present(Request.from)
        /\ \A s \in Seats : Waited(s) => s = Request.from
    BY <2>1, AnswerSent
  <2>3. PICK f \in Seats : f = Request.from
    BY <2>2
  <2>4. ASSUME NEW s \in Seats PROVE players'[s].state = IF s = f THEN "None" ELSE players[s].state
    <3>1. players \in [Seats -> PlayerRecords]
      BY DEF TypeOK
    <3>2. players' = [players EXCEPT ![f].state = "None"]
      BY <2>1, <2>2, <2>3 DEF Closed
    <3> QED
      BY <3>1, <3>2 DEF PlayerRecords
  <2> QED
    BY <2>2, <2>3, <2>4, NobodyConfirms DEF Waited
<1>5. CASE OnHandResult
  <2>1. stage = "Finger"
    BY <1>5, HandThrown DEF OnHandResult
  <2>2. stage' \in {"Finger", "Firstgo"}
    BY <1>5, <2>1 DEF OnHandResult
  <2> QED
    BY <1>1, <2>2
<1>6. CASE OnRecreateDuel
  BY <1>1, <1>6 DEF OnRecreateDuel
<1>7. CASE OnUpdateDeck /\ ~Ignored
  <2>1. ReceiveFrom("UpdateDeck") /\ ~players[Request.from].ready
    BY <1>7 DEF OnUpdateDeck
  <2>2. stage = "Siding"
    BY <2>1, DeckSent
  <2>3. stage' \in {"Siding", "Firstgo"}
    BY <1>7, <2>2 DEF OnUpdateDeck
  <2> QED
    BY <1>1, <2>3
<1> QED
  BY <1>2, <1>3, <1>4, <1>5, <1>6, <1>7

\* Whoever leaves waits for nothing; whoever stays hears of it, or does not.
LEMMA LeaveConfirms ==
  ASSUME TypeOK, TypeOK', Talking, Confirms, OnLeaveGame, running'
  PROVE  Confirms'
<1>1. ReceiveFrom("LeaveGame") /\ queue # <<>> /\ Request.type = "LeaveGame"
  BY DEF OnLeaveGame, ReceiveFrom, Receive
<1>2. PICK f \in Seats : f = Request.from
  BY <1>1, Sender DEF Talking, CtosTypes
<1>3. /\ players' = [players EXCEPT ![f] = EmptySlot] /\ UNCHANGED <<clients, last_response>>
      /\ \/ Done(<<>>) /\ Send([t \in Seats |-> <<>>])
         \/ Done(<<DuelEnd(ToCore(Other(f)))>>) /\ Send(ToAll("Win"))
  BY <1>2 DEF OnLeaveGame, Break, Steady
<1>4. ASSUME NEW s \in Seats PROVE players'[s] = IF s = f THEN EmptySlot ELSE players[s]
  BY <1>3 DEF TypeOK
<1>5. ASSUME NEW s \in Seats, Waited(s)' PROVE Waits(s) /\ players'[s].state = players[s].state
  <2>1. s # f /\ players'[s] = players[s]
    BY <1>4, <1>5 DEF EmptySlot, Waited
  <2>2. Present(s)
    <3>1. Still(s) /\ EmptySlot.state = "None"
      BY DEF Talking, Quiet, EmptySlot
    <3> QED
      BY <1>5, <2>1, <3>1 DEF Still, Waited
  <2>3. Request # Ctos("TimeConfirm", s)
    BY <1>1 DEF Ctos
  <2>4. CASE Done(<<>>) /\ Send([t \in Seats |-> <<>>])
    <3>1. Inner(<<>>) /\ <<>> \in Seq(Requests) /\ Nothing \in Boxes
      BY InnerRequests, Queues, NewsTyped DEF Nothing, Boxes
    <3>2. SpeaksTo(<<>>, Nothing, s)
      BY <1>1, <1>3, <2>1, <2>4 DEF SpeaksTo, Send, Nothing
    <3>3. Unasked(s)
      BY <3>1, <3>2, Speech DEF Talking, Nothing
    <3> QED
      BY <1>3, <2>1, <2>3, <3>3, HearsWaits
  <2>5. CASE Done(<<DuelEnd(ToCore(Other(f)))>>) /\ Send(ToAll("Win"))
    <3>1. PICK w \in Seats \cup {None} : w = ToCore(Other(f))
      BY SeatsTyped
    <3>2. <<DuelEnd(w)>> \in Seq(Requests) /\ Inner(<<DuelEnd(w)>>) /\ "Win" \in StocMessages
      <4>1. DuelEnd(w).type \notin CtosTypes
        BY DEF DuelEnd, CtosTypes
      <4> QED
        BY <4>1, RequestsTyped, Queues, InnerRequests DEF StocMessages
    <3>3. Told(s, "Win")
      BY <1>1, <1>3, <2>1, <2>2, <2>5, <3>1, <3>2, ToldAll DEF Talking
    <3> QED
      BY <1>3, <2>1, <2>3, <3>3, HearsWaits
  <2> QED
    BY <1>3, <2>4, <2>5
<1> QED
  BY <1>5, WaitsConfirms

\* A latecomer is asked for nothing, and those who are seated do not hear of it.
LEMMA JoinConfirms ==
  ASSUME TypeOK, TypeOK', Talking, Confirms, OnJoinGame, ~Ignored
  PROVE  Confirms'
<1>1. queue # <<>> /\ Request.type = "JoinGame" /\ Missing # {}
  BY DEF OnJoinGame, Receive
<1>2. PICK c : /\ players' = [players EXCEPT ![c] = [here |-> TRUE, ready |-> FALSE, state |-> "Any", hand |-> FALSE]]
               /\ clients' = [clients EXCEPT ![c] = NewClient] /\ Done(<<>>)
               /\ UNCHANGED <<stoc, last_response>>
  BY <1>1 DEF OnJoinGame
<1>3. ASSUME NEW s \in Seats, Waited(s)' PROVE Waits(s) /\ players'[s].state = players[s].state
  <2>1. s # c /\ players'[s] = players[s] /\ clients'[s] = clients[s]
    <3>1. players \in [Seats -> PlayerRecords] /\ DOMAIN clients = Seats
      BY DEF TypeOK
    <3>2. s = c => players'[s].state = "Any"
      BY <1>2, <3>1
    <3> QED
      BY <1>2, <1>3, <3>1, <3>2 DEF Waited
  <2>2. Inner(<<>>) /\ <<>> \in Seq(Requests) /\ Nothing \in Boxes
    BY InnerRequests, Queues, NewsTyped DEF Nothing, Boxes
  <2>3. SpeaksTo(<<>>, Nothing, s)
    <3>1. ~Present(s) => stoc[s] = <<>>
      BY DEF Talking, Quiet, Still
    <3>2. stoc[s] \o <<>> = stoc[s]
      BY DEF TypeOK
    <3> QED
      BY <1>1, <1>2, <2>1, <3>1, <3>2 DEF SpeaksTo, Nothing, Present
  <2>4. Unasked(s)
    BY <2>2, <2>3, Speech DEF Talking, Nothing
  <2>5. Request # Ctos("TimeConfirm", s)
    BY <1>1 DEF Ctos
  <2> QED
    BY <1>2, <2>1, <2>4, <2>5, HearsWaits
<1> QED
  BY <1>3, WaitsConfirms

\* Clients, the timer and latecomers pass on what is under way.
LEMMA OutsideConfirms ==
  ASSUME TypeOK, TypeOK', Confirms, TimerTicks \/ StrangerJoins \/ \E s \in Seats : Client(s)
  PROVE  Confirms'
<1>1. (\A s \in Seats : Passed(s)) /\ UNCHANGED <<players, last_response>>
  BY OutsidePasses DEF duel
<1>2. "Response" \in Talks /\ "Response" \in Owable /\ "TimeConfirm" \in Talks
  BY TalkKinds
<1>3. ASSUME NEW s \in Seats PROVE Waits(s) /\ players'[s].state = players[s].state
  BY <1>1, <1>2 DEF Passed, Waits
<1> QED
  BY <1>3, WaitsConfirms

\* Every step of a room that runs afterwards.
LEMMA ConfirmsKept ==
  ASSUME TypeOK, TypeOK', Named, Talking, Talking', Confirms, Next, running'
  PROVE  Confirms'
<1>1. CASE \/ Refused \/ OnFirstShuffle \/ OnEvolveEnded \/ OnGenerateReplay \/ OnJudgeContinueMatch
           \/ OnMatchEnd \/ OnTimerTick
  BY <1>1, DropsConfirms
<1>2. CASE OnHandResult \/ OnTpResult \/ OnDuelInit \/ OnDuelStart \/ OnRecreateDuel
  BY <1>2, ClosedConfirms
<1>3. CASE OnEvolveSelect \/ OnEvolveRetry
  <2>1. Evolving /\ Done(<<>>) /\ UNCHANGED clients
    BY <1>3 DEF OnEvolveSelect, OnEvolveRetry, Steady
  <2>2. CASE \E s \in Seats : SetWaiting(s)
    BY <2>1, <2>2, QuestionConfirms
  <2>3. CASE players' = players
    <3>1. \A s \in Seats : ~Waited(s)
      BY <2>1, NobodyAsked
    <3> QED
      BY <2>3, <3>1, NobodyConfirms DEF Waited
  <2>4. (\E s \in Seats : SetWaiting(s)) \/ players' = players
    <3>1. last_response \in Seats \cup {None}
      BY DEF TypeOK
    <3> QED
      BY <1>3, <3>1 DEF OnEvolveSelect, OnEvolveRetry
  <2> QED
    BY <2>2, <2>3, <2>4
<1>4. CASE OnResponse \/ OnUpdateDeck
  BY <1>4, ClosedConfirms, DropsConfirms
<1>5. CASE OnTimeConfirm
  BY <1>5, TimeConfirms, DropsConfirms
<1>6. CASE OnSurrender \/ OnEvolveWin \/ OnTimeout
  <2>1. CASE OnSurrender /\ core.ended
    BY <2>1, DropsConfirms DEF OnSurrender
  <2> QED
    BY <1>6, <2>1, EndingsConfirms
<1>7. CASE OnDuelEnd \/ OnLeaveGame
  BY <1>7, DuelEndConfirms, LeaveConfirms
<1>8. CASE OnJoinGame
  BY <1>8, JoinConfirms, DropsConfirms
<1>9. CASE OnDuelStartPanics \/ OnTerminate
  BY <1>9 DEF OnDuelStartPanics, OnTerminate, Break
<1>10. CASE TimerTicks \/ StrangerJoins \/ \E s \in Seats : Client(s)
  BY <1>10, OutsideConfirms
<1> QED
  BY <1>1, <1>2, <1>3, <1>4, <1>5, <1>6, <1>7, <1>8, <1>9, <1>10 DEF Next, Actor

\* A prompt on the screen of a room at rest is the last one sent, and its gate is open.
LEMMA RestAnswers ==
  ASSUME TypeOK, Talking, Confirms
  PROVE  PromptAnswerable
<1> SUFFICES ASSUME AtRest, NEW s \in Seats, NEW x \in Duelling, clients[s].owes = x PROVE Allowed(s, x)
  BY DEF PromptAnswerable, Duelling
<1>1. queue = <<>> /\ stoc[s] = <<>>
  BY DEF AtRest
<1>2. Num(s, x) > 0 /\ (x = "Response" => Num(s, "TimeConfirm") = 0)
  <2>1. \A y : Sent(s, y) = 0 /\ Coming(s, y) = 0
    BY <1>1, CountShort DEF Sent, Coming
  <2>2. Owing(s, x) = 1 /\ (x = "Response" => Owing(s, "TimeConfirm") = 0)
    BY DEF Owing
  <2> QED
    BY <2>1, <2>2 DEF Num
<1>3. Lasting(s, x)
  BY <1>1, CountShort DEF Lasting
<1>4. Asked(s) /\ OpenGates
  BY DEF Talking, Talk
<1>5. CASE stage = "Finger"
  <2>1. x = "HandResult"
    BY <1>2, <1>4, <1>5 DEF Asked, InFinger, Duelling
  <2> QED
    BY <1>2, <1>4, <1>5, <2>1 DEF Asked, InFinger, Allowed
<1>6. CASE stage = "Firstgo"
  <2>1. x = "TpResult"
    BY <1>2, <1>4, <1>6 DEF Asked, InFirstgo, Duelling
  <2> QED
    BY <1>2, <1>4, <1>6, <2>1 DEF Asked, InFirstgo, Allowed
<1>7. CASE stage = "Dueling"
  <2>1. x = "Response"
    BY <1>2, <1>4, <1>7 DEF Asked, InDueling, Duelling
  <2>2. Waited(s)
    BY <1>2, <1>4, <1>7, <2>1 DEF Asked, InDueling
  <2>3. last_response = s
    BY <1>3, <2>1, <2>2 DEF Confirms
  <2>4. players[s].state # "TimeConfirm"
    <3>1. Num(s, "TimeConfirm") = 0 /\ Num(s, "Response") > 0
      BY <1>2, <2>1
    <3> QED
      BY <2>3, <3>1 DEF Confirms
  <2> QED
    BY <2>1, <2>2, <2>4 DEF Waited, Allowed
<1>8. CASE stage = "Siding"
  BY <1>3, <1>4, <1>8 DEF Asked, InSiding
<1> QED
  BY <1>5, <1>6, <1>7, <1>8 DEF TypeOK, Stages

\* The prompts are as they should be as long as there is a room.
ConfirmsWhileRunning == running => Confirms

\* Once the room has come to rest the gate lets through the answer to any prompt of the duel
\* that is on a screen, whatever was sent, refused, retried, left or timed out before.
THEOREM PromptsAlwaysAnswerable == Spec => []PromptAnswerable
<1> DEFINE Inv == TypeOK /\ Named /\ InOrderWhileRunning /\ ConfirmsWhileRunning
<1>1. Init => Inv
  <2> SUFFICES ASSUME Init PROVE Inv
    OBVIOUS
  <2>1. TypeOK /\ Named /\ Talking
    BY TypeInit, InitTalks
  <2>2. \A s \in Seats : ~Waited(s)
    BY DEF Init, Waited
  <2> QED
    BY <2>1, <2>2 DEF InOrderWhileRunning, ConfirmsWhileRunning, Confirms, Waited
<1>2. Inv /\ [Next]_vars => Inv'
  <2> SUFFICES ASSUME Inv, [Next]_vars PROVE Inv'
    OBVIOUS
  <2>1. TypeOK' /\ Named' /\ InOrderWhileRunning'
    BY TypeKept, TalkingKept
  <2>2. CASE Next
    <3>1. Talking /\ Confirms
      BY <2>2, OnlyRunning DEF InOrderWhileRunning, ConfirmsWhileRunning
    <3>2. CASE running'
      <4>1. Talking'
        BY <2>1, <3>2 DEF InOrderWhileRunning
      <4>2. Confirms'
        BY <2>1, <2>2, <3>1, <3>2, <4>1, ConfirmsKept
      <4> QED
        BY <2>1, <4>2 DEF ConfirmsWhileRunning
    <3>3. CASE ~running'
      BY <2>1, <3>3 DEF ConfirmsWhileRunning
    <3> QED
      BY <3>2, <3>3
  <2>3. CASE UNCHANGED vars
    <3>1. UNCHANGED <<running, queue, players, last_response, clients, stoc>>
      BY <2>3 DEF vars, duel, outside
    <3> QED
      BY <2>1, <3>1 DEF ConfirmsWhileRunning, Confirms, Waited, Num, Sent, Owing, Coming, Lasting, Before
  <2> QED
    BY <2>2, <2>3
<1>3. Inv => PromptAnswerable
  BY RestAnswers DEF InOrderWhileRunning, ConfirmsWhileRunning, PromptAnswerable, AtRest
<1> HIDE DEF Inv
<1> QED
  BY <1>1, <1>2, <1>3, PTL DEF Spec

-----------------------------------------------------------------------------
(* Somebody can always move.                                                *)

\* What ends a duel, and what follows from it: while one of these waits the room goes on by
\* itself.
Deciders == {"DuelEnd", "JudgeContinueMatch", "RecreateDuel", "MatchEnd", "terminate"}
Decisions == {r \in Requests : r.type \in Deciders}
Underway == Count(queue, Decisions) > 0

\* Both are seated and connected, and nobody has come late.
Here == late = 0 /\ \A s \in Seats : Present(s) /\ clients[s].online
Strangers == late = 0 => \A i \in DOMAIN queue : queue[i].type # "JoinGame"

\* The answer of s is in the mailbox, or s has or will have the prompt on its screen.
Live(s, x) == Sent(s, x) > 0 \/ Lasting(s, x)

\* In each stage the ones who are waited for know it.
Progress ==
  /\ stage = "Finger" =>
       /\ \E s \in Seats : ~players[s].hand
       /\ \A s \in Seats : ~players[s].hand => players[s].state = "HandResult" /\ Live(s, "HandResult")
  /\ stage = "Firstgo" => \E s \in Seats : players[s].state = "TpResult" /\ Live(s, "TpResult")
  /\ stage = "Dueling" => Tokens > 0 \/ \E s \in Seats : Waited(s) /\ Live(s, "Response")
  /\ stage = "Siding" =>
       /\ \E s \in Seats : ~players[s].ready
       /\ \A s \in Seats : ~players[s].ready => players[s].state = "UpdateDeck" /\ Live(s, "UpdateDeck")

\* What holds while no end is due.
Going ==
  /\ stage = "Dueling" /\ Waiting("Evolve") > 0 => core.started
  /\ core.input => last_response # None
  /\ \A s \in Seats : Waited(s) => last_response = s
  /\ Here => Progress

\* A duel that has ended has left something to do; otherwise somebody is waited for.
Alive ==
  /\ core.ended => Underway
  /\ ~Underway => Going

\* A decision that waits goes on waiting, unless it is handled; one that is queued waits.
LEMMA StaysUnderway ==
  ASSUME TypeOK, queue # <<>>, NEW more \in Seq(Requests), Done(more),
         (Request.type \notin Deciders /\ Underway) \/ \E i \in DOMAIN more : more[i].type \in Deciders
  PROVE  Underway'
<1>1. /\ Count(queue', Decisions) = Count(queue, Decisions) - Taken(Decisions) + Count(more, Decisions)
      /\ Taken(Decisions) \in 0..1
  <2>1. Count(queue', Decisions) = Count(queue, Decisions) - Taken(Decisions) + Count(more, Decisions)
    BY HandledQueue
  <2>2. Taken(Decisions) \in 0..1
    BY DEF Taken
  <2> QED
    BY <2>1, <2>2
<1>2. Count(queue, Decisions) \in Nat /\ (Request \in Decisions => Count(queue, Decisions) > 0)
  BY HeadCounted
<1>3. Count(more, Decisions) \in Nat /\ ((\E i \in DOMAIN more : more[i] \in Decisions) => Count(more, Decisions) > 0)
  BY CountTyped
<1>4. CASE Request.type \notin Deciders /\ Underway
  <2>1. Taken(Decisions) = 0 /\ Count(queue, Decisions) > 0
    BY <1>4 DEF Taken, Decisions, Underway
  <2>2. Count(more, Decisions) \in Nat
    BY <1>3
  <2>3. Count(queue', Decisions) > 0
    BY <1>1, <1>2, <2>1, <2>2
  <2> QED
    BY <2>3 DEF Underway
<1>5. CASE \E i \in DOMAIN more : more[i].type \in Deciders
  <2>1. PICK i \in DOMAIN more : more[i].type \in Deciders
    BY <1>5
  <2>2. more[i] \in Requests
    BY <2>1
  <2>3. Count(more, Decisions) > 0
    BY <1>3, <2>1, <2>2 DEF Decisions
  <2>4. Taken(Decisions) = 1 => Count(queue, Decisions) > 0
    BY <1>2 DEF Taken
  <2> QED
    BY <1>1, <1>2, <1>3, <2>3, <2>4 DEF Underway
<1> QED
  BY <1>4, <1>5

\* A handler that leaves the duel's end where it is.
LEMMA AliveGoes ==
  ASSUME TypeOK, Alive, queue # <<>>, Request.type \notin Deciders, NEW more \in Seq(Requests), Done(more),
         core'.ended = core.ended, ~Underway /\ ~core.ended /\ Going => Going'
  PROVE  Alive'
<1>1. Underway => Underway'
  BY StaysUnderway
<1> QED
  BY <1>1 DEF Alive

\* A handler that queues a decision.
LEMMA AliveEnds ==
  ASSUME TypeOK, queue # <<>>, NEW more \in Seq(Requests), Done(more),
         \E i \in DOMAIN more : more[i].type \in Deciders
  PROVE  Alive'
<1>1. Underway'
  BY StaysUnderway
<1> QED
  BY <1>1 DEF Alive

\* Whom a handler tells nothing still has, or will have, what it had.
LEMMA SilentLive ==
  ASSUME TypeOK, Quiet, NEW more \in Seq(Requests), Inner(more), NEW news \in Boxes, NEW s \in Seats,
         SpeaksTo(more, news, s), Unasked(s), NEW x \in Owable, Live(s, x), Request # Ctos(x, s)
  PROVE  Live(s, x)'
<1>1. x \in Talks /\ NoMail
  BY TalksAreCtos DEF Quiet, Still, NoMail
<1>2. Sent(s, x)' = Sent(s, x) - Taken({Ctos(x, s)}) /\ Sent(s, x) \in Nat
  BY <1>1, SpeaksNum, NumTyped
<1>3. Taken({Ctos(x, s)}) = 0
  BY DEF Taken
<1>4. Lasting(s, x)' <=> Lasting(s, x)
  BY <1>1 DEF Unasked
<1> QED
  BY <1>2, <1>3, <1>4 DEF Live

\* Whoever is waited for, for what.
Wanted(s, x) ==
  \/ x = "HandResult" /\ stage = "Finger" /\ players[s].state = x
  \/ x = "TpResult" /\ stage = "Firstgo" /\ players[s].state = x
  \/ x = "Response" /\ stage = "Dueling" /\ Waited(s)
  \/ x = "UpdateDeck" /\ stage = "Siding" /\ players[s].state = x /\ ~players[s].ready

\* A step that moves no gate and drops no answer that is waited for.
LEMMA GoingStays ==
  ASSUME TypeOK, TypeOK', Going, UNCHANGED <<stage, players, last_response>>,
         core'.started = core.started, core'.input => core.input,
         Waiting("Evolve")' <= Waiting("Evolve"), Here' => Here,
         stage = "Dueling" /\ Tokens > 0 => Tokens' > 0,
         \A s \in Seats : \A x \in Owable : Here' /\ Wanted(s, x) /\ Live(s, x) => Live(s, x)'
  PROVE  Going'
<1>1. stage' = "Dueling" /\ Waiting("Evolve")' > 0 => core'.started
  <2>1. Waiting("Evolve") \in Nat /\ Waiting("Evolve")' \in Nat
    BY WaitingTypedAll
  <2> QED
    BY <2>1 DEF Going
<1>2. core'.input => last_response' # None
  BY DEF Going
<1>3. \A s \in Seats : Waited(s)' => last_response' = s
  BY DEF Going, Waited
<1>4. ASSUME Here' PROVE Progress'
  <2>1. Progress /\ Here
    BY <1>4 DEF Going
  <2>2. \A s \in Seats, x \in {"HandResult", "TpResult", "Response", "UpdateDeck"} : Wanted(s, x) /\ Live(s, x) => Live(s, x)'
    BY <1>4, TalkKinds
  <2>3. CASE stage = "Finger"
    BY <2>1, <2>2, <2>3 DEF Progress, Wanted
  <2>4. CASE stage = "Firstgo"
    BY <2>1, <2>2, <2>4 DEF Progress, Wanted
  <2>5. CASE stage = "Dueling"
    BY <2>1, <2>2, <2>5 DEF Progress, Wanted, Waited
  <2>6. CASE stage = "Siding"
    BY <2>1, <2>2, <2>6 DEF Progress, Wanted
  <2> QED
    BY <2>3, <2>4, <2>5, <2>6 DEF TypeOK, Stages
<1> QED
  BY <1>1, <1>2, <1>3, <1>4 DEF Going

\* A step out of which the duel is not played, and nobody is asked by the engine.
LEMMA GoingElsewhere ==
  ASSUME TypeOK', Talking', stage' # "Dueling", core'.input => last_response' # None, Here' => Progress'
  PROVE  Going'
<1>1. \A s \in Seats : ~Waited(s)'
  BY DEF Talking, OneRun
<1> QED
  BY <1>1 DEF Going

\* What a client, the timer and a latecomer do to the mailbox.
LEMMA OutsideQueue ==
  ASSUME TypeOK, TimerTicks \/ StrangerJoins \/ \E s \in Seats : Client(s)
  PROVE  /\ queue' = queue \/ \E r \in Requests : queue' = Append(queue, r) /\ (r.type = "JoinGame" => late' > 0)
         /\ late' \in Nat /\ late' >= late
<1>1. late \in Nat
  BY SingleDuelAssumption DEF TypeOK
<1>2. CASE TimerTicks
  <2>1. queue' = Append(queue, Ex("timer_tick")) /\ late' = late
    BY <1>2 DEF TimerTicks, Post, outside
  <2>2. Ex("timer_tick") \in Requests /\ Ex("timer_tick").type = "timer_tick"
    BY RequestsTyped DEF ExTypes, Ex
  <2> QED
    BY <1>1, <2>1, <2>2
<1>3. CASE StrangerJoins
  <2>1. queue' = Append(queue, Ex("JoinGame")) /\ late' = late + 1
    BY <1>3 DEF StrangerJoins, Post
  <2>2. Ex("JoinGame") \in Requests
    BY RequestsTyped DEF ExTypes
  <2> QED
    BY <1>1, <2>1, <2>2
<1>4. ASSUME NEW s \in Seats, Client(s)
      PROVE  /\ queue' = queue \/ \E x \in CtosTypes : queue' = Append(queue, Ctos(x, s))
             /\ late' = late
  <2>1. clients[s].owes \in {"None", "HandResult", "TpResult", "Response", "UpdateDeck"}
    BY DEF TypeOK
  <2>2. CASE ClientReads(s)
    BY <2>2 DEF ClientReads, Post, CtosTypes
  <2>3. CASE ClientAnswers(s)
    BY <2>1, <2>3 DEF ClientAnswers, Post, CtosTypes
  <2>4. CASE ClientSurrenders(s) \/ ClientLeaves(s)
    BY <2>4 DEF ClientSurrenders, ClientLeaves, Post, CtosTypes
  <2> QED
    BY <1>4, <2>2, <2>3, <2>4 DEF Client
<1>5. \A x \in CtosTypes, s \in Seats : Ctos(x, s) \in Requests /\ Ctos(x, s).type # "JoinGame"
  BY RequestsTyped DEF Ctos, CtosTypes
<1> QED
  BY <1>1, <1>2, <1>3, <1>4, <1>5

\* Whoever stays connected still has, or will have, what it had, or has answered it.
LEMMA OutsideLive ==
  ASSUME TypeOK, TypeOK', TimerTicks \/ StrangerJoins \/ \E s \in Seats : Client(s),
         NEW s \in Seats, clients'[s].online, NEW x \in Owable, Live(s, x)
  PROVE  Live(s, x)'
<1>1. Sent(s, x) \in Nat /\ Sent(s, x)' \in Nat /\ Sent(s, x)' >= Sent(s, x)
  <2>1. Sent(s, x) \in Nat /\ Sent(s, x)' \in Nat
    BY NumTyped, NumTypedNext
  <2>2. CASE queue' = queue
    BY <2>1, <2>2 DEF Sent
  <2>3. CASE \E r \in Requests : queue' = Append(queue, r)
    <3>1. PICK r \in Requests : queue' = Append(queue, r)
      BY <2>3
    <3>2. Sent(s, x)' = Sent(s, x) + (IF r = Ctos(x, s) THEN 1 ELSE 0)
      BY <3>1, PostedSent
    <3> QED
      BY <2>1, <3>2
  <2> QED
    BY <2>1, <2>2, <2>3, OutsideQueue
<1>2. SUFFICES ASSUME Lasting(s, x), Sent(s, x)' = 0 PROVE Lasting(s, x)'
  BY <1>1 DEF Live
<1>3. CASE ClientReads(s)
  BY <1>2, <1>3, ReadPasses
<1>4. CASE ClientAnswers(s)
  BY <1>2, <1>4, AnswerPasses
<1>5. CASE ClientLeaves(s)
  <2>1. clients' = [clients EXCEPT ![s] = NoClient]
    BY <1>5 DEF ClientLeaves
  <2>2. clients'[s] = NoClient
    BY <2>1 DEF TypeOK
  <2> QED
    BY <2>2 DEF NoClient
<1>6. ASSUME clients'[s].owes = clients[s].owes, stoc'[s] = stoc[s] PROVE Lasting(s, x)'
  BY <1>2, <1>6 DEF Lasting
<1>7. CASE ClientSurrenders(s)
  <2>1. clients' = [clients EXCEPT ![s].dueling = FALSE] /\ stoc' = stoc
    BY <1>7 DEF ClientSurrenders
  <2>2. clients'[s].owes = clients[s].owes
    BY <2>1 DEF TypeOK
  <2> QED
    BY <1>6, <2>1, <2>2
<1>8. CASE TimerTicks \/ StrangerJoins
  BY <1>6, <1>8 DEF TimerTicks, StrangerJoins, outside
<1>9. ASSUME NEW c \in Seats, Client(c), c # s PROVE Lasting(s, x)'
  <2>1. clients'[s] = clients[s] /\ stoc'[s] = stoc[s]
    <3>1. DOMAIN clients = Seats /\ DOMAIN stoc = Seats
      BY DEF TypeOK
    <3>2. CASE ClientReads(c)
      BY <1>9, <3>1, <3>2 DEF ClientReads
    <3>3. CASE ClientAnswers(c) \/ ClientSurrenders(c) \/ ClientLeaves(c)
      BY <1>9, <3>1, <3>3 DEF ClientAnswers, ClientSurrenders, ClientLeaves
    <3> QED
      BY <1>9, <3>2, <3>3 DEF Client
  <2> QED
    BY <1>6, <2>1
<1> QED
  BY <1>3, <1>4, <1>5, <1>7, <1>8, <1>9 DEF Client

\* Clients, the timer and latecomers.
LEMMA OutsideAlive ==
  ASSUME TypeOK, TypeOK', Alive, TimerTicks \/ StrangerJoins \/ \E s \in Seats : Client(s)
  PROVE  Alive'
<1>1. Posted /\ UNCHANGED <<stage, players, last_response, core>>
  BY OutsidePasses DEF duel
<1>2. \A type \in Runs : Waiting(type)' = Waiting(type)
  BY <1>1 DEF Posted, Outer, CtosTypes, Runs
<1>3. Underway => Underway'
  <2> SUFFICES ASSUME Underway PROVE Underway'
    OBVIOUS
  <2>1. queue \in Seq(Requests) /\ queue' \in Seq(Requests)
    BY DEF TypeOK
  <2>2. PICK i \in DOMAIN queue : queue[i] \in Decisions
    BY <2>1, CountTyped DEF Underway
  <2>3. i \in DOMAIN queue' /\ queue'[i] = queue[i]
    <3>1. CASE queue' = queue
      BY <2>2, <3>1
    <3>2. CASE \E r \in Requests : queue' = Append(queue, r)
      BY <2>1, <2>2, <3>2
    <3> QED
      BY <3>1, <3>2, OutsideQueue
  <2> QED
    BY <2>1, <2>2, <2>3, CountTyped DEF Underway
<1>4. ASSUME Going PROVE Going'
  <2>1. Here' => Here
    <3>1. late' = 0 => late = 0
      <4>1. late \in Nat /\ late' \in Nat /\ late' >= late
        BY OutsideQueue, SingleDuelAssumption DEF TypeOK
      <4> QED
        BY <4>1
    <3>2. \A s \in Seats : clients'[s].online => clients[s].online
      <4>1. CASE TimerTicks \/ StrangerJoins
        BY <4>1 DEF TimerTicks, StrangerJoins, outside
      <4>2. ASSUME NEW s \in Seats, Client(s), NEW t \in Seats, clients'[t].online PROVE clients[t].online
        <5>1. clients[s].online
          BY <4>2 DEF Client, ClientReads, ClientAnswers, ClientSurrenders, ClientLeaves
        <5>2. t # s => clients'[t] = clients[t]
          <6>1. DOMAIN clients = Seats
            BY DEF TypeOK
          <6>2. CASE ClientReads(s)
            BY <6>1, <6>2 DEF ClientReads
          <6>3. CASE ClientAnswers(s) \/ ClientSurrenders(s) \/ ClientLeaves(s)
            BY <6>1, <6>3 DEF ClientAnswers, ClientSurrenders, ClientLeaves
          <6> QED
            BY <4>2, <6>2, <6>3 DEF Client
        <5> QED
          BY <4>2, <5>1, <5>2
      <4> QED
        BY <4>1, <4>2
    <3> QED
      BY <1>1, <3>1, <3>2 DEF Here, Present
  <2>2. Tokens' = Tokens /\ Waiting("Evolve")' <= Waiting("Evolve")
    <3>1. Waiting("Evolve") \in Nat
      BY WaitingTypedAll
    <3> QED
      BY <1>2, <3>1 DEF Tokens, Runs
  <2>3. ASSUME NEW s \in Seats, NEW x \in Owable, Here', Live(s, x) PROVE Live(s, x)'
    BY <2>3, OutsideLive DEF Here
  <2> QED
    BY <1>1, <1>4, <2>1, <2>2, <2>3, GoingStays
<1> QED
  BY <1>1, <1>3, <1>4 DEF Alive

\* No answer that is waited for is dropped: the gate that waits for the time to be confirmed
\* turns an answer away, but the confirmation is ahead of it.
LEMMA WantedKept ==
  ASSUME TypeOK, Talking, Confirms, Going, ~core.ended, queue # <<>>,
         \/ Refused \/ OnFirstShuffle \/ OnEvolveEnded \/ OnGenerateReplay \/ OnTimerTick
         \/ (OnResponse /\ core.ended) \/ OnTimeConfirm
         \/ (OnSurrender /\ core.ended) \/ (OnJoinGame /\ Missing = {})
         \/ (OnUpdateDeck /\ (players[Request.from].ready \/ duel_winner = <<>> \/ ~Present(Request.from))),
         NEW s \in Seats, NEW x \in Owable, Wanted(s, x)
  PROVE  Request # Ctos(x, s)
<1> SUFFICES ASSUME Request = Ctos(x, s) PROVE FALSE
  OBVIOUS
<1>1. Request.type = x /\ Request.from = s
  BY DEF Ctos
<1>2. x \in {"HandResult", "TpResult", "Response", "UpdateDeck"}
  BY DEF Wanted
<1>3. Refused \/ (x = "UpdateDeck" /\ (players[s].ready \/ duel_winner = <<>> \/ ~Present(s)))
  BY <1>1, <1>2 DEF OnFirstShuffle, OnEvolveEnded, OnGenerateReplay, OnTimerTick, OnResponse, OnTimeConfirm,
                    OnSurrender, OnJoinGame, OnUpdateDeck, ReceiveFrom, Receive
<1>4. Sent(s, x) > 0 /\ Num(s, x) > 0
  <2>1. Sent(s, x) \in Nat /\ Owing(s, x) \in 0..1 /\ Coming(s, x) \in Nat
    BY NumTyped
  <2>2. Sent(s, x) > 0
    BY HeadCounted DEF Sent
  <2> QED
    BY <2>1, <2>2 DEF Num
<1>5. CASE x = "Response"
  <2>1. players[s].state = "TimeConfirm"
    BY <1>1, <1>3, <1>5 DEF Refused, Allowed, Wanted, Waited
  <2>2. last_response = s
    BY <1>5 DEF Going, Wanted
  <2>3. Num(s, "TimeConfirm") > 0 /\ ~Before(s, "Response", "TimeConfirm")
    BY <1>4, <1>5, <2>1, <2>2 DEF Confirms
  <2>4. Num(s, "TimeConfirm") = 0
    BY <1>5, <2>3, HeadFirst
  <2> QED
    BY <2>3, <2>4
<1>6. CASE x # "Response"
  <2>1. players[s].state = x
    BY <1>6 DEF Wanted
  <2>2. ~Refused
    BY <1>1, <2>1 DEF Refused, Allowed
  <2>3. x = "UpdateDeck" /\ ~players[s].ready
    BY <1>3, <2>2 DEF Wanted
  <2>4. Present(s)
    <3>1. Still(s) /\ EmptySlot.state = "None"
      BY DEF Talking, Quiet, EmptySlot
    <3> QED
      BY <2>1, <2>3, <3>1 DEF Still
  <2>5. duel_winner # <<>>
    <3>1. Decks(s) + Waiting("RecreateDuel") + Waiting("JudgeContinueMatch") <= Len(duel_winner)
      BY DEF Talking, Rounds
    <3>2. Decks(s) = Num(s, "UpdateDeck")
      <4>1. Decks(s) = Num(s, "UpdateDeck") + 0 /\ Num(s, "UpdateDeck") \in Nat
        BY <2>3, NumTyped DEF Decks
      <4> QED
        BY <4>1
    <3>3. Waiting("RecreateDuel") \in Nat /\ Waiting("JudgeContinueMatch") \in Nat /\ Num(s, "UpdateDeck") \in Nat
          /\ Num(s, "UpdateDeck") > 0
      BY <1>4, <2>3, WaitingTypedAll, NumTyped
    <3>4. Len(<<>>) = 0
      OBVIOUS
    <3> QED
      BY <3>1, <3>2, <3>3, <3>4
  <2> QED
    BY <1>3, <2>2, <2>3, <2>4, <2>5
<1> QED
  BY <1>5, <1>6

\* Handlers that change nothing but the mailbox.
LEMMA DropsAlive ==
  ASSUME TypeOK, TypeOK', Talking, Confirms, Alive,
         \/ Refused \/ OnFirstShuffle \/ OnEvolveEnded \/ OnGenerateReplay \/ OnTimerTick
         \/ (OnResponse /\ core.ended)
         \/ (OnTimeConfirm /\ (~Timed \/ last_response # Request.from \/ ~Present(Request.from)))
         \/ (OnSurrender /\ core.ended) \/ (OnJoinGame /\ Missing = {})
         \/ (OnUpdateDeck /\ (players[Request.from].ready \/ duel_winner = <<>> \/ ~Present(Request.from)))
  PROVE  Alive'
<1>1. queue # <<>>
  BY DEF Refused, OnFirstShuffle, OnEvolveEnded, OnGenerateReplay, OnTimerTick, OnResponse, OnTimeConfirm,
         OnSurrender, OnUpdateDeck, OnJoinGame, ReceiveFrom, Receive
<1>2. Chain(<<>>) \/ \E s \in Seats : Chain(<<[type |-> "Timeout", player |-> s]>>)
  <2>1. CASE OnTimerTick
    BY <2>1 DEF OnTimerTick, Ignored, TypeOK
  <2>2. CASE ~OnTimerTick
    BY <2>2 DEF Refused, OnFirstShuffle, OnEvolveEnded, OnGenerateReplay, OnResponse, OnTimeConfirm, OnSurrender,
                OnJoinGame, OnUpdateDeck, Ignored, Chain
  <2> QED
    BY <2>1, <2>2
<1>3. PICK more \in Seq(Requests) : /\ Inner(more) /\ Chain(more)
                                    /\ \/ more = <<>>
                                       \/ \E r \in Requests : more = <<r>> /\ r.type = "Timeout"
  <2>1. CASE Chain(<<>>)
    BY <2>1, Queues, InnerRequests
  <2>2. ASSUME NEW s \in Seats, Chain(<<[type |-> "Timeout", player |-> s]>>)
        PROVE  \E m \in Seq(Requests) : Inner(m) /\ Chain(m) /\ \E r \in Requests : m = <<r>> /\ r.type = "Timeout"
    <3>1. PICK r \in Requests : r = [type |-> "Timeout", player |-> s]
      BY RequestsTyped
    <3>2. r.type = "Timeout" /\ r.type \notin CtosTypes
      BY <3>1 DEF CtosTypes
    <3> QED
      BY <2>2, <3>1, <3>2, Queues, InnerRequests
  <2> QED
    BY <1>2, <2>1, <2>2
<1>4. Done(more) /\ UNCHANGED <<stage, players, last_response, core, clients, stoc, late>>
  BY <1>3 DEF Chain, duel, outside
<1>5. Request.type \notin Deciders /\ (Request.type \in Runs => OnEvolveEnded /\ Request.type = "Evolve")
  <2>1. CASE Refused
    <3>1. Request.type \in CtosTypes
      BY <1>1, <2>1, RequestTyped, RequestFields DEF Refused
    <3> QED
      BY <3>1 DEF CtosTypes, Deciders, Runs
  <2>2. CASE ~Refused
    BY <2>2 DEF OnFirstShuffle, OnEvolveEnded, OnGenerateReplay, OnTimerTick, OnResponse, OnTimeConfirm,
                OnSurrender, OnUpdateDeck, OnJoinGame, ReceiveFrom, Receive, Deciders, Runs
  <2> QED
    BY <2>1, <2>2
<1>6. ASSUME ~Underway, ~core.ended, Going PROVE Going'
  <2>1. Plain /\ (Request.type \notin Runs => Tokens' = Tokens)
    BY <1>1, <1>3, <1>4, PlainDone DEF Runs
  <2>2. stage = "Dueling" => Request.type \notin Runs
    <3> SUFFICES ASSUME stage = "Dueling", Request.type \in Runs PROVE FALSE
      OBVIOUS
    <3>1. Request.type = "Evolve" /\ ~core.started
      BY <1>5, <1>6 DEF OnEvolveEnded
    <3>2. Gone("Evolve") = 1 /\ Gone("Evolve") <= Waiting("Evolve") /\ Waiting("Evolve") \in Nat
      BY <1>1, <3>1, WaitingHead DEF Gone
    <3> QED
      BY <1>6, <3>1, <3>2 DEF Going
  <2>3. Waiting("Evolve")' <= Waiting("Evolve")
    BY <2>1 DEF Plain, Runs
  <2>4. ASSUME NEW s \in Seats, NEW x \in Owable, Wanted(s, x), Live(s, x) PROVE Live(s, x)'
    <3>1. Request # Ctos(x, s)
      BY <1>1, <1>6, <2>4, WantedKept
    <3>2. SpeaksTo(more, Nothing, s) /\ Nothing \in Boxes /\ Unasked(s)
      BY <1>1, <1>3, <1>4, TellsNobody DEF Talking
    <3> QED
      BY <1>3, <2>4, <3>1, <3>2, SilentLive DEF Talking
  <2>5. Here' => Here
    BY <1>4 DEF Here, Present
  <2> QED
    BY <1>4, <1>6, <2>1, <2>2, <2>3, <2>4, <2>5, GoingStays
<1> QED
  BY <1>1, <1>4, <1>5, <1>6, AliveGoes

\* A handler that queues a decision, and nothing else or something before it.
LEMMA QueuesEnd ==
  ASSUME TypeOK, queue # <<>>, NEW r \in Requests, r.type \in Deciders,
         Done(<<r>>) \/ \E q \in Requests : Done(<<q, r>>)
  PROVE  Alive'
<1>1. CASE Done(<<r>>)
  <2>1. <<r>> \in Seq(Requests) /\ 1 \in DOMAIN <<r>> /\ <<r>>[1] = r
    BY Queues
  <2> QED
    BY <1>1, <2>1, AliveEnds
<1>2. ASSUME NEW q \in Requests, Done(<<q, r>>) PROVE Alive'
  <2>1. <<q, r>> \in Seq(Requests) /\ 2 \in DOMAIN <<q, r>> /\ <<q, r>>[2] = r
    BY Queues
  <2> QED
    BY <1>2, <2>1, AliveEnds
<1> QED
  BY <1>1, <1>2

\* The end of a duel, and what follows from it.
LEMMA EndsAlive ==
  ASSUME TypeOK, TypeOK', Talking, TerminateWhenMatchEnd, running',
         \/ OnEvolveWin \/ (OnSurrender /\ ~core.ended) \/ OnTimeout \/ (OnLeaveGame /\ ~core.ended)
         \/ OnDuelEnd \/ OnJudgeContinueMatch \/ OnMatchEnd
  PROVE  Alive'
<1>1. ASSUME NEW w \in Seats \cup {None}, queue # <<>>, Done(<<DuelEnd(w)>>) PROVE Alive'
  <2>1. DuelEnd(w) \in Requests /\ DuelEnd(w).type \in Deciders
    BY RequestsTyped DEF DuelEnd, Deciders
  <2> QED
    BY <1>1, <2>1, QueuesEnd
<1>2. ASSUME NEW s \in Seats PROVE ToCore(Other(s)) \in Seats \cup {None}
  BY SeatsTyped
<1>3. CASE OnEvolveWin
  BY <1>1, <1>3 DEF OnEvolveWin, Evolving, Receive
<1>4. CASE OnSurrender /\ ~core.ended
  <2>1. queue # <<>> /\ Request.type = "Surrender" /\ Done(<<DuelEnd(ToCore(Other(Request.from)))>>)
    BY <1>4 DEF OnSurrender, ReceiveFrom, Receive
  <2>2. Request.from \in Seats
    BY <2>1, RequestTyped, RequestFields DEF CtosTypes
  <2> QED
    BY <1>1, <1>2, <2>1, <2>2
<1>5. CASE OnTimeout
  <2>1. queue # <<>> /\ Request.type = "Timeout" /\ Done(<<DuelEnd(ToCore(Other(Request.player)))>>)
    BY <1>5 DEF OnTimeout, Receive
  <2>2. Request.player \in Seats
    BY <2>1, RequestTyped, RequestFields
  <2> QED
    BY <1>1, <1>2, <2>1, <2>2
<1>6. CASE OnLeaveGame /\ ~core.ended
  <2>1. queue # <<>> /\ Request.type = "LeaveGame" /\ Done(<<DuelEnd(ToCore(Other(Request.from)))>>)
    BY <1>6 DEF OnLeaveGame, ReceiveFrom, Receive, Break
  <2>2. Request.from \in Seats
    BY <2>1, RequestTyped, RequestFields DEF CtosTypes
  <2> QED
    BY <1>1, <1>2, <2>1, <2>2
<1>7. \A x \in {"GenerateReplay", "JudgeContinueMatch", "MatchEnd", "RecreateDuel", "terminate"} :
         Ex(x) \in Requests /\ Ex(x).type = x
  BY RequestsTyped DEF ExTypes, Ex
<1>8. CASE OnDuelEnd
  <2>1. queue # <<>> /\ Done(<<Ex("GenerateReplay"), Ex("JudgeContinueMatch")>>)
    BY <1>8 DEF OnDuelEnd, Receive
  <2> QED
    BY <1>7, <2>1, QueuesEnd DEF Deciders
<1>9. CASE OnJudgeContinueMatch
  <2>1. queue # <<>> /\ (Done(<<Ex("MatchEnd")>>) \/ Done(<<Ex("RecreateDuel")>>))
    BY <1>9 DEF OnJudgeContinueMatch, Receive, Chain
  <2>2. CASE Done(<<Ex("MatchEnd")>>)
    BY <1>7, <2>1, <2>2, QueuesEnd DEF Deciders
  <2>3. CASE Done(<<Ex("RecreateDuel")>>)
    BY <1>7, <2>1, <2>3, QueuesEnd DEF Deciders
  <2> QED
    BY <2>1, <2>2, <2>3
<1>10. CASE OnMatchEnd
  <2>1. queue # <<>> /\ Done(<<Ex("terminate")>>)
    BY <1>10 DEF OnMatchEnd, Receive, Chain
  <2> QED
    BY <1>7, <2>1, QueuesEnd DEF Deciders
<1> QED
  BY <1>3, <1>4, <1>5, <1>6, <1>8, <1>9, <1>10

\* Whoever leaves a duel that is over leaves what follows from it.
LEMMA LateLeaveAlive ==
  ASSUME TypeOK, Alive, OnLeaveGame, core.ended, running'
  PROVE  Alive'
<1>1. queue # <<>> /\ Request.type = "LeaveGame" /\ Done(<<>>) /\ <<>> \in Seq(Requests)
  BY Queues DEF OnLeaveGame, ReceiveFrom, Receive, Break
<1>2. Underway /\ Request.type \notin Deciders
  BY <1>1 DEF Alive, Deciders
<1>3. Underway'
  BY <1>1, <1>2, StaysUnderway
<1> QED
  BY <1>3 DEF Alive

\* The next duel: both are asked for a deck.
LEMMA RecreateAlive ==
  ASSUME TypeOK, TypeOK', Talking, Talking', OnRecreateDuel
  PROVE  Alive'
<1>1. /\ queue # <<>> /\ Request.type = "RecreateDuel" /\ Done(<<>>) /\ Inner(<<>>) /\ <<>> \in Seq(Requests)
      /\ UNCHANGED <<clients, last_response>> /\ stage' = "Siding" /\ core' = NewCore
      /\ Send(ToAll("ChangeSide")) /\ "ChangeSide" \in StocMessages
  BY InnerRequests, Queues DEF OnRecreateDuel, Receive, Steady, StocMessages
<1>2. ~core'.ended /\ ~core'.input
  BY <1>1 DEF NewCore
<1>3. ASSUME NEW s \in Seats, Here'
      PROVE  ~players'[s].ready /\ players'[s].state = "UpdateDeck" /\ Live(s, "UpdateDeck")'
  <2>1. players'[s] = ToSide(players[s]) /\ players[s] \in PlayerRecords
    BY DEF OnRecreateDuel, TypeOK
  <2>2. players'[s].here = players[s].here /\ players'[s].here
    BY <1>3, <2>1 DEF ToSide, PlayerRecords, Here, Present
  <2>3. ~players'[s].ready /\ players'[s].state = "UpdateDeck"
    BY <2>1, <2>2 DEF ToSide, PlayerRecords
  <2>4. Told(s, "ChangeSide")
    BY <1>1, <2>2, ToldAll DEF Talking, Present
  <2>5. Lasting(s, "UpdateDeck")'
    BY <2>4, TalkKinds DEF Told, Asks
  <2> QED
    BY <2>3, <2>5 DEF Live
<1>4. Here' => Progress'
  BY <1>1, <1>3 DEF Progress, Seats
<1>5. Going'
  BY <1>1, <1>2, <1>4, GoingElsewhere
<1> QED
  BY <1>2, <1>5 DEF Alive

\* Whoever finds an empty seat has come late.
LEMMA JoinAlive ==
  ASSUME TypeOK, TypeOK', Talking, Strangers, Alive, OnJoinGame, Missing # {}
  PROVE  Alive'
<1>1. queue # <<>> /\ Request.type = "JoinGame"
  BY DEF OnJoinGame, Receive
<1>2. PICK c : /\ players' = [players EXCEPT ![c] = [here |-> TRUE, ready |-> FALSE, state |-> "Any", hand |-> FALSE]]
               /\ Done(<<>>) /\ UNCHANGED <<stage, core, last_response, late>>
  BY DEF OnJoinGame
<1>3. late # 0
  BY <1>1, RequestTyped DEF Strangers
<1>4. \A s \in Seats : Waited(s)' => Waited(s)
  <2>1. players \in [Seats -> PlayerRecords]
    BY DEF TypeOK
  <2> QED
    BY <1>2, <2>1 DEF Waited
<1>5. Waiting("Evolve")' <= Waiting("Evolve") /\ Waiting("Evolve") \in Nat /\ Waiting("Evolve")' \in Nat
  <2>1. Plain
    BY <1>1, <1>2, PlainDone
  <2> QED
    BY <2>1, WaitingTypedAll DEF Plain, Runs
<1>6. ASSUME Going PROVE Going'
  <2>1. stage' = "Dueling" /\ Waiting("Evolve")' > 0 => core'.started
    <3>1. Waiting("Evolve")' > 0 => Waiting("Evolve") > 0
      BY <1>5
    <3> QED
      BY <1>2, <1>6, <3>1 DEF Going
  <2>2. core'.input => last_response' # None
    BY <1>2, <1>6 DEF Going
  <2>3. \A s \in Seats : Waited(s)' => last_response' = s
    BY <1>2, <1>4, <1>6 DEF Going
  <2>4. ~Here'
    BY <1>2, <1>3 DEF Here
  <2> QED
    BY <2>1, <2>2, <2>3, <2>4 DEF Going
<1>7. Request.type \notin Deciders /\ <<>> \in Seq(Requests)
  BY <1>1, Queues DEF Deciders
<1> QED
  BY <1>1, <1>2, <1>6, <1>7, AliveGoes

-----------------------------------------------------------------------------
(* Those who are waited for know it.                                        *)

\* Who attacks first is chosen, and the duel is set up.
LEMMA TpAlive ==
  ASSUME TypeOK, TypeOK', Talking, Alive, OnTpResult
  PROVE  Alive'
<1> DEFINE r == Ex("FirstShuffle")
           q == Ex("DuelInit")
<1>1. /\ Done(<<r, q>>) /\ stage' = "Dueling" /\ UNCHANGED <<players, last_response, core>>
      /\ r \in Requests /\ q \in Requests /\ r.type = "FirstShuffle" /\ q.type = "DuelInit"
  BY RequestsTyped DEF OnTpResult, ExTypes, Ex, Steady
<1> HIDE DEF r, q
<1>2. /\ queue # <<>> /\ Request.type = "TpResult" /\ \A type \in Runs : Waiting(type) = 0
  BY TpDue
<1>3. \A type : Waiting(type)' = Waiting(type) - Gone(type) + Adds(r, type) + Adds(q, type)
  BY <1>1, <1>2, AfterTwo
<1>4. Waiting("Evolve")' = 0 /\ Waiting("DuelInit")' = 1
  <2>1. Waiting("Evolve") = 0 /\ Waiting("DuelInit") = 0
    BY <1>2 DEF Runs
  <2>2. /\ Gone("Evolve") = 0 /\ Adds(r, "Evolve") = 0 /\ Adds(q, "Evolve") = 0
        /\ Gone("DuelInit") = 0 /\ Adds(r, "DuelInit") = 0 /\ Adds(q, "DuelInit") = 1
    BY <1>1, <1>2 DEF Gone, Adds
  <2>3. /\ Waiting("Evolve")' = Waiting("Evolve") - Gone("Evolve") + Adds(r, "Evolve") + Adds(q, "Evolve")
        /\ Waiting("DuelInit")' = Waiting("DuelInit") - Gone("DuelInit") + Adds(r, "DuelInit") + Adds(q, "DuelInit")
    BY <1>3
  <2> QED
    BY <2>1, <2>2, <2>3
<1>5. Tokens' > 0
  <2>1. Waiting("DuelStart")' \in Nat
    BY WaitingTypedAll
  <2> QED
    BY <1>4, <2>1 DEF Tokens
<1>6. ASSUME Going PROVE Going'
  <2>1. ~(Waiting("Evolve")' > 0)
    BY <1>4
  <2>2. Progress'
    BY <1>1, <1>5 DEF Progress
  <2> QED
    BY <1>1, <1>6, <2>1, <2>2 DEF Going, Waited
<1>7. Request.type \notin Deciders /\ <<r, q>> \in Seq(Requests)
  BY <1>1, <1>2, Queues DEF Deciders
<1> QED
  BY <1>1, <1>2, <1>6, <1>7, AliveGoes

\* The decks are loaded: the chain goes on.
LEMMA InitAlive ==
  ASSUME TypeOK, TypeOK', Talking, Alive, OnDuelInit
  PROVE  Alive'
<1> DEFINE r == Ex("DuelStart")
<1>1. /\ queue # <<>> /\ Request.type = "DuelInit" /\ Done(<<r>>) /\ r \in Requests /\ r.type = "DuelStart"
      /\ UNCHANGED <<stage, players, last_response, clients, stoc, late>>
  BY RequestsTyped DEF OnDuelInit, Receive, ExTypes, Ex, Steady
<1>2. core'.ended = core.ended /\ core'.started = core.started /\ core'.input = core.input
  <2>1. core' = [core EXCEPT !.loaded = Loaded, !.first = FirstAttacker] /\ core \in CoreRecords
    BY TypeFolded DEF OnDuelInit, Typed
  <2> QED
    BY <2>1 DEF CoreRecords
<1> HIDE DEF r
<1>3. /\ Tokens' = Tokens /\ Inner(<<r>>) /\ <<r>> \in Seq(Requests)
      /\ \A type \in Runs : Waiting(type)' = Waiting(type) - Gone(type) + Adds(r, type)
  BY <1>1, HandsOn DEF Runs
<1>4. Waiting("Evolve")' <= Waiting("Evolve")
  <2>1. Gone("Evolve") = 0 /\ Adds(r, "Evolve") = 0 /\ Waiting("Evolve") \in Nat
    BY <1>1, WaitingTypedAll DEF Gone, Adds
  <2>2. Waiting("Evolve")' = Waiting("Evolve") - Gone("Evolve") + Adds(r, "Evolve")
    BY <1>3 DEF Runs
  <2> QED
    BY <2>1, <2>2
<1>5. ASSUME NEW s \in Seats, NEW x \in Owable, Live(s, x) PROVE Live(s, x)'
  <2>1. SpeaksTo(<<r>>, Nothing, s) /\ Nothing \in Boxes /\ Unasked(s)
    BY <1>1, <1>3, TellsNobody DEF Talking
  <2>2. Request # Ctos(x, s)
    BY <1>1, TalkKinds DEF Ctos
  <2> QED
    BY <1>3, <1>5, <2>1, <2>2, SilentLive DEF Talking
<1>6. ASSUME Going PROVE Going'
  <2>1. Here' => Here
    BY <1>1 DEF Here, Present
  <2> QED
    BY <1>1, <1>2, <1>3, <1>4, <1>5, <1>6, <2>1, GoingStays
<1>7. Request.type \notin Deciders
  BY <1>1 DEF Deciders
<1> QED
  BY <1>1, <1>2, <1>3, <1>6, <1>7, AliveGoes

\* The duel starts: the engine is about to run.
LEMMA StartAlive ==
  ASSUME TypeOK, TypeOK', Talking, Alive, OnDuelStart
  PROVE  Alive'
<1> DEFINE r == Ex("Evolve")
<1>1. /\ queue # <<>> /\ Request.type = "DuelStart" /\ Done(<<r>>) /\ r \in Requests /\ r.type = "Evolve"
      /\ UNCHANGED <<stage, players, last_response>> /\ first_attack_player # None
  BY RequestsTyped DEF OnDuelStart, Receive, ExTypes, Ex, Steady
<1>2. core'.ended = core.ended /\ core'.input = core.input /\ core'.started = ~core.ended
  <2>1. core' = [core EXCEPT !.started = ~core.ended] /\ core \in CoreRecords
    BY TypeFolded DEF OnDuelStart, Typed
  <2> QED
    BY <2>1 DEF CoreRecords
<1> HIDE DEF r
<1>3. Tokens' = Tokens /\ Tokens > 0 /\ <<r>> \in Seq(Requests)
  BY <1>1, HandsOn DEF Runs
<1>4. stage = "Dueling"
  BY <1>1 DEF Talking, OpenGates
<1>5. ASSUME ~core.ended, Going PROVE Going'
  <2>1. Progress'
    BY <1>1, <1>3, <1>4 DEF Progress
  <2> QED
    BY <1>1, <1>2, <1>5, <2>1 DEF Going, Waited
<1>6. Request.type \notin Deciders
  BY <1>1 DEF Deciders
<1> QED
  BY <1>1, <1>2, <1>3, <1>5, <1>6, AliveGoes

\* The engine asks somebody, who has the question in front of him sooner or later.
LEMMA QuestionAlive ==
  ASSUME TypeOK, TypeOK', Talking, Evolving, Done(<<>>), NEW s \in Seats, SetWaiting(s),
         UNCHANGED <<clients, stage, late>>, core'.started = core.started, ~core'.input
  PROVE  Going'
<1> DEFINE b == IF Timed THEN <<"TimeLimit", "Select">> ELSE <<"Select">>
<1>1. /\ queue # <<>> /\ Request.type = "Evolve" /\ stage = "Dueling"
      /\ \A t \in Seats : ~Waited(t)
  BY NobodyAsked
<1>2. Inner(<<>>) /\ <<>> \in Seq(Requests) /\ core.started
  BY InnerRequests, Queues DEF Evolving
<1>3. b \in Seq(StocMessages) /\ Send(ToOne(s, b)) /\ last_response' = s
  <2>1. <<"TimeLimit", "Select">> \in Seq(StocMessages) /\ <<"Select">> \in Seq(StocMessages)
    BY DEF StocMessages
  <2> QED
    BY <2>1 DEF SetWaiting
<1>4. ASSUME NEW t \in Seats
      PROVE  /\ players'[t].here = players[t].here
             /\ t # s => players'[t] = players[t]
             /\ t = s /\ Present(s) => Waited(t)'
  <2>1. players' = IF Present(s)
                   THEN [players EXCEPT ![s].state = IF Timed THEN "TimeConfirm" ELSE "Response"]
                   ELSE players
    BY DEF SetWaiting
  <2>2. players \in [Seats -> PlayerRecords]
    BY DEF TypeOK
  <2> QED
    BY <2>1, <2>2 DEF PlayerRecords, Waited
<1> HIDE DEF b
<1>5. \A t \in Seats : Waited(t)' => last_response' = t
  BY <1>1, <1>3, <1>4 DEF Waited
<1>6. ASSUME Here' PROVE Waited(s)' /\ Live(s, "Response")'
  <2>1. Present(s) /\ Waited(s)'
    BY <1>4, <1>6 DEF Here, Present
  <2>2. "Select" \in StocMessages /\ b = IF Timed THEN <<"TimeLimit", "Select">> ELSE <<"Select">>
    BY DEF StocMessages, b
  <2>3. /\ \A m \in StocMessages : b = <<m>> => Told(s, m)
        /\ b = <<"TimeLimit", "Select">> => Pressed(s)
    BY <1>1, <1>2, <1>3, <1>4, <2>1, TellsOne DEF Talking
  <2>4. Pressed(s) \/ Told(s, "Select")
    BY <2>2, <2>3
  <2>5. Lasting(s, "Response")'
    BY <2>4, TalkKinds DEF Pressed, Told, Asks
  <2> QED
    BY <2>1, <2>5 DEF Live
<1>7. Here' => Progress'
  BY <1>1, <1>6 DEF Progress
<1> QED
  BY <1>2, <1>5, <1>7 DEF Going

\* Whether it asks anew or once more: there is somebody whom it asked before.
LEMMA EvolveAlive ==
  ASSUME TypeOK, TypeOK', Talking, Alive, OnEvolveSelect \/ OnEvolveRetry
  PROVE  Alive'
<1>1. /\ Evolving /\ Done(<<>>) /\ core \in CoreRecords /\ UNCHANGED <<clients, stage, late>>
  BY TypeFolded DEF OnEvolveSelect, OnEvolveRetry, Steady, Typed
<1>2. core'.started = core.started /\ core'.ended = core.ended /\ ~core'.input
  BY <1>1 DEF OnEvolveSelect, OnEvolveRetry, CoreRecords
<1>3. ASSUME Going PROVE \E s \in Seats : SetWaiting(s)
  <2>1. CASE OnEvolveSelect
    BY <2>1 DEF OnEvolveSelect
  <2>2. CASE OnEvolveRetry
    <3>1. last_response # None /\ last_response \in Seats
      BY <1>3, <2>2 DEF OnEvolveRetry, Going, TypeOK
    <3> QED
      BY <2>2, <3>1 DEF OnEvolveRetry
  <2> QED
    BY <2>1, <2>2
<1>4. ASSUME Going PROVE Going'
  BY <1>1, <1>2, <1>3, <1>4, QuestionAlive
<1>5. queue # <<>> /\ Request.type \notin Deciders /\ <<>> \in Seq(Requests)
  BY <1>1, Queues DEF Evolving, Receive, Deciders
<1> QED
  BY <1>1, <1>2, <1>4, <1>5, AliveGoes

\* An answer sets the engine going.
LEMMA ResponseAlive ==
  ASSUME TypeOK, TypeOK', Talking, Alive, OnResponse, ~core.ended
  PROVE  Alive'
<1> DEFINE r == Ex("Evolve")
<1>1. ReceiveFrom("Response")
  BY DEF OnResponse
<1>2. PICK f \in Seats : f = Request.from
  BY <1>1, AnswerSent
<1>3. /\ queue # <<>> /\ Request.type = "Response" /\ Present(f) /\ players[f].state = "Response"
      /\ stage = "Dueling" /\ core.started /\ Tokens = 0 /\ \A s \in Seats : Waited(s) => s = f
  BY <1>1, <1>2, AnswerSent
<1>4. /\ Done(<<r>>) /\ r \in Requests /\ r.type = "Evolve" /\ UNCHANGED <<stage, last_response>>
  BY RequestsTyped DEF OnResponse, ExTypes, Ex, Steady
<1>5. core'.started = core.started /\ core'.ended = core.ended
  <2>1. core' = [core EXCEPT !.input = TRUE] /\ core \in CoreRecords
    BY TypeFolded DEF OnResponse, Typed
  <2> QED
    BY <2>1 DEF CoreRecords
<1> HIDE DEF r
<1>6. Tokens' > 0 /\ <<r>> \in Seq(Requests)
  <2>1. Request.type \notin Runs \cup {"RecreateDuel", "JudgeContinueMatch"} /\ r.type \in Runs
    BY <1>3, <1>4 DEF Runs
  <2>2. <<r>> \in Seq(Requests) /\ Tokens' = Tokens + 1
    BY <1>3, <1>4, <2>1, StartsOn
  <2> QED
    BY <1>3, <2>2
<1>7. \A s \in Seats : ~Waited(s)'
  <2>1. players' = [players EXCEPT ![f].state = "None"] /\ players \in [Seats -> PlayerRecords]
    BY <1>2, <1>3 DEF OnResponse, Closed, TypeOK
  <2> QED
    BY <1>3, <2>1 DEF PlayerRecords, Waited
<1>8. ASSUME Going PROVE Going'
  <2>1. last_response' # None
    <3>1. last_response = f /\ None \notin Seats
      BY <1>3, <1>8, SingleDuelAssumption DEF Going, Waited, Seats
    <3> QED
      BY <1>4, <3>1
  <2>2. Progress'
    BY <1>3, <1>4, <1>6 DEF Progress
  <2> QED
    BY <1>3, <1>5, <1>7, <2>1, <2>2 DEF Going
<1>9. Request.type \notin Deciders
  BY <1>3 DEF Deciders
<1> QED
  BY <1>3, <1>4, <1>5, <1>6, <1>8, <1>9, AliveGoes

\* The time is confirmed, the question is still there.
LEMMA ConfirmAlive ==
  ASSUME TypeOK, TypeOK', Talking, Alive, OnTimeConfirm, ~(~Timed \/ last_response # Request.from \/ ~Present(Request.from))
  PROVE  Alive'
<1>1. ReceiveFrom("TimeConfirm")
  BY DEF OnTimeConfirm
<1>2. PICK f \in Seats : f = Request.from
  BY <1>1, AnswerSent
<1>3. /\ queue # <<>> /\ Request.type = "TimeConfirm" /\ players[f].state = "TimeConfirm"
      /\ stage = "Dueling" /\ core.started /\ Tokens = 0 /\ \A s \in Seats : Waited(s) => s = f
  BY <1>1, <1>2, AnswerSent
<1>4. /\ Done(<<>>) /\ players' = [players EXCEPT ![f].state = "Response"]
      /\ UNCHANGED <<clients, stoc, late, stage, last_response, core>>
  BY <1>2 DEF OnTimeConfirm, Steady
<1>5. ASSUME NEW s \in Seats
      PROVE  /\ players'[s].here = players[s].here
             /\ Waited(s)' <=> Waited(s)
  <2>1. players \in [Seats -> PlayerRecords]
    BY DEF TypeOK
  <2> QED
    BY <1>3, <1>4, <2>1 DEF PlayerRecords, Waited
<1>6. Inner(<<>>) /\ <<>> \in Seq(Requests)
  BY InnerRequests, Queues
<1>7. ASSUME Live(f, "Response") PROVE Live(f, "Response")'
  <2>1. SpeaksTo(<<>>, Nothing, f) /\ Nothing \in Boxes /\ Unasked(f)
    BY <1>3, <1>4, <1>5, <1>6, TellsNobody DEF Talking
  <2>2. Request # Ctos("Response", f) /\ "Response" \in Owable
    BY <1>3, TalkKinds DEF Ctos
  <2> QED
    BY <1>6, <1>7, <2>1, <2>2, SilentLive DEF Talking
<1>8. ASSUME Going PROVE Going'
  <2>1. Here' => Here
    BY <1>4, <1>5 DEF Here, Present
  <2>2. Here' => Progress'
    <3>1. ASSUME Here' PROVE Waited(f)' /\ Live(f, "Response")'
      <4>1. \E s \in Seats : Waited(s) /\ Live(s, "Response")
        BY <1>3, <1>8, <2>1, <3>1 DEF Going, Progress
      <4> QED
        BY <1>3, <1>5, <1>7, <4>1
    <3> QED
      BY <1>3, <1>4, <3>1 DEF Progress
  <2> QED
    BY <1>3, <1>4, <1>5, <1>8, <2>2 DEF Going
<1>9. Request.type \notin Deciders
  BY <1>3 DEF Deciders
<1> QED
  BY <1>3, <1>4, <1>6, <1>8, <1>9, AliveGoes

\* Whoever has been told something of the kind x has it in front of him sooner or later.
LEMMA ToldLive ==
  ASSUME NEW s \in Seats, NEW m, NEW x \in Talks, Told(s, m), Asks(m) = x
  PROVE  Live(s, x)'
BY DEF Told, Live

\* Hands: whoever has not thrown has been asked, and whoever has won the throw is.
LEMMA HandAlive ==
  ASSUME TypeOK, TypeOK', Talking, Talking', Alive, OnHandResult
  PROVE  Alive'
<1> DEFINE shown == [players EXCEPT ![Request.from].hand = Present(Request.from)]
<1>1. /\ ReceiveFrom("HandResult") /\ Done(<<>>) /\ UNCHANGED <<clients, late, last_response, core>>
      /\ \/ /\ \E s \in Seats : ~shown[s].hand
            /\ players' = shown /\ UNCHANGED <<stage, stoc>>
         \/ /\ players' = [s \in Seats |-> [shown[s] EXCEPT !.hand = FALSE, !.state = "HandResult"]]
            /\ Send(ToAll("SelectHand")) /\ stage' = stage
         \/ \E w \in Seats : /\ players' = Deciding(shown, w)
                             /\ stage' = "Firstgo" /\ Send(ToOne(w, <<"SelectTp">>))
  BY DEF OnHandResult, Steady
<1>2. /\ stage = "Finger" /\ Inner(<<>>) /\ <<>> \in Seq(Requests) /\ queue # <<>>
      /\ Request.from \in Seats /\ Present(Request.from) /\ Request = Ctos("HandResult", Request.from)
  BY <1>1, HandThrown
<1>a. Request.type \notin Deciders
  BY <1>2 DEF Ctos, Deciders
<1>3. PICK f \in Seats : f = Request.from
  BY <1>2
<1>4. shown \in [Seats -> PlayerRecords] /\ players \in [Seats -> PlayerRecords]
  BY <1>2, SlotUpdates DEF TypeOK, PlayerRecords, Present
<1>5. \A s \in Seats : /\ shown[s].here = players[s].here
                       /\ s # f => shown[s] = players[s]
                       /\ s = f => shown[s].hand
  BY <1>2, <1>3, <1>4 DEF PlayerRecords
<1> HIDE DEF shown
<1>6. "SelectHand" \in StocMessages /\ "SelectTp" \in StocMessages /\ Asks("SelectHand") = "HandResult"
      /\ Asks("SelectTp") = "TpResult" /\ "HandResult" \in Talks /\ "TpResult" \in Talks /\ "HandResult" \in Owable
      /\ <<"SelectTp">> \in Seq(StocMessages)
  BY TalkKinds DEF StocMessages, Asks
<1>7. CASE (\E s \in Seats : ~shown[s].hand) /\ players' = shown /\ UNCHANGED <<stage, stoc>>
  <2>1. ASSUME Going, Here' PROVE Progress'
    <3>1. Progress
      BY <1>1, <1>5, <1>7, <2>1 DEF Going, Here, Present
    <3>2. ASSUME NEW s \in Seats, ~players'[s].hand
          PROVE  players'[s].state = "HandResult" /\ Live(s, "HandResult")'
      <4>1. s # f /\ players'[s] = players[s]
        BY <1>5, <1>7, <3>2
      <4>2. players[s].state = "HandResult" /\ Live(s, "HandResult")
        BY <1>2, <3>1, <3>2, <4>1 DEF Progress
      <4>3. SpeaksTo(<<>>, Nothing, s) /\ Nothing \in Boxes /\ Unasked(s)
        BY <1>1, <1>2, <1>7, <4>1, TellsNobody DEF Talking
      <4>4. Request # Ctos("HandResult", s)
        BY <1>3, <4>1 DEF Ctos
      <4> QED
        BY <1>2, <1>6, <4>1, <4>2, <4>3, <4>4, SilentLive DEF Talking
    <3> QED
      BY <1>2, <1>7, <3>2 DEF Progress
  <2>4. stage' # "Dueling" /\ core'.ended = core.ended
    BY <1>1, <1>2, <1>7
  <2>5. ASSUME Going PROVE Going'
    BY <1>1, <2>1, <2>4, <2>5, GoingElsewhere DEF Going
  <2> QED
    BY <1>1, <1>2, <1>a, <2>4, <2>5, AliveGoes
<1>8. CASE /\ players' = [s \in Seats |-> [shown[s] EXCEPT !.hand = FALSE, !.state = "HandResult"]]
           /\ Send(ToAll("SelectHand")) /\ stage' = stage
  <2>1. ASSUME NEW s \in Seats
        PROVE  players'[s].here = players[s].here /\ ~players'[s].hand /\ players'[s].state = "HandResult"
    <3>1. players'[s] = [shown[s] EXCEPT !.hand = FALSE, !.state = "HandResult"] /\ shown[s] \in PlayerRecords
      BY <1>4, <1>8
    <3> QED
      BY <1>5, <3>1 DEF PlayerRecords
  <2>2. ASSUME Here', NEW s \in Seats PROVE Live(s, "HandResult")'
    <3>1. Present(s)
      BY <2>1, <2>2 DEF Here, Present
    <3>2. Told(s, "SelectHand")
      BY <1>1, <1>2, <1>6, <1>8, <2>1, <3>1, ToldAll DEF Talking
    <3> QED
      BY <1>6, <3>2, ToldLive
  <2>3. Here' => Progress'
    BY <1>2, <1>8, <2>1, <2>2 DEF Progress, Seats
  <2>4. stage' # "Dueling" /\ core'.ended = core.ended
    BY <1>1, <1>2, <1>8
  <2>5. ASSUME Going PROVE Going'
    BY <1>1, <2>3, <2>4, <2>5, GoingElsewhere DEF Going
  <2> QED
    BY <1>1, <1>2, <1>a, <2>4, <2>5, AliveGoes
<1>9. ASSUME NEW w \in Seats, players' = Deciding(shown, w), stage' = "Firstgo", Send(ToOne(w, <<"SelectTp">>))
      PROVE  Alive'
  <2>1. ASSUME NEW s \in Seats
        PROVE  /\ players'[s].here = players[s].here
               /\ Present(s) /\ s = w => players'[s].state = "TpResult"
    <3>1. players'[s] = IF shown[s].here THEN [shown[s] EXCEPT !.state = IF s = w THEN "TpResult" ELSE "None"] ELSE shown[s]
      BY <1>9 DEF Deciding
    <3>2. shown[s] \in PlayerRecords
      BY <1>4
    <3> QED
      BY <1>5, <3>1, <3>2 DEF PlayerRecords, Present
  <2>2. ASSUME Here' PROVE players'[w].state = "TpResult" /\ Live(w, "TpResult")'
    <3>1. Present(w)
      BY <2>1, <2>2 DEF Here, Present
    <3>2. Told(w, "SelectTp")
      BY <1>1, <1>2, <1>6, <1>9, <2>1, <3>1, TellsOne DEF Talking
    <3> QED
      BY <1>6, <2>1, <3>1, <3>2, ToldLive
  <2>3. Here' => Progress'
    BY <1>9, <2>2 DEF Progress
  <2>4. stage' # "Dueling" /\ core'.ended = core.ended
    BY <1>1, <1>2, <1>9
  <2>5. ASSUME Going PROVE Going'
    BY <1>1, <2>3, <2>4, <2>5, GoingElsewhere DEF Going
  <2> QED
    BY <1>1, <1>2, <1>a, <2>4, <2>5, AliveGoes
<1> QED
  BY <1>1, <1>7, <1>8, <1>9

\* Decks: whoever has not handed in one that fits has been asked, and so is who decides next.
LEMMA UpdateAlive ==
  ASSUME TypeOK, TypeOK', Talking, Talking', Alive, OnUpdateDeck,
         ~(players[Request.from].ready \/ duel_winner = <<>> \/ ~Present(Request.from))
  PROVE  Alive'
<1> DEFINE sided == [players EXCEPT ![Request.from].ready = TRUE]
           d == IF first_attack_decider = None THEN 0 ELSE first_attack_decider
<1>1. /\ ReceiveFrom("UpdateDeck") /\ Done(<<>>) /\ UNCHANGED <<clients, late, last_response, core>>
      /\ \/ UNCHANGED <<stage, players>> /\ Send(ToOne(Request.from, <<"SideError">>))
         \/ /\ \E t \in Seats : ~sided[t].ready
            /\ players' = sided
            /\ UNCHANGED <<stage, stoc>>
         \/ /\ players' = Deciding(sided, d)
            /\ stage' = "Firstgo"
            /\ Send(ToOne(d, <<"SelectTp">>))
  BY DEF OnUpdateDeck, Steady
<1>2. /\ queue # <<>> /\ Request.type = "UpdateDeck" /\ Request.from \in Seats
      /\ Request = Ctos("UpdateDeck", Request.from) /\ Present(Request.from)
      /\ players[Request.from].state = "UpdateDeck" /\ stage = "Siding"
  BY <1>1, DeckSent
<1>3. PICK f \in Seats : f = Request.from
  BY <1>2
<1>4. sided \in [Seats -> PlayerRecords] /\ players \in [Seats -> PlayerRecords] /\ d \in Seats
  <2>1. players \in [Seats -> PlayerRecords] /\ first_attack_decider \in {None} \cup Seats
    BY DEF TypeOK
  <2>2. [players[Request.from] EXCEPT !.ready = TRUE] \in PlayerRecords
    BY <1>2, <2>1 DEF PlayerRecords
  <2>3. d \in Seats
    BY <2>1 DEF Seats
  <2>4. sided = [players EXCEPT ![Request.from] = [players[Request.from] EXCEPT !.ready = TRUE]]
    OBVIOUS
  <2> HIDE DEF sided, d
  <2> QED
    BY <1>2, <2>1, <2>2, <2>3, <2>4
<1>5. \A s \in Seats : /\ sided[s].here = players[s].here
                       /\ s # f => sided[s] = players[s]
                       /\ s = f => sided[s].ready
  BY <1>2, <1>3, <1>4 DEF PlayerRecords
<1> HIDE DEF sided, d
<1>6. "SideError" \in StocMessages /\ "SelectTp" \in StocMessages /\ Asks("SideError") = "UpdateDeck"
      /\ Asks("SelectTp") = "TpResult" /\ "UpdateDeck" \in Talks /\ "TpResult" \in Talks /\ "UpdateDeck" \in Owable
      /\ <<"SelectTp">> \in Seq(StocMessages) /\ <<"SideError">> \in Seq(StocMessages)
  BY TalkKinds DEF StocMessages, Asks
<1>7. Inner(<<>>) /\ <<>> \in Seq(Requests) /\ Request.type \notin Deciders
  BY <1>2, InnerRequests, Queues DEF Deciders
<1>8. ASSUME Going, Here, NEW s \in Seats, s # f, ~players[s].ready, NEW more \in Seq(Requests), Inner(more),
             NEW news \in Boxes, SpeaksTo(more, news, s), Unasked(s)
      PROVE  players[s].state = "UpdateDeck" /\ Live(s, "UpdateDeck")'
  <2>1. players[s].state = "UpdateDeck" /\ Live(s, "UpdateDeck")
    BY <1>2, <1>8 DEF Going, Progress
  <2>2. Request # Ctos("UpdateDeck", s)
    BY <1>3, <1>8 DEF Ctos
  <2> QED
    BY <1>6, <1>8, <2>1, <2>2, SilentLive DEF Talking
<1>9. CASE UNCHANGED <<stage, players>> /\ Send(ToOne(f, <<"SideError">>))
  <2>1. ASSUME Going, Here' PROVE Progress'
    <3>1. Here
      BY <1>1, <1>9, <2>1 DEF Here, Present
    <3>2. ASSUME NEW s \in Seats, ~players[s].ready
          PROVE  players[s].state = "UpdateDeck" /\ Live(s, "UpdateDeck")'
      <4>1. /\ SpeaksTo(<<>>, ToOne(f, <<"SideError">>), s) /\ ToOne(f, <<"SideError">>) \in Boxes
            /\ s # f => Unasked(s)
            /\ s = f => Told(s, "SideError")
        BY <1>1, <1>2, <1>3, <1>6, <1>7, <1>9, TellsOne DEF Talking
      <4>2. CASE s = f
        BY <1>2, <1>3, <1>6, <4>1, <4>2, ToldLive
      <4>3. CASE s # f
        BY <1>7, <1>8, <2>1, <3>1, <3>2, <4>1, <4>3
      <4> QED
        BY <4>2, <4>3
    <3>3. ~players[f].ready
      BY <1>3
    <3> QED
      BY <1>2, <1>9, <3>2, <3>3 DEF Progress
  <2>2. stage' # "Dueling"
    BY <1>2, <1>9
  <2>3. ASSUME Going PROVE Going'
    BY <1>1, <2>1, <2>2, <2>3, GoingElsewhere DEF Going
  <2> QED
    BY <1>1, <1>2, <1>7, <2>3, AliveGoes
<1>10. CASE (\E t \in Seats : ~sided[t].ready) /\ players' = sided /\ UNCHANGED <<stage, stoc>>
  <2>1. ASSUME Going, Here' PROVE Progress'
    <3>1. Here
      BY <1>1, <1>5, <1>10, <2>1 DEF Here, Present
    <3>2. ASSUME NEW s \in Seats, ~players'[s].ready
          PROVE  players'[s].state = "UpdateDeck" /\ Live(s, "UpdateDeck")'
      <4>1. s # f /\ players'[s] = players[s]
        BY <1>5, <1>10, <3>2
      <4>2. SpeaksTo(<<>>, Nothing, s) /\ Nothing \in Boxes /\ Unasked(s)
        BY <1>1, <1>2, <1>7, <1>10, <4>1, TellsNobody DEF Talking
      <4> QED
        BY <1>7, <1>8, <2>1, <3>1, <3>2, <4>1, <4>2
    <3> QED
      BY <1>2, <1>10, <3>2 DEF Progress
  <2>2. stage' # "Dueling"
    BY <1>2, <1>10
  <2>3. ASSUME Going PROVE Going'
    BY <1>1, <2>1, <2>2, <2>3, GoingElsewhere DEF Going
  <2> QED
    BY <1>1, <1>2, <1>7, <2>3, AliveGoes
<1>11. CASE players' = Deciding(sided, d) /\ stage' = "Firstgo" /\ Send(ToOne(d, <<"SelectTp">>))
  <2>e. PICK e \in Seats : e = d
    BY <1>4
  <2>1. ASSUME NEW s \in Seats
        PROVE  /\ players'[s].here = players[s].here
               /\ Present(s) /\ s = e => players'[s].state = "TpResult"
    <3>1. players'[s] = IF sided[s].here THEN [sided[s] EXCEPT !.state = IF s = e THEN "TpResult" ELSE "None"] ELSE sided[s]
      BY <1>11, <2>e DEF Deciding
    <3>2. sided[s] \in PlayerRecords
      BY <1>4
    <3> QED
      BY <1>5, <3>1, <3>2 DEF PlayerRecords, Present
  <2>2. ASSUME Here' PROVE players'[e].state = "TpResult" /\ Live(e, "TpResult")'
    <3>1. Present(e)
      BY <1>4, <2>1, <2>2 DEF Here, Present
    <3>2. Told(e, "SelectTp")
      BY <1>1, <1>2, <1>6, <1>7, <1>11, <2>e, <2>1, <3>1, TellsOne DEF Talking
    <3> QED
      BY <1>6, <2>1, <3>1, <3>2, ToldLive
  <2>3. Here' => Progress'
    BY <1>11, <2>2 DEF Progress
  <2>4. ASSUME Going PROVE Going'
    BY <1>1, <1>11, <2>3, <2>4, GoingElsewhere DEF Going
  <2> QED
    BY <1>1, <1>2, <1>7, <2>4, AliveGoes
<1> QED
  BY <1>1, <1>3, <1>9, <1>10, <1>11

\* What the room queues, a latecomer's arrival is not among it.
LEMMA NoStrangerQueued ==
  ASSUME TypeOK, Actor, running'
  PROVE  /\ queue # <<>> /\ late' = late
         /\ \E more \in Seq(Requests) : Done(more) /\ \A i \in DOMAIN more : more[i].type # "JoinGame"
<1> DEFINE Fine(m) == m \in Seq(Requests) /\ \A i \in DOMAIN m : m[i].type # "JoinGame"
<1>1. Fine(<<>>)
  BY Queues
<1>2. ASSUME NEW r \in Requests, r.type # "JoinGame" PROVE Fine(<<r>>)
  BY <1>2, Queues
<1>3. ASSUME NEW r \in Requests, NEW q \in Requests, r.type # "JoinGame", q.type # "JoinGame" PROVE Fine(<<r, q>>)
  BY <1>3, Queues
<1>4. ASSUME NEW x \in ExTypes \ {"JoinGame"} PROVE Ex(x) \in Requests /\ Ex(x).type # "JoinGame"
  BY RequestsTyped DEF Ex
<1>5. ASSUME NEW w \in Seats \cup {None} PROVE Fine(<<DuelEnd(w)>>)
  BY <1>2, RequestsTyped DEF DuelEnd
<1>6. ASSUME NEW s \in Seats PROVE Fine(<<[type |-> "Timeout", player |-> s]>>)
  <2>1. PICK r \in Requests : r = [type |-> "Timeout", player |-> s]
    BY RequestsTyped
  <2> QED
    BY <1>2, <2>1
<1>7. ASSUME NEW x \in ExTypes \ {"JoinGame"} PROVE Fine(<<Ex(x)>>)
  BY <1>2, <1>4
<1>8. Fine(<<Ex("FirstShuffle"), Ex("DuelInit")>>) /\ Fine(<<Ex("GenerateReplay"), Ex("JudgeContinueMatch")>>)
  BY <1>3, <1>4 DEF ExTypes
<1> HIDE DEF Fine
<1>9. ASSUME NEW s \in Seats PROVE ToCore(Other(s)) \in Seats \cup {None}
  BY SeatsTyped
<1>10. queue # <<>> /\ late' = late
  BY DEF Actor, Refused, OnHandResult, OnTpResult, OnFirstShuffle, OnDuelInit, OnDuelStartPanics, OnDuelStart,
         OnEvolveEnded, OnEvolveSelect, OnEvolveRetry, OnEvolveWin, OnResponse, OnTimeConfirm, OnSurrender,
         OnLeaveGame, OnDuelEnd, OnGenerateReplay, OnJudgeContinueMatch, OnMatchEnd, OnTerminate, OnRecreateDuel,
         OnUpdateDeck, OnJoinGame, OnTimerTick, OnTimeout, Evolving, ReceiveFrom, Receive, Ignored, Chain, Break,
         Steady, outside
<1> SUFFICES \E more : Fine(more) /\ Done(more)
  BY <1>10 DEF Fine
<1>11. CASE \/ Refused \/ OnHandResult \/ OnFirstShuffle \/ OnEvolveEnded \/ OnEvolveSelect \/ OnEvolveRetry
            \/ OnTimeConfirm \/ OnGenerateReplay \/ OnRecreateDuel \/ OnUpdateDeck \/ OnJoinGame
  <2>1. Done(<<>>)
    BY <1>11 DEF Refused, OnHandResult, OnFirstShuffle, OnEvolveEnded, OnEvolveSelect, OnEvolveRetry, OnTimeConfirm,
                 OnGenerateReplay, OnRecreateDuel, OnUpdateDeck, OnJoinGame, Ignored, Chain
  <2> QED
    BY <1>1, <2>1
<1>12. CASE OnTpResult \/ OnDuelInit \/ OnDuelStart \/ OnDuelEnd \/ OnJudgeContinueMatch
  <2>1. \/ Done(<<Ex("FirstShuffle"), Ex("DuelInit")>>) \/ Done(<<Ex("GenerateReplay"), Ex("JudgeContinueMatch")>>)
        \/ \E x \in {"DuelStart", "Evolve", "MatchEnd", "RecreateDuel"} : Done(<<Ex(x)>>)
    BY <1>12 DEF OnTpResult, OnDuelInit, OnDuelStart, OnDuelEnd, OnJudgeContinueMatch, Chain
  <2>2. {"DuelStart", "Evolve", "MatchEnd", "RecreateDuel"} \subseteq ExTypes \ {"JoinGame"}
    BY DEF ExTypes
  <2> QED
    BY <1>7, <1>8, <2>1, <2>2
<1>13. CASE OnMatchEnd \/ OnResponse
  <2>1. Done(<<>>) \/ Done(<<Ex("terminate")>>) \/ Done(<<Ex("Evolve")>>)
    BY <1>13 DEF OnMatchEnd, OnResponse, Ignored, Chain
  <2>2. {"terminate", "Evolve"} \subseteq ExTypes \ {"JoinGame"}
    BY DEF ExTypes
  <2> QED
    BY <1>1, <1>7, <2>1, <2>2
<1>14. CASE OnEvolveWin
  BY <1>5, <1>14 DEF OnEvolveWin
<1>15. CASE OnSurrender \/ OnLeaveGame
  <2>1. /\ Request.type \in {"Surrender", "LeaveGame"}
        /\ Done(<<>>) \/ Done(<<DuelEnd(ToCore(Other(Request.from)))>>)
    BY <1>15 DEF OnSurrender, OnLeaveGame, ReceiveFrom, Receive, Ignored, Chain, Break
  <2>2. Request.from \in Seats
    BY <1>10, <2>1, RequestTyped, RequestFields DEF CtosTypes
  <2> QED
    BY <1>1, <1>5, <1>9, <2>1, <2>2
<1>16. CASE OnTimeout
  <2>1. Request.type = "Timeout" /\ Done(<<DuelEnd(ToCore(Other(Request.player)))>>)
    BY <1>16 DEF OnTimeout, Receive
  <2>2. Request.player \in Seats
    BY <1>10, <2>1, RequestTyped, RequestFields
  <2> QED
    BY <1>5, <1>9, <2>1, <2>2
<1>17. CASE OnTimerTick
  <2>1. Done(<<>>) \/ (last_response \in Seats /\ Done(<<[type |-> "Timeout", player |-> last_response]>>))
    BY <1>17 DEF OnTimerTick, Ignored, Chain, TypeOK
  <2> QED
    BY <1>1, <1>6, <2>1
<1>18. CASE OnDuelStartPanics \/ OnTerminate
  BY <1>18 DEF OnDuelStartPanics, OnTerminate, Break
<1> QED
  BY <1>11, <1>12, <1>13, <1>14, <1>15, <1>16, <1>17, <1>18 DEF Actor

\* As long as nobody has come late no arrival is in the mailbox.
LEMMA StrangersKept ==
  ASSUME TypeOK, Strangers, Next, running'
  PROVE  Strangers'
<1>0. queue \in Seq(Requests)
  BY DEF TypeOK
<1>1. CASE Actor
  <2>1. queue # <<>> /\ late' = late
    BY <1>1, NoStrangerQueued
  <2>2. PICK more \in Seq(Requests) : Done(more) /\ \A i \in DOMAIN more : more[i].type # "JoinGame"
    BY <1>1, NoStrangerQueued
  <2>3. \A i \in DOMAIN queue' :
          \/ i + 1 \in DOMAIN queue /\ queue'[i] = queue[i + 1]
          \/ \E k \in DOMAIN more : queue'[i] = more[k]
    BY <2>1, <2>2, AfterDone
  <2> QED
    BY <2>1, <2>2, <2>3 DEF Strangers
<1>2. CASE TimerTicks \/ StrangerJoins \/ \E s \in Seats : Client(s)
  <2>1. /\ queue' = queue \/ \E r \in Requests : queue' = Append(queue, r) /\ (r.type = "JoinGame" => late' > 0)
        /\ late \in Nat /\ late' \in Nat /\ late' >= late
    BY <1>2, OutsideQueue, SingleDuelAssumption DEF TypeOK
  <2>2. late' = 0 => late = 0 /\ ~(late' > 0)
    BY <2>1
  <2>3. CASE queue' = queue
    BY <2>2, <2>3 DEF Strangers
  <2>4. ASSUME NEW r \in Requests, queue' = Append(queue, r), r.type = "JoinGame" => late' > 0
        PROVE  Strangers'
    <3>1. \A i \in DOMAIN queue' : (i \in DOMAIN queue /\ queue'[i] = queue[i]) \/ queue'[i] = r
      BY <1>0, <2>4
    <3> QED
      BY <2>2, <2>4, <3>1 DEF Strangers
  <2> QED
    BY <2>1, <2>3, <2>4
<1> QED
  BY <1>1, <1>2 DEF Next

\* Every step of a room that runs afterwards.
LEMMA AliveKept ==
  ASSUME TypeOK, TypeOK', Talking, Talking', Confirms, Strangers, TerminateWhenMatchEnd, Alive, Next, running'
  PROVE  Alive'
<1>1. CASE Refused \/ OnFirstShuffle \/ OnEvolveEnded \/ OnGenerateReplay \/ OnTimerTick
  BY <1>1, DropsAlive
<1>2. CASE OnTpResult \/ OnDuelInit \/ OnDuelStart
  BY <1>2, TpAlive, InitAlive, StartAlive
<1>3. CASE OnEvolveSelect \/ OnEvolveRetry
  BY <1>3, EvolveAlive
<1>4. CASE OnResponse \/ OnTimeConfirm
  BY <1>4, ResponseAlive, ConfirmAlive, DropsAlive
<1>5. CASE OnHandResult \/ OnUpdateDeck
  BY <1>5, HandAlive, UpdateAlive, DropsAlive
<1>6. CASE OnEvolveWin \/ OnSurrender \/ OnTimeout \/ OnDuelEnd \/ OnJudgeContinueMatch \/ OnMatchEnd
  BY <1>6, EndsAlive, DropsAlive
<1>7. CASE OnLeaveGame
  BY <1>7, EndsAlive, LateLeaveAlive
<1>8. CASE OnRecreateDuel \/ OnJoinGame
  BY <1>8, RecreateAlive, JoinAlive, DropsAlive
<1>9. CASE OnDuelStartPanics \/ OnTerminate
  BY <1>9 DEF OnDuelStartPanics, OnTerminate, Break
<1>10. CASE TimerTicks \/ StrangerJoins \/ \E s \in Seats : Client(s)
  BY <1>10, OutsideAlive
<1> QED
  BY <1>1, <1>2, <1>3, <1>4, <1>5, <1>6, <1>7, <1>8, <1>9, <1>10 DEF Next, Actor

\* At rest whoever is waited for has the prompt on his screen, and his gate is open.
LEMMA RestMoves ==
  ASSUME TypeOK, Talking, Confirms, TerminateWhenMatchEnd => Alive
  PROVE  SomebodyCanMove
<1> SUFFICES ASSUME AtRest, Missing = {}, late = 0, Alive
             PROVE  \E s \in Seats : clients[s].owes # "None" /\ Allowed(s, clients[s].owes)
  BY DEF SomebodyCanMove
<1>1. queue = <<>> /\ \A s \in Seats : stoc[s] = <<>>
  BY DEF AtRest
<1>2. \A S : Count(queue, S) = 0
  BY <1>1, CountShort
<1>3. Going
  <2>1. Count(queue, Decisions) = 0
    BY <1>2
  <2> QED
    BY <2>1 DEF Alive, Underway
<1>4. Tokens = 0 /\ \A s \in Seats, x \in Owable : Live(s, x) => clients[s].owes = x
  <2>1. \A x : Waiting(x) = 0
    BY <1>2 DEF Waiting
  <2>2. Tokens = 0
    BY <2>1 DEF Tokens
  <2>3. ASSUME NEW s \in Seats, NEW x \in Owable, Live(s, x) PROVE clients[s].owes = x
    <3>1. Sent(s, x) = 0
      BY <1>2 DEF Sent
    <3>2. ~Lasts(stoc[s], Prompts(x), Spoils(x))
      BY <1>1, ShortSequences
    <3> QED
      BY <2>3, <3>1, <3>2 DEF Live, Lasting
  <2> QED
    BY <2>2, <2>3
<1>5. Here
  <2>1. ASSUME NEW s \in Seats PROVE Present(s) /\ clients[s].online
    <3>1. Present(s)
      BY DEF Missing
    <3>2. Sent(s, "LeaveGame") = 0
      BY <1>2 DEF Sent
    <3> QED
      BY <3>1, <3>2 DEF Talking, Quiet, Still
  <2> QED
    BY <2>1 DEF Here
<1>6. Progress
  BY <1>3, <1>5 DEF Going
<1>7. ASSUME NEW s \in Seats, NEW x \in Owable, Live(s, x), players[s].state = x
      PROVE  clients[s].owes # "None" /\ Allowed(s, clients[s].owes)
  <2>1. clients[s].owes = x /\ x # "None"
    BY <1>4, <1>7, TalkKinds
  <2> QED
    BY <1>7, <2>1 DEF Allowed
<1>8. CASE stage = "Finger"
  BY <1>6, <1>7, <1>8, TalkKinds DEF Progress
<1>9. CASE stage = "Firstgo"
  BY <1>6, <1>7, <1>9, TalkKinds DEF Progress
<1>10. CASE stage = "Siding"
  BY <1>6, <1>7, <1>10, TalkKinds DEF Progress
<1>11. CASE stage = "Dueling"
  <2>1. PICK s \in Seats : Waited(s) /\ Live(s, "Response")
    BY <1>4, <1>6, <1>11 DEF Progress
  <2>2. clients[s].owes = "Response"
    BY <1>4, <2>1, TalkKinds
  <2>3. Allowed(s, clients[s].owes)
    <3>1. PromptAnswerable
      BY RestAnswers
    <3> QED
      BY <2>2, <3>1 DEF PromptAnswerable
  <2> QED
    BY <2>2, <2>3
<1> QED
  BY <1>8, <1>9, <1>10, <1>11 DEF TypeOK, Stages

\* Somebody is waited for as long as there is a room that ends with its match.
AliveWhileRunning == running => Strangers /\ (TerminateWhenMatchEnd => Alive)

\* The two players and the room never wait for one another: in siding somebody has a deck to
\* hand in, and at rest, with both seated, one of them has a prompt on his screen whose answer
\* the gate lets through.
THEOREM NobodyEverWaitsInVain == Spec => []NobodyWaitsInVain
<1> DEFINE Inv == /\ TypeOK /\ Named /\ Emptied /\ SidingWaits
                  /\ InOrderWhileRunning /\ ConfirmsWhileRunning /\ AliveWhileRunning
<1>1. Init => Inv
  <2> SUFFICES ASSUME Init PROVE Inv
    OBVIOUS
  <2>1. TypeOK /\ Named /\ Talking
    BY TypeInit, InitTalks
  <2>2. \A s \in Seats : ~Waited(s) /\ Present(s) /\ ~players[s].hand /\ players[s].state = "HandResult"
    BY DEF Init, Waited, Present
  <2>3. Emptied /\ SidingWaits /\ Strangers
    BY <2>2 DEF Init, Emptied, SidingWaits, Strangers
  <2>4. \A s \in Seats : Live(s, "HandResult")
    <3>1. "HandResult" \in Talks /\ "SelectHand" \in StocMessages /\ Asks("SelectHand") = "HandResult"
      BY TalkKinds DEF StocMessages, Asks
    <3>2. Lasts(<<"SelectHand">>, Prompts("HandResult"), Spoils("HandResult"))
      BY <3>1, WhatIsSaid
    <3> QED
      BY <3>2 DEF Init, Live, Lasting
  <2>5. Going
    <3>1. stage = "Finger" /\ ~core.input
      BY DEF Init, NewCore
    <3>2. Progress
      BY <2>2, <2>4, <3>1 DEF Progress, Seats
    <3> QED
      BY <2>2, <3>1, <3>2 DEF Going
  <2>6. ~core.ended
    BY DEF Init, NewCore
  <2> QED
    BY <2>1, <2>2, <2>3, <2>5, <2>6
       DEF InOrderWhileRunning, ConfirmsWhileRunning, AliveWhileRunning, Confirms, Waited, Alive
<1>2. Inv /\ [Next]_vars => Inv'
  <2> SUFFICES ASSUME Inv, [Next]_vars PROVE Inv'
    OBVIOUS
  <2>1. TypeOK' /\ Named' /\ Emptied' /\ SidingWaits' /\ InOrderWhileRunning'
    BY TypeKept, TalkingKept, SidingKept
  <2>2. CASE Next
    <3>1. Talking /\ Confirms /\ Strangers /\ (TerminateWhenMatchEnd => Alive)
      BY <2>2, OnlyRunning DEF InOrderWhileRunning, ConfirmsWhileRunning, AliveWhileRunning
    <3>2. CASE running'
      <4>1. Talking'
        BY <2>1, <3>2 DEF InOrderWhileRunning
      <4>2. Confirms'
        BY <2>1, <2>2, <3>1, <3>2, <4>1, ConfirmsKept
      <4>3. Strangers'
        BY <2>2, <3>1, <3>2, StrangersKept
      <4>4. TerminateWhenMatchEnd => Alive'
        BY <2>1, <2>2, <3>1, <3>2, <4>1, AliveKept
      <4> QED
        BY <2>1, <4>2, <4>3, <4>4 DEF ConfirmsWhileRunning, AliveWhileRunning
    <3>3. CASE ~running'
      BY <2>1, <3>3 DEF ConfirmsWhileRunning, AliveWhileRunning
    <3> QED
      BY <3>2, <3>3
  <2>3. CASE UNCHANGED vars
    <3>1. UNCHANGED <<running, queue, stage, players, last_response, core, clients, stoc, late>>
      BY <2>3 DEF vars, duel, outside
    <3>2. ConfirmsWhileRunning'
      BY <3>1 DEF ConfirmsWhileRunning, Confirms, Waited, Num, Sent, Owing, Coming, Lasting, Before
    <3>3. Strangers' <=> Strangers
      BY <3>1 DEF Strangers
    <3>4. Alive' <=> Alive
      BY <3>1 DEF Alive, Underway, Going, Here, Progress, Live, Waited, Present, Sent, Lasting, Waiting, Tokens
    <3> QED
      BY <2>1, <3>1, <3>2, <3>3, <3>4 DEF AliveWhileRunning
  <2> QED
    BY <2>2, <2>3
<1>3. Inv => NobodyWaitsInVain
  <2> SUFFICES ASSUME Inv PROVE NobodyWaitsInVain
    OBVIOUS
  <2>1. SidingWaits
    OBVIOUS
  <2>2. CASE running
    <3>1. SomebodyCanMove
      BY <2>2, RestMoves DEF InOrderWhileRunning, ConfirmsWhileRunning, AliveWhileRunning
    <3> QED
      BY <2>1, <3>1 DEF NobodyWaitsInVain
  <2>3. CASE ~running
    BY <2>1, <2>3 DEF NobodyWaitsInVain, SomebodyCanMove, AtRest
  <2> QED
    BY <2>2, <2>3
<1> HIDE DEF Inv
<1> QED
  BY <1>1, <1>2, <1>3, PTL DEF Spec

-----------------------------------------------------------------------------
(* Numbers as bytes.                                                        *)
Octet == {k \in Nat : k < Byte}
Word == {k \in Nat : k < Byte * Byte}

LEMMA Ranges ==
  /\ \A k \in Word : k \in Nat /\ k < 65536
  /\ \A k \in Octet : k % Byte = k
  /\ \A k \in Nat : k <= 255 => k \in Octet
  /\ \A m \in 0..8 : \A k \in 0..m : k \in Word /\ k \in Nat /\ ~(k > m)
<1>1. \A k \in Word : k \in Nat /\ k < 65536
  BY SMT DEF Word, Byte
<1>2. \A k \in Octet : k % Byte = k
  BY SMT DEF Octet, Byte
<1>3. \A k \in Nat : k <= 255 => k \in Octet
  BY SMT DEF Octet, Byte
<1>4. ASSUME NEW m \in 0..8, NEW k \in 0..m PROVE k \in Word /\ k \in Nat /\ ~(k > m)
  <2>1. k \in Nat /\ k <= m /\ m <= 8
    BY ONLY <1>4
  <2> QED
    BY ONLY <2>1, SMT DEF Word, Byte
<1> QED
  BY <1>1, <1>2, <1>3, <1>4

\* A word is its two bytes, the low one first.
LEMMA WordBytes ==
  ASSUME NEW n \in Word
  PROVE  /\ n % Byte \in Octet /\ n \div Byte \in Octet
         /\ (n % Byte) + Byte * (n \div Byte) = n
         /\ U16(n) = <<n % Byte, n \div Byte>> /\ U16(n) \in Seq(Octet) /\ Len(U16(n)) = 2
<1>1. /\ n % Byte \in Octet /\ n \div Byte \in Octet
      /\ (n % Byte) + Byte * (n \div Byte) = n
  BY SMTT(30) DEF Octet, Word, Byte
<1>2. U16(n) = <<n % Byte, n \div Byte>>
  BY DEF U16
<1>3. \A a, b \in Octet : <<a, b>> \in Seq(Octet) /\ Len(<<a, b>>) = 2
  OBVIOUS
<1> QED
  BY <1>1, <1>2, <1>3

\* The words of a list, one behind the other.
LEMMA WordsGrow ==
  /\ Words(<<>>) = <<>>
  /\ \A ns \in Seq(Word) : Words(ns) \in Seq(Octet)
  /\ \A ns \in Seq(Word), n \in Word : Words(Append(ns, n)) = Words(ns) \o U16(n)
<1> DEFINE list(ns) == [i \in DOMAIN ns |-> U16(ns[i])]
<1>1. \A ns : Words(ns) = FlattenSeq(list(ns))
  BY DEF Words
<1>2. list(<<>>) = <<>>
  OBVIOUS
<1>3. ASSUME NEW ns \in Seq(Word) PROVE list(ns) \in Seq(Seq(Octet))
  <2>1. \A i \in 1..Len(ns) : U16(ns[i]) \in Seq(Octet)
    BY WordBytes
  <2> QED
    BY <2>1
<1>4. ASSUME NEW ns \in Seq(Word), NEW n \in Word
      PROVE  list(Append(ns, n)) = Append(list(ns), U16(n))
  <2>1. /\ Append(ns, n) \in Seq(Word) /\ Len(Append(ns, n)) = Len(ns) + 1
        /\ Append(ns, n)[Len(ns) + 1] = n /\ \A i \in 1..Len(ns) : Append(ns, n)[i] = ns[i]
    BY AppendProperties
  <2>2. U16(n) \in Seq(Octet) /\ list(ns) \in Seq(Seq(Octet)) /\ Len(list(ns)) = Len(ns)
    BY <1>3, WordBytes
  <2>3. /\ Append(list(ns), U16(n)) \in Seq(Seq(Octet))
        /\ Len(Append(list(ns), U16(n))) = Len(ns) + 1
        /\ Append(list(ns), U16(n))[Len(ns) + 1] = U16(n)
        /\ \A i \in 1..Len(ns) : Append(list(ns), U16(n))[i] = list(ns)[i]
    BY <2>2, AppendProperties
  <2>4. /\ list(Append(ns, n)) \in Seq(Seq(Octet)) /\ Len(list(Append(ns, n))) = Len(ns) + 1
        /\ \A i \in 1..(Len(ns) + 1) : list(Append(ns, n))[i] = U16(Append(ns, n)[i])
    <3> DEFINE more == Append(ns, n)
    <3> HIDE DEF more
    <3>1. more \in Seq(Word) /\ Len(more) = Len(ns) + 1
      BY <2>1 DEF more
    <3>2. list(more) = [i \in 1..Len(more) |-> U16(more[i])]
      BY <3>1
    <3>3. list(more) \in Seq(Seq(Octet))
      BY <1>3, <3>1
    <3>4. Len(list(more)) = Len(more)
      BY <3>1, <3>2, <3>3
    <3> QED
      BY <3>1, <3>2, <3>3, <3>4 DEF more
  <2>5. \A i \in 1..Len(ns) : list(ns)[i] = U16(ns[i])
    OBVIOUS
  <2> HIDE DEF list
  <2>6. \A i \in 1..(Len(ns) + 1) : list(Append(ns, n))[i] = Append(list(ns), U16(n))[i]
    BY <2>1, <2>3, <2>4, <2>5
  <2> QED
    BY <2>3, <2>4, <2>6, SeqEqual
<1> HIDE DEF list
<1>5. \A ns \in Seq(Word) : Words(ns) \in Seq(Octet)
  BY <1>1, <1>3, Flattened
<1>6. ASSUME NEW ns \in Seq(Word), NEW n \in Word
      PROVE  Words(Append(ns, n)) = Words(ns) \o U16(n)
  <2>1. list(ns) \in Seq(Seq(Octet)) /\ U16(n) \in Seq(Octet)
    BY <1>3, WordBytes
  <2>2. FlattenSeq(Append(list(ns), U16(n))) = FlattenSeq(list(ns)) \o U16(n)
    BY <2>1, Flattened
  <2> QED
    BY <1>1, <1>4, <2>2
<1> QED
  BY <1>1, <1>2, <1>5, <1>6, Flattened

\* What the bytes of a list are: two for each word.
Spelt(ns) ==
  /\ Len(Words(ns)) = 2 * Len(ns)
  /\ \A i \in 1..Len(ns) : Words(ns)[2 * i - 1] = ns[i] % Byte /\ Words(ns)[2 * i] = ns[i] \div Byte

LEMMA WordsSpelt ==
  ASSUME NEW ns \in Seq(Word)
  PROVE  Spelt(ns) /\ Words(ns) \in Seq(Octet)
<1> DEFINE Good == {k \in Nat : \A ms \in Seq(Word) : Len(ms) = k => Spelt(ms)}
<1>1. 0 \in Good
  <2>1. \A ms \in Seq(Word) : Len(ms) = 0 => ms = <<>>
    OBVIOUS
  <2>2. Len(Words(<<>>)) = 0
    BY WordsGrow
  <2>3. Spelt(<<>>)
    BY <2>2 DEF Spelt
  <2> QED
    BY <2>1, <2>3
<1>2. ASSUME NEW k \in Good PROVE k + 1 \in Good
  <2> SUFFICES ASSUME NEW ms \in Seq(Word), Len(ms) = k + 1 PROVE Spelt(ms)
    OBVIOUS
  <2>1. PICK l \in Seq(Word), n \in Word : ms = Append(l, n) /\ Len(l) = k
    <3>1. k \in Nat /\ ms # <<>>
      OBVIOUS
    <3>2. PICK l \in Seq(Word), n \in Word : ms = Append(l, n)
      BY <3>1, SequenceEmptyOrAppend
    <3>3. Len(ms) = Len(l) + 1 /\ Len(l) \in Nat
      BY <3>2, AppendProperties
    <3>4. Len(l) = k
      BY <3>1, <3>3
    <3> QED
      BY <3>2, <3>4
  <2>2. Spelt(l) /\ k \in Nat
    BY <2>1
  <2>3. /\ \A i \in 1..k : ms[i] = l[i]
        /\ ms[k + 1] = n
    BY <2>1, <2>2, AppendProperties
  <2> DEFINE w == Words(l)
             u == U16(n)
  <2>4. w \in Seq(Octet) /\ u \in Seq(Octet) /\ Words(ms) = w \o u /\ Len(u) = 2
        /\ Len(w) = 2 * k /\ u = <<n % Byte, n \div Byte>>
    BY <2>1, <2>2, WordsGrow, WordBytes DEF Spelt
  <2> HIDE DEF w, u
  <2>5. /\ Len(w \o u) = 2 * k + 2
        /\ \A j \in 1..(2 * k) : (w \o u)[j] = w[j]
        /\ (w \o u)[2 * k + 1] = u[1] /\ (w \o u)[2 * k + 2] = u[2]
    <3>1. PICK e \in Nat : e = 2 * k
      BY <2>2
    <3>2. w \in Seq(Octet) /\ u \in Seq(Octet) /\ Len(w) = e /\ Len(u) = 2
      BY <2>4, <3>1
    <3>3. /\ Len(w \o u) = e + 2
          /\ \A j \in 1..(e + 2) : (w \o u)[j] = IF j <= e THEN w[j] ELSE u[j - e]
      <4>1. /\ Len(w \o u) = Len(w) + Len(u)
            /\ \A j \in 1..(Len(w) + Len(u)) : (w \o u)[j] = IF j <= Len(w) THEN w[j] ELSE u[j - Len(w)]
        BY <3>2, ConcatProperties
      <4> QED
        BY <3>2, <4>1
    <3>4. /\ e + 1 \in 1..(e + 2) /\ e + 2 \in 1..(e + 2) /\ ~(e + 1 <= e) /\ ~(e + 2 <= e)
          /\ (e + 1) - e = 1 /\ (e + 2) - e = 2
          /\ \A j \in 1..e : j \in 1..(e + 2) /\ j <= e
      OBVIOUS
    <3>5. (w \o u)[e + 1] = u[1] /\ (w \o u)[e + 2] = u[2] /\ \A j \in 1..e : (w \o u)[j] = w[j]
      BY <3>3, <3>4
    <3> QED
      BY <3>1, <3>3, <3>5
  <2>6. ASSUME NEW i \in 1..(k + 1)
        PROVE  Words(ms)[2 * i - 1] = ms[i] % Byte /\ Words(ms)[2 * i] = ms[i] \div Byte
    <3>1. CASE i = k + 1
      <4>1. 2 * i - 1 = 2 * k + 1 /\ 2 * i = 2 * k + 2
        BY <2>2, <3>1
      <4>2. u[1] = n % Byte /\ u[2] = n \div Byte
        BY <2>4
      <4> QED
        BY <2>3, <2>4, <2>5, <3>1, <4>1, <4>2
    <3>2. CASE i # k + 1
      <4>1. i \in 1..k /\ 2 * i - 1 \in 1..(2 * k) /\ 2 * i \in 1..(2 * k)
        BY <2>2, <3>2
      <4>2. w[2 * i - 1] = l[i] % Byte /\ w[2 * i] = l[i] \div Byte
        BY <2>1, <2>2, <4>1 DEF Spelt, w
      <4> QED
        BY <2>3, <2>4, <2>5, <4>1, <4>2
    <3> QED
      BY <3>1, <3>2
  <2>7. Len(Words(ms)) = 2 * Len(ms)
    BY <2>2, <2>4, <2>5
  <2> QED
    BY <2>6, <2>7 DEF Spelt
<1>3. Good = Nat
  <2> HIDE DEF Good
  <2>1. Good \in SUBSET Nat
    BY DEF Good
  <2> QED
    BY <1>1, <1>2, <2>1, Counting
<1>4. Len(ns) \in Good
  BY <1>3
<1> QED
  BY <1>4, WordsGrow

\* Reading the bytes gives the words back.
LEMMA ReadBackWords ==
  ASSUME NEW ns \in Seq(Word)
  PROVE  ReadWords(Words(ns)) = ns
<1>1. Spelt(ns) /\ Len(ns) \in Nat
  BY WordsSpelt
<1>2. Len(Words(ns)) \div 2 = Len(ns)
  BY <1>1 DEF Spelt
<1>3. \A i \in 1..Len(ns) : Words(ns)[2 * i - 1] + Byte * Words(ns)[2 * i] = ns[i]
  <2> SUFFICES ASSUME NEW i \in 1..Len(ns)
               PROVE  Words(ns)[2 * i - 1] + Byte * Words(ns)[2 * i] = ns[i]
    OBVIOUS
  <2>1. ns[i] \in Word
    OBVIOUS
  <2>2. Words(ns)[2 * i - 1] = ns[i] % Byte /\ Words(ns)[2 * i] = ns[i] \div Byte
    BY <1>1 DEF Spelt
  <2> QED
    BY <2>1, <2>2, WordBytes
<1>4. ReadWords(Words(ns)) = [i \in 1..Len(ns) |-> ns[i]]
  BY <1>2, <1>3 DEF ReadWords
<1>5. ns = [i \in 1..Len(ns) |-> ns[i]]
  OBVIOUS
<1> QED
  BY <1>4, <1>5

\* The bytes behind a first one.
LEMMA BehindTheFirst ==
  ASSUME NEW w \in Seq(Octet), NEW b \in Octet
  PROVE  /\ <<b>> \o w \in Seq(Octet) /\ Len(<<b>> \o w) = 1 + Len(w)
         /\ (<<b>> \o w)[1] = b /\ Rest(<<b>> \o w, 1) = w
<1> DEFINE s == <<b>> \o w
<1>1. /\ s \in Seq(Octet) /\ Len(s) = 1 + Len(w) /\ s[1] = b
      /\ \A i \in 1..Len(w) : s[i + 1] = w[i]
  OBVIOUS
<1> HIDE DEF s
<1>2. /\ Rest(s, 1) \in Seq(Octet) /\ Len(Rest(s, 1)) = Len(w)
      /\ \A i \in 1..Len(w) : Rest(s, 1)[i] = s[i + 1]
  BY <1>1 DEF Rest
<1>3. Rest(s, 1) = w
  BY <1>1, <1>2, SeqEqual
<1> QED
  BY <1>1, <1>3 DEF s

-----------------------------------------------------------------------------
(* Answers.                                                                 *)

\* Lists a length in one byte can announce.
Short == {l \in Seq(Word) : Len(l) <= 255}

\* Numbers of 32 bits.
Dword == {low + Byte * Byte * high : low \in Word, high \in Word}

\* A command and the number of what it is given to.
Commands(q) == {Answer(q, <<c, n>>) : c \in 0..LastCommand[q], n \in Word}

\* What a client may mean by its answer to a question.
Meant(question) ==
  CASE question \in Phrases -> Commands(question)
    [] question \in {"SelectEffectYesNo", "SelectYesNo"} ->
         {Answer("SelectYesNo", <<b>>) : b \in {0, 1}}
    [] question \in {"SelectOption", "AnnounceNumber"} ->
         {Answer("SelectOption", <<b>>) : b \in Octet}
    [] question = "SelectPosition" -> {Answer(question, <<b>>) : b \in Octet}
    [] question = "SelectChain" ->
         {Answer("DeclineChain", <<>>)} \cup {Answer(question, <<b>>) : b \in Octet}
    [] question = "SelectCard" ->
         {Answer("Cancel", <<>>)} \cup {Answer("SelectCards", l) : l \in Short}
    [] question = "SelectTribute" ->
         {Answer("Cancel", <<>>)} \cup {Answer(question, l) : l \in Short}
    [] question = "SelectUnselectCard" ->
         {Answer("Cancel", <<>>)} \cup {Answer("SelectUnselectCards", <<n>>) : n \in Word}
    [] question = "SelectSum" -> {Answer(question, l) : l \in Short}
    [] question = "SelectCounter" -> {Answer(question, l) : l \in Seq(Word)}
    [] question \in {"SelectPlace", "SelectDisableField"} ->
         {Answer("DeclinePlace", <<>>)} \cup
         {Answer("SelectPlace", p) : p \in (Octet \X Octet \X Octet) \ {<<0, 0, 0>>}}
    [] question = "SortCard" ->
         {Answer("KeepCardOrder", <<>>)} \cup {Answer("SortCards", l) : l \in Seq(Word)}
    [] OTHER -> {Answer(question, <<n>>) : n \in Dword}

\* The bytes of each kind of answer.
LEMMA BytesOf ==
  ASSUME NEW args
  PROVE  /\ \A k \in Declines : Bytes(Answer(k, args)) = Minus1
         /\ \A k \in Phrases \cup Uncounted : Bytes(Answer(k, args)) = Words(args)
         /\ \A k \in Letters : Bytes(Answer(k, args)) = <<args[1]>>
         /\ \A k \in Counted : Bytes(Answer(k, args)) = <<Len(args) % Byte>> \o Words(args)
         /\ Bytes(Answer("SelectUnselectCards", args)) = <<1>> \o U16(args[1])
         /\ Bytes(Answer("SelectPlace", args)) = args
         /\ Bytes(Answer("DeclinePlace", args)) = <<0, 0, 0>>
         /\ Bytes(Answer("KeepCardOrder", args)) = <<255>>
         /\ \A k \in Wide : Bytes(Answer(k, args)) = U32(args[1])
<1>1. \A k : Answer(k, args).kind = k /\ Answer(k, args).args = args
  BY DEF Answer
<1>2. \A k \in Declines : Bytes(Answer(k, args)) = Minus1
  BY <1>1 DEF Bytes, Declines, Phrases, Uncounted, Letters, Counted, Wide
<1>3. \A k \in Phrases \cup Uncounted : Bytes(Answer(k, args)) = Words(args)
  BY <1>1 DEF Bytes, Declines, Phrases, Uncounted, Letters, Counted, Wide
<1>4. \A k \in Letters : Bytes(Answer(k, args)) = <<args[1]>>
  BY <1>1 DEF Bytes, Declines, Phrases, Uncounted, Letters, Counted, Wide
<1>5. \A k \in Counted : Bytes(Answer(k, args)) = <<Len(args) % Byte>> \o Words(args)
  BY <1>1 DEF Bytes, Declines, Phrases, Uncounted, Letters, Counted, Wide
<1>6. /\ Bytes(Answer("SelectUnselectCards", args)) = <<1>> \o U16(args[1])
      /\ Bytes(Answer("SelectPlace", args)) = args
      /\ Bytes(Answer("DeclinePlace", args)) = <<0, 0, 0>>
      /\ Bytes(Answer("KeepCardOrder", args)) = <<255>>
  BY <1>1 DEF Bytes, Declines, Phrases, Uncounted, Letters, Counted, Wide
<1>7. \A k \in Wide : Bytes(Answer(k, args)) = U32(args[1])
  BY <1>1 DEF Bytes, Declines, Phrases, Uncounted, Letters, Counted, Wide
<1> QED
  BY <1>2, <1>3, <1>4, <1>5, <1>6, <1>7

\* A list behind its length is neither -1 nor read as anything else.
LEMMA CountedBack ==
  ASSUME NEW kind, NEW l \in Short
  PROVE  LET bytes == <<Len(l) % Byte>> \o Words(l) IN
         bytes # Minus1 /\ ReadCounted(kind, bytes) = Answer(kind, l)
<1> DEFINE bytes == <<Len(l) % Byte>> \o Words(l)
<1>1. l \in Seq(Word) /\ Len(l) \in Octet /\ Len(l) % Byte = Len(l)
  <2>1. l \in Seq(Word) /\ Len(l) \in Nat /\ Len(l) <= 255
    BY DEF Short
  <2> QED
    BY <2>1, Ranges
<1>2. Words(l) \in Seq(Octet) /\ Len(Words(l)) = 2 * Len(l)
  BY <1>1, WordsSpelt DEF Spelt
<1>3. /\ bytes \in Seq(Octet) /\ Len(bytes) = 1 + Len(Words(l))
      /\ bytes[1] = Len(l) /\ Rest(bytes, 1) = Words(l)
  BY <1>1, <1>2, BehindTheFirst
<1> HIDE DEF bytes
<1>4. Len(bytes) = 1 + 2 * Len(l)
  BY <1>2, <1>3
<1>5. Len(Minus1) = 4 /\ Len(bytes) # 4 /\ Len(bytes) # 0
  BY <1>1, <1>4 DEF Minus1, Octet, Byte
<1>6. bytes # Minus1 /\ bytes # <<>>
  BY <1>5
<1>7. SubSeq(ReadWords(Rest(bytes, 1)), 1, Len(l)) = l
  BY <1>1, <1>3, ReadBackWords, SubSeqFull
<1>8. ~(Len(bytes) < 1 + 2 * bytes[1])
  BY <1>1, <1>3, <1>4 DEF Octet, Byte
<1>9. ReadCounted(kind, bytes) = Answer(kind, l)
  BY <1>3, <1>6, <1>7, <1>8 DEF ReadCounted
<1> QED
  BY <1>6, <1>9 DEF bytes

\* Two words are four bytes and come back.
LEMMA PhraseBack ==
  ASSUME NEW c \in Word, NEW n \in Word
  PROVE  /\ Len(Words(<<c, n>>)) = 4
         /\ ReadWords(Words(<<c, n>>)) = <<c, n>>
<1>1. <<c, n>> \in Seq(Word) /\ Len(<<c, n>>) = 2
  OBVIOUS
<1> DEFINE l == <<c, n>>
<1> HIDE DEF l
<1>2. l \in Seq(Word) /\ Len(l) = 2
  BY <1>1 DEF l
<1>3. Len(Words(l)) = 2 * Len(l) /\ ReadWords(Words(l)) = l
  BY <1>2, WordsSpelt, ReadBackWords DEF Spelt
<1> QED
  BY <1>2, <1>3 DEF l

\* A double word is four bytes and comes back.
LEMMA DwordBack ==
  ASSUME NEW n \in Dword
  PROVE  Len(U32(n)) = 4 /\ \A kind : OneDword(kind, U32(n)) = Answer(kind, <<n>>)
<1> DEFINE low == n % (Byte * Byte)
           high == n \div (Byte * Byte)
<1>1. low \in Word /\ high \in Word /\ low + (Byte * Byte) * high = n
  <2>1. PICK a \in Word, b \in Word : n = a + Byte * Byte * b
    BY DEF Dword
  <2>2. a \in Nat /\ b \in Nat /\ a < 65536 /\ b < 65536 /\ n = a + 65536 * b
    <3>1. a \in Nat /\ b \in Nat /\ a < 65536 /\ b < 65536
      BY Ranges
    <3>2. Byte * Byte = 65536
      BY SMT DEF Byte
    <3> QED
      BY <2>1, <3>1, <3>2, SMT
  <2>3. n % 65536 = a /\ n \div 65536 = b
    BY <2>2, SMT
  <2>4. Byte * Byte = 65536
    BY SMT DEF Byte
  <2>5. low = a /\ high = b
    BY <2>3, <2>4
  <2> QED
    BY <2>1, <2>5
<1> HIDE DEF low, high
<1>2. U32(n) = U16(low) \o U16(high)
  BY DEF U32, low, high
<1>3. U32(n) = Words(<<low, high>>)
  <2>1. /\ <<>> \in Seq(Word) /\ <<low>> \in Seq(Word)
        /\ <<low>> = Append(<<>>, low) /\ <<low, high>> = Append(<<low>>, high)
    BY <1>1
  <2>2. Words(<<low>>) = Words(<<>>) \o U16(low) /\ Words(<<low, high>>) = Words(<<low>>) \o U16(high)
    BY <1>1, <2>1, WordsGrow
  <2>3. <<>> \o U16(low) = U16(low)
    BY <1>1, WordBytes, ConcatEmptySeq
  <2> QED
    BY <1>2, <2>2, <2>3, WordsGrow
<1>4. Len(U32(n)) = 4 /\ ReadWords(U32(n)) = <<low, high>>
  BY <1>1, <1>3, PhraseBack
<1>5. ASSUME NEW kind PROVE OneDword(kind, U32(n)) = Answer(kind, <<n>>)
  <2>1. OneDword(kind, U32(n))
          = Answer(kind, <<<<low, high>>[1] + Byte * Byte * <<low, high>>[2]>>)
    BY <1>4 DEF OneDword
  <2>2. <<low, high>>[1] + Byte * Byte * <<low, high>>[2] = n
    BY <1>1
  <2> QED
    BY <2>1, <2>2
<1> QED
  BY <1>4, <1>5

\* How the bytes are read under each question.
LEMMA ParseOf ==
  ASSUME NEW b
  PROVE  /\ \A q \in Phrases :
              Parse(q, b) = IF Len(b) < 4 \/ ReadWords(b)[1] > LastCommand[q] THEN Unread
                            ELSE Answer(q, SubSeq(ReadWords(b), 1, 2))
         /\ \A q \in {"SelectEffectYesNo", "SelectYesNo"} :
              Parse(q, b) = LET r == OneByte("SelectYesNo", b) IN
                            IF r = Unread THEN r
                            ELSE Answer("SelectYesNo", <<IF r.args[1] = 0 THEN 0 ELSE 1>>)
         /\ \A q \in {"SelectOption", "AnnounceNumber"} : Parse(q, b) = OneByte("SelectOption", b)
         /\ Parse("SelectPosition", b) = OneByte("SelectPosition", b)
         /\ Parse("SelectChain", b) = Decline(b, "DeclineChain", OneByte("SelectChain", b))
         /\ Parse("SelectCard", b) = Decline(b, "Cancel", ReadCounted("SelectCards", b))
         /\ Parse("SelectUnselectCard", b) = Decline(b, "Cancel", ReadUnselect(b))
         /\ Parse("SelectTribute", b) = Decline(b, "Cancel", ReadCounted("SelectTribute", b))
         /\ Parse("SelectSum", b) = ReadCounted("SelectSum", b)
         /\ Parse("SelectCounter", b) = Answer("SelectCounter", ReadWords(b))
         /\ \A q \in {"SelectPlace", "SelectDisableField"} : Parse(q, b) = ReadPlace(b)
         /\ Parse("SortCard", b) = ReadSort(b)
         /\ \A q \in Wide : Parse(q, b) = OneDword(q, b)
<1>1. \A q \in Phrases :
        Parse(q, b) = IF Len(b) < 4 \/ ReadWords(b)[1] > LastCommand[q] THEN Unread
                      ELSE Answer(q, SubSeq(ReadWords(b), 1, 2))
  BY DEF Parse, Phrases, Wide
<1>2. /\ \A q \in {"SelectEffectYesNo", "SelectYesNo"} :
           Parse(q, b) = LET r == OneByte("SelectYesNo", b) IN
                         IF r = Unread THEN r
                         ELSE Answer("SelectYesNo", <<IF r.args[1] = 0 THEN 0 ELSE 1>>)
      /\ \A q \in {"SelectOption", "AnnounceNumber"} : Parse(q, b) = OneByte("SelectOption", b)
      /\ Parse("SelectPosition", b) = OneByte("SelectPosition", b)
      /\ Parse("SelectChain", b) = Decline(b, "DeclineChain", OneByte("SelectChain", b))
  BY DEF Parse, Phrases, Wide
<1>3. /\ Parse("SelectCard", b) = Decline(b, "Cancel", ReadCounted("SelectCards", b))
      /\ Parse("SelectUnselectCard", b) = Decline(b, "Cancel", ReadUnselect(b))
      /\ Parse("SelectTribute", b) = Decline(b, "Cancel", ReadCounted("SelectTribute", b))
      /\ Parse("SelectSum", b) = ReadCounted("SelectSum", b)
      /\ Parse("SelectCounter", b) = Answer("SelectCounter", ReadWords(b))
  BY DEF Parse, Phrases, Wide
<1>4. /\ \A q \in {"SelectPlace", "SelectDisableField"} : Parse(q, b) = ReadPlace(b)
      /\ Parse("SortCard", b) = ReadSort(b)
  BY DEF Parse, Phrases, Wide
<1>5. \A q \in Wide : Parse(q, b) = OneDword(q, b)
  BY DEF Parse, Phrases, Wide
<1> QED
  BY <1>1, <1>2, <1>3, <1>4, <1>5

\* What is meant under each question.
LEMMA MeantBy ==
  /\ \A q \in Phrases : Meant(q) = Commands(q)
  /\ \A q \in {"SelectEffectYesNo", "SelectYesNo"} :
       Meant(q) = {Answer("SelectYesNo", <<b>>) : b \in {0, 1}}
  /\ \A q \in {"SelectOption", "AnnounceNumber"} :
       Meant(q) = {Answer("SelectOption", <<b>>) : b \in Octet}
  /\ Meant("SelectPosition") = {Answer("SelectPosition", <<b>>) : b \in Octet}
  /\ Meant("SelectChain") =
       {Answer("DeclineChain", <<>>)} \cup {Answer("SelectChain", <<b>>) : b \in Octet}
  /\ Meant("SelectCard") =
       {Answer("Cancel", <<>>)} \cup {Answer("SelectCards", l) : l \in Short}
  /\ Meant("SelectTribute") =
       {Answer("Cancel", <<>>)} \cup {Answer("SelectTribute", l) : l \in Short}
  /\ Meant("SelectUnselectCard") =
       {Answer("Cancel", <<>>)} \cup {Answer("SelectUnselectCards", <<n>>) : n \in Word}
  /\ Meant("SelectSum") = {Answer("SelectSum", l) : l \in Short}
  /\ Meant("SelectCounter") = {Answer("SelectCounter", l) : l \in Seq(Word)}
  /\ \A q \in {"SelectPlace", "SelectDisableField"} :
       Meant(q) = {Answer("DeclinePlace", <<>>)} \cup
                  {Answer("SelectPlace", p) : p \in (Octet \X Octet \X Octet) \ {<<0, 0, 0>>}}
  /\ Meant("SortCard") =
       {Answer("KeepCardOrder", <<>>)} \cup {Answer("SortCards", l) : l \in Seq(Word)}
  /\ \A q \in Wide : Meant(q) = {Answer(q, <<n>>) : n \in Dword}
  BY DEF Meant, Phrases, Wide

\* Two questions are of each kind.
LEMMA AllQuestions ==
  ASSUME NEW q \in Questions
  PROVE  \/ q \in Phrases \cup Wide
         \/ q \in {"SelectEffectYesNo", "SelectYesNo"}
         \/ q \in {"SelectOption", "AnnounceNumber"}
         \/ q \in {"SelectPlace", "SelectDisableField"}
         \/ q \in {"SelectCard", "SelectTribute", "SelectSum"}
         \/ q \in {"SelectPosition", "SelectChain", "SelectUnselectCard", "SelectCounter", "SortCard"}
  BY DEF Questions

\* Short answers, byte by byte.
LEMMA FewBytes ==
  /\ \A b \in Octet : <<b>> # Minus1 /\ <<b>> # <<>> /\ <<b>>[1] = b
  /\ \A k : \A b \in Octet : OneByte(k, <<b>>) = Answer(k, <<b>>)
  /\ \A k, other : Decline(Minus1, k, other) = Answer(k, <<>>)
  /\ \A bytes, k, other : bytes # Minus1 => Decline(bytes, k, other) = other
<1>1. \A b \in Octet : <<b>> # Minus1 /\ <<b>> # <<>> /\ <<b>>[1] = b
  BY DEF Minus1
<1>2. \A k : \A b \in Octet : OneByte(k, <<b>>) = Answer(k, <<b>>)
  BY <1>1 DEF OneByte
<1> QED
  BY <1>1, <1>2 DEF Decline

LEMMA Fields ==
  /\ \A k, a : Answer(k, a).kind = k /\ Answer(k, a).args = a
  /\ Unread.kind = "Unknown"
  BY DEF Answer, Unread

\* A command with its number.
LEMMA CommandsBack ==
  ASSUME NEW q \in Phrases, NEW r \in Meant(q)
  PROVE  Parse(q, Bytes(r)) = r
<1>0. r \in Commands(q)
  BY MeantBy
<1>1. PICK c \in 0..LastCommand[q], n \in Word : r = Answer(q, <<c, n>>)
  BY <1>0 DEF Commands
<1>2. LastCommand[q] \in 0..8
  BY DEF LastCommand, Phrases
<1>3. c \in Word /\ c \in Nat /\ ~(c > LastCommand[q])
  BY <1>2, Ranges
<1>4. Bytes(r) = Words(<<c, n>>)
  BY <1>1, BytesOf
<1>5. Len(Bytes(r)) = 4 /\ ReadWords(Bytes(r)) = <<c, n>>
  BY <1>3, <1>4, PhraseBack
<1>6. <<c, n>>[1] = c /\ SubSeq(<<c, n>>, 1, 2) = <<c, n>>
  <2>1. <<c, n>> \in Seq(Word) /\ Len(<<c, n>>) = 2 /\ <<c, n>>[1] = c
    BY <1>3
  <2>2. SubSeq(<<c, n>>, 1, Len(<<c, n>>)) = <<c, n>>
    BY <2>1, SubSeqFull
  <2> QED
    BY <2>1, <2>2
<1> DEFINE b == Bytes(r)
           l == <<c, n>>
<1>7. Len(b) = 4 /\ ReadWords(b) = l /\ l[1] = c /\ SubSeq(l, 1, 2) = l
  BY <1>5, <1>6
<1> HIDE DEF b, l
<1>8. Parse(q, b) = IF Len(b) < 4 \/ ReadWords(b)[1] > LastCommand[q] THEN Unread
                    ELSE Answer(q, SubSeq(ReadWords(b), 1, 2))
  BY ParseOf
<1>9. ~(Len(b) < 4) /\ ~(ReadWords(b)[1] > LastCommand[q])
  BY <1>3, <1>7
<1>10. Parse(q, b) = Answer(q, l)
  BY <1>7, <1>8, <1>9
<1> QED
  BY <1>1, <1>10 DEF b, l

\* A number of 32 bits.
LEMMA NumbersBack ==
  ASSUME NEW q \in Wide, NEW r \in Meant(q)
  PROVE  Parse(q, Bytes(r)) = r
<1>1. PICK n \in Dword : r = Answer(q, <<n>>)
  <2>1. Meant(q) = {Answer(q, <<n>>) : n \in Dword}
    BY MeantBy, Zenon
  <2> QED
    BY ONLY <2>1, r \in Meant(q)
<1>2. <<n>>[1] = n
  OBVIOUS
<1>3. Bytes(r) = U32(n)
  BY <1>1, <1>2, BytesOf
<1>4. Parse(q, Bytes(r)) = Answer(q, <<n>>)
  BY <1>3, DwordBack, ParseOf
<1> QED
  BY <1>1, <1>4

\* One byte.
LEMMA LettersBack ==
  ASSUME NEW q \in {"SelectEffectYesNo", "SelectYesNo", "SelectOption", "AnnounceNumber",
                    "SelectPosition", "SelectChain"},
         NEW r \in Meant(q)
  PROVE  Parse(q, Bytes(r)) = r
<1>1. \A k \in Letters : \A b \in Octet :
        Bytes(Answer(k, <<b>>)) = <<b>> /\ OneByte(k, <<b>>) = Answer(k, <<b>>) /\ <<b>> # Minus1
  <2> SUFFICES ASSUME NEW k \in Letters, NEW b \in Octet
               PROVE  /\ Bytes(Answer(k, <<b>>)) = <<b>> /\ OneByte(k, <<b>>) = Answer(k, <<b>>)
                      /\ <<b>> # Minus1
    OBVIOUS
  <2>1. Bytes(Answer(k, <<b>>)) = << <<b>>[1] >>
    BY BytesOf
  <2>2. <<b>>[1] = b /\ OneByte(k, <<b>>) = Answer(k, <<b>>) /\ <<b>> # Minus1
    BY FewBytes
  <2> QED
    BY <2>1, <2>2
<1>2. {"SelectYesNo", "SelectOption", "SelectChain", "SelectPosition"} = Letters
  BY DEF Letters
<1>3. CASE q \in {"SelectEffectYesNo", "SelectYesNo"}
  <2>1. PICK b \in {0, 1} : r = Answer("SelectYesNo", <<b>>)
    BY <1>3, MeantBy
  <2>2. b \in Octet
    BY SMT DEF Octet, Byte
  <2>3. Bytes(r) = <<b>> /\ OneByte("SelectYesNo", Bytes(r)) = r
    BY <1>1, <1>2, <2>1, <2>2
  <2>4. r # Unread /\ r.args[1] = b
    BY <2>1, Fields
  <2>5. Parse(q, Bytes(r)) = Answer("SelectYesNo", <<IF r.args[1] = 0 THEN 0 ELSE 1>>)
    BY <1>3, <2>3, <2>4, ParseOf
  <2>6. <<IF r.args[1] = 0 THEN 0 ELSE 1>> = <<b>>
    BY <2>4
  <2> QED
    BY <2>1, <2>5, <2>6
<1>4. CASE q \in {"SelectOption", "AnnounceNumber"}
  <2>0. r \in {Answer("SelectOption", <<b>>) : b \in Octet}
    <3>1. Meant(q) = {Answer("SelectOption", <<b>>) : b \in Octet}
      BY <1>4, MeantBy, Zenon
    <3> QED
      BY <3>1
  <2>1. PICK b \in Octet : r = Answer("SelectOption", <<b>>)
    BY <2>0
  <2>2. OneByte("SelectOption", Bytes(r)) = r
    BY <1>1, <1>2, <2>1
  <2> QED
    BY <1>4, <2>2, ParseOf
<1>5. CASE q = "SelectPosition"
  <2>1. PICK b \in Octet : r = Answer("SelectPosition", <<b>>)
    BY <1>5, MeantBy
  <2>2. OneByte("SelectPosition", Bytes(r)) = r
    BY <1>1, <1>2, <2>1
  <2> QED
    BY <1>5, <2>2, ParseOf
<1>6. CASE q = "SelectChain"
  <2>1. CASE r = Answer("DeclineChain", <<>>)
    <3>1. Bytes(r) = Minus1
      BY <2>1, BytesOf DEF Declines
    <3> QED
      <4>1. Parse("SelectChain", Minus1) = Decline(Minus1, "DeclineChain", OneByte("SelectChain", Minus1))
        BY ParseOf, Zenon
      <4>2. Decline(Minus1, "DeclineChain", OneByte("SelectChain", Minus1)) = Answer("DeclineChain", <<>>)
        BY FewBytes, Zenon
      <4> QED
        BY <1>6, <2>1, <3>1, <4>1, <4>2, Zenon
  <2>2. CASE r \in {Answer("SelectChain", <<b>>) : b \in Octet}
    <3>1. PICK b \in Octet : r = Answer("SelectChain", <<b>>)
      BY <2>2
    <3>2. Bytes(r) = <<b>> /\ OneByte("SelectChain", <<b>>) = r /\ <<b>> # Minus1
      BY <1>1, <1>2, <3>1
    <3>3. Decline(<<b>>, "DeclineChain", OneByte("SelectChain", <<b>>)) = r
      BY <3>2, FewBytes
    <3> QED
      BY <1>6, <3>2, <3>3, ParseOf
  <2> QED
    BY <1>6, <2>1, <2>2, MeantBy
<1> QED
  BY <1>3, <1>4, <1>5, <1>6

\* Lists behind their length, and what may be cancelled.
LEMMA ListsBack ==
  ASSUME NEW q \in {"SelectCard", "SelectTribute", "SelectSum"}, NEW r \in Meant(q)
  PROVE  Parse(q, Bytes(r)) = r
<1> DEFINE kind == IF q = "SelectCard" THEN "SelectCards" ELSE q
<1>1. kind \in Counted
  BY DEF Counted
<1>2. /\ q # "SelectSum" => \A b : Parse(q, b) = Decline(b, "Cancel", ReadCounted(kind, b))
      /\ q = "SelectSum" => \A b : Parse(q, b) = ReadCounted(kind, b)
  BY ParseOf
<1>3. \/ q # "SelectSum" /\ r = Answer("Cancel", <<>>)
      \/ r \in {Answer(kind, l) : l \in Short}
  BY MeantBy
<1> HIDE DEF kind
<1>4. CASE q # "SelectSum" /\ r = Answer("Cancel", <<>>)
  <2>1. Bytes(r) = Minus1
    BY <1>4, BytesOf DEF Declines
  <2> QED
    BY <1>2, <1>4, <2>1, FewBytes
<1>5. CASE r \in {Answer(kind, l) : l \in Short}
  <2>1. PICK l \in Short : r = Answer(kind, l)
    BY <1>5
  <2>2. Bytes(r) = <<Len(l) % Byte>> \o Words(l)
    BY <1>1, <2>1, BytesOf
  <2>3. Bytes(r) # Minus1 /\ ReadCounted(kind, Bytes(r)) = r
    BY <2>1, <2>2, CountedBack
  <2>4. Decline(Bytes(r), "Cancel", ReadCounted(kind, Bytes(r))) = r
    BY <2>3, FewBytes
  <2> QED
    BY <1>2, <2>3, <2>4
<1> QED
  BY <1>3, <1>4, <1>5

\* Lists to the end of the message, and the order that is kept.
LEMMA OrdersBack ==
  ASSUME NEW q \in {"SelectCounter", "SortCard"}, NEW r \in Meant(q)
  PROVE  Parse(q, Bytes(r)) = r
<1>1. {"SelectCounter", "SortCards"} \subseteq Phrases \cup Uncounted
  BY DEF Uncounted
<1>2. CASE q = "SelectCounter"
  <2>1. PICK l \in Seq(Word) : r = Answer("SelectCounter", l)
    BY <1>2, MeantBy
  <2>2. Bytes(r) = Words(l)
    BY <1>1, <2>1, BytesOf
  <2> QED
    BY <1>2, <2>1, <2>2, ReadBackWords, ParseOf
<1>3. CASE q = "SortCard" /\ r = Answer("KeepCardOrder", <<>>)
  <2>1. Bytes(r) = <<255>>
    BY <1>3, BytesOf
  <2>2. ReadSort(<<255>>) = r
    BY <1>3 DEF ReadSort
  <2> QED
    <3>1. Parse("SortCard", <<255>>) = ReadSort(<<255>>)
      BY ParseOf, Zenon
    <3> QED
      BY <1>3, <2>1, <2>2, <3>1, Zenon
<1>4. CASE q = "SortCard" /\ r \in {Answer("SortCards", l) : l \in Seq(Word)}
  <2>1. PICK l \in Seq(Word) : r = Answer("SortCards", l)
    BY <1>4
  <2>2. Bytes(r) = Words(l)
    BY <1>1, <2>1, BytesOf
  <2>3. Words(l) # <<255>>
    <3>1. Len(Words(l)) = 2 * Len(l) /\ Len(l) \in Nat
      BY WordsSpelt DEF Spelt
    <3>2. Len(<<255>>) = 1 /\ \A k \in Nat : 2 * k # 1
      OBVIOUS
    <3> QED
      BY <3>1, <3>2
  <2>4. ReadSort(Words(l)) = r
    BY <2>1, <2>3, ReadBackWords DEF ReadSort
  <2> QED
    BY <1>4, <2>2, <2>4, ParseOf
<1> QED
  BY <1>2, <1>3, <1>4, MeantBy

\* One of the cards to take or to take back.
LEMMA UnselectBack ==
  ASSUME NEW r \in Meant("SelectUnselectCard")
  PROVE  Parse("SelectUnselectCard", Bytes(r)) = r
<1>1. CASE r = Answer("Cancel", <<>>)
  <2>1. Bytes(r) = Minus1
    BY <1>1, BytesOf DEF Declines
  <2> QED
    BY <1>1, <2>1, FewBytes, ParseOf
<1>2. CASE r \in {Answer("SelectUnselectCards", <<n>>) : n \in Word}
  <2>1. PICK n \in Word : r = Answer("SelectUnselectCards", <<n>>)
    BY <1>2
  <2> DEFINE w == Words(<<n>>)
             b == <<1>> \o w
  <2>2. w = U16(n)
    <3>1. <<n>> = Append(<<>>, n) /\ <<>> \in Seq(Word)
      OBVIOUS
    <3>2. w = Words(<<>>) \o U16(n)
      BY <3>1, WordsGrow
    <3> QED
      BY <3>2, WordsGrow, WordBytes, ConcatEmptySeq
  <2>3. w \in Seq(Octet) /\ Len(w) = 2
    BY <2>2, WordBytes
  <2>4. Bytes(r) = b
    <3>1. <<n>>[1] = n
      OBVIOUS
    <3> QED
      BY <2>1, <2>2, <3>1, BytesOf
  <2>5. ReadWords(w) = <<n>>
    <3>1. <<n>> \in Seq(Word)
      OBVIOUS
    <3> QED
      BY <3>1, ReadBackWords
  <2> HIDE DEF w
  <2>6. Len(b) = 3 /\ b[1] = 1 /\ Rest(b, 1) = w
    <3>1. 1 \in Octet
      BY SMT DEF Octet, Byte
    <3>2. Len(b) = 1 + Len(w) /\ b[1] = 1 /\ Rest(b, 1) = w
      BY <2>3, <3>1, BehindTheFirst
    <3> HIDE DEF b
    <3> QED
      BY <2>3, <3>2
  <2> HIDE DEF b
  <2>7. ReadUnselect(b) = Answer("SelectUnselectCards", <<n>>)
    BY <2>5, <2>6 DEF ReadUnselect
  <2>8. b # Minus1
    BY <2>6 DEF Minus1
  <2>9. Decline(b, "Cancel", ReadUnselect(b)) = ReadUnselect(b)
    BY <2>8, FewBytes
  <2> QED
    BY <2>1, <2>4, <2>7, <2>9, ParseOf
<1> QED
  BY <1>1, <1>2, MeantBy

\* A place on the field.
LEMMA PlacesBack ==
  ASSUME NEW q \in {"SelectPlace", "SelectDisableField"}, NEW r \in Meant(q)
  PROVE  Parse(q, Bytes(r)) = r
<1>1. CASE r = Answer("DeclinePlace", <<>>)
  <2>1. Bytes(r) = <<0, 0, 0>>
    BY <1>1, BytesOf
  <2>2. ReadPlace(<<0, 0, 0>>) = r
    <3> DEFINE p == <<0, 0, 0>>
    <3>1. p \in Seq(Nat) /\ Len(p) = 3
      OBVIOUS
    <3> HIDE DEF p
    <3>2. SubSeq(p, 1, Len(p)) = p
      BY <3>1, SubSeqFull
    <3>3. SubSeq(p, 1, 3) = <<0, 0, 0>> /\ ~(Len(p) < 3)
      BY <3>1, <3>2 DEF p
    <3>4. ReadPlace(p) = r
      BY <1>1, <3>3 DEF ReadPlace
    <3> QED
      BY <3>4 DEF p
  <2> QED
    BY <2>1, <2>2, ParseOf
<1>2. CASE r \in {Answer("SelectPlace", p) : p \in (Octet \X Octet \X Octet) \ {<<0, 0, 0>>}}
  <2>1. PICK p \in (Octet \X Octet \X Octet) \ {<<0, 0, 0>>} : r = Answer("SelectPlace", p)
    BY <1>2
  <2>2. Bytes(r) = p
    BY <2>1, BytesOf
  <2>3. p \in Seq(Octet) /\ Len(p) = 3 /\ p # <<0, 0, 0>>
    <3>1. p \in Octet \X Octet \X Octet
      OBVIOUS
    <3>2. PICK x \in Octet, y \in Octet, z \in Octet : p = <<x, y, z>>
      BY <3>1
    <3> QED
      BY <3>2
  <2>4. SubSeq(p, 1, Len(p)) = p
    BY <2>3, SubSeqFull
  <2>5. SubSeq(p, 1, 3) = p /\ ~(Len(p) < 3)
    BY <2>3, <2>4
  <2>6. ReadPlace(p) = r
    BY <2>1, <2>3, <2>5 DEF ReadPlace
  <2> QED
    BY <2>2, <2>6, ParseOf
<1> QED
  BY <1>1, <1>2, MeantBy

\* Whatever a client means by an answer, its bytes are read back as that answer under the
\* question it answers, for every list, place and number: a decline, a list and a number
\* share their bytes and only the question tells them apart.
THEOREM EveryAnswerReadBack ==
  ASSUME NEW q \in Questions, NEW r \in Meant(q)
  PROVE  Parse(q, Bytes(r)) = r
BY AllQuestions, CommandsBack, NumbersBack, LettersBack, ListsBack, OrdersBack, UnselectBack, PlacesBack

\* The answers of the instance are among those a client may mean.
LEMMA SampleNumbers ==
  /\ 0 \in Word /\ 300 \in Word /\ 65535 \in Word /\ 256 \in Word /\ 7 \in Word /\ 1 \in Word
  /\ 0 \in Octet /\ 1 \in Octet /\ 4 \in Octet /\ 8 \in Octet /\ 255 \in Octet
  /\ 1 \in Dword /\ 65536 \in Dword /\ 16777217 \in Dword
<1>1. /\ 0 \in Word /\ 300 \in Word /\ 65535 \in Word /\ 256 \in Word /\ 7 \in Word /\ 1 \in Word
  BY SMT DEF Word, Byte
<1>2. 0 \in Octet /\ 1 \in Octet /\ 4 \in Octet /\ 8 \in Octet /\ 255 \in Octet
  BY SMT DEF Octet, Byte
<1>3. Byte * Byte = 65536
  BY SMT DEF Byte
<1>4. /\ 1 = 1 + 65536 * 0 /\ 65536 = 0 + 65536 * 1 /\ 16777217 = 1 + 65536 * 256
  BY SMT
<1>5. 1 \in Dword /\ 65536 \in Dword /\ 16777217 \in Dword
  BY <1>1, <1>3, <1>4, SMT DEF Dword
<1> QED
  BY <1>1, <1>2, <1>5, SMT

LEMMA SampleLists == Lists \subseteq Short
<1>1. /\ <<1>> \in Seq(Word) /\ Len(<<1>>) = 1
      /\ <<65535, 0>> \in Seq(Word) /\ Len(<<65535, 0>>) = 2
      /\ <<0, 256, 7>> \in Seq(Word) /\ Len(<<0, 256, 7>>) = 3
  BY SampleNumbers, SMT
<1> QED
  BY <1>1, SMT DEF Lists, Short

LEMMA SamplesMeant ==
  ASSUME NEW q \in Questions
  PROVE  Samples(q) \subseteq Meant(q)
<1>1. Lists \subseteq Short /\ Short \subseteq Seq(Word)
  BY SampleLists DEF Short
<1>2. CASE q = "SelectIdleCommand"
  <2>1. Samples(q) = {Answer(q, <<c, n>>) : c \in 0..8, n \in {0, 300}}
    BY <1>2 DEF Samples
  <2>2. LastCommand[q] = 8 /\ q \in Phrases
    BY <1>2 DEF LastCommand, Phrases
  <2>3. ASSUME NEW r \in Samples(q) PROVE r \in Commands(q)
    <3>1. PICK c \in 0..8, n \in {0, 300} : r = Answer(q, <<c, n>>)
      BY <2>1
    <3>2. c \in 0..LastCommand[q] /\ n \in Word
      BY <2>2, SampleNumbers
    <3> QED
      BY <3>1, <3>2 DEF Commands
  <2> QED
    BY <2>2, <2>3, MeantBy
<1>3. CASE q = "SelectBattleCommand"
  <2>1. Samples(q) = {Answer(q, <<c, n>>) : c \in 0..3, n \in {0, 300}}
    BY <1>3 DEF Samples
  <2>2. LastCommand[q] = 3 /\ q \in Phrases
    BY <1>3 DEF LastCommand, Phrases
  <2>3. ASSUME NEW r \in Samples(q) PROVE r \in Commands(q)
    <3>1. PICK c \in 0..3, n \in {0, 300} : r = Answer(q, <<c, n>>)
      BY <2>1
    <3>2. c \in 0..LastCommand[q] /\ n \in Word
      BY <2>2, SampleNumbers
    <3> QED
      BY <3>1, <3>2 DEF Commands
  <2> QED
    BY <2>2, <2>3, MeantBy
<1>4. CASE q \in {"SelectEffectYesNo", "SelectYesNo"}
  BY <1>4, MeantBy DEF Samples
<1>5. CASE q \in {"SelectOption", "AnnounceNumber"}
  <2>1. Samples(q) = {Answer("SelectOption", <<b>>) : b \in {0, 255}}
    BY <1>5 DEF Samples
  <2>2. Meant(q) = {Answer("SelectOption", <<b>>) : b \in Octet}
    BY <1>5, MeantBy, Zenon
  <2> QED
    BY <2>1, <2>2, SampleNumbers
<1>6. CASE q = "SelectPosition"
  <2>1. Samples(q) = {Answer(q, <<b>>) : b \in {1, 8}}
    BY <1>6 DEF Samples
  <2>2. Meant(q) = {Answer(q, <<b>>) : b \in Octet}
    BY <1>6, MeantBy
  <2> QED
    BY <2>1, <2>2, SampleNumbers
<1>7. CASE q = "SelectChain"
  <2>1. Samples(q) = {Answer("DeclineChain", <<>>), Answer(q, <<255>>)}
    BY <1>7 DEF Samples
  <2>2. Meant(q) = {Answer("DeclineChain", <<>>)} \cup {Answer(q, <<b>>) : b \in Octet}
    BY <1>7, MeantBy
  <2> QED
    BY <2>1, <2>2, SampleNumbers
<1>8. CASE q = "SelectCard"
  <2>1. Samples(q) = {Answer("Cancel", <<>>)} \cup {Answer("SelectCards", l) : l \in Lists}
    BY <1>8 DEF Samples
  <2>2. Meant(q) = {Answer("Cancel", <<>>)} \cup {Answer("SelectCards", l) : l \in Short}
    BY <1>8, MeantBy
  <2> QED
    BY <1>1, <2>1, <2>2
<1>9. CASE q = "SelectTribute"
  <2>1. Samples(q) = {Answer("Cancel", <<>>)} \cup {Answer(q, l) : l \in Lists}
    BY <1>9 DEF Samples
  <2>2. Meant(q) = {Answer("Cancel", <<>>)} \cup {Answer(q, l) : l \in Short}
    BY <1>9, MeantBy
  <2> QED
    BY <1>1, <2>1, <2>2
<1>10. CASE q = "SelectUnselectCard"
  <2>1. Samples(q) = {Answer("Cancel", <<>>)} \cup {Answer("SelectUnselectCards", <<n>>) : n \in {0, 300}}
    BY <1>10 DEF Samples
  <2>2. Meant(q) = {Answer("Cancel", <<>>)} \cup {Answer("SelectUnselectCards", <<n>>) : n \in Word}
    BY <1>10, MeantBy
  <2> QED
    BY <2>1, <2>2, SampleNumbers
<1>11. CASE q = "SelectSum"
  <2>1. Samples(q) = {Answer(q, l) : l \in Lists}
    BY <1>11 DEF Samples
  <2>2. Meant(q) = {Answer(q, l) : l \in Short}
    BY <1>11, MeantBy
  <2> QED
    BY <1>1, <2>1, <2>2
<1>12. CASE q = "SelectCounter"
  <2>1. Samples(q) = {Answer(q, l) : l \in Lists}
    BY <1>12 DEF Samples
  <2>2. Meant(q) = {Answer(q, l) : l \in Seq(Word)}
    BY <1>12, MeantBy
  <2> QED
    BY <1>1, <2>1, <2>2
<1>13. CASE q \in {"SelectPlace", "SelectDisableField"}
  <2>1. Samples(q) = {Answer("DeclinePlace", <<>>), Answer("SelectPlace", <<0, 4, 0>>),
                      Answer("SelectPlace", <<1, 8, 4>>)}
    BY <1>13 DEF Samples
  <2> DEFINE P == (Octet \X Octet \X Octet) \ {<<0, 0, 0>>}
  <2>2. Meant(q) = {Answer("DeclinePlace", <<>>)} \cup {Answer("SelectPlace", p) : p \in P}
    BY <1>13, MeantBy, Zenon
  <2>3. <<0, 4, 0>> \in P /\ <<1, 8, 4>> \in P
    BY SampleNumbers
  <2> HIDE DEF P
  <2> QED
    BY <2>1, <2>2, <2>3
<1>14. CASE q = "SortCard"
  <2>1. Samples(q) = {Answer("KeepCardOrder", <<>>)} \cup {Answer("SortCards", l) : l \in Lists}
    BY <1>14 DEF Samples
  <2>2. Meant(q) = {Answer("KeepCardOrder", <<>>)} \cup {Answer("SortCards", l) : l \in Seq(Word)}
    BY <1>14, MeantBy
  <2> QED
    BY <1>1, <2>1, <2>2
<1>15. CASE q \in Wide
  <2>1. Samples(q) = {Answer(q, <<n>>) : n \in {1, 65536, 16777217}}
    BY <1>15, SMT DEF Samples, Wide
  <2>2. Meant(q) = {Answer(q, <<n>>) : n \in Dword}
    BY <1>15, MeantBy, SMT
  <2> QED
    BY <2>1, <2>2, SampleNumbers, SMT
<1>16. q \in Phrases <=> q \in {"SelectIdleCommand", "SelectBattleCommand"}
  BY DEF Phrases
<1> QED
  BY <1>2, <1>3, <1>4, <1>5, <1>6, <1>7, <1>8, <1>9, <1>10, <1>11, <1>12, <1>13, <1>14, <1>15, <1>16, AllQuestions

-----------------------------------------------------------------------------
(* Answers that only pass a question on.                                    *)

\* A command by its bytes.
LEMMA CommandRead ==
  ASSUME NEW q \in Phrases, NEW c \in 0..LastCommand[q]
  PROVE  Parse(q, <<c, 0, 0, 0>>) = Answer(q, <<c, 0>>)
<1>1. LastCommand[q] \in 0..8
  BY DEF LastCommand, Phrases
<1>2. c \in Word /\ c \in Nat /\ c <= 8
  BY <1>1, Ranges
<1>3. Answer(q, <<c, 0>>) \in Meant(q)
  BY SampleNumbers, MeantBy DEF Commands
<1>4. Bytes(Answer(q, <<c, 0>>)) = Words(<<c, 0>>)
  BY BytesOf
<1>5. Words(<<c, 0>>) = <<c, 0, 0, 0>>
  <2>1. /\ <<>> \in Seq(Word) /\ <<c>> \in Seq(Word) /\ 0 \in Word
        /\ <<c>> = Append(<<>>, c) /\ <<c, 0>> = Append(<<c>>, 0)
    BY <1>2, SampleNumbers
  <2>2. Words(<<c>>) = Words(<<>>) \o U16(c) /\ Words(<<c, 0>>) = Words(<<c>>) \o U16(0)
    BY <1>2, <2>1, WordsGrow
  <2>3. U16(c) = <<c, 0>> /\ U16(0) = <<0, 0>>
    BY <1>2 DEF U16, Byte
  <2>4. Words(<<>>) = <<>> /\ <<>> \o <<c, 0>> = <<c, 0>> /\ <<c, 0>> \o <<0, 0>> = <<c, 0, 0, 0>>
    <3>1. <<>> \o <<c, 0>> = <<c, 0>>
      BY <2>1, ConcatEmptySeq
    <3>2. <<c, 0>> \o <<0, 0>> = <<c, 0, 0, 0>>
      <4> DEFINE a == <<c, 0>>
                 z == <<0, 0>>
                 d == <<c, 0, 0, 0>>
      <4>1. /\ a \in Seq(Nat) /\ Len(a) = 2 /\ a[1] = c /\ a[2] = 0
            /\ z \in Seq(Nat) /\ Len(z) = 2 /\ z[1] = 0 /\ z[2] = 0
        BY <1>2
      <4>2. d \in Seq(Nat) /\ Len(d) = 4 /\ d[1] = c /\ d[2] = 0 /\ d[3] = 0 /\ d[4] = 0
        BY <1>2
      <4> HIDE DEF a, z, d
      <4>3. /\ a \o z \in Seq(Nat) /\ Len(a \o z) = 4
            /\ \A i \in 1..4 : (a \o z)[i] = IF i <= 2 THEN a[i] ELSE z[i - 2]
        <5>1. /\ a \o z \in Seq(Nat) /\ Len(a \o z) = Len(a) + Len(z)
              /\ \A i \in 1..(Len(a) + Len(z)) :
                   (a \o z)[i] = IF i <= Len(a) THEN a[i] ELSE z[i - Len(a)]
          BY <4>1, ConcatProperties
        <5> QED
          BY <4>1, <5>1
      <4>4. \A i \in 1..4 : (a \o z)[i] = d[i]
        BY <4>1, <4>2, <4>3
      <4>5. a \o z = d
        BY <4>2, <4>3, <4>4, SeqEqual
      <4> QED
        BY <4>5 DEF a, z, d
    <3> QED
      BY <3>1, <3>2, WordsGrow
  <2>5. Words(<<c>>) = <<c, 0>>
    BY <2>2, <2>3, <2>4
  <2> QED
    BY <2>2, <2>3, <2>4, <2>5
<1> QED
  BY <1>3, <1>4, <1>5, CommandsBack

LEMMA PassingIsUnpaid ==
  ASSUME NEW q \in Questions
  PROVE  Unpaid[q]
<1> SUFFICES ASSUME NEW bytes \in Passing(q) PROVE ~Meaningful(bytes, q)
  BY DEF Unpaid
<1>1. CASE q = "SelectChain"
  <2>1. bytes = Minus1
    BY <1>1 DEF Passing
  <2>2. Parse(q, bytes) = Answer("DeclineChain", <<>>)
    BY <1>1, <2>1, ParseOf, FewBytes
  <2> QED
    BY <1>1, <2>2, Fields DEF Meaningful
<1>2. CASE q = "SelectUnselectCard"
  <2>1. bytes = Minus1
    BY <1>2 DEF Passing
  <2>2. Parse(q, bytes) = Answer("Cancel", <<>>)
    BY <1>2, <2>1, ParseOf, FewBytes
  <2> QED
    BY <1>2, <2>2, Fields DEF Meaningful
<1>3. CASE q = "SelectIdleCommand"
  <2>1. PICK c \in 6..8 : bytes = <<c, 0, 0, 0>>
    BY <1>3 DEF Passing
  <2>2. q \in Phrases /\ c \in 0..LastCommand[q]
    BY <1>3 DEF Phrases, LastCommand
  <2>3. Parse(q, bytes) = Answer(q, <<c, 0>>)
    BY <2>1, <2>2, CommandRead
  <2>4. /\ Answer(q, <<c, 0>>).kind = "SelectIdleCommand" /\ Answer(q, <<c, 0>>).args = <<c, 0>>
        /\ <<c, 0>>[1] = c /\ ~(c <= 5)
    BY <1>3, Fields
  <2> QED
    BY <1>3, <2>3, <2>4 DEF Meaningful
<1>4. CASE q = "SelectBattleCommand"
  <2>1. PICK c \in 2..3 : bytes = <<c, 0, 0, 0>>
    BY <1>4 DEF Passing
  <2>2. q \in Phrases /\ c \in 0..LastCommand[q]
    BY <1>4 DEF Phrases, LastCommand
  <2>3. Parse(q, bytes) = Answer(q, <<c, 0>>)
    BY <2>1, <2>2, CommandRead
  <2>4. /\ Answer(q, <<c, 0>>).kind = "SelectBattleCommand" /\ Answer(q, <<c, 0>>).args = <<c, 0>>
        /\ <<c, 0>>[1] = c /\ ~(c <= 1)
    BY <1>4, Fields
  <2> QED
    BY <1>4, <2>3, <2>4 DEF Meaningful
<1>5. q \in {"SelectChain", "SelectUnselectCard", "SelectIdleCommand", "SelectBattleCommand"}
  BY DEF Passing
<1> QED
  BY <1>1, <1>2, <1>3, <1>4, <1>5

\* An answer's bytes are taken for what the client meant, and one that only passes the
\* question on earns no time, in every state of every match.
LEMMA Understood == AnswersUnderstood
<1>1. \A q \in Questions : ReadBack[q]
  BY SamplesMeant, EveryAnswerReadBack DEF ReadBack
<1>2. \A q \in Questions : Unpaid[q]
  BY PassingIsUnpaid
<1> QED
  BY <1>1, <1>2 DEF AnswersUnderstood, AnswersReadBack, PassingEarnsNothing

\* So in every state of a match answers are understood: nothing a client can send changes
\* how the next answer is read, nor what is taken for an answer worth time.
THEOREM AnswersAlwaysUnderstood == Spec => []AnswersUnderstood
  BY Understood, PTL

-----------------------------------------------------------------------------
(* The size of a file.                                                      *)

\* An answer that has bytes.
Written1 == {Answer(k, <<>>) : k \in Declines \cup {"DeclinePlace", "KeepCardOrder"}}
Written2 == {Answer(k, l) : k \in Uncounted \cup Counted, l \in Seq(Word)}
Written3 == {Answer(k, <<b>>) : k \in Letters, b \in Octet}
Written4 == {Answer("SelectUnselectCards", <<n>>) : n \in Word}
Written5 == {Answer("SelectPlace", p) : p \in Octet \X Octet \X Octet}
Written6 == {Answer(k, <<n>>) : k \in Wide, n \in Dword}
Written7 == {Answer(k, <<c, n>>) : k \in Phrases, c \in Word, n \in Word}
Answers == Written1 \cup Written2 \cup Written3 \cup Written4 \cup Written5 \cup Written6 \cup Written7

\* Whatever is meant can be written.
LEMMA MeantIsWritten ==
  ASSUME NEW q \in Questions
  PROVE  Meant(q) \subseteq Answers
<1> USE DEF Answers
<1>1. /\ \A k \in Declines \cup {"DeclinePlace", "KeepCardOrder"} : Answer(k, <<>>) \in Written1
      /\ \A k \in Uncounted \cup Counted : \A l \in Seq(Word) : Answer(k, l) \in Written2
      /\ \A k \in Letters : \A b \in Octet : Answer(k, <<b>>) \in Written3
      /\ \A n \in Word : Answer("SelectUnselectCards", <<n>>) \in Written4
      /\ \A p \in Octet \X Octet \X Octet : Answer("SelectPlace", p) \in Written5
      /\ \A k \in Wide : \A n \in Dword : Answer(k, <<n>>) \in Written6
      /\ \A k \in Phrases : \A c, n \in Word : Answer(k, <<c, n>>) \in Written7
  BY DEF Written1, Written2, Written3, Written4, Written5, Written6, Written7
<1>2. /\ {"SelectCards", "SelectTribute", "SelectSum", "SelectCounter", "SortCards"}
           \subseteq Uncounted \cup Counted
      /\ {"SelectYesNo", "SelectOption", "SelectChain", "SelectPosition"} \subseteq Letters
      /\ {"Cancel", "DeclineChain"} \subseteq Declines
      /\ 0 \in Octet /\ 1 \in Octet /\ Short \subseteq Seq(Word)
  BY SampleNumbers DEF Uncounted, Counted, Letters, Declines, Short
<1> SUFFICES ASSUME NEW r \in Meant(q) PROVE r \in Answers
  OBVIOUS
<1>3. CASE q \in Phrases
  <2>1. PICK c \in 0..LastCommand[q], n \in Word : r = Answer(q, <<c, n>>)
    <3>1. r \in Commands(q)
      BY <1>3, MeantBy
    <3> QED
      BY <3>1 DEF Commands
  <2>2. c \in Word
    <3>1. LastCommand[q] \in 0..8
      BY <1>3 DEF LastCommand, Phrases
    <3> QED
      BY <3>1, Ranges
  <2> QED
    BY <1>1, <1>3, <2>1, <2>2
<1>4. CASE q \in {"SelectEffectYesNo", "SelectYesNo"}
  <2>1. PICK b \in {0, 1} : r = Answer("SelectYesNo", <<b>>)
    BY <1>4, MeantBy
  <2> QED
    BY <1>1, <1>2, <2>1
<1>5. CASE q \in {"SelectOption", "AnnounceNumber"}
  <2>1. Meant(q) = {Answer("SelectOption", <<b>>) : b \in Octet}
    BY <1>5, MeantBy, Zenon
  <2> QED
    BY <1>1, <1>2, <2>1
<1>6. CASE q = "SelectPosition"
  <2>1. Meant(q) = {Answer("SelectPosition", <<b>>) : b \in Octet}
    BY <1>6, MeantBy, Zenon
  <2> QED
    BY <1>1, <1>2, <2>1
<1>7. CASE q = "SelectChain"
  <2>1. Meant(q) = {Answer("DeclineChain", <<>>)} \cup {Answer("SelectChain", <<b>>) : b \in Octet}
    BY <1>7, MeantBy
  <2> QED
    BY <1>1, <1>2, <2>1
<1>8. CASE q = "SelectCard"
  <2>1. Meant(q) = {Answer("Cancel", <<>>)} \cup {Answer("SelectCards", l) : l \in Short}
    BY <1>8, MeantBy
  <2> QED
    BY <1>1, <1>2, <2>1
<1>9. CASE q = "SelectTribute"
  <2>1. Meant(q) = {Answer("Cancel", <<>>)} \cup {Answer("SelectTribute", l) : l \in Short}
    BY <1>9, MeantBy
  <2> QED
    BY <1>1, <1>2, <2>1
<1>10. CASE q = "SelectUnselectCard"
  <2>1. Meant(q) = {Answer("Cancel", <<>>)} \cup {Answer("SelectUnselectCards", <<n>>) : n \in Word}
    BY <1>10, MeantBy
  <2> QED
    BY <1>1, <1>2, <2>1
<1>11. CASE q = "SelectSum"
  <2>1. Meant(q) = {Answer("SelectSum", l) : l \in Short}
    BY <1>11, MeantBy
  <2> QED
    BY <1>1, <1>2, <2>1
<1>12. CASE q = "SelectCounter"
  <2>1. Meant(q) = {Answer("SelectCounter", l) : l \in Seq(Word)}
    BY <1>12, MeantBy
  <2> QED
    BY <1>1, <1>2, <2>1
<1>13. CASE q \in {"SelectPlace", "SelectDisableField"}
  <2> DEFINE P == (Octet \X Octet \X Octet) \ {<<0, 0, 0>>}
  <2>1. Meant(q) = {Answer("DeclinePlace", <<>>)} \cup {Answer("SelectPlace", p) : p \in P}
    BY <1>13, MeantBy, Zenon
  <2>2. P \subseteq Octet \X Octet \X Octet
    OBVIOUS
  <2> HIDE DEF P
  <2> QED
    BY <1>1, <2>1, <2>2
<1>14. CASE q = "SortCard"
  <2>1. Meant(q) = {Answer("KeepCardOrder", <<>>)} \cup {Answer("SortCards", l) : l \in Seq(Word)}
    BY <1>14, MeantBy
  <2> QED
    BY <1>1, <1>2, <2>1
<1>15. CASE q \in Wide
  <2>1. Meant(q) = {Answer(q, <<n>>) : n \in Dword}
    BY <1>15, MeantBy
  <2> QED
    BY <1>1, <1>15, <2>1
<1> QED
  BY <1>3, <1>4, <1>5, <1>6, <1>7, <1>8, <1>9, <1>10, <1>11, <1>12, <1>13, <1>14, <1>15, AllQuestions

\* What is counted by hand for each kind of answer.
LEMMA WidthOf ==
  ASSUME NEW args
  PROVE  /\ \A k \in Declines \cup Phrases \cup Wide : Width(Answer(k, args)) = 4
         /\ \A k \in Letters \cup {"KeepCardOrder"} : Width(Answer(k, args)) = 1
         /\ \A k \in Counted : Width(Answer(k, args)) = 1 + 2 * Len(args)
         /\ \A k \in Uncounted : Width(Answer(k, args)) = 2 * Len(args)
         /\ \A k \in {"SelectUnselectCards", "SelectPlace", "DeclinePlace"} : Width(Answer(k, args)) = 3
<1>1. \A k : Answer(k, args).kind = k /\ Answer(k, args).args = args
  BY DEF Answer
<1>2. \A k \in Declines \cup Phrases \cup Wide : Width(Answer(k, args)) = 4
  BY <1>1 DEF Width, Declines, Phrases, Uncounted, Letters, Counted, Wide
<1>3. \A k \in Letters \cup {"KeepCardOrder"} : Width(Answer(k, args)) = 1
  BY <1>1 DEF Width, Declines, Phrases, Uncounted, Letters, Counted, Wide
<1>4. \A k \in Counted : Width(Answer(k, args)) = 1 + 2 * Len(args)
  BY <1>1 DEF Width, Declines, Phrases, Uncounted, Letters, Counted, Wide
<1>5. \A k \in Uncounted : Width(Answer(k, args)) = 2 * Len(args)
  BY <1>1 DEF Width, Declines, Phrases, Uncounted, Letters, Counted, Wide
<1>6. \A k \in {"SelectUnselectCards", "SelectPlace", "DeclinePlace"} : Width(Answer(k, args)) = 3
  BY <1>1 DEF Width, Declines, Phrases, Uncounted, Letters, Counted, Wide
<1> QED
  BY <1>2, <1>3, <1>4, <1>5, <1>6

\* Response::len, kept by hand, is the number of bytes write_options puts out.
LEMMA WidthIsWritten ==
  ASSUME NEW r \in Answers
  PROVE  Put(r) = Width(r) /\ Width(r) \in Nat
<1>0. Put(r) = Len(Bytes(r))
  BY DEF Put
<1>1. CASE r \in Written1
  <2>1. PICK k \in Declines \cup {"DeclinePlace", "KeepCardOrder"} : r = Answer(k, <<>>)
    BY <1>1 DEF Written1
  <2>2. CASE k \in Declines
    <3>1. Bytes(r) = Minus1 /\ Width(r) = 4
      BY <2>1, <2>2, BytesOf, WidthOf
    <3>2. Len(Minus1) = 4
      BY DEF Minus1
    <3> QED
      BY <1>0, <3>1, <3>2
  <2>3. CASE k = "DeclinePlace"
    <3>1. Bytes(r) = <<0, 0, 0>> /\ Width(r) = 3
      BY <2>1, <2>3, BytesOf, WidthOf
    <3>2. Len(Bytes(r)) = 3
      BY <3>1
    <3> QED
      BY <1>0, <3>1, <3>2
  <2>4. CASE k = "KeepCardOrder"
    <3>1. Bytes(r) = <<255>> /\ Width(r) = 1
      BY <2>1, <2>4, BytesOf, WidthOf
    <3>2. Len(Bytes(r)) = 1
      BY <3>1
    <3> QED
      BY <1>0, <3>1, <3>2
  <2> QED
    BY <2>1, <2>2, <2>3, <2>4
<1>2. CASE r \in Written2
  <2>1. PICK k \in Uncounted \cup Counted, l \in Seq(Word) : r = Answer(k, l)
    BY <1>2 DEF Written2
  <2>2. Words(l) \in Seq(Octet) /\ Len(Words(l)) = 2 * Len(l) /\ Len(l) \in Nat
    BY WordsSpelt DEF Spelt
  <2>3. CASE k \in Uncounted
    <3>1. Bytes(r) = Words(l) /\ Width(r) = 2 * Len(l)
      BY <2>1, <2>3, BytesOf, WidthOf
    <3> QED
      BY <1>0, <2>2, <3>1
  <2>4. CASE k \in Counted
    <3>1. Bytes(r) = <<Len(l) % Byte>> \o Words(l) /\ Width(r) = 1 + 2 * Len(l)
      BY <2>1, <2>4, BytesOf, WidthOf
    <3>2. PICK b : b = Len(l) % Byte /\ b \in Nat
      <4>1. \A m \in Nat : m % Byte \in Nat
        BY DEF Byte
      <4> QED
        BY <2>2, <4>1
    <3>3. <<b>> \in Seq(Nat) /\ Len(<<b>>) = 1 /\ Words(l) \in Seq(Nat)
      <4>1. Octet \subseteq Nat
        BY SMT DEF Octet, Byte
      <4>2. Words(l) \in Seq(Nat)
        BY <2>2, <4>1, SeqMonotonic
      <4>3. \A m \in Nat : <<m>> \in Seq(Nat) /\ Len(<<m>>) = 1
        OBVIOUS
      <4> QED
        BY <3>2, <4>2, <4>3
    <3>4. Len(<<b>> \o Words(l)) = Len(<<b>>) + Len(Words(l))
      BY <3>3, ConcatProperties
    <3> QED
      BY <2>2, <3>1, <3>2, <3>3, <3>4, <1>0
  <2> QED
    BY <2>1, <2>3, <2>4
<1>3. CASE r \in Written3
  <2>1. PICK k \in Letters, b \in Octet : r = Answer(k, <<b>>)
    BY <1>3 DEF Written3
  <2>2. Bytes(r) = << <<b>>[1] >> /\ Width(r) = 1
    BY <2>1, BytesOf, WidthOf
  <2> QED
    BY <1>0, <2>2
<1>4. CASE r \in Written4
  <2>1. PICK n \in Word : r = Answer("SelectUnselectCards", <<n>>)
    BY <1>4 DEF Written4
  <2>2. Bytes(r) = <<1>> \o U16(<<n>>[1]) /\ Width(r) = 3
    BY <2>1, BytesOf, WidthOf
  <2>3. U16(n) \in Seq(Octet) /\ Len(U16(n)) = 2 /\ <<n>>[1] = n
    BY WordBytes
  <2>4. Len(<<1>> \o U16(n)) = 1 + Len(U16(n))
    <3>1. PICK w \in Seq(Octet) : w = U16(n)
      BY <2>3
    <3>2. 1 \in Octet
      BY SampleNumbers
    <3>3. Len(<<1>> \o w) = 1 + Len(w)
      BY <3>2, BehindTheFirst
    <3> QED
      BY <3>1, <3>3
  <2> QED
    BY <1>0, <2>2, <2>3, <2>4
<1>5. CASE r \in Written5
  <2>1. PICK p \in Octet \X Octet \X Octet : r = Answer("SelectPlace", p)
    BY <1>5 DEF Written5
  <2>2. Bytes(r) = p /\ Width(r) = 3
    BY <2>1, BytesOf, WidthOf
  <2>3. Len(p) = 3
    OBVIOUS
  <2> QED
    BY <1>0, <2>2, <2>3
<1>6. CASE r \in Written6
  <2>1. PICK k \in Wide, n \in Dword : r = Answer(k, <<n>>)
    BY <1>6 DEF Written6
  <2>2. Bytes(r) = U32(<<n>>[1]) /\ Width(r) = 4 /\ <<n>>[1] = n
    BY <2>1, BytesOf, WidthOf
  <2>3. Len(U32(n)) = 4 /\ Bytes(r) = U32(n)
    BY <2>2, DwordBack
  <2>4. Width(r) = 4
    BY <2>2
  <2>5. Put(r) = 4
    BY <1>0, <2>3
  <2> QED
    BY <2>4, <2>5
<1>7. CASE r \in Written7
  <2>1. PICK k \in Phrases, c \in Word, n \in Word : r = Answer(k, <<c, n>>)
    BY ONLY <1>7, SMTT(30) DEF Written7
  <2>2. Bytes(r) = Words(<<c, n>>)
    BY <2>1, BytesOf
  <2>3. Width(r) = 4
    BY <2>1, WidthOf
  <2> QED
    BY <1>0, <2>2, <2>3, PhraseBack
<1> QED
  BY <1>1, <1>2, <1>3, <1>4, <1>5, <1>6, <1>7 DEF Answers

\* What the answers of a file take is a number.
LEMMA DataSizesTyped ==
  ASSUME NEW s \in Seq(Nat)
  PROVE  DataSizes(s) \in Nat
<1> DEFINE Up(h) == h = [t \in SUBSET DOMAIN s |->
                           IF t = {} THEN 0 ELSE h[t \ {Max(t)}] + 1 + s[Max(t)]]
           way == CHOOSE h : Up(h)
           f == [y \in Nat \X Nat |-> y[1] + 1 + y[2]]
<1>1. DataSizes(s) = way[DOMAIN s]
  BY DEF DataSizes, FoldLeft, MapThenFoldSet
<1>2. DOMAIN s = 1..Len(s) /\ Len(s) \in Nat /\ \A i \in DOMAIN s : s[i] \in Nat
  OBVIOUS
<1>3. f \in [Nat \X Nat -> Nat] /\ \A x, y \in Nat : f[<<x, y>>] = x + 1 + y
  OBVIOUS
<1> HIDE DEF f
<1>4. PICK g \in [SUBSET DOMAIN s -> Nat] : Climbs(g, f, 0, s)
  BY <1>3, Climbing
<1>5. ASSUME NEW t \in SUBSET DOMAIN s, t # {}
      PROVE  Max(t) \in DOMAIN s /\ s[Max(t)] \in Nat /\ t \ {Max(t)} \in SUBSET DOMAIN s
  BY <1>2, <1>5, Highest
<1>6. Up(g)
  <2>1. ASSUME NEW t \in SUBSET DOMAIN s
        PROVE  g[t] = IF t = {} THEN 0 ELSE g[t \ {Max(t)}] + 1 + s[Max(t)]
    <3>1. g[t] = IF t = {} THEN 0 ELSE f[<<g[t \ {Max(t)}], s[Max(t)]>>]
      BY <1>4 DEF Climbs
    <3>2. CASE t # {}
      <4>1. s[Max(t)] \in Nat /\ g[t \ {Max(t)}] \in Nat
        BY <1>5, <3>2
      <4> QED
        BY <1>3, <3>1, <3>2, <4>1
    <3> QED
      BY <3>1, <3>2
  <2> QED
    BY <2>1
<1>7. Up(way)
  <2> HIDE DEF Up
  <2> QED
    BY <1>6
<1> HIDE DEF way
<1> DEFINE Good == {m \in Nat : \A t \in SUBSET DOMAIN s : t \subseteq 1..m => way[t] \in Nat}
<1>8. 0 \in Good
  <2>1. \A t \in SUBSET DOMAIN s : t \subseteq 1..0 => t = {}
    OBVIOUS
  <2>2. way[{}] = 0 /\ 0 \in Nat
    BY <1>7
  <2>3. \A t \in SUBSET DOMAIN s : t \subseteq 1..0 => way[t] \in Nat
    <3> SUFFICES ASSUME NEW t \in SUBSET DOMAIN s, t \subseteq 1..0 PROVE way[t] \in Nat
      OBVIOUS
    <3>1. t = {}
      BY <2>1
    <3> QED
      BY <2>2, <3>1
  <2> QED
    BY <2>3
<1>9. ASSUME NEW m \in Good PROVE m + 1 \in Good
  <2> SUFFICES ASSUME NEW t \in SUBSET DOMAIN s, t \subseteq 1..(m + 1) PROVE way[t] \in Nat
    OBVIOUS
  <2>1. CASE t = {}
    <3>1. way[{}] = 0 /\ 0 \in Nat
      BY <1>7
    <3> QED
      BY <2>1, <3>1
  <2>2. CASE t # {}
    <3>1. way[t] = way[t \ {Max(t)}] + 1 + s[Max(t)]
      BY <1>7, <2>2
    <3>2. s[Max(t)] \in Nat /\ t \ {Max(t)} \in SUBSET DOMAIN s
      BY <1>5, <2>2
    <3>3. t \ {Max(t)} \subseteq 1..m
      <4>1. Max(t) \in t /\ \A y \in t : Max(t) >= y
        <5>1. m + 1 \in Nat /\ t \in SUBSET (1..(m + 1))
          OBVIOUS
        <5> QED
          BY <2>2, <5>1, Highest
      <4>2. SUFFICES ASSUME NEW y \in t, y # Max(t) PROVE y \in 1..m
        OBVIOUS
      <4>3. y \in 1..(m + 1) /\ Max(t) \in 1..(m + 1) /\ Max(t) >= y /\ m \in Nat
        BY <4>1
      <4> QED
        BY <4>2, <4>3
    <3>4. way[t \ {Max(t)}] \in Nat
      BY <3>2, <3>3
    <3> QED
      BY <3>1, <3>2, <3>4
  <2> QED
    BY <2>1, <2>2
<1>10. Good = Nat
  <2>1. Good \in SUBSET Nat
    OBVIOUS
  <2> HIDE DEF Good
  <2> QED
    BY <1>8, <1>9, <2>1, Counting
<1>11. Len(s) \in Good /\ DOMAIN s \in SUBSET DOMAIN s /\ DOMAIN s \subseteq 1..Len(s)
  BY <1>2, <1>10
<1>12. way[DOMAIN s] \in Nat
  BY <1>11
<1> QED
  BY <1>1, <1>12

\* A sum over the parts of a file is the sum of two numbers or of four.
Share(f, s, role) == IF role \in s THEN f[role] ELSE 0
Shares(tag, f, s) ==
  Share(f, s, "host") + Share(f, s, "client")
    + (IF tag THEN Share(f, s, "tag_host") + Share(f, s, "tag_client") ELSE 0)

LEMMA SharesTaken ==
  ASSUME NEW tag \in BOOLEAN, NEW f \in [Roles(tag) -> Nat], NEW s \in SUBSET Roles(tag)
  PROVE  /\ Shares(tag, f, s) \in Nat
         /\ s = {} => Shares(tag, f, s) = 0
         /\ \A x \in s : Shares(tag, f, s) = f[x] + Shares(tag, f, s \ {x})
<1>1. /\ Roles(tag) = {"host", "client"} \cup (IF tag THEN {"tag_host", "tag_client"} ELSE {})
      /\ \A role \in Roles(tag) : f[role] \in Nat
  BY DEF Roles
<1>2. \A u \in SUBSET Roles(tag), role \in Roles(tag) : Share(f, u, role) \in Nat
  BY <1>1 DEF Share
<1>3. \A u \in SUBSET Roles(tag) : Shares(tag, f, u) \in Nat
  BY <1>1, <1>2 DEF Shares
<1>4. s = {} => Shares(tag, f, s) = 0
  BY DEF Shares, Share
<1>5. ASSUME NEW x \in s PROVE Shares(tag, f, s) = f[x] + Shares(tag, f, s \ {x})
  <2>1. /\ Share(f, s, x) = f[x] /\ Share(f, s \ {x}, x) = 0 /\ x \in Roles(tag) /\ f[x] \in Nat
        /\ \A role \in Roles(tag) : role # x => Share(f, s \ {x}, role) = Share(f, s, role)
    BY <1>1 DEF Share
  <2>2. s \ {x} \in SUBSET Roles(tag)
    OBVIOUS
  <2>3. CASE tag
    <3>1. Roles(tag) = {"host", "client", "tag_host", "tag_client"}
      BY <1>1, <2>3
    <3>2. \A u : Shares(tag, f, u) = Share(f, u, "host") + Share(f, u, "client")
                                     + (Share(f, u, "tag_host") + Share(f, u, "tag_client"))
      BY <2>3 DEF Shares
    <3>3. x = "host" \/ x = "client" \/ x = "tag_host" \/ x = "tag_client"
      BY <2>1, <3>1
    <3>4. \A role \in Roles(tag) : Share(f, s, role) \in Nat
      BY <1>2
    <3> QED
      BY <2>1, <3>1, <3>2, <3>3, <3>4
  <2>4. CASE ~tag
    <3>1. Roles(tag) = {"host", "client"}
      BY <1>1, <2>4
    <3>2. \A u : Shares(tag, f, u) = Share(f, u, "host") + Share(f, u, "client") + 0
      BY <2>4 DEF Shares
    <3>3. x = "host" \/ x = "client"
      BY <2>1, <3>1
    <3>4. \A role \in Roles(tag) : Share(f, s, role) \in Nat
      BY <1>2
    <3> QED
      BY <2>1, <3>1, <3>2, <3>3, <3>4
  <2> QED
    BY <2>3, <2>4
<1> QED
  BY <1>3, <1>4, <1>5

LEMMA SumOverRoles ==
  ASSUME NEW tag \in BOOLEAN, NEW f \in [Roles(tag) -> Nat]
  PROVE  SumFunction(f) = Shares(tag, f, Roles(tag))
<1> DEFINE R == Roles(tag)
           Up(h) == h = [s \in SUBSET R |-> IF s = {} THEN 0
                           ELSE f[CHOOSE x \in s : TRUE] + h[s \ {CHOOSE x \in s : TRUE}]]
           way == CHOOSE h : Up(h)
           g == [s \in SUBSET R |-> Shares(tag, f, s)]
<1>1. SumFunction(f) = way[R]
  <2>1. DOMAIN f = R
    OBVIOUS
  <2> HIDE DEF R
  <2> QED
    BY <2>1 DEF SumFunction, SumFunctionOnSet, FoldFunctionOnSet, MapThenFoldSet
<1>2. \A s \in SUBSET R : s # {} =>
        (CHOOSE x \in s : TRUE) \in s /\ s \ {CHOOSE x \in s : TRUE} \in SUBSET R
  OBVIOUS
<1>3. \A s \in SUBSET R : g[s] = Shares(tag, f, s)
  OBVIOUS
<1>4. ASSUME NEW s \in SUBSET R
      PROVE  g[s] = IF s = {} THEN 0
                    ELSE f[CHOOSE x \in s : TRUE] + g[s \ {CHOOSE x \in s : TRUE}]
  <2>1. CASE s = {}
    BY <1>3, <2>1, SharesTaken
  <2>2. CASE s # {}
    <3>1. PICK x \in s : x = CHOOSE y \in s : TRUE
      BY <1>2, <2>2
    <3>2. Shares(tag, f, s) = f[x] + Shares(tag, f, s \ {x})
      BY SharesTaken
    <3>3. g[s] = Shares(tag, f, s) /\ g[s \ {x}] = Shares(tag, f, s \ {x})
      OBVIOUS
    <3>4. g[s] = f[x] + g[s \ {x}]
      BY <3>2, <3>3
    <3> HIDE DEF g
    <3> QED
      BY <2>2, <3>1, <3>4
  <2> QED
    BY <2>1, <2>2
<1>5. g = [s \in SUBSET R |-> g[s]]
  OBVIOUS
<1> HIDE DEF g
<1>6. Up(g)
  BY <1>4, <1>5
<1>7. Up(way)
  <2> HIDE DEF Up
  <2> QED
    BY <1>6
<1> HIDE DEF way
<1> DEFINE Good == {s \in SUBSET R : way[s] = g[s]}
<1>8. {} \in Good
  BY <1>6, <1>7
<1>9. ASSUME NEW s \in SUBSET R, \A x \in s : s \ {x} \in Good PROVE s \in Good
  <2>1. CASE s = {}
    BY <1>8, <2>1
  <2>2. CASE s # {}
    <3>1. PICK x \in s : x = CHOOSE y \in s : TRUE
      BY <1>2, <2>2
    <3>2. s \ {x} \in Good
      BY <1>9
    <3>3. way[s \ {x}] = g[s \ {x}]
      BY <3>2
    <3>4. way[s] = f[x] + way[s \ {x}] /\ g[s] = f[x] + g[s \ {x}]
      BY <1>6, <1>7, <2>2, <3>1
    <3> QED
      BY <3>3, <3>4
  <2> QED
    BY <2>1, <2>2
<1>10. R \in Good
  <2>1. IsFiniteSet(R)
    <3>1. \A x, y : IsFiniteSet({x, y})
      <4> SUFFICES ASSUME NEW x, NEW y PROVE IsFiniteSet({x, y})
        OBVIOUS
      <4>1. IsFiniteSet({x} \cup {y})
        BY FS_Singleton, FS_Union
      <4>2. {x} \cup {y} = {x, y}
        OBVIOUS
      <4> QED
        BY <4>1, <4>2
    <3>2. IsFiniteSet({}) /\ IsFiniteSet({"host", "client"}) /\ IsFiniteSet({"tag_host", "tag_client"})
      BY <3>1, FS_EmptySet
    <3>3. IsFiniteSet(IF tag THEN {"tag_host", "tag_client"} ELSE {})
      BY <3>2
    <3> QED
      BY <3>2, <3>3, FS_Union DEF Roles
  <2>2. \A s \in SUBSET R : IsFiniteSet(s) /\ Cardinality(s) \in Nat
    BY <2>1, FS_Subset, FS_CardinalityType
  <2> DEFINE Sizes == {n \in Nat : \A s \in SUBSET R : Cardinality(s) = n => s \in Good}
  <2>3. 0 \in Sizes
    BY <1>8, <2>2, FS_EmptySet
  <2>4. ASSUME NEW n \in Sizes PROVE n + 1 \in Sizes
    <3>1. ASSUME NEW s \in SUBSET R, Cardinality(s) = n + 1 PROVE s \in Good
      <4>1. ASSUME NEW x \in s PROVE s \ {x} \in Good
        <5>1. Cardinality(s \ {x}) = Cardinality(s) - 1
          BY <2>2, FS_RemoveElement
        <5>2. Cardinality(s \ {x}) = n /\ s \ {x} \in SUBSET R
          BY <3>1, <5>1
        <5> QED
          BY <5>2
      <4> HIDE DEF Good
      <4> QED
        BY <1>9, <4>1
    <3> HIDE DEF Good
    <3> QED
      BY <3>1
  <2>5. Sizes = Nat
    <3>1. Sizes \in SUBSET Nat
      OBVIOUS
    <3> HIDE DEF Sizes
    <3> QED
      BY <2>3, <2>4, <3>1, Counting
  <2>6. R \in SUBSET R /\ Cardinality(R) \in Sizes
    BY <2>2, <2>5
  <2> HIDE DEF Good
  <2> QED
    BY <2>6
<1>11. way[R] = Shares(tag, f, R)
  BY <1>10 DEF g
<1> QED
  BY <1>1, <1>11

\* Piles of cards of C.
Piles(C) == [main : Seq(C), extra : Seq(C)]

LEMMA DeckSizeTyped ==
  ASSUME NEW C, NEW deck \in Piles(C)
  PROVE  DeckSize(deck) \in Nat
BY DEF Piles, DeckSize

LEMMA Turned ==
  ASSUME NEW C, NEW s \in Seq(C)
  PROVE  Reverse(s) \in Seq(C) /\ Reverse(Reverse(s)) = s
<1> DEFINE t == Reverse(s)
           n == Len(s)
<1>1. n \in Nat /\ t = [i \in 1..n |-> s[(n - i) + 1]] /\ s = [i \in 1..n |-> s[i]]
  BY DEF Reverse
<1>2. \A i \in 1..n : (n - i) + 1 \in 1..n /\ (n - ((n - i) + 1)) + 1 = i
  BY <1>1
<1>3. \A i \in 1..n : s[i] \in C
  OBVIOUS
<1> HIDE DEF t, n
<1>4. t \in Seq(C) /\ Len(t) = n
  <2>1. \A i \in 1..n : t[i] \in C
    BY <1>1, <1>2, <1>3
  <2>2. t = [i \in 1..n |-> t[i]]
    BY <1>1
  <2> QED
    BY <1>1, <2>1, <2>2, IsASeq
<1>5. Reverse(t) = [i \in 1..n |-> t[(n - i) + 1]]
  BY <1>4 DEF Reverse
<1>6. \A i \in 1..n : t[(n - i) + 1] = s[i]
  <2> SUFFICES ASSUME NEW i \in 1..n PROVE t[(n - i) + 1] = s[i]
    OBVIOUS
  <2>1. (n - i) + 1 \in 1..n
    BY <1>2
  <2>2. t[(n - i) + 1] = s[(n - ((n - i) + 1)) + 1]
    BY <1>1, <2>1
  <2> QED
    BY <1>2, <2>2
<1>7. Reverse(t) = s
  BY <1>1, <1>5, <1>6
<1> QED
  BY <1>4, <1>7 DEF t

LEMMA TurnedDeck ==
  ASSUME NEW C, NEW deck \in Piles(C)
  PROVE  ReplayDeck(deck) \in Piles(C) /\ ReplayDeck(ReplayDeck(deck)) = deck
<1>1. /\ deck.main \in Seq(C) /\ deck.extra \in Seq(C)
      /\ deck = [main |-> deck.main, extra |-> deck.extra]
  BY DEF Piles
<1>2. /\ Reverse(deck.main) \in Seq(C) /\ Reverse(deck.extra) \in Seq(C)
      /\ Reverse(Reverse(deck.main)) = deck.main /\ Reverse(Reverse(deck.extra)) = deck.extra
  BY <1>1, Turned
<1>3. /\ ReplayDeck(deck).main = Reverse(deck.main) /\ ReplayDeck(deck).extra = Reverse(deck.extra)
      /\ ReplayDeck(deck) \in Piles(C)
  BY <1>2 DEF ReplayDeck, Piles
<1>4. ReplayDeck(ReplayDeck(deck)) = [main |-> deck.main, extra |-> deck.extra]
  BY <1>2, <1>3 DEF ReplayDeck
<1> QED
  BY <1>1, <1>3, <1>4

\* The size announced in the header is that of the body, for files of both modes, whatever
\* the decks and the answers in them.
THEOREM SizeIsThatWritten ==
  ASSUME NEW C, NEW tag \in BOOLEAN, NEW table,
         \A seat \in 0..3 : table[seat].deck \in Piles(C),
         NEW answers \in Seq(Answers)
  PROVE  FillDataSize(CreateReplay(tag, table, answers))
           = Written(CreateReplay(tag, table, answers))
<1> DEFINE file == CreateReplay(tag, table, answers)
           size == [role \in Roles(tag) |-> DeckSize(file.parts[role].deck)]
           f == [role \in Roles(file.tag) |-> NameSize + DeckSize(file.parts[role].deck)]
           d == DataSizes([i \in DOMAIN file.datas |-> Put(file.datas[i])])
<1>1. /\ file.tag = tag /\ file.datas = answers
      /\ \A role \in Roles(tag) : file.parts[role].deck = ReplayDeck(table[Owner(tag)[role]].deck)
  BY DEF CreateReplay
<1>2. /\ Roles(tag) = {"host", "client"} \cup (IF tag THEN {"tag_host", "tag_client"} ELSE {})
      /\ \A role \in Roles(tag) : Owner(tag)[role] \in 0..3
  BY DEF Roles, Owner
<1>3. \A role \in Roles(tag) : DeckSize(file.parts[role].deck) \in Nat
  <2> HIDE DEF file
  <2> QED
    BY <1>1, <1>2, TurnedDeck, DeckSizeTyped
<1> HIDE DEF file
<1>4. \A role \in Roles(tag) : size[role] = DeckSize(file.parts[role].deck) /\ size[role] \in Nat
  BY <1>3
<1> HIDE DEF size
<1>5. \A i \in DOMAIN answers : Put(answers[i]) = Width(answers[i]) /\ Put(answers[i]) \in Nat
  <2>1. \A i \in DOMAIN answers : answers[i] \in Answers
    OBVIOUS
  <2> QED
    BY <2>1, WidthIsWritten
<1>6. [i \in DOMAIN file.datas |-> Put(file.datas[i])] = [i \in DOMAIN file.datas |-> Width(file.datas[i])]
  BY <1>1, <1>5
<1>7. d \in Nat
  <2>1. [i \in DOMAIN answers |-> Put(answers[i])] \in Seq(Nat)
    BY <1>5
  <2> QED
    BY <1>1, <2>1, DataSizesTyped
<1>8. d = DataSizes([i \in DOMAIN file.datas |-> Width(file.datas[i])])
  BY <1>6
<1>9. f = [role \in Roles(tag) |-> NameSize + size[role]]
  BY <1>1, <1>4
<1>10. Written(file) = SumFunction(f) + Scalars + d
  BY DEF Written
<1> HIDE DEF d, f
<1>11. NameSize \in Nat /\ Scalars \in Nat
  BY DEF NameSize, Scalars
<1>12. f \in [Roles(tag) -> Nat]
  BY <1>4, <1>9, <1>11
<1>13. SumFunction(f) = Shares(tag, f, Roles(tag))
  BY <1>12, SumOverRoles
<1>14. \A role \in Roles(tag) : Share(f, Roles(tag), role) = NameSize + size[role]
  BY <1>9 DEF Share
<1>15. CASE tag
  <2>1. SumFunction(f) = (NameSize + size["host"]) + (NameSize + size["client"])
                         + ((NameSize + size["tag_host"]) + (NameSize + size["tag_client"]))
    <3>1. Roles(tag) = {"host", "client", "tag_host", "tag_client"}
      BY <1>2, <1>15
    <3> QED
      BY <1>13, <1>14, <1>15, <3>1 DEF Shares
  <2>2. FillDataSize(file) = 2 * NameSize + Scalars + size["host"] + size["client"] + d
                             + (2 * NameSize + size["tag_host"] + size["tag_client"])
    BY <1>1, <1>2, <1>4, <1>8, <1>15 DEF FillDataSize
  <2>3. size["host"] \in Nat /\ size["client"] \in Nat /\ size["tag_host"] \in Nat /\ size["tag_client"] \in Nat
    BY <1>2, <1>4, <1>15
  <2>4. PICK N \in Nat, Z \in Nat, D \in Nat : N = NameSize /\ Z = Scalars /\ D = d
    BY <1>7, <1>11
  <2>5. PICK h \in Nat, c \in Nat, th \in Nat, tc \in Nat :
          h = size["host"] /\ c = size["client"] /\ th = size["tag_host"] /\ tc = size["tag_client"]
    BY <2>3
  <2>6. /\ FillDataSize(file) = 2 * N + Z + h + c + D + (2 * N + th + tc)
        /\ Written(file) = ((N + h) + (N + c) + ((N + th) + (N + tc))) + Z + D
    BY <1>10, <2>1, <2>2, <2>4, <2>5
  <2>7. FillDataSize(file) = Written(file)
    BY <2>6
  <2> QED
    BY <2>7 DEF file
<1>16. CASE ~tag
  <2>1. SumFunction(f) = (NameSize + size["host"]) + (NameSize + size["client"]) + 0
    <3>1. Roles(tag) = {"host", "client"}
      BY <1>2, <1>16
    <3> QED
      BY <1>13, <1>14, <1>16, <3>1 DEF Shares
  <2>2. FillDataSize(file) = 2 * NameSize + Scalars + size["host"] + size["client"] + d + 0
    BY <1>1, <1>2, <1>4, <1>8, <1>16 DEF FillDataSize
  <2>3. size["host"] \in Nat /\ size["client"] \in Nat
    BY <1>2, <1>4
  <2>4. FillDataSize(file) = Written(file)
    BY <1>7, <1>10, <1>11, <2>1, <2>2, <2>3
  <2> QED
    BY <2>4 DEF file
<1> QED
  BY <1>15, <1>16

\* A table whose two seats have decks of cards of C, and the file of a single duel on it.
Laid(table, C) == \A seat \in {0, 1} : table[seat].deck \in Piles(C)
Filed(table, answers, first) == SingleSwap(CreateReplay(FALSE, table, answers), first = 1)

\* The duel a file of a single duel is played as is the one it was made of: the engine is
\* given the same cards for the same player in the same order, whoever attacked first.
THEOREM ReplayDealsTheSame ==
  ASSUME NEW C, NEW table, Laid(table, C),
         NEW answers, NEW first \in {0, 1}, NEW p \in {0, 1}
  PROVE  /\ DealtTo(p, Counterfeit(Filed(table, answers, first)), 0) = DealtTo(p, table, first)
         /\ Filed(table, answers, first).datas = answers
<1> DEFINE made == CreateReplay(FALSE, table, answers)
           file == SingleSwap(made, first = 1)
           part(seat) == [name |-> table[seat].name, deck |-> ReplayDeck(table[seat].deck)]
<1>1. Roles(FALSE) = {"host", "client"} /\ Owner(FALSE)["host"] = 0 /\ Owner(FALSE)["client"] = 1
  BY DEF Roles, Owner
<1>2. /\ made.datas = answers
      /\ made.parts["host"] = part(0) /\ made.parts["client"] = part(1)
      /\ DOMAIN made.parts = {"host", "client"} /\ DOMAIN made = {"tag", "parts", "datas"}
  BY <1>1 DEF CreateReplay
<1> HIDE DEF made, part
<1>3. /\ file.datas = answers
      /\ file.parts["host"] = part(first) /\ file.parts["client"] = part(1 - first)
  <2>1. CASE first = 1
    <3>1. file = [made EXCEPT !.parts["host"] = made.parts["client"],
                              !.parts["client"] = made.parts["host"]]
      BY <2>1 DEF SingleSwap, Exchanged
    <3>2. file.datas = made.datas
      BY <1>2, <3>1
    <3>3. /\ file.parts["host"] = made.parts["client"]
          /\ file.parts["client"] = made.parts["host"]
      BY <1>2, <3>1
    <3> QED
      BY <1>2, <2>1, <3>2, <3>3
  <2>2. CASE first = 0
    <3>1. file = made
      BY <2>2 DEF SingleSwap
    <3> QED
      BY <1>2, <2>2, <3>1
  <2> QED
    BY <2>1, <2>2
<1> HIDE DEF file
<1>4. \A seat \in {0, 1} : /\ part(seat).name = table[seat].name
                           /\ ReplayDeck(part(seat).deck) = table[seat].deck
  BY TurnedDeck DEF part, Laid
<1> DEFINE cf == Counterfeit(file)
<1>5. /\ cf[0].name = table[first].name /\ cf[0].deck = table[first].deck
      /\ cf[1].name = table[1 - first].name /\ cf[1].deck = table[1 - first].deck
  <2>1. /\ cf[0] = [name |-> file.parts["host"].name, deck |-> ReplayDeck(file.parts["host"].deck)]
        /\ cf[1] = [name |-> file.parts["client"].name, deck |-> ReplayDeck(file.parts["client"].deck)]
    BY DEF Counterfeit
  <2>2. 1 - first \in {0, 1}
    OBVIOUS
  <2> HIDE DEF cf
  <2> QED
    BY <1>3, <1>4, <2>1, <2>2
<1> HIDE DEF cf
<1>6. DealtTo(p, cf, 0) = DealtTo(p, table, first)
  <2>1. CASE p = 0
    <3>1. DealtTo(p, cf, 0) = [name |-> cf[0].name, main |-> Reverse(cf[0].deck.main),
                               extra |-> Reverse(cf[0].deck.extra)]
      BY <2>1 DEF DealtTo
    <3>2. DealtTo(p, table, first)
            = [name |-> table[first].name, main |-> Reverse(table[first].deck.main),
               extra |-> Reverse(table[first].deck.extra)]
      BY <2>1 DEF DealtTo
    <3> QED
      BY <1>5, <3>1, <3>2
  <2>2. CASE p = 1
    <3>1. DealtTo(p, cf, 0) = [name |-> cf[1].name, main |-> Reverse(cf[1].deck.main),
                               extra |-> Reverse(cf[1].deck.extra)]
      BY <2>2 DEF DealtTo
    <3>2. DealtTo(p, table, first)
            = [name |-> table[1 - first].name, main |-> Reverse(table[1 - first].deck.main),
               extra |-> Reverse(table[1 - first].deck.extra)]
      BY <2>2 DEF DealtTo
    <3> QED
      BY <1>5, <3>1, <3>2
  <2> QED
    BY <2>1, <2>2
<1> QED
  BY <1>3, <1>6 DEF cf, file, made, Filed

\* The table of the instance.
LEMMA TableDecks == \A seat \in 0..3 : Table[seat].deck \in Piles(Nat)
<1> SUFFICES ASSUME NEW seat \in 0..3 PROVE Table[seat].deck \in Piles(Nat)
  OBVIOUS
<1>1. /\ Table[seat].deck.main = <<10 * seat + 1, 10 * seat + 2, 10 * seat + 3>>
      /\ Table[seat].deck.extra = [i \in 1..seat |-> 10 * seat + 5 + i]
      /\ Table[seat].deck = [main |-> Table[seat].deck.main, extra |-> Table[seat].deck.extra]
  BY DEF Table
<1>2. <<10 * seat + 1, 10 * seat + 2, 10 * seat + 3>> \in Seq(Nat)
  OBVIOUS
<1>3. [i \in 1..seat |-> 10 * seat + 5 + i] \in Seq(Nat)
  OBVIOUS
<1> QED
  BY <1>1, <1>2, <1>3 DEF Piles

\* Files of both modes with each of the answers of the instance.
LEMMA SizesAgree ==
  ASSUME NEW tag \in BOOLEAN
  PROVE  SizeAgrees[tag]
<1> SUFFICES ASSUME NEW r \in UNION {Samples(q) : q \in Questions}
             PROVE  LET file == CreateReplay(tag, Table, <<Answer("KeepCardOrder", <<>>), r, r>>)
                    IN  FillDataSize(file) = Written(file)
  BY DEF SizeAgrees
<1>1. PICK q \in Questions : r \in Samples(q)
  OBVIOUS
<1>2. r \in Answers
  BY <1>1, SamplesMeant, MeantIsWritten
<1>3. Answer("KeepCardOrder", <<>>) \in Answers
  BY DEF Answers, Written1
<1>4. <<Answer("KeepCardOrder", <<>>), r, r>> \in Seq(Answers)
  BY <1>2, <1>3
<1> QED
  BY <1>4, TableDecks, SizeIsThatWritten

-----------------------------------------------------------------------------
(* The first attacker the file is made for is the one the engine was given. *)

\* The engine that runs was told who attacks first, and so was the one that is about to run;
\* nobody else is chosen before the next duel.
AttackerTold ==
  /\ core.started => first_attack_player # None /\ core.first = first_attack_player
  /\ Waiting("DuelStart") > 0 /\ first_attack_player # None => core.first = first_attack_player

\* A step that tells the engine nothing and starts nothing.
LEMMA AttackerStays ==
  ASSUME TypeOK, TypeOK', AttackerTold, first_attack_player' = first_attack_player,
         core'.first = core.first, core'.started => core.started,
         Waiting("DuelStart")' <= Waiting("DuelStart")
  PROVE  AttackerTold'
<1>1. Waiting("DuelStart") \in Nat /\ Waiting("DuelStart")' \in Nat
  BY WaitingTypedAll
<1>2. Waiting("DuelStart")' > 0 => Waiting("DuelStart") > 0
  BY <1>1
<1> QED
  BY <1>2 DEF AttackerTold

\* What is handled, and what is queued behind the rest.
LEMMA NoMoreStarts ==
  ASSUME TypeOK, TypeOK', queue # <<>>,
         Done(<<>>) \/ \E r \in Requests : r.type # "DuelStart" /\ Done(<<r>>)
  PROVE  Waiting("DuelStart")' <= Waiting("DuelStart")
<1>n. Waiting("DuelStart") \in Nat /\ Waiting("DuelStart")' \in Nat /\ Gone("DuelStart") \in 0..1
  BY WaitingTypedAll DEF Gone
<1>1. CASE Done(<<>>)
  <2>1. Waiting("DuelStart")' = Waiting("DuelStart") - Gone("DuelStart")
    BY <1>1, AfterNone
  <2> QED
    BY <1>n, <2>1
<1>2. ASSUME NEW r \in Requests, r.type # "DuelStart", Done(<<r>>)
      PROVE  Waiting("DuelStart")' <= Waiting("DuelStart")
  <2>1. Waiting("DuelStart")' = Waiting("DuelStart") - Gone("DuelStart") + Adds(r, "DuelStart")
    BY <1>2, AfterOne
  <2>2. Adds(r, "DuelStart") = 0
    BY <1>2 DEF Adds
  <2> QED
    BY <1>n, <2>1, <2>2
<1> QED
  BY <1>1, <1>2

\* A turn is chosen when no engine runs and none is about to.
LEMMA TpAttacker ==
  ASSUME TypeOK, TypeOK', Talking, Tables, OnTpResult
  PROVE  AttackerTold'
<1>1. /\ stage = "Firstgo" /\ queue # <<>> /\ Request.type = "TpResult"
      /\ \A type \in Runs : Waiting(type) = 0
  BY TpDue
<1>2. Done(<<Ex("FirstShuffle"), Ex("DuelInit")>>) /\ core' = core
  BY DEF OnTpResult
<1>3. ~core.started
  <2>1. NobodyLoaded
    BY <1>1 DEF Tables, Runs
  <2>2. ~BothLoaded
    BY <2>1 DEF NobodyLoaded, BothLoaded, Seats
  <2> QED
    BY <2>2 DEF Tables
<1>4. Ex("FirstShuffle") \in Requests /\ Ex("DuelInit") \in Requests
  BY RequestsTyped DEF ExTypes
<1>5. Waiting("DuelStart")' = Waiting("DuelStart") - Gone("DuelStart")
                              + Adds(Ex("FirstShuffle"), "DuelStart") + Adds(Ex("DuelInit"), "DuelStart")
  BY <1>1, <1>2, <1>4, AfterTwo
<1>6. Gone("DuelStart") = 0 /\ Adds(Ex("FirstShuffle"), "DuelStart") = 0 /\ Adds(Ex("DuelInit"), "DuelStart") = 0
      /\ Waiting("DuelStart") = 0
  BY <1>1 DEF Gone, Adds, Ex, Runs
<1>7. Waiting("DuelStart")' = 0
  BY <1>5, <1>6
<1> QED
  BY <1>2, <1>3, <1>7 DEF AttackerTold

\* The engine is told who attacks first; it does not run yet.
LEMMA InitAttacker ==
  ASSUME TypeOK, TypeOK', Talking, OnDuelInit
  PROVE  AttackerTold'
<1>1. /\ queue # <<>> /\ Request.type = "DuelInit"
      /\ core' = [core EXCEPT !.loaded = Loaded, !.first = FirstAttacker]
      /\ first_attack_player' = first_attack_player
  BY DEF OnDuelInit, Receive
<1>2. core \in CoreRecords
  BY TypeFolded DEF Typed
<1>3. core'.first = FirstAttacker /\ core'.started = core.started
  BY <1>1, <1>2 DEF CoreRecords
<1>4. ~core.started
  <2>1. Waiting("DuelInit") \in Nat /\ Gone("DuelInit") <= Waiting("DuelInit") /\ Gone("DuelInit") = 1
    BY <1>1, WaitingTypedAll, WaitingHead DEF Gone
  <2>2. core.started => Waiting("DuelInit") = 0
    BY DEF Talking, OneRun
  <2> QED
    BY <2>1, <2>2
<1> QED
  BY <1>1, <1>3, <1>4 DEF AttackerTold, FirstAttacker

\* The engine starts with the first attacker it was told.
LEMMA StartAttacker ==
  ASSUME TypeOK, TypeOK', AttackerTold, OnDuelStart
  PROVE  AttackerTold'
<1>1. /\ queue # <<>> /\ Request.type = "DuelStart" /\ Done(<<Ex("Evolve")>>) /\ first_attack_player # None
      /\ core' = [core EXCEPT !.started = ~core.ended] /\ first_attack_player' = first_attack_player
  BY DEF OnDuelStart, Receive
<1>2. core \in CoreRecords
  BY TypeFolded DEF Typed
<1>3. core'.first = core.first
  BY <1>1, <1>2 DEF CoreRecords
<1>4. Waiting("DuelStart") > 0
  <2>1. Waiting("DuelStart") \in Nat /\ Gone("DuelStart") <= Waiting("DuelStart") /\ Gone("DuelStart") = 1
    BY <1>1, WaitingTypedAll, WaitingHead DEF Gone
  <2> QED
    BY <2>1
<1>5. core.first = first_attack_player
  BY <1>1, <1>4 DEF AttackerTold
<1> QED
  BY <1>1, <1>3, <1>5 DEF AttackerTold

\* The next duel has nobody who attacks first, and an engine that does not run.
LEMMA NewAttacker ==
  ASSUME OnRecreateDuel
  PROVE  AttackerTold'
<1>1. first_attack_player' = None /\ core' = NewCore
  BY DEF OnRecreateDuel
<1>2. ~core'.started
  BY <1>1 DEF NewCore
<1> QED
  BY <1>1, <1>2 DEF AttackerTold

\* Everything else a running room does tells the engine nothing.
LEMMA AttackerKept ==
  ASSUME TypeOK, TypeOK', Named, Talking, Tables, AttackerTold, Next, running'
  PROVE  AttackerTold'
<1>c. core \in CoreRecords
  BY TypeFolded DEF Typed
<1>1. CASE OnTpResult \/ OnDuelInit
  BY <1>1, TpAttacker, InitAttacker
<1>2. CASE OnDuelStart \/ OnRecreateDuel
  BY <1>2, StartAttacker, NewAttacker
<1>3. CASE OnDuelStartPanics \/ OnTerminate
  BY <1>3 DEF OnDuelStartPanics, OnTerminate, Break
<1>4. CASE TimerTicks \/ StrangerJoins \/ \E s \in Seats : Client(s)
  <2>1. Posted /\ UNCHANGED duel
    BY <1>4, OutsidePasses
  <2>2. "DuelStart" \notin Outer
    BY DEF Outer, CtosTypes
  <2>3. Waiting("DuelStart")' = Waiting("DuelStart")
    BY <2>1, <2>2 DEF Posted
  <2>4. UNCHANGED <<first_attack_player, core>>
    BY <2>1 DEF duel
  <2> QED
    BY <2>3, <2>4 DEF AttackerTold
<1>5. ASSUME queue # <<>>, first_attack_player' = first_attack_player,
             core'.first = core.first, core'.started = core.started,
             Done(<<>>) \/ \E r \in Requests : r.type # "DuelStart" /\ Done(<<r>>)
      PROVE  AttackerTold'
  <2>1. Waiting("DuelStart")' <= Waiting("DuelStart")
    BY <1>5, NoMoreStarts
  <2> QED
    BY <1>5, <2>1, AttackerStays
<1>x. \A type \in ExTypes : Ex(type) \in Requests /\ Ex(type).type = type
  BY RequestsTyped DEF Ex
<1>y. \A w \in Seats \cup {None} : DuelEnd(w) \in Requests /\ DuelEnd(w).type # "DuelStart"
  BY RequestsTyped DEF DuelEnd
<1>z. {"terminate", "MatchEnd", "RecreateDuel", "Evolve"} \subseteq ExTypes
  BY DEF ExTypes
<1>6. CASE \/ Refused \/ OnFirstShuffle \/ OnEvolveEnded \/ OnGenerateReplay \/ OnJudgeContinueMatch
           \/ OnMatchEnd \/ OnTimerTick
  <2>1. queue # <<>> /\ UNCHANGED <<first_attack_player, core>>
    BY <1>6 DEF Refused, OnFirstShuffle, OnEvolveEnded, OnGenerateReplay, OnJudgeContinueMatch, OnMatchEnd,
                OnTimerTick, Receive, Ignored, Chain, duel
  <2>2. Done(<<>>) \/ \E r \in Requests : r.type # "DuelStart" /\ Done(<<r>>)
    <3>1. CASE Refused \/ OnFirstShuffle \/ OnEvolveEnded \/ OnGenerateReplay
      BY <3>1 DEF Refused, OnFirstShuffle, OnEvolveEnded, OnGenerateReplay, Ignored, Chain
    <3>2. CASE OnJudgeContinueMatch \/ OnMatchEnd
      <4>1. Done(<<Ex("MatchEnd")>>) \/ Done(<<Ex("RecreateDuel")>>) \/ Done(<<Ex("terminate")>>) \/ Done(<<>>)
        BY <3>2 DEF OnJudgeContinueMatch, OnMatchEnd, Chain
      <4> QED
        BY <1>x, <1>z, <4>1
    <3>3. CASE OnTimerTick
      <4>1. Done(<<>>) \/ \E s \in Seats : Done(<<[type |-> "Timeout", player |-> s]>>)
        BY <3>3 DEF OnTimerTick, Ignored, Chain, TypeOK
      <4>2. \A s \in Seats : [type |-> "Timeout", player |-> s] \in Requests
        BY RequestsTyped
      <4> QED
        BY <4>1, <4>2
    <3> QED
      BY <1>6, <3>1, <3>2, <3>3
  <2> QED
    BY <1>5, <2>1, <2>2
<1>7. CASE OnEvolveSelect \/ OnEvolveRetry \/ OnEvolveWin
  <2>1. queue # <<>> /\ first_attack_player' = first_attack_player
    BY <1>7 DEF OnEvolveSelect, OnEvolveRetry, OnEvolveWin, Evolving, Receive
  <2>2. core'.first = core.first /\ core'.started = core.started
    BY <1>c, <1>7 DEF OnEvolveSelect, OnEvolveRetry, OnEvolveWin, CoreRecords
  <2>3. Done(<<>>) \/ \E w \in Seats \cup {None} : Done(<<DuelEnd(w)>>)
    BY <1>7 DEF OnEvolveSelect, OnEvolveRetry, OnEvolveWin
  <2> QED
    BY <1>5, <1>y, <2>1, <2>2, <2>3
<1>8. CASE OnResponse \/ OnTimeConfirm
  <2>1. queue # <<>> /\ first_attack_player' = first_attack_player
    BY <1>8 DEF OnResponse, OnTimeConfirm, ReceiveFrom, Receive, Ignored, Chain, duel
  <2>2. core'.first = core.first /\ core'.started = core.started
    BY <1>c, <1>8 DEF OnResponse, OnTimeConfirm, Ignored, Chain, duel, CoreRecords
  <2>3. Done(<<>>) \/ Done(<<Ex("Evolve")>>)
    BY <1>8 DEF OnResponse, OnTimeConfirm, Ignored, Chain
  <2> QED
    BY <1>5, <1>x, <1>z, <2>1, <2>2, <2>3
<1>9. CASE OnSurrender \/ OnTimeout \/ OnLeaveGame
  <2>1. queue # <<>> /\ UNCHANGED <<first_attack_player, core>>
    BY <1>9 DEF OnSurrender, OnTimeout, OnLeaveGame, ReceiveFrom, Receive, Ignored, Chain, Break, duel
  <2>2. Done(<<>>) \/ \E w \in Seats \cup {None} : Done(<<DuelEnd(w)>>)
    <3>1. CASE OnSurrender
      <4>1. Request.type \in CtosTypes
        BY <3>1 DEF OnSurrender, ReceiveFrom, Receive, CtosTypes
      <4>2. Request.from \in Seats
        BY <2>1, <4>1, RequestTyped, RequestFields
      <4>3. ToCore(Other(Request.from)) \in Seats
        BY <4>2, SeatsTyped
      <4> QED
        BY <3>1, <4>3 DEF OnSurrender, Ignored, Chain
    <3>2. CASE OnTimeout
      <4>1. Request.type = "Timeout"
        BY <3>2 DEF OnTimeout, Receive
      <4>2. Request.player \in Seats
        BY <2>1, <4>1, RequestTyped, RequestFields
      <4>3. ToCore(Other(Request.player)) \in Seats
        BY <4>2, SeatsTyped
      <4> QED
        BY <3>2, <4>3 DEF OnTimeout
    <3>3. CASE OnLeaveGame
      <4>1. Request.type \in CtosTypes
        BY <3>3 DEF OnLeaveGame, ReceiveFrom, Receive, CtosTypes
      <4>2. Request.from \in Seats
        BY <2>1, <4>1, RequestTyped, RequestFields
      <4>3. ToCore(Other(Request.from)) \in Seats
        BY <4>2, SeatsTyped
      <4>4. Done(<<>>) \/ Done(<<DuelEnd(ToCore(Other(Request.from)))>>)
        BY <3>3 DEF OnLeaveGame, Break
      <4> QED
        BY <4>3, <4>4
    <3> QED
      BY <1>9, <3>1, <3>2, <3>3
  <2> QED
    BY <1>5, <1>y, <2>1, <2>2
<1>10. CASE OnDuelEnd
  <2>1. /\ queue # <<>> /\ first_attack_player' = first_attack_player
        /\ core' = [core EXCEPT !.ended = TRUE, !.ends = @ + 1]
        /\ Done(<<Ex("GenerateReplay"), Ex("JudgeContinueMatch")>>)
    BY <1>10 DEF OnDuelEnd, Receive
  <2>2. core'.first = core.first /\ core'.started = core.started
    BY <1>c, <2>1 DEF CoreRecords
  <2>3. Ex("GenerateReplay") \in Requests /\ Ex("JudgeContinueMatch") \in Requests
    BY RequestsTyped DEF ExTypes
  <2>4. Waiting("DuelStart")' = Waiting("DuelStart") - Gone("DuelStart")
                                + Adds(Ex("GenerateReplay"), "DuelStart") + Adds(Ex("JudgeContinueMatch"), "DuelStart")
    BY <2>1, <2>3, AfterTwo
  <2>5. Adds(Ex("GenerateReplay"), "DuelStart") = 0 /\ Adds(Ex("JudgeContinueMatch"), "DuelStart") = 0
        /\ Gone("DuelStart") \in 0..1 /\ Waiting("DuelStart") \in Nat
    BY WaitingTypedAll DEF Gone, Adds, Ex
  <2>6. Waiting("DuelStart")' <= Waiting("DuelStart")
    BY <2>4, <2>5
  <2> QED
    BY <2>1, <2>2, <2>6, AttackerStays
<1>11. CASE OnHandResult \/ OnUpdateDeck \/ OnJoinGame
  <2>1. queue # <<>> /\ UNCHANGED <<first_attack_player, core>> /\ Done(<<>>)
    BY <1>11 DEF OnHandResult, OnUpdateDeck, OnJoinGame, ReceiveFrom, Receive, Ignored, Chain, duel
  <2> QED
    BY <1>5, <2>1
<1> QED
  BY <1>1, <1>2, <1>3, <1>4, <1>6, <1>7, <1>8, <1>9, <1>10, <1>11 DEF Next, Actor

AttackerWhileRunning == running => AttackerTold

\* Every engine that runs was told the first attacker who is known now.
LEMMA AttackerAlwaysTold == Spec => [](TypeOK /\ AttackerWhileRunning)
<1> DEFINE Inv == TypeOK /\ Named /\ InOrderWhileRunning /\ TablesWhileRunning /\ AttackerWhileRunning
<1>1. Init => Inv
  <2> SUFFICES ASSUME Init PROVE Inv
    OBVIOUS
  <2>1. TypeOK /\ Named /\ Talking
    BY TypeInit, InitTalks
  <2>2. queue = <<>> /\ stage = "Finger" /\ core = NewCore /\ \A s \in Seats : Present(s)
    BY DEF Init, Present
  <2>3. Waiting("DuelInit") = 0 /\ Waiting("DuelStart") = 0
    BY <2>2, CountShort DEF Waiting
  <2>4. ~core.started /\ NobodyLoaded /\ Missing = {}
    BY <2>2 DEF NewCore, NobodyLoaded, Missing
  <2> QED
    BY <2>1, <2>2, <2>3, <2>4 DEF InOrderWhileRunning, TablesWhileRunning, Tables, AttackerWhileRunning, AttackerTold
<1>2. Inv /\ [Next]_vars => Inv'
  <2> SUFFICES ASSUME Inv, [Next]_vars PROVE Inv'
    OBVIOUS
  <2>1. TypeOK' /\ Named' /\ InOrderWhileRunning'
    BY TypeKept, TalkingKept
  <2>2. CASE Next
    <3>1. Talking /\ Tables /\ AttackerTold
      BY <2>2, OnlyRunning DEF InOrderWhileRunning, TablesWhileRunning, AttackerWhileRunning
    <3>2. running' => Tables' /\ AttackerTold'
      BY <2>1, <2>2, <3>1, TablesKept, AttackerKept
    <3> QED
      BY <2>1, <3>2 DEF TablesWhileRunning, AttackerWhileRunning
  <2>3. CASE UNCHANGED vars
    <3>1. UNCHANGED <<running, queue, stage, players, core, first_attack_player>>
      BY <2>3 DEF vars, duel
    <3> QED
      BY <2>1, <3>1 DEF TablesWhileRunning, Tables, NobodyLoaded, BothLoaded, Missing, Present, Waiting, AheadOf,
                        AttackerWhileRunning, AttackerTold
  <2> QED
    BY <2>2, <2>3
<1>3. Inv => TypeOK /\ AttackerWhileRunning
  OBVIOUS
<1> HIDE DEF Inv
<1> QED
  BY <1>1, <1>2, <1>3, PTL DEF Spec

\* What the file of the instance is made from.
LEMMA FileOfThisDuel ==
  ASSUME NEW n \in Nat, NEW first \in {0, 1}
  PROVE  /\ \A p \in {0, 1} : DealtTo(p, Counterfeit(FileOf(n, first)), 0) = DealtTo(p, Table, first)
         /\ Len(FileOf(n, first).datas) = n
<1> DEFINE answers == [i \in 1..n |-> Answer("SelectYesNo", <<0>>)]
<1>1. FileOf(n, first) = Filed(Table, answers, first)
  BY DEF FileOf, Filed
<1>2. Laid(Table, Nat)
  BY TableDecks DEF Laid
<1>3. Len(answers) = n
  OBVIOUS
<1> HIDE DEF answers
<1>4. ASSUME NEW p \in {0, 1}
      PROVE  /\ DealtTo(p, Counterfeit(FileOf(n, first)), 0) = DealtTo(p, Table, first)
             /\ FileOf(n, first).datas = answers
  BY <1>1, <1>2, ReplayDealsTheSame
<1> QED
  BY <1>3, <1>4

\* Whenever the file of a duel that was played is made, it plays that duel, with an answer
\* for each the engine took and the one it still has; and no file announces a size that is
\* not its own.  The first attacker is looked up again when the file is made: after the end
\* of the duel, but before the next one forgets him.
THEOREM ReplayAlwaysPlaysAgain == Spec => []ReplayPlaysAgain
<1>1. TypeOK /\ AttackerWhileRunning /\ AcceptedOnce => ReplayPlaysAgain
  <2> SUFFICES ASSUME TypeOK, AttackerWhileRunning, AcceptedOnce PROVE ReplayIsOfThisDuel /\ SizeIsExact
    BY DEF ReplayPlaysAgain
  <2>1. SizeIsExact
    BY SizesAgree DEF SizeIsExact
  <2>2. ASSUME running, core.started
        PROVE  /\ \A p \in Seats : DealtTo(p, Counterfeit(FileOf(client_responses, first_attack_player)), 0)
                                     = DealtTo(p, Table, core.first)
               /\ Len(FileOf(client_responses, first_attack_player).datas)
                    = core.accepted + (IF core.input THEN 1 ELSE 0)
    <3>1. first_attack_player # None /\ core.first = first_attack_player
      BY <2>2 DEF AttackerWhileRunning, AttackerTold
    <3>2. first_attack_player \in {0, 1} /\ client_responses \in Nat
      BY <3>1 DEF TypeOK, Seats
    <3>3. client_responses = core.accepted + (IF core.input THEN 1 ELSE 0)
      BY DEF AcceptedOnce, ReplayExact
    <3>4. /\ \A p \in {0, 1} : DealtTo(p, Counterfeit(FileOf(client_responses, first_attack_player)), 0)
                                 = DealtTo(p, Table, first_attack_player)
          /\ Len(FileOf(client_responses, first_attack_player).datas) = client_responses
      BY <3>2, FileOfThisDuel
    <3>5. Seats = {0, 1}
      BY DEF Seats
    <3> QED
      BY <3>1, <3>3, <3>4, <3>5
  <2>3. ReplayIsOfThisDuel
    BY <2>2 DEF ReplayIsOfThisDuel, Receive
  <2> QED
    BY <2>1, <2>3
<1>2. Spec => []AcceptedOnce
  BY AnswersAcceptedOnce
<1> QED
  BY <1>1, <1>2, AttackerAlwaysTold, PTL

-----------------------------------------------------------------------------
(* The winner that is recorded is the one the engine has in mind.           *)

\* A duel is put down to somebody when it ends, and at no other time.
LEMMA RecordedAtTheEnd ==
  ASSUME TypeOK, Next, ~OnDuelEnd
  PROVE  duel_winner' = duel_winner
<1>1. CASE TimerTicks \/ StrangerJoins \/ \E s \in Seats : Client(s)
  BY <1>1, OutsidePasses DEF duel
<1>2. CASE \/ Refused \/ OnHandResult \/ OnTpResult \/ OnFirstShuffle \/ OnDuelInit
           \/ OnDuelStartPanics \/ OnDuelStart \/ OnEvolveEnded
  <2>1. CASE OnHandResult
    <3>1. UNCHANGED <<host_player, first_attack_player, duel_winner, last_response, client_responses, match_kill,
                      core, timers>>
      BY <2>1, Zenon DEF OnHandResult
    <3> QED
      BY <3>1
  <2>2. CASE Refused \/ OnFirstShuffle \/ OnEvolveEnded \/ OnDuelStartPanics
    BY <2>2 DEF Refused, OnFirstShuffle, OnEvolveEnded, OnDuelStartPanics, Ignored, Chain, duel
  <2>3. CASE OnTpResult \/ OnDuelInit \/ OnDuelStart
    BY <2>3 DEF OnTpResult, OnDuelInit, OnDuelStart
  <2> QED
    BY <1>2, <2>1, <2>2, <2>3
<1>3. CASE OnEvolveSelect \/ OnEvolveRetry \/ OnEvolveWin \/ OnResponse \/ OnTimeConfirm
  BY <1>3 DEF OnEvolveSelect, OnEvolveRetry, OnEvolveWin, OnResponse, OnTimeConfirm, Ignored, Chain, duel
<1>4. CASE OnSurrender \/ OnLeaveGame \/ OnTimeout \/ OnTimerTick
  BY <1>4 DEF OnSurrender, OnLeaveGame, OnTimeout, OnTimerTick, Ignored, Chain, Break, duel
<1>5. CASE \/ OnGenerateReplay \/ OnJudgeContinueMatch \/ OnMatchEnd \/ OnTerminate
           \/ OnRecreateDuel \/ OnUpdateDeck \/ OnJoinGame
  BY <1>5 DEF OnGenerateReplay, OnJudgeContinueMatch, OnMatchEnd, OnTerminate, OnRecreateDuel, OnUpdateDeck,
              OnJoinGame, Ignored, Chain, Break, duel
<1> QED
  BY <1>1, <1>2, <1>3, <1>4, <1>5 DEF Next, Actor

\* The engine's seats are those the room translates to and from, while it runs.
LEMMA SameSeats ==
  ASSUME first_attack_player \in Seats, core.first = first_attack_player
  PROVE  /\ \A p \in Seats \cup {None} : ToSeat(p) = EngineSeat(p)
         /\ \A s \in Seats : EngineSeat(ToCore(s)) = s
<1>1. FirstAttacker = first_attack_player /\ core.first \in {0, 1} /\ None \notin Seats
  BY SingleDuelAssumption DEF FirstAttacker, Seats
<1>2. ASSUME NEW p \in Seats \cup {None} PROVE ToSeat(p) = EngineSeat(p)
  BY <1>1, <1>2 DEF ToSeat, EngineSeat, Other, Seats
<1>3. ASSUME NEW s \in Seats PROVE EngineSeat(ToCore(s)) = s
  BY <1>1, <1>3 DEF ToCore, EngineSeat, Other, Seats
<1> QED
  BY <1>2, <1>3

\* Who gives up, leaves or is out of time is told from the DuelEnd that is queued for it;
\* nothing else that happens while such a request is at the head queues one in its place.
LEMMA LosersEnd ==
  ASSUME TypeOK, Next, queue # <<>>, Request.type \in {"Surrender", "LeaveGame", "Timeout"},
         NEW w \in Seats \cup {None}, queue' = Append(Tail(queue), DuelEnd(w))
  PROVE  Loser \in Seats /\ w = ToCore(Other(Loser))
<1>1. Request \in Requests /\ Tail(queue) \in Seq(Requests) /\ DuelEnd(w) \in Requests
  BY RequestTyped, RequestsTyped DEF TypeOK
<1>2. Loser \in Seats
  <2>1. Request.type = "Timeout" => Request.player \in Seats
    BY <1>1, RequestFields
  <2>2. Request.type \in {"Surrender", "LeaveGame"} => Request.from \in Seats
    BY <1>1, RequestFields DEF CtosTypes
  <2> QED
    BY <2>1, <2>2 DEF Loser
<1>3. Done(<<DuelEnd(w)>>) /\ queue' # <<>>
  BY <1>1 DEF Done
<1>4. Waiting("DuelEnd")' = Waiting("DuelEnd") + 1 /\ Waiting("DuelEnd") \in Nat
  <2>1. Waiting("DuelEnd")' = Waiting("DuelEnd") - Gone("DuelEnd") + Adds(DuelEnd(w), "DuelEnd")
    BY <1>1, <1>3, AfterOne
  <2>2. Gone("DuelEnd") = 0 /\ Adds(DuelEnd(w), "DuelEnd") = 1
    BY DEF Gone, Adds, DuelEnd
  <2> QED
    BY <2>1, <2>2, WaitingTypedAll
<1>5. ~Done(<<>>)
  <2>1. Done(<<>>) => Waiting("DuelEnd")' = Waiting("DuelEnd") - Gone("DuelEnd") /\ Gone("DuelEnd") = 0
    BY AfterNone DEF Gone
  <2> QED
    BY <1>4, <2>1
<1>6. ~(TimerTicks \/ StrangerJoins \/ \E s \in Seats : Client(s))
  <2>1. "DuelEnd" \notin Outer
    BY DEF Outer, CtosTypes
  <2>2. TimerTicks \/ StrangerJoins \/ (\E s \in Seats : Client(s)) => Waiting("DuelEnd")' = Waiting("DuelEnd")
    BY <2>1, OutsidePasses DEF Posted
  <2> QED
    BY <1>4, <2>2
<1>7. OnSurrender \/ OnLeaveGame \/ OnTimeout
  <2>1. ~Refused
    BY <1>5 DEF Refused
  <2>2. ~(OnHandResult \/ OnTpResult \/ OnFirstShuffle \/ OnDuelInit \/ OnDuelStartPanics \/ OnDuelStart
          \/ OnEvolveEnded \/ OnEvolveSelect \/ OnEvolveRetry \/ OnEvolveWin)
    <3>1. ~OnHandResult
      <4>1. OnHandResult => ReceiveFrom("HandResult")
        BY Zenon DEF OnHandResult
      <4> QED
        BY <4>1 DEF ReceiveFrom, Receive
    <3>2. ~(OnTpResult \/ OnFirstShuffle \/ OnDuelInit \/ OnDuelStartPanics \/ OnDuelStart)
      BY DEF OnTpResult, OnFirstShuffle, OnDuelInit, OnDuelStartPanics, OnDuelStart, ReceiveFrom, Receive
    <3>3. ~(OnEvolveEnded \/ OnEvolveSelect \/ OnEvolveRetry \/ OnEvolveWin)
      BY DEF OnEvolveEnded, OnEvolveSelect, OnEvolveRetry, OnEvolveWin, Evolving, Receive
    <3> QED
      BY <3>1, <3>2, <3>3
  <2>3. ~(OnResponse \/ OnTimeConfirm \/ OnDuelEnd \/ OnGenerateReplay \/ OnJudgeContinueMatch \/ OnMatchEnd
          \/ OnTerminate \/ OnRecreateDuel \/ OnUpdateDeck \/ OnJoinGame \/ OnTimerTick)
    BY DEF OnResponse, OnTimeConfirm, OnDuelEnd, OnGenerateReplay, OnJudgeContinueMatch, OnMatchEnd, OnTerminate,
           OnRecreateDuel, OnUpdateDeck, OnJoinGame, OnTimerTick, ReceiveFrom, Receive
  <2> QED
    BY <1>6, <2>1, <2>2, <2>3 DEF Next, Actor
<1>8. Done(<<DuelEnd(ToCore(Other(Loser)))>>)
  <2>1. CASE OnSurrender
    <3>1. Loser = Request.from
      BY <2>1 DEF OnSurrender, ReceiveFrom, Receive, Loser
    <3> QED
      BY <1>5, <2>1, <3>1 DEF OnSurrender, Ignored, Chain
  <2>2. CASE OnLeaveGame
    <3>1. Loser = Request.from
      BY <2>2 DEF OnLeaveGame, ReceiveFrom, Receive, Loser
    <3>2. ~Break
      BY <1>3 DEF Break
    <3> QED
      BY <1>5, <2>2, <3>1, <3>2 DEF OnLeaveGame
  <2>3. CASE OnTimeout
    <3>1. Loser = Request.player
      BY <2>3 DEF OnTimeout, Receive, Loser
    <3> QED
      BY <2>3, <3>1 DEF OnTimeout
  <2> QED
    BY <1>7, <2>1, <2>2, <2>3
<1>9. DuelEnd(ToCore(Other(Loser))) = DuelEnd(w)
  <2> DEFINE x == DuelEnd(ToCore(Other(Loser)))
  <2>1. x \in Requests
    BY <1>2, SeatsTyped, RequestsTyped
  <2>2. Append(Tail(queue), x) = Append(Tail(queue), DuelEnd(w))
    BY <1>1, <1>8, <2>1 DEF Done
  <2> HIDE DEF x
  <2>3. x = DuelEnd(w)
    BY <1>1, <2>1, <2>2
  <2> QED
    BY <2>3 DEF x
<1> QED
  BY <1>2, <1>9 DEF DuelEnd

\* The seat a duel is recorded for is the one the engine played as the core player that
\* won, however long the DuelEnd waited and whoever queued it; and the one who surrenders,
\* leaves or runs out of time has named the opponent.  The first attacker, looked up on the
\* way into the mailbox and again on the way out, is the one the engine was told.
THEOREM WinnersAlwaysTheEngines == Spec => WinnerIsTheEngines
<1>1. TypeOK /\ AttackerWhileRunning /\ [Next]_vars =>
        [core.started /\ queue # <<>> =>
           /\ duel_winner' # duel_winner =>
                Request.type = "DuelEnd"
                  /\ duel_winner' = Append(duel_winner, EngineSeat(Request.winner))
           /\ Request.type \in {"Surrender", "LeaveGame", "Timeout"} =>
                \A w \in Seats \cup {None} :
                  queue' = Append(Tail(queue), DuelEnd(w)) => EngineSeat(w) = Other(Loser)]_vars
  <2> SUFFICES ASSUME TypeOK, AttackerWhileRunning, Next, core.started, queue # <<>>
               PROVE  /\ duel_winner' # duel_winner =>
                           Request.type = "DuelEnd"
                             /\ duel_winner' = Append(duel_winner, EngineSeat(Request.winner))
                      /\ Request.type \in {"Surrender", "LeaveGame", "Timeout"} =>
                           \A w \in Seats \cup {None} :
                             queue' = Append(Tail(queue), DuelEnd(w)) => EngineSeat(w) = Other(Loser)
    OBVIOUS
  <2>1. first_attack_player \in Seats /\ core.first = first_attack_player
    BY OnlyRunning DEF AttackerWhileRunning, AttackerTold, TypeOK
  <2>2. ASSUME duel_winner' # duel_winner
        PROVE  Request.type = "DuelEnd" /\ duel_winner' = Append(duel_winner, EngineSeat(Request.winner))
    <3>1. OnDuelEnd
      BY <2>2, RecordedAtTheEnd
    <3>2. Request.type = "DuelEnd" /\ duel_winner' = Append(duel_winner, ToSeat(Request.winner))
      BY <3>1 DEF OnDuelEnd, Receive
    <3>3. Request.winner \in Seats \cup {None}
      BY <3>2, RequestTyped, RequestFields
    <3> QED
      BY <2>1, <3>2, <3>3, SameSeats
  <2>3. ASSUME Request.type \in {"Surrender", "LeaveGame", "Timeout"}, NEW w \in Seats \cup {None},
               queue' = Append(Tail(queue), DuelEnd(w))
        PROVE  EngineSeat(w) = Other(Loser)
    <3>1. Loser \in Seats /\ w = ToCore(Other(Loser))
      BY <2>3, LosersEnd
    <3>2. Other(Loser) \in Seats
      BY <3>1 DEF Other, Seats
    <3> QED
      BY <2>1, <3>1, <3>2, SameSeats
  <2> QED
    BY <2>2, <2>3
<1> QED
  BY <1>1, AttackerAlwaysTold, PTL DEF Spec, WinnerIsTheEngines
=============================================================================
